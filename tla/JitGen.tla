-------------------------------- MODULE JitGen --------------------------------
(***************************************************************************)
(* Code generation (compile_expr and what it calls, jit.rs).  The code of  *)
(* an expression is a tree of instructions: what it does (`c'), the IR     *)
(* type of its result ("f64", "i8", "i64", or "void"), what is fixed when  *)
(* it is compiled (`x'), and the code of its operands.  A program may be   *)
(* refused for a reason; a mismatch of IR types is one, whether the JIT    *)
(* looks for it or Cranelift's verifier does.                              *)
(*                                                                         *)
(* Of the modules of the root scope only List is used.                     *)
(***************************************************************************)
EXTENDS JitInstances

VARIABLES
  code,         (* FuncKey -> the code of the body                         *)
  main          (* the code of __spctr_main, or why there is none          *)

genVars == <<code, main>>

Code(c, ty, x, kids) == [c |-> c, ty |-> ty, x |-> x, kids |-> kids]
Refused(why)   == Code("none", "none", why, <<>>)
IsRefused(k)   == k.c = "none"
NoCode         == Refused("not compiled")

(* An instruction, unless an operand is refused or its result has no IR    *)
(* type; an operand that must have an IR type.                             *)
Node(c, ty, x, kids) ==
  LET bad == SelectSeq(kids, IsRefused)
  IN  CASE bad # <<>>                -> Head(bad)
        [] bad = <<>> /\ ty = "none" -> Refused("type")
        [] OTHER                     -> Code(c, ty, x, kids)
As(k, ty) == IF IsRefused(k) \/ k.ty = ty THEN k ELSE Refused("type")

AllAs(ks, tys) ==
  IF Len(ks) = Len(tys) THEN [i \in DOMAIN ks |-> As(ks[i], tys[i])]
  ELSE <<Refused("arity")>>
IrTypes(tys) == [i \in DOMAIN tys |-> IrType(tys[i])]

-----------------------------------------------------------------------------
(* CompileEnv: the parameters and captures of the innermost function, its  *)
(* depth_to_top_level (0 in main), the block frames entered since, the     *)
(* innermost last, and the substitution.  `listing': the expression is in  *)
(* a list literal, where alloc_id is that of the list (jit.rs:2112).       *)
MainEnv == [params |-> <<>>, captures |-> <<>>, depth |-> 0, frames |-> <<>>,
            sub |-> <<>>, listing |-> FALSE]
(* Seeded fault: the substitution is left out.                             *)
GenericEnv(key) ==
  [MainEnv EXCEPT !.params = IrTypes(key[2].args), !.captures = funcs[key].captures,
                  !.depth = funcs[key].nesting + 1]

FunctionEnv(key) ==
  [MainEnv EXCEPT !.params = IrTypes(key[2].args), !.captures = funcs[key].captures,
                  !.depth = funcs[key].nesting + 1, !.sub = funcs[key].sub]

TypeAt(path, ce) == At(path, ce.sub)
DistanceToRoot(ce) == Len(ce.frames) + ce.depth + 1

(* A frame: the IR types of its slots, and those populated so far.         *)
EnterFrame(ce, tys) == [ce EXCEPT !.frames = Append(@, [tys |-> tys, populated |-> {}])]
Populated(ce, slots) ==
  [ce EXCEPT !.frames[Len(ce.frames)].populated = @ \cup slots]

-----------------------------------------------------------------------------
(* load_variable, for a variable that is seen at the type ty: a slot of a  *)
(* block frame; in main, a top-level instance; in a function, a parameter  *)
(* or a capture.                                                           *)
(* Seeded fault: the frames are counted from the outermost.                *)
InOuterFrame(d, slot, frames) ==
  IF slot \in frames[d + 1].populated
  THEN Code("cell", frames[d + 1].tys[slot], [frame |-> d + 1, slot |-> slot], <<>>)
  ELSE Refused("forward")

InFrame(d, slot, frames) ==
  LET f == Len(frames) - d
  IN  IF slot \in frames[f].populated
      THEN Code("cell", frames[f].tys[slot], [frame |-> f, slot |-> slot], <<>>)
      ELSE Refused("forward")

InMain(d, slot, ty) ==
  LET i == SelectInSeq(instances, LAMBDA inst : inst = <<slot, ty>>)
  IN  CASE d # 0 -> Refused("root")
        [] d = 0 /\ i = 0 -> Refused("instance")
        [] OTHER -> Code("top", IrType(ty), i, <<>>)

InFunction(d, slot, ce) ==
  LET i == SelectInSeq(ce.captures, LAMBDA c : c.depth = d /\ c.slot = slot)
  IN  CASE d = 0 /\ slot \in DOMAIN ce.params -> Code("param", ce.params[slot], slot, <<>>)
        [] d # 0 /\ i # 0 -> Code("capture", IrType(ce.captures[i].ty), i, <<>>)
        [] OTHER -> Refused("capture")

LoadVariable(d, slot, ty, ce) ==
  LET n == Len(ce.frames)
  IN  CASE d < n -> InFrame(d, slot, ce.frames)
        [] d >= n /\ ce.depth = 0 -> InMain(d - n, slot, ty)
        [] d >= n /\ ce.depth > 0 -> InFunction(d - n, slot, ce)

(* materialize_closure_partial: a closure with the captures that are not   *)
(* deferred.  In a list literal the wrong function is called to allocate   *)
(* it, which the verifier refuses.                                         *)
Deferred(key, defer) ==
  {i \in DOMAIN funcs[key].captures : defer /\ funcs[key].captures[i].depth = 1}
LoadCapture(c, ce) == As(LoadVariable(c.depth - 1, c.slot, c.ty, ce), IrType(c.ty))

Materialize(key, defer, ce) ==
  LET caps == funcs[key].captures
      now  == SetToSortSeq(DOMAIN caps \ Deferred(key, defer), <)
  IN  Node("closure", "i64", [key |-> key, fills |-> now],
           [j \in DOMAIN now |-> LoadCapture(caps[now[j]], ce)])
Closure(path, ce, defer) ==
  LET key == <<path, TypeAt(path, ce)>>
  IN  CASE key \notin DOMAIN funcs -> Refused("literal")
        [] key \in DOMAIN funcs /\ ce.listing -> Refused("allocator")
        [] OTHER -> Materialize(key, defer, ce)

-----------------------------------------------------------------------------
(* Blocks (compile_block_bindings).  b is how far the bindings are: the    *)
(* steps emitted, the captures deferred, and the environment.              *)
RECURSIVE SiblingRefs(_, _)
SiblingRefs(x, d) ==
  LET kids == Children(x) \o
              (IF x.op = "Interpolation" THEN [i \in DOMAIN x.kids |-> Child(i, x.kids[i])]
               ELSE <<>>)
  IN  (IF x.op = "Variable" /\ x.depth = d THEN {x.slot} ELSE {})
      \cup UNION {SiblingRefs(kids[i].x, d + IF IsScope(x) THEN 1 ELSE 0) : i \in DOMAIN kids}

LiteralSlots(defs) == {i \in DOMAIN defs : defs[i].op = "Function"}
Emit(b, steps) == [b EXCEPT !.steps = @ \o steps]
Put(slot, k)   == Node("put", "void", slot, <<k>>)

(* Phase 1 for the function literal at slot i.                             *)
DeferredOf(i, path, ce) ==
  LET key  == <<Append(path, i), TypeAt(Append(path, i), ce)>>
      cells == IF key \in DOMAIN funcs THEN SetToSortSeq(Deferred(key, TRUE), <) ELSE <<>>
  IN  [j \in DOMAIN cells |->
         [fn |-> i, cell |-> cells[j], capture |-> funcs[key].captures[cells[j]]]]
Allocated(defs, path, ce) ==
  LET fns == SetToSortSeq(LiteralSlots(defs), <)
  IN  [steps   |-> [j \in DOMAIN fns |-> Put(fns[j], Closure(Append(path, fns[j]), ce, TRUE))],
       pending |-> FlattenSeq([j \in DOMAIN fns |-> DeferredOf(fns[j], path, ce)]),
       ce      |-> Populated(ce, LiteralSlots(defs))]

(* populate_caps_until_stable: filling a capture populates no slot, so one *)
(* round is all of them.                                                   *)
Ready(p, ce) == p.capture.slot \in Last(ce.frames).populated
Fill(p, ce) ==
  Node("fill", "void", [fn |-> p.fn, cell |-> p.cell], <<LoadCapture(p.capture, ce)>>)

(* Seeded fault: what is ready is only taken off the list.                 *)
PopulateNothing(b) ==
  [b EXCEPT !.pending = SelectSeq(@, LAMBDA p : ~Ready(p, b.ce))]

PopulateCaps(b) ==
  LET ready == SelectSeq(b.pending, LAMBDA p : Ready(p, b.ce))
  IN  [Emit(b, [i \in DOMAIN ready |-> Fill(ready[i], b.ce)])
         EXCEPT !.pending = SelectSeq(@, LAMBDA p : ~Ready(p, b.ce))]

(* Phase 2 for a value: none of the functions it names may have a pending  *)
(* capture.                                                                *)
Stuck(x, b) == \E p \in Range(b.pending) : p.fn \in SiblingRefs(x, 0)
PutValue(i, k, b) ==
  PopulateCaps([Emit(b, <<Put(i, As(k, Last(b.ce.frames).tys[i]))>>)
                  EXCEPT !.ce = Populated(@, {i})])

(* Phase 3.                                                                *)
Finished(b) == IF b.pending = <<>> THEN b ELSE Emit(b, <<Refused("cycle")>>)

-----------------------------------------------------------------------------
(* What a value of a static type can be used for (stringify_value,         *)
(* emit_value_eq, emit_display).                                           *)
RECURSIVE CanCompare(_), CanDisplay(_)
CanCompare(ty) ==
  CASE ty.t \in Basic \cup {"record", "fn"} -> TRUE
    [] ty.t = "list" -> Representable(ty.elem) /\ CanCompare(ty.elem)
    [] OTHER         -> FALSE
CanDisplay(ty) ==
  CASE ty.t \in Basic \cup {"fn"} -> TRUE
    [] ty.t = "list"   -> CanDisplay(ty.elem)
    [] ty.t = "record" -> \A i \in DOMAIN ty.tys : CanDisplay(ty.tys[i])
    [] OTHER           -> FALSE

Stringify(k, ty) ==
  IF ty.t \in Basic THEN Node("text", "i64", ty, <<As(k, IrType(ty))>>)
  ELSE Refused("interpolation")

Equality(o, l, r, ty) ==
  IF CanCompare(ty) THEN Node("equal", "i8", [o |-> o, ty |-> ty], <<l, As(r, l.ty)>>)
  ELSE Refused("comparison")
Arithmetic(o, l, r) ==
  Node("arith", IF o \in {"Add", "Sub", "Mul"} THEN "f64" ELSE "i8", o,
       <<As(l, "f64"), As(r, "f64")>>)

(* The slot of a field is where the static type has its name first.        *)
LoadField(k, ty, name) ==
  LET i == SelectInSeq(ty.names, LAMBDA n : n = name)
  IN  IF i = 0 THEN Refused("field")
      ELSE Node("field", IrType(ty.tys[i]), i, <<As(k, "i64")>>)
FieldAccess(k, ty, name) ==
  CASE IsRefused(k) -> k
    [] ~IsRefused(k) /\ ty.t = "record" -> LoadField(k, ty, name)
    [] OTHER -> Refused("field")

ElemType(ty) == IF ty.t = "list" THEN IrType(ty.elem) ELSE "none"

(* compile_stdlib_call: the code of the arguments and their static types.  *)
OneParameter(ty) == ty.t = "fn" /\ Len(ty.args) = 1
ListSignature(name, ks) ==
  CASE name \in {"length", "head", "tail"} -> <<"i64">>
    [] name = "range"                      -> <<"f64", "f64">>
    [] name \in {"take", "drop"}           -> <<"i64", "f64">>
    [] name \in {"concat", "map", "filter"} -> <<"i64", "i64">>
    [] name = "reduce"                     -> <<"i64", ks[2].ty, "i64">>
ListResult(name, ks, tys) ==
  CASE name = "length" -> "f64"
    [] name = "head"   -> ElemType(tys[1])
    [] name = "map"    -> IF OneParameter(tys[2]) THEN "i64" ELSE "none"
    [] name = "filter" -> IF ElemType(tys[1]) = "none" THEN "none" ELSE "i64"
    [] name = "reduce" -> IF ElemType(tys[1]) = "none" THEN "none" ELSE ks[2].ty
    [] OTHER           -> "i64"

(* What the inline loops call back with, and the result they expect.       *)
CallBack(name, ks, tys) ==
  CASE name = "map"    -> [params |-> IrTypes(tys[2].args), ret |-> IrType(tys[2].ret)]
    [] name = "filter" -> [params |-> <<ElemType(tys[1])>>, ret |-> "i8"]
    [] name = "reduce" -> [params |-> <<ks[2].ty, ElemType(tys[1])>>, ret |-> ks[2].ty]
    [] OTHER           -> [params |-> <<>>, ret |-> "none"]

ListCall(name, ks, tys) ==
  CASE name \notin Range(ListModule.names) -> Refused("stdlib")
    [] name \in Range(ListModule.names) /\ Len(ks) # Len(ListModule.schemes[SelectInSeq(
         ListModule.names, LAMBDA n : n = name)].ty.args) -> Refused("arity")
    [] OTHER -> Node(name, ListResult(name, ks, tys), CallBack(name, ks, tys),
                     AllAs(ks, ListSignature(name, ks)))

-----------------------------------------------------------------------------
(* compile_expr.                                                           *)
RECURSIVE Gen(_, _, _), BindValues(_, _, _, _)

BindValue(x, i, path, b) ==
  PutValue(i, IF Stuck(x, b) THEN Refused("pending") ELSE Gen(x, path, b.ce), b)
BindValues(defs, i, path, b) ==
  IF i > Len(defs) THEN Finished(b)
  ELSE BindValues(defs, i + 1, path,
         IF defs[i].op = "Function" THEN b ELSE BindValue(defs[i], i, Append(path, i), b))

Bindings(defs, path, ce) == BindValues(defs, 1, path, PopulateCaps(Allocated(defs, path, ce)))

Kid(x, i, path, ce)  == Gen(x.kids[i], Append(path, i), ce)
Kids(x, path, ce)    == [i \in DOMAIN x.kids |-> Kid(x, i, path, ce)]
KidTypes(x, path, ce) == [i \in DOMAIN x.kids |-> TypeAt(Append(path, i), ce)]

(* A block leaves its record; an immediate block without definitions is    *)
(* its body, and has no frame.                                             *)
GenBlock(x, path, ce, ty) ==
  IF ty.t = "record" /\ Len(ty.tys) = Len(x.defs)
  THEN Node("record", "i64", Len(x.defs),
            Bindings(x.defs, path, EnterFrame(ce, IrTypes(ty.tys))).steps)
  ELSE Refused("type")

WithBody(n, b, body) == Node("locals", body.ty, n, Append(b.steps, body))
BodyAfter(x, path, b) == WithBody(Len(x.defs), b, Gen(x.body, Append(path, 0), b.ce))
GenImmediate(x, path, ce) ==
  IF x.defs = <<>> THEN Gen(x.body, Append(path, 0), ce)
  ELSE BodyAfter(x, path,
         Bindings(x.defs, path,
           EnterFrame(ce, [i \in DOMAIN x.defs |-> IrType(TypeAt(Append(path, i), ce))])))

GenIf(x, path, ce, ty) ==
  Node("if", ty, "", <<As(Gen(x.cond, Append(path, 1), ce), "i8"),
                       As(Gen(x.cons, Append(path, 2), ce), ty),
                       As(Gen(x.alt, Append(path, 3), ce), ty)>>)
GenLogical(x, path, ce) ==
  Node(x.op, "i8", "", <<As(Gen(x.l, Append(path, 1), ce), "i8"),
                         As(Gen(x.r, Append(path, 2), ce), "i8")>>)

(* Calls.  try_compile_stdlib_call: the callee is a member of a variable   *)
(* that lies at the distance of the root scope.                            *)
IsModuleCall(callee, ce) ==
  /\ callee.op = "Access" /\ callee.kids[1].op = "Variable"
  /\ callee.kids[1].depth = DistanceToRoot(ce) /\ callee.kids[1].slot \in 1..3

(* top_level_func.                                                         *)
Declared(inst) == <<(<<inst[1]>>), inst[2]>> \in DOMAIN funcs
IsDirectCall(callee, ty, ce) ==
  /\ callee.op = "Variable" /\ callee.depth = ce.depth
  /\ <<callee.slot, ty>> \in Range(instances)
  /\ IsFunctionDef(callee.slot) /\ Declared(<<callee.slot, ty>>)

ModuleCall(callee, ks, tys) ==
  IF callee.kids[1].slot = 1 THEN ListCall(callee.name, ks, tys) ELSE Refused("stdlib")
DirectCall(slot, ty, closure, ks) ==
  Node("direct", IrType(ty.ret), <<(<<slot>>), ty>>,
       <<As(closure, "i64")>> \o AllAs(ks, IrTypes(ty.args)))
IndirectCall(ty, closure, ks) ==
  IF ty.t # "fn" THEN Refused("type")
  ELSE Node("indirect", IrType(ty.ret), IrTypes(ty.args),
            <<As(closure, "i64")>> \o AllAs(ks, IrTypes(ty.args)))

Arguments(x, path, ce) == [i \in 1..(Len(x.kids) - 1) |-> Kid(x, i + 1, path, ce)]
GenCall(x, path, ce, tys) ==
  LET callee == x.kids[1]
  IN  CASE IsModuleCall(callee, ce) ->
             ModuleCall(callee, Arguments(x, path, ce), Tail(tys))
        [] ~IsModuleCall(callee, ce) /\ IsDirectCall(callee, tys[1], ce) ->
             DirectCall(callee.slot, tys[1],
                        LoadVariable(callee.depth, callee.slot, tys[1], ce),
                        Arguments(x, path, ce))
        [] OTHER ->
             IndirectCall(tys[1], Kid(x, 1, path, ce), Arguments(x, path, ce))

GenList(x, path, ce, elem) ==
  Node("list", "i64", elem,
       [i \in DOMAIN x.kids |-> As(Kid(x, i, path, [ce EXCEPT !.listing = TRUE]), elem)])

GenUnary(o, k) ==
  IF o = "Neg" THEN Node("negate", "f64", "", <<As(k, "f64")>>)
  ELSE Node("not", "i8", "", <<As(k, "i8")>>)

GenOperation(x, ks, tys) ==
  CASE x.op = "Interpolation" ->
         Node("concat_text", "i64", "", [i \in DOMAIN ks |-> Stringify(ks[i], tys[i])])
    [] x.op = "Binary" /\ x.o \in {"Eq", "Ne"} -> Equality(x.o, ks[1], ks[2], tys[1])
    [] x.op = "Binary" /\ x.o \notin {"Eq", "Ne"} -> Arithmetic(x.o, ks[1], ks[2])
    [] x.op = "Unary"  -> GenUnary(x.o, ks[1])
    [] x.op = "Access" -> FieldAccess(ks[1], tys[1], x.name)
    [] x.op = "Index"  ->
         Node("index", ElemType(tys[1]), "", <<As(ks[1], "i64"), As(ks[2], "f64")>>)

Gen(x, path, ce) ==
  CASE x.op = "Literal"  -> Code("const", IrType(LiteralType(x.v)), x.v, <<>>)
    [] x.op = "Variable" -> LoadVariable(x.depth, x.slot, TypeAt(path, ce), ce)
    [] x.op = "Function" -> Closure(path, ce, FALSE)
    [] x.op = "Block"    -> GenBlock(x, path, ce, TypeAt(path, ce))
    [] x.op = "ImmediateBlock" -> GenImmediate(x, path, ce)
    [] x.op = "If"       -> GenIf(x, path, ce, IrType(TypeAt(path, ce)))
    [] x.op \in {"And", "Or"} -> GenLogical(x, path, ce)
    [] x.op = "Call"     -> GenCall(x, path, ce, KidTypes(x, path, ce))
    [] x.op = "List"     -> GenList(x, path, ce, ElemType(TypeAt(path, ce)))
    [] OTHER -> GenOperation(x, Kids(x, path, ce), KidTypes(x, path, ce))

-----------------------------------------------------------------------------
(* compile_function_instance.                                              *)
RECURSIVE ExprAt(_, _)
ExprAt(x, path) ==
  IF path = <<>> THEN x
  ELSE LET kids == Children(x)
           k == CHOOSE k \in Range(kids) : k.n = Head(path)
       IN  ExprAt(k.x, Tail(path))
LiteralAt(path) ==
  ExprAt(IF path[1] = 0 THEN prog.body ELSE prog.defs[path[1]], Tail(path))

FunctionCode(key) ==
  As(Gen(LiteralAt(key[1]).body, Append(key[1], 1), FunctionEnv(key)), IrType(key[2].ret))

(* Pass 2.  The first body that is refused, in the order of a HashMap,     *)
(* ends the compilation.                                                   *)
CompileFunctions ==
  /\ stage = "code"
  /\ \E bodies \in {[k \in DOMAIN funcs |-> FunctionCode(k)]} :
       /\ code' = bodies
       /\ \/ /\ \A k \in DOMAIN funcs : ~IsRefused(bodies[k])
             /\ stage' = "main" /\ UNCHANGED main
          \/ /\ \E k \in DOMAIN funcs : IsRefused(bodies[k]) /\ main' = bodies[k]
             /\ stage' = "refused"
  /\ UNCHANGED <<typeVars, asked, worklist, instances, funcs>>

-----------------------------------------------------------------------------
(* define_main.                                                            *)
IsValue(i)      == ~IsFunctionDef(instances[i][1])
InstancesInOrder == SetToSortSeq(DOMAIN instances, LAMBDA i, j :
  instances[i][1] < instances[j][1] \/ (instances[i][1] = instances[j][1] /\ i < j))
FunctionsInOrder == SelectSeq(InstancesInOrder, LAMBDA i : ~IsValue(i))
ValuesInOrder    == SelectSeq(InstancesInOrder, IsValue)
KeyOf(i)        == <<(<<instances[i][1]>>), instances[i][2]>>
CapturesOf(i)   == funcs[KeyOf(i)].captures

AllocateTops ==
  LET fns == FunctionsInOrder
  IN  [j \in DOMAIN fns |->
         Code("allocate", "void", [top |-> fns[j], key |-> KeyOf(fns[j])], <<>>)]

(* A value may not name a later value, nor a function with a capture of    *)
(* one; of the instances of the function only the last is looked at.       *)
CapturedValues(i) ==
  {c.slot : c \in {d \in Range(CapturesOf(i)) :
     d.depth = 1 /\ <<d.slot, d.ty>> \in Range(instances) /\ ~IsFunctionDef(d.slot)}}
ReachesLater(slot) ==
  \E i \in DOMAIN instances :
    LET r == instances[i][1] IN
    /\ r \in SiblingRefs(prog.defs[slot], 0)
    /\ \A j \in DOMAIN instances : instances[j][1] = r => j <= i
    /\ IF IsValue(i) THEN r > slot ELSE \E s \in CapturedValues(i) : s > slot

ValueCode(slot) ==
  IF ReachesLater(slot) THEN Refused("forward") ELSE Gen(prog.defs[slot], <<slot>>, MainEnv)
DefineTops ==
  LET vals == ValuesInOrder
  IN  [j \in DOMAIN vals |->
         Node("define", "void", vals[j],
              <<As(ValueCode(instances[vals[j]][1]), IrType(instances[vals[j]][2]))>>)]

FillTop(i, cell) ==
  LET c == CapturesOf(i)[cell]
  IN  Node("fill_top", "void", [top |-> i, cell |-> cell],
           <<InMain(c.depth - 1, c.slot, c.ty)>>)
FillTops ==
  LET fns == FunctionsInOrder
  IN  FlattenSeq([j \in DOMAIN fns |->
        [cell \in DOMAIN CapturesOf(fns[j]) |-> FillTop(fns[j], cell)]])

Display(ty) ==
  IF CanDisplay(ty)
  THEN Node("display", "void", ty, <<As(Gen(prog.body, <<0>>, MainEnv), IrType(ty))>>)
  ELSE Refused("display")

MainCode ==
  Node("main", "void", "", AllocateTops \o DefineTops \o FillTops
                           \o <<Display(inferer.nodes[<<0>>])>>)

(* The code of every function instance is looked up first; there is a      *)
(* panic if one has none.                                                  *)
AllDeclared == \A i \in DOMAIN instances : IsValue(i) \/ Declared(instances[i])

DefineMain ==
  /\ stage = "main"
  /\ \/ /\ ~AllDeclared /\ stage' = "panicked" /\ UNCHANGED main
     \/ /\ AllDeclared
        /\ \E compiled \in {MainCode} :
             main' = compiled /\ stage' = IF IsRefused(compiled) THEN "refused" ELSE "run"
  /\ UNCHANGED <<typeVars, asked, worklist, instances, funcs, code>>

GenInit == code = <<>> /\ main = NoCode
GenNext == CompileFunctions \/ DefineMain
=============================================================================
