---------------------------- MODULE JitInstances -----------------------------
(***************************************************************************)
(* Monomorphization (compile_program, jit.rs): which instances of the      *)
(* top-level definitions and of the function literals are compiled, found  *)
(* from the types TypeCheck recorded.  Worklist is the queue of (slot,     *)
(* type) pairs; this module walks the expressions, refuses what has no     *)
(* concrete type, and declares the literals.  Each instance has a          *)
(* substitution that makes the types recorded in its body concrete.        *)
(*                                                                         *)
(* A concrete type stands for the string it is keyed by.                   *)
(***************************************************************************)
EXTENDS TypeCheck, Worklist, Integers

CONSTANT
  MaxInstances  (* bound of the model only: instances of one program       *)

VARIABLE
  funcs         (* FuncKey, <<path of a literal, its type>> -> FuncInfo    *)

jitVars == <<queueVars, funcs>>

Ended == {"ran", "refused", "panicked", "cut"}

-----------------------------------------------------------------------------
(* Types.                                                                  *)
RECURSIVE HasVar(_), UnifySubst(_, _, _), UnifySubsts(_, _, _)

HasVar(ty) ==
  CASE ty.t = "var"    -> TRUE
    [] ty.t = "fn"     -> HasVar(ty.ret) \/ \E i \in DOMAIN ty.args : HasVar(ty.args[i])
    [] ty.t = "list"   -> HasVar(ty.elem)
    [] ty.t = "record" -> \E i \in DOMAIN ty.tys : HasVar(ty.tys[i])
    [] ty.t = "module" -> \E i \in DOMAIN ty.schemes : HasVar(ty.schemes[i].ty)
    [] OTHER           -> FALSE

(* ir_type_for.                                                            *)
IrType(ty) ==
  CASE ty.t = "number"           -> "f64"
    [] ty.t \in {"bool", "null"} -> "i8"
    [] ty.t \in {"fn", "record", "list", "string"} -> "i64"
    [] OTHER                     -> "none"
Representable(ty) == IrType(ty) # "none"

(* What the variables of a definition's type are in one of its instances:  *)
(* the first type each of them meets; shapes that differ are skipped.      *)
UnifySubsts(as, bs, s) ==
  IF as = <<>> THEN s ELSE UnifySubsts(Tail(as), Tail(bs), UnifySubst(Head(as), Head(bs), s))
UnifySubst(general, specific, s) ==
  CASE general.t = "var" -> s @@ (general.v :> specific)
    [] general.t = "fn" /\ specific.t = "fn" /\ Len(general.args) = Len(specific.args) ->
         UnifySubst(general.ret, specific.ret, UnifySubsts(general.args, specific.args, s))
    [] general.t = "list" /\ specific.t = "list" -> UnifySubst(general.elem, specific.elem, s)
    [] OTHER -> s

At(path, sub) == Apply(inferer.nodes[path], sub)

(* The definitions, as Worklist sees them.                                 *)
SlotsOf(statement)             == DOMAIN statement.defs
IsFunctionIn(statement, slot)  == statement.defs[slot].op = "Function"
TypeOfDefinition(typing, slot) == typing.nodes[<<slot>>]
SubstIn(typing, inst) == UnifySubst(TypeOfDefinition(typing, inst[1]), inst[2], <<>>)
SubstOf(inst)         == SubstIn(inferer, inst)

-----------------------------------------------------------------------------
(* The walks.  None of them looks into an embedded ${ }.                   *)
Child(n, x) == [n |-> n, x |-> x]
Children(x) ==
  CASE x.op = "Function" -> <<Child(1, x.body)>>
    [] x.op = "Block"    -> [i \in DOMAIN x.defs |-> Child(i, x.defs[i])]
    [] x.op = "ImmediateBlock" ->
         Append([i \in DOMAIN x.defs |-> Child(i, x.defs[i])], Child(0, x.body))
    [] x.op = "If"       -> <<Child(1, x.cond), Child(2, x.cons), Child(3, x.alt)>>
    [] x.op \in {"And", "Or"} -> <<Child(1, x.l), Child(2, x.r)>>
    [] x.op \in Operands \ {"Interpolation"} ->
         [i \in DOMAIN x.kids |-> Child(i, x.kids[i])]
    [] OTHER -> <<>>

IsScope(x) == x.op \in {"Function", "Block", "ImmediateBlock"}

RECURSIVE Variables(_, _, _), Literals(_, _, _)

(* The variables of an expression in the order they are met, with their    *)
(* depth as seen from where the walk began (collect_uses_in,               *)
(* collect_captures).                                                      *)
Variables(x, path, layers) ==
  IF x.op = "Variable"
  THEN <<[path |-> path, depth |-> x.depth - layers, slot |-> x.slot]>>
  ELSE LET kids == Children(x)
       IN  FlattenSeq([i \in DOMAIN kids |->
             Variables(kids[i].x, Append(path, kids[i].n),
                       layers + (IF IsScope(x) THEN 1 ELSE 0))])

(* The function literals of an expression, itself included, with the       *)
(* number of literals around each (discover).                              *)
Literals(x, path, nesting) ==
  LET kids == Children(x)
      fn   == IF x.op = "Function" THEN 1 ELSE 0
  IN  (IF fn = 1 THEN <<[path |-> path, x |-> x, nesting |-> nesting]>> ELSE <<>>)
      \o FlattenSeq([i \in DOMAIN kids |->
            Literals(kids[i].x, Append(path, kids[i].n), nesting + fn)])

(* The instances of top-level definitions met in an expression when it is *)
(* compiled with a substitution: those whose type is concrete.             *)
UsesIn(typing, x, path, sub) ==
  LET tops == {v \in Range(Variables(x, path, 0)) : v.depth = 0}
      uses == {<<v.slot, Apply(typing.nodes[v.path], sub)>> : v \in tops}
  IN  {u \in uses : ~HasVar(u[2])}
UsesAtTop(statement, typing) ==
  UsesIn(typing, statement.body, <<0>>, <<>>)
  \cup UNION {UsesIn(typing, statement.defs[s], <<s>>, <<>>) :
               s \in {d \in SlotsOf(statement) : ~IsFunctionIn(statement, d)}}
UsesInInstance(statement, typing, inst) ==
  UsesIn(typing, statement.defs[inst[1]], <<inst[1]>>, SubstIn(typing, inst))

(* The captures of a literal: one for each binding, with the first type    *)
(* met, in the order of depth and slot; modules are not captured.          *)
Before(c, d) == c.depth < d.depth \/ (c.depth = d.depth /\ c.slot < d.slot)
Same(v, w)   == v.depth = w.depth /\ v.slot = w.slot
Captures(lit, sub) ==
  LET outside == SelectSeq(Variables(lit.x.body, Append(lit.path, 1), 0),
                           LAMBDA v : v.depth >= 1 /\ inferer.nodes[v.path].t # "module")
      first == {i \in DOMAIN outside : \A j \in 1..(i - 1) : ~Same(outside[j], outside[i])}
  IN  SetToSortSeq({[depth |-> outside[i].depth, slot |-> outside[i].slot,
                     ty    |-> At(outside[i].path, sub)] : i \in first}, Before)

CanDeclare(lit, sub) ==
  LET ty == At(lit.path, sub)
      needed == {ty.ret} \cup Range(ty.args) \cup {c.ty : c \in Range(Captures(lit, sub))}
  IN  /\ ~HasVar(ty)
      /\ \/ <<lit.path, ty>> \in DOMAIN funcs
         \/ \A u \in needed : Representable(u) /\ ~HasVar(u)

FuncInfo(lit, sub) ==
  [sub |-> sub, captures |-> Captures(lit, sub), nesting |-> lit.nesting]
FuncInfos(lits, sub) ==
  [k \in {<<l.path, At(l.path, sub)>> : l \in lits} |->
     FuncInfo(CHOOSE l \in lits : l.path = k[1], sub)]

(* Seeded fault: the type does not belong to the key.                      *)
DeclareOnce(lits, sub) ==
  funcs @@ FuncInfos({l \in lits : \A k \in DOMAIN funcs : k[1] # l.path}, sub)

(* Declaring the literals of an expression.  A literal that has been       *)
(* declared at the same type is shared.                                    *)
Declare(lits, sub) == funcs @@ FuncInfos(lits, sub)

Discoverable(x, path, sub) == \A l \in Range(Literals(x, path, 0)) : CanDeclare(l, sub)
Discovered(x, path, sub)   == Declare(Range(Literals(x, path, 0)), sub)

-----------------------------------------------------------------------------
JitInit == QueueInit /\ funcs = <<>>

Refuse == GoTo("refused") /\ UNCHANGED <<typeVars, funcs>>

(* A program with a warning is not compiled; nor is one with a value whose *)
(* type is not concrete or has no representation.                          *)
ValueOK(s) == ~HasVar(DefType(s)) /\ Representable(DefType(s))

RegisterValues ==
  /\ Checked /\ ~inferer.warned /\ \A s \in ValueSlots : ValueOK(s)
  /\ Register
  /\ UNCHANGED <<typeVars, funcs>>

RefuseValues ==
  /\ stage = "check" /\ Checked
  /\ inferer.warned \/ \E s \in ValueSlots : ~ValueOK(s)
  /\ Refuse

SeedWorklist ==
  /\ stage = "seed" /\ \A s \in Unused : ~HasVar(DefType(s))
  /\ Seed
  /\ UNCHANGED <<typeVars, funcs>>

RefuseUnused ==
  /\ stage = "seed" /\ \E s \in Unused : HasVar(DefType(s))
  /\ Refuse

Working == stage = "work" /\ worklist # <<>> /\ Len(instances) < MaxInstances
FitsOut(inst) == Discoverable(prog.defs[inst[1]], <<inst[1]>>, SubstOf(inst))

(* One instance: what its body uses is queued, its literals are declared.  *)
NextInstance ==
  /\ Working
  /\ LET inst == Head(worklist)
     IN  /\ FitsOut(inst)
         /\ funcs' = Discovered(prog.defs[inst[1]], <<inst[1]>>, SubstOf(inst))
  /\ Compile
  /\ UNCHANGED typeVars

RefuseInstance ==
  /\ Working /\ ~FitsOut(Head(worklist))
  /\ Refuse

CutOff ==
  /\ stage = "work" /\ worklist # <<>> /\ Len(instances) >= MaxInstances
  /\ GoTo("cut")
  /\ UNCHANGED <<typeVars, funcs>>

(* The literals of the main body and of the values.                        *)
Outermost == {<<prog.body, <<0>>>>} \cup {<<prog.defs[s], <<s>>>> : s \in ValueSlots}
MainLiterals == UNION {Range(Literals(o[1], o[2], 0)) : o \in Outermost}

DiscoverMain ==
  /\ Finish
  /\ \A l \in MainLiterals : CanDeclare(l, <<>>)
  /\ funcs' = Declare(MainLiterals, <<>>)
  /\ UNCHANGED typeVars

RefuseMain ==
  /\ stage = "work" /\ worklist = <<>>
  /\ \E l \in MainLiterals : ~CanDeclare(l, <<>>)
  /\ Refuse

JitNext ==
  \/ RegisterValues \/ RefuseValues \/ SeedWorklist \/ RefuseUnused
  \/ NextInstance \/ RefuseInstance \/ CutOff \/ DiscoverMain \/ RefuseMain
=============================================================================
