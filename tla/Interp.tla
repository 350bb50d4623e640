------------------------------- MODULE Interp -------------------------------
(***************************************************************************)
(* The evaluator of interp.rs as a small-step machine, with the callbacks  *)
(* of List.map/filter/reduce (stdlib/list.rs), `import' and its current    *)
(* directory (stdlib/imports.rs), and the Display of the final value,      *)
(* which forces record fields.                                             *)
(*                                                                         *)
(* `ctl' is what the innermost Rust activation is doing; `kont' holds, one *)
(* entry per activation below it, what that activation does when it gets a *)
(* result.  A `?' that returns an Err pops one entry at a time.            *)
(***************************************************************************)
EXTENDS Values, Syntax, FiniteSets

CONSTANTS
  Programs,     (* the statements the main file may hold                   *)
  Files,        (* imported file -> its statement, parsed and resolved     *)
  Locate,       (* <<directory, path>> -> file, for the readable ones      *)
  DirOf,        (* file -> the directory it is in                          *)
  MainDir,      (* the directory of the main file                          *)
  FieldOrder,   (* every field name, in the order Display sorts them       *)
  StackLimit,   (* activations the interpreter's 8 MiB stack has room for  *)
  MaxFrames,    (* bound: a run is cut off when it has built this many,    *)
  MaxCells      (* or a frame with more cells than this                    *)

(* The root environment is within the bounds.                              *)
ASSUME LimitsAssumption ==
  /\ StackLimit \in Nat
  /\ MaxFrames \in Nat /\ MaxFrames >= 4
  /\ MaxCells \in Nat /\ MaxCells >= 10
ASSUME FilesAssumption ==
  /\ \A at \in DOMAIN Locate : Locate[at] \in DOMAIN Files
  /\ DOMAIN Files \subseteq DOMAIN DirOf

VARIABLES
  prog,         (* the main statement                                      *)
  frames,       (* every Frame built so far; an Env is an index into it    *)
  lists,        (* numbers given to lists so far; no two lists have one    *)
  ctl,          (* the innermost activation                                *)
  kont,         (* the activations below it, outermost first               *)
  dir           (* CURRENT_DIR                                             *)

vars == <<prog, frames, lists, ctl, kont, dir>>

-----------------------------------------------------------------------------
(* Binding cells and frames.                                               *)

Suspended(e) == [st |-> "Lazy", e |-> e]
Busy         == [st |-> "InProgress"]
Done(v)      == [st |-> "Done", v |-> v]

Frame(parent, names, cells) ==
  [parent |-> parent, names |-> names, cells |-> cells]

(* Seeded fault: the parent link is one too high.                          *)
MakeFrameAbove(defs, parent, names) ==
  Frame(parent + 1, names, [i \in DOMAIN defs |-> Suspended(defs[i])])

MakeFrame(defs, parent, names) ==
  Frame(parent, names, [i \in DOMAIN defs |-> Suspended(defs[i])])

CallFrame(fn, args) == Frame(fn.env, <<>>, [i \in DOMAIN args |-> Done(args[i])])

(* Frame 1 is the root environment; every statement's frame has it as its  *)
(* parent.  Its cells are the modules List, String and Number, and import. *)
(* The functions of String and Number are left out.                        *)
ListNames ==
  <<"range", "length", "head", "tail", "concat", "take", "drop",
    "map", "filter", "reduce">>
RootEnv == 1
RootFrames ==
  << Frame(0, <<>>, <<Done(Record(2)), Done(Record(3)), Done(Record(4)),
                      Done(Foreign("import"))>>),
     Frame(0, ListNames, [i \in DOMAIN ListNames |-> Done(Foreign(ListNames[i]))]),
     Frame(0, <<>>, <<>>),
     Frame(0, <<>>, <<>>) >>

NewList    == lists + 1
NewEnv     == Len(frames) + 1
Build(f)   == frames' = Append(frames, f)
Cell(f, s) == frames[f].cells[s]
IsCell(f, s) == f \in DOMAIN frames /\ s \in DOMAIN frames[f].cells

(* The environment `depth' parents up from env.                            *)
ParentAt(env, depth) ==
  LET up[d \in 0..depth] == IF d = 0 THEN env ELSE frames[up[d - 1]].parent
  IN  up[depth]

(* A name given twice belongs to its last definition (HashMap::insert).    *)
HasField(f, name) == Contains(frames[f].names, name)
SlotOf(f, name) ==
  CHOOSE s \in DOMAIN frames[f].names :
    /\ frames[f].names[s] = name
    /\ \A t \in DOMAIN frames[f].names : frames[f].names[t] = name => t <= s

-----------------------------------------------------------------------------
(* Control states.                                                         *)

Eval(e, env)       == [m |-> "eval", e |-> e, env |-> env]
Ret(v)             == [m |-> "ret", v |-> v]
Err                == [m |-> "err"]
Gather(e, env, vs) == [m |-> "operands", e |-> e, env |-> env, vs |-> vs]
Apply(fn, args)    == [m |-> "apply", fn |-> fn, args |-> args]
Each(how, fn, todo, acc) ==
  [m |-> "each", how |-> how, fn |-> fn, todo |-> todo, acc |-> acc]
Definitions(f, next, body) ==
  [m |-> "definitions", f |-> f, next |-> next, body |-> body]
Show(v)            == [m |-> "show", v |-> v]
ShowItems(todo, done) == [m |-> "items", todo |-> todo, done |-> done]
ShowFields(f, todo, done) ==
  [m |-> "fields", f |-> f, todo |-> todo, done |-> done]
Shown(t)           == [m |-> "shown", t |-> t]
Exit(t)            == [m |-> "exit", t |-> t]
Abort              == [m |-> "abort"]
Cut                == [m |-> "cut"]

Outcome(v) == IF v = Failed THEN Err ELSE Ret(v)

(* What Display prints: scalars as they are, a function as a constant, an  *)
(* Err inside a record field as a constant.                                *)
ErrorText    == [k |-> "<error>"]
FunctionText == [k |-> "[function]"]

Top     == Last(kont)
Below   == Front(kont)
Push(k) == Append(kont, k)
TopIs(kind) == kont # <<>> /\ Top.k = kind

Go(c, ks) == ctl' = c /\ kont' = ks

-----------------------------------------------------------------------------
(* Seeded fault: a cell is not marked while it is being evaluated.         *)
ForceUnmarked(f, s, ks) ==
  /\ UNCHANGED frames
  /\ IF Cell(f, s).st = "Done" THEN Go(Ret(Cell(f, s).v), ks)
     ELSE Go(Eval(Cell(f, s).e, f),
             Append(ks, [k |-> "Force", f |-> f, s |-> s, e |-> Cell(f, s).e]))

(* `force' of slot s of frame f by the activation ks.  A depth or a slot   *)
(* that is out of range would panic; the resolver gives none.              *)
ForceSlot(f, s, ks) ==
  /\ IsCell(f, s)
  /\ \/ /\ Cell(f, s).st = "Done"
        /\ Go(Ret(Cell(f, s).v), ks)
        /\ UNCHANGED frames
     \/ /\ Cell(f, s).st = "InProgress"
        /\ Go(Err, ks)
        /\ UNCHANGED frames
     \/ /\ Cell(f, s).st = "Lazy"
        /\ Go(Eval(Cell(f, s).e, f),
              Append(ks, [k |-> "Force", f |-> f, s |-> s, e |-> Cell(f, s).e]))
        /\ frames' = [frames EXCEPT ![f].cells[s] = Busy]

AccessField(f, name, ks) ==
  IF HasField(f, name) THEN ForceSlot(f, SlotOf(f, name), ks)
  ELSE Go(Err, ks) /\ UNCHANGED frames

-----------------------------------------------------------------------------
(* interpret / interpret_value: the expressions that need no operands.     *)
Evaluating(op) == ctl.m = "eval" /\ ctl.e.op = op

EvalLiteral ==
  /\ Evaluating("Literal")
  /\ Go(Ret(ctl.e.v), kont)
  /\ UNCHANGED <<prog, lists, frames, dir>>

EvalVariable ==
  /\ Evaluating("Variable")
  /\ ForceSlot(ParentAt(ctl.env, ctl.e.depth), ctl.e.slot, kont)
  /\ UNCHANGED <<prog, lists, dir>>

EvalFunction ==
  /\ Evaluating("Function")
  /\ Go(Ret(Native(ctl.e.arity, ctl.e.body, ctl.env)), kont)
  /\ UNCHANGED <<prog, lists, frames, dir>>

EvalBlock ==
  /\ Evaluating("Block")
  /\ Build(MakeFrame(ctl.e.defs, ctl.env, ctl.e.names))
  /\ Go(Ret(Record(NewEnv)), kont)
  /\ UNCHANGED <<prog, lists, dir>>

(* The body of an immediate block is in tail position: the loop goes on    *)
(* in the same activation.                                                 *)
EvalImmediateBlock ==
  /\ Evaluating("ImmediateBlock")
  /\ Build(MakeFrame(ctl.e.defs, ctl.env, <<>>))
  /\ Go(Eval(ctl.e.body, NewEnv), kont)
  /\ UNCHANGED <<prog, lists, dir>>

(* So are the branches of an `if', once the condition is known.            *)
EvalCondition ==
  /\ Evaluating("If")
  /\ Go(Eval(ctl.e.cond, ctl.env),
        Push([k |-> "If", cons |-> ctl.e.cons, alt |-> ctl.e.alt, env |-> ctl.env]))
  /\ UNCHANGED <<prog, lists, frames, dir>>

ReturnCondition ==
  /\ ctl.m = "ret" /\ TopIs("If")
  /\ Go(Eval(IF IsTruthy(ctl.v) THEN Top.cons ELSE Top.alt, Top.env), Below)
  /\ UNCHANGED <<prog, lists, frames, dir>>

(* `&&' and `||' return the left value itself when it decides; the right   *)
(* operand is evaluated by a nested activation.                            *)
EvalLogical ==
  /\ Evaluating("And") \/ Evaluating("Or")
  /\ Go(Eval(ctl.e.l, ctl.env),
        Push([k |-> "Logical", o |-> ctl.e.op, r |-> ctl.e.r, env |-> ctl.env]))
  /\ UNCHANGED <<prog, lists, frames, dir>>

ReturnLogical ==
  /\ ctl.m = "ret" /\ TopIs("Logical")
  /\ IF IsTruthy(ctl.v) = (Top.o = "Or")
     THEN Go(ctl, Below)
     ELSE Go(Eval(Top.r, Top.env), Append(Below, [k |-> "Right"]))
  /\ UNCHANGED <<prog, lists, frames, dir>>

ReturnRight ==
  /\ ctl.m = "ret" /\ TopIs("Right")
  /\ Go(ctl, Below)
  /\ UNCHANGED <<prog, lists, frames, dir>>

-----------------------------------------------------------------------------
(* Expressions with operands: each operand in a nested activation, left to *)
(* right, then the operation itself.                                       *)
EvalOperands ==
  /\ ctl.m = "eval" /\ ctl.e.op \in Operands
  /\ Go(Gather(ctl.e, ctl.env, <<>>), kont)
  /\ UNCHANGED <<prog, lists, frames, dir>>

Gathering == ctl.m = "operands"
Gathered  == Gathering /\ Len(ctl.vs) = Len(ctl.e.kids)

NextOperand ==
  /\ Gathering /\ ~Gathered
  /\ Go(Eval(ctl.e.kids[Len(ctl.vs) + 1], ctl.env),
        Push([k |-> "Operand", e |-> ctl.e, env |-> ctl.env, vs |-> ctl.vs]))
  /\ UNCHANGED <<prog, lists, frames, dir>>

(* A part that cannot be interpolated fails before the next is evaluated.  *)
ReturnOperand ==
  /\ ctl.m = "ret" /\ TopIs("Operand")
  /\ IF Top.e.op = "Interpolation" /\ ~CanInterpolate(ctl.v)
     THEN Go(Err, Below)
     ELSE Go(Gather(Top.e, Top.env, Append(Top.vs, ctl.v)), Below)
  /\ UNCHANGED <<prog, lists, frames, dir>>

(* A list literal builds a list of its own each time.                      *)
Combine(op, e, vs) ==
  CASE op = "List"          -> List(vs, NewList)
    [] op = "Interpolation" -> Interpolate(vs)
    [] op = "Binary"        -> ApplyBinop(e.o, vs[1], vs[2])
    [] op = "Unary"         -> ApplyUnaryop(e.o, vs[1])

CombineOperands ==
  /\ Gathered
  /\ ctl.e.op \in {"List", "Interpolation", "Binary", "Unary"}
  /\ Go(Outcome(Combine(ctl.e.op, ctl.e, ctl.vs)), kont)
  /\ lists' = NewList
  /\ UNCHANGED <<prog, frames, dir>>

AccessRecord ==
  /\ Gathered /\ ctl.e.op = "Access"
  /\ IF ctl.vs[1].k = "block" THEN AccessField(ctl.vs[1].frame, ctl.e.name, kont)
     ELSE Go(Err, kont) /\ UNCHANGED frames
  /\ UNCHANGED <<prog, lists, dir>>

(* apply_index: a list by a number, a record by a string.                  *)
IndexValue ==
  /\ Gathered /\ ctl.e.op = "Index"
  /\ LET arr == ctl.vs[1]
         idx == ctl.vs[2]
     IN  IF arr.k = "block" /\ idx.k = "string"
         THEN AccessField(arr.frame, idx.s, kont)
         ELSE /\ Go(IF IsList(arr) /\ IsNumber(idx)
                    THEN Outcome(IndexList(arr.xs, idx.n)) ELSE Err, kont)
              /\ UNCHANGED frames
  /\ UNCHANGED <<prog, lists, dir>>

(* Seeded fault: a call is evaluated by an activation of its own.          *)
NestedCall(ks) == Append(ks, [k |-> "Right"])

(* A call replaces the expression the activation is evaluating: no entry   *)
(* of kont is left for it (TCO), whatever the callee is.                   *)
TailCall(ks) == ks

CallFunction ==
  /\ Gathered /\ ctl.e.op = "Call"
  /\ Go(Apply(Head(ctl.vs), Tail(ctl.vs)), TailCall(kont))
  /\ UNCHANGED <<prog, lists, frames, dir>>

-----------------------------------------------------------------------------
(* Applying a function value: the end of a Call, or call_value from map,   *)
(* filter and reduce.                                                      *)
Applying(kind) == ctl.m = "apply" /\ ctl.fn.k = kind
ApplyingForeign(names) == Applying("foreign") /\ ctl.fn.name \in names

ApplyNative ==
  /\ Applying("function")
  /\ Len(ctl.args) = ctl.fn.arity
  /\ Build(CallFrame(ctl.fn, ctl.args))
  /\ Go(Eval(ctl.fn.body, NewEnv), kont)
  /\ UNCHANGED <<prog, lists, dir>>

ApplyFails ==
  /\ ctl.m = "apply"
  /\ \/ ~IsCallable(ctl.fn)
     \/ Applying("function") /\ Len(ctl.args) # ctl.fn.arity
  /\ Go(Err, kont)
  /\ UNCHANGED <<prog, lists, frames, dir>>

ApplyPure ==
  /\ ApplyingForeign(DOMAIN PureListArity)
  /\ Go(IF Len(ctl.args) = PureListArity[ctl.fn.name]
        THEN Outcome(ListFunction(ctl.fn.name, ctl.args, NewList)) ELSE Err, kont)
  /\ lists' = NewList
  /\ UNCHANGED <<prog, frames, dir>>

ApplyHigherOrder ==
  /\ ApplyingForeign({"map", "filter", "reduce"})
  /\ LET how  == ctl.fn.name
         args == ctl.args
     IN  Go(IF Len(args) # (IF how = "reduce" THEN 3 ELSE 2) \/ ~IsList(args[1])
            THEN Err
            ELSE Each(how, Last(args), args[1].xs,
                      IF how = "reduce" THEN args[2] ELSE <<>>), kont)
  /\ UNCHANGED <<prog, lists, frames, dir>>

(* One round of the loop over the list: call the function on the next item *)
(* or return the result.                                                   *)
EachItem ==
  /\ ctl.m = "each"
  /\ IF ctl.todo = <<>>
     THEN Go(Ret(IF ctl.how = "reduce" THEN ctl.acc
                ELSE List(ctl.acc, NewList)), kont)
     ELSE Go(Apply(ctl.fn, IF ctl.how = "reduce" THEN <<ctl.acc, Head(ctl.todo)>>
                           ELSE <<Head(ctl.todo)>>),
             Push([k |-> "Each", how |-> ctl.how, fn |-> ctl.fn, acc |-> ctl.acc,
                   item |-> Head(ctl.todo), todo |-> Tail(ctl.todo)]))
  /\ lists' = NewList
  /\ UNCHANGED <<prog, frames, dir>>

Collect(how, acc, item, v) ==
  CASE how = "map"    -> Append(acc, v)
    [] how = "filter" -> IF v.b THEN Append(acc, item) ELSE acc
    [] how = "reduce" -> v

ReturnEach ==
  /\ ctl.m = "ret" /\ TopIs("Each")
  /\ IF Top.how = "filter" /\ ctl.v.k # "bool"
     THEN Go(Err, Below)
     ELSE Go(Each(Top.how, Top.fn, Top.todo,
                  Collect(Top.how, Top.acc, Top.item, ctl.v)), Below)
  /\ UNCHANGED <<prog, lists, frames, dir>>

-----------------------------------------------------------------------------
(* import(path): an unreadable file, a file that does not parse or resolve *)
(* and a wrong argument fail before the current directory is touched.      *)
Importable(args) ==
  Len(args) = 1 /\ args[1].k = "string" /\ <<dir, args[1].s>> \in DOMAIN Locate

ImportFails ==
  /\ ApplyingForeign({"import"})
  /\ ~Importable(ctl.args)
  /\ Go(Err, kont)
  /\ UNCHANGED <<prog, lists, frames, dir>>

(* Otherwise the file is run under its own directory (run_eager), and the  *)
(* entry pushed here puts the previous one back, whatever the result.      *)
ImportFile ==
  /\ ApplyingForeign({"import"})
  /\ Importable(ctl.args)
  /\ LET file == Locate[<<dir, ctl.args[1].s>>]
     IN  /\ Build(MakeFrame(Files[file].defs, RootEnv, <<>>))
         /\ Go(Definitions(NewEnv, 1, Files[file].body),
               Push([k |-> "Import", file |-> file, prev |-> dir]))
         /\ dir' = DirOf[file]
  /\ UNCHANGED <<prog, lists>>

(* run_eager forces the top-level definitions in order, then evaluates the *)
(* body.                                                                   *)
EagerDefinition ==
  /\ ctl.m = "definitions"
  /\ IF ctl.next \in DOMAIN frames[ctl.f].cells
     THEN ForceSlot(ctl.f, ctl.next,
                Push([k |-> "Eager", f |-> ctl.f, next |-> ctl.next, body |-> ctl.body]))
     ELSE Go(Eval(ctl.body, ctl.f), kont) /\ UNCHANGED frames
  /\ UNCHANGED <<prog, lists, dir>>

ReturnEager ==
  /\ ctl.m = "ret" /\ TopIs("Eager")
  /\ Go(Definitions(Top.f, Top.next + 1, Top.body), Below)
  /\ UNCHANGED <<prog, lists, frames, dir>>

ReturnImport ==
  /\ ctl.m = "ret" /\ TopIs("Import")
  /\ Go(ctl, Below)
  /\ dir' = Top.prev
  /\ UNCHANGED <<prog, lists, frames>>

-----------------------------------------------------------------------------
(* Seeded faults: the Err returns without giving the expression back, or   *)
(* without the previous directory.                                         *)
UnwindForceBusy ==
  /\ ctl.m = "err" /\ TopIs("Force")
  /\ Go(Err, Below)
  /\ UNCHANGED <<prog, lists, frames, dir>>
UnwindImportThere ==
  /\ ctl.m = "err" /\ TopIs("Import")
  /\ Go(Err, Below)
  /\ UNCHANGED <<prog, lists, frames, dir>>

(* The rest of `force', after the evaluation it started.                   *)
ReturnForce ==
  /\ ctl.m = "ret" /\ TopIs("Force")
  /\ frames' = [frames EXCEPT ![Top.f].cells[Top.s] = Done(ctl.v)]
  /\ Go(ctl, Below)
  /\ UNCHANGED <<prog, lists, dir>>

Failing == ctl.m = "err" /\ kont # <<>>

(* An Err passes through `force', which suspends the expression again.     *)
UnwindForce ==
  /\ Failing /\ TopIs("Force")
  /\ frames' = [frames EXCEPT ![Top.f].cells[Top.s] = Suspended(Top.e)]
  /\ Go(Err, Below)
  /\ UNCHANGED <<prog, lists, dir>>

UnwindImport ==
  /\ Failing /\ TopIs("Import")
  /\ Go(Err, Below)
  /\ dir' = Top.prev
  /\ UNCHANGED <<prog, lists, frames>>

(* Every other activation returns early with `?'.                          *)
UnwindOther ==
  /\ Failing /\ Top.k \notin {"Force", "Import", "Field"}
  /\ Go(Err, Below)
  /\ UNCHANGED <<prog, lists, frames, dir>>

-----------------------------------------------------------------------------
(* main prints the value (Display) or the diagnostic.                      *)
PrintValue ==
  /\ ctl.m = "ret" /\ kont = <<>>
  /\ Go(Show(ctl.v), kont)
  /\ UNCHANGED <<prog, lists, frames, dir>>

PrintDiagnostic ==
  /\ ctl.m = "err" /\ kont = <<>>
  /\ Go(Exit(ErrorText), kont)
  /\ UNCHANGED <<prog, lists, frames, dir>>

(* Seeded fault: the fields are shown as they are written.                 *)
FieldsAsWritten(f) == frames[f].names

(* A record shows its fields sorted by name, forcing each one.             *)
SortedFields(f) == SelectSeq(FieldOrder, LAMBDA n : HasField(f, n))

ShowValue ==
  /\ ctl.m = "show"
  /\ Go(CASE ctl.v.k = "list"  -> ShowItems(ctl.v.xs, <<>>)
          [] ctl.v.k = "block" -> ShowFields(ctl.v.frame, SortedFields(ctl.v.frame), <<>>)
          [] IsCallable(ctl.v) -> Shown(FunctionText)
          [] OTHER             -> Shown(ctl.v), kont)
  /\ UNCHANGED <<prog, lists, frames, dir>>

ShowNextItem ==
  /\ ctl.m = "items"
  /\ IF ctl.todo = <<>> THEN Go(Shown([k |-> "list", xs |-> ctl.done]), kont)
     ELSE Go(Show(Head(ctl.todo)),
             Push([k |-> "Item", todo |-> Tail(ctl.todo), done |-> ctl.done]))
  /\ UNCHANGED <<prog, lists, frames, dir>>

ShowNextField ==
  /\ ctl.m = "fields"
  /\ IF ctl.todo = <<>>
     THEN Go(Shown([k |-> "block", fs |-> ctl.done]), kont) /\ UNCHANGED frames
     ELSE ForceSlot(ctl.f, SlotOf(ctl.f, Head(ctl.todo)),
                Push([k |-> "Field", f |-> ctl.f, todo |-> ctl.todo, done |-> ctl.done]))
  /\ UNCHANGED <<prog, lists, dir>>

ReturnField ==
  /\ ctl.m = "ret" /\ TopIs("Field")
  /\ Go(Show(ctl.v), kont)
  /\ UNCHANGED <<prog, lists, frames, dir>>

FieldShown(t) ==
  Go(ShowFields(Top.f, Tail(Top.todo), Append(Top.done, <<Head(Top.todo), t>>)), Below)

(* An Err in a field is printed in its place; the other fields follow.     *)
CatchField ==
  /\ Failing /\ TopIs("Field")
  /\ FieldShown(ErrorText)
  /\ UNCHANGED <<prog, lists, frames, dir>>

AppendShown ==
  /\ ctl.m = "shown" /\ kont # <<>>
  /\ IF Top.k = "Field" THEN FieldShown(ctl.t)
     ELSE Go(ShowItems(Top.todo, Append(Top.done, ctl.t)), Below)
  /\ UNCHANGED <<prog, lists, frames, dir>>

ExitShown ==
  /\ ctl.m = "shown" /\ kont = <<>>
  /\ Go(Exit(ctl.t), kont)
  /\ UNCHANGED <<prog, lists, frames, dir>>

-----------------------------------------------------------------------------
(* The 8 MiB stack of the interpreter thread overflows: the process dies.  *)
Stopped  == ctl.m \in {"exit", "abort", "cut"}
TooDeep  == Len(kont) > StackLimit
TooWide  == ~(DOMAIN frames[Len(frames)].cells \subseteq 1..MaxCells)
TooLarge == Len(frames) > MaxFrames \/ TooWide

Overflow ==
  /\ ~Stopped /\ TooDeep
  /\ Go(Abort, kont)
  /\ UNCHANGED <<prog, lists, frames, dir>>

(* Bound of the model only: the program has no such limit.                 *)
CutOff ==
  /\ ~Stopped /\ ~TooDeep /\ TooLarge
  /\ Go(Cut, kont)
  /\ UNCHANGED <<prog, lists, frames, dir>>

Step ==
  \/ EvalLiteral \/ EvalVariable \/ EvalFunction \/ EvalBlock
  \/ EvalImmediateBlock \/ EvalCondition \/ ReturnCondition
  \/ EvalLogical \/ ReturnLogical \/ ReturnRight
  \/ EvalOperands \/ NextOperand \/ ReturnOperand \/ CombineOperands
  \/ AccessRecord \/ IndexValue \/ CallFunction
  \/ ApplyNative \/ ApplyFails \/ ApplyPure \/ ApplyHigherOrder
  \/ EachItem \/ ReturnEach
  \/ ImportFails \/ ImportFile \/ EagerDefinition \/ ReturnEager \/ ReturnImport
  \/ ReturnForce \/ UnwindForce \/ UnwindImport \/ UnwindOther
  \/ PrintValue \/ PrintDiagnostic
  \/ ShowValue \/ ShowNextItem \/ ShowNextField \/ ReturnField \/ CatchField
  \/ AppendShown \/ ExitShown

Next ==
  \/ ~Stopped /\ ~TooDeep /\ ~TooLarge /\ Step
  \/ Overflow
  \/ CutOff

(* run: the root environment, the statement's frame, then its body.        *)
Init ==
  /\ prog \in Programs
  /\ frames = Append(RootFrames, MakeFrame(prog.defs, RootEnv, <<>>))
  /\ ctl  = Eval(prog.body, Len(RootFrames) + 1)
  /\ kont = <<>> /\ lists = 0
  /\ dir  = MainDir

(* One thread runs the evaluator to its end: nothing it does waits.        *)
Spec == Init /\ [][Next]_vars /\ WF_vars(Next)

-----------------------------------------------------------------------------
(* What parser and resolver guarantee of a program.  The scopes an         *)
(* expression is in are the sets of slots they have, innermost first; J is *)
(* a set of pairs of an expression and its scopes that has, with a pair,   *)
(* those of the expression's parts.                                        *)
RootScope == 1..4
Inner(slots, scopes) == <<slots>> \o scopes
In(es, scopes) == {<<es[i], scopes>> : i \in DOMAIN es}

Parts(e, scopes) ==
  CASE e.op = "Function" -> {<<e.body, Inner(1..e.arity, scopes)>>}
    [] e.op = "Block"    -> In(e.defs, Inner(DOMAIN e.defs, scopes))
    [] e.op = "ImmediateBlock" ->
         LET inner == Inner(DOMAIN e.defs, scopes)
         IN  In(e.defs, inner) \cup {<<e.body, inner>>}
    [] e.op = "If"       -> {<<e.cond, scopes>>, <<e.cons, scopes>>, <<e.alt, scopes>>}
    [] e.op \in {"And", "Or"} -> {<<e.l, scopes>>, <<e.r, scopes>>}
    [] e.op \in Operands -> In(e.kids, scopes)
    [] OTHER             -> {}

BinaryOps == {"Eq", "Ne", "Gt", "Lt", "Ge", "Le", "Add", "Sub", "Mul"}
OperandCount(op) ==
  CASE op \in {"Binary", "Index"} -> {2}
    [] op \in {"Unary", "Access"} -> {1}
    [] op = "Call"                -> Nat \ {0}
    [] OTHER                      -> Nat

(* A variable has the coordinates of a binding, a name of a record stands  *)
(* for the definition at its position, and operators have their operands.  *)
WellFormed(e, scopes) ==
  /\ e.op = "Literal"  => e.v.k \in Scalars /\ (IsNumber(e.v) => e.v.n \in Int)
  /\ e.op = "Variable" => /\ e.depth \in Nat /\ e.depth < Len(scopes)
                          /\ e.slot \in scopes[e.depth + 1]
  /\ e.op = "Function" => e.arity \in Nat
  /\ e.op = "Block"    => DOMAIN e.names = DOMAIN e.defs
  /\ e.op = "Binary"   => e.o \in BinaryOps
  /\ e.op \in Operands => /\ Len(e.kids) \in OperandCount(e.op)
                          /\ DOMAIN e.kids = 1..Len(e.kids)

StatementParts(stmt) ==
  LET scopes == <<DOMAIN stmt.defs, RootScope>>
  IN  In(stmt.defs, scopes) \cup {<<stmt.body, scopes>>}

(* J has every expression of the statements.                               *)
ResolvedIn(J, statements) ==
  /\ \A j \in J : WellFormed(j[1], j[2]) /\ Parts(j[1], j[2]) \subseteq J
  /\ \A stmt \in statements : StatementParts(stmt) \subseteq J

FileStatements == {Files[f] : f \in DOMAIN Files}

-----------------------------------------------------------------------------
(* Types of the heap and of the two stacks.  An environment is older than  *)
(* the frames it is the parent of, so environment chains are acyclic.      *)
ContKinds ==
  {"If", "Logical", "Right", "Operand", "Each", "Import", "Eager", "Force",
   "Field", "Item"}
CellStates == {"Lazy", "InProgress", "Done"}

(* The coordinates of a variable that is evaluated are those of a cell:    *)
(* going up the parents and taking the slot (interp.rs:53, :326) panic     *)
(* where there is none.                                                    *)
InScope ==
  Evaluating("Variable") =>
    IsCell(ParentAt(ctl.env, ctl.e.depth), ctl.e.slot)

TypeOK ==
  /\ InScope
  /\ \A f \in DOMAIN frames :
       /\ frames[f].parent \in 0..(f - 1)
       /\ \A s \in DOMAIN frames[f].cells : Cell(f, s).st \in CellStates
  /\ ctl.m \in {"eval", "ret", "err", "operands", "apply", "each", "definitions",
                "show", "items", "fields", "shown", "exit", "abort", "cut"}
  /\ \A i \in DOMAIN kont : kont[i].k \in ContKinds
  /\ lists \in Nat
  /\ dir \in {MainDir} \cup {DirOf[f] : f \in DOMAIN Files}

-----------------------------------------------------------------------------
(* The evaluator implements LazyBindings: a cell is what its BindState     *)
(* says, and the forces in progress are the Force entries of kont.         *)
CellIds == (1..(MaxFrames + 1)) \X (1..MaxCells)

CellState(c) == IF IsCell(c[1], c[2]) THEN Cell(c[1], c[2]).st ELSE "Absent"

(* The entries of a kind in a stack, and the n-th of a set of positions.   *)
Positions(ks, kind) == {i \in DOMAIN ks : ks[i].k = kind}
UpTo(S, i)   == {j \in S : j <= i}
Ranked(S, n) == {i \in S : Cardinality(UpTo(S, i)) = n}
Nth(S, n)    == CHOOSE i \in Ranked(S, n) : TRUE

ForcingIn(ks) ==
  LET S == Positions(ks, "Force")
  IN  [n \in 1..Cardinality(S) |-> <<ks[Nth(S, n)].f, ks[Nth(S, n)].s>>]

(* An Err propagates; a run that is given up never goes on either.         *)
Bindings == INSTANCE LazyBindings WITH
  Cells   <- CellIds,
  cell    <- [c \in CellIds |-> CellState(c)],
  forcing <- ForcingIn(kont),
  mode    <- IF ctl.m \in {"err", "abort", "cut"} THEN "fail" ELSE "run"

(* Every step of the evaluator is a step of LazyBindings or leaves the     *)
(* bindings alone: force (interp.rs:122) enters a binding at most once at  *)
(* a time, keeps its value for ever, and gives the expression back on      *)
(* every path an Err can take, through calls, callbacks, imports and       *)
(* Display.                                                                *)
ImplementsLazyBindings == Bindings!Spec

-----------------------------------------------------------------------------
(* CURRENT_DIR is always the directory of the file whose import is         *)
(* innermost among those still running, and the main file's when there is  *)
(* none: an import that fails anywhere, or whose failure is swallowed by   *)
(* Display, leaves no directory behind for the imports that follow.        *)
IsDirectoryBelow(n, ks, d) ==
  LET running == {i \in Positions(ks, "Import") : i < n}
  IN  \/ running = {} /\ d = MainDir
      \/ \E i \in running : d = DirOf[ks[i].file] /\ \A j \in running : j <= i
DirectoryOfInnermostImport == IsDirectoryBelow(Len(kont) + 1, kont, dir)
=============================================================================
