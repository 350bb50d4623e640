-------------------------------- MODULE JitRun --------------------------------
(***************************************************************************)
(* What the code of JitGen does when it runs (the instructions it is       *)
(* lowered to, and the runtime helpers, jit.rs:36-236).  A value is a word *)
(* of an IR type: a number, a byte, the address of a string or of an       *)
(* object.  Objects (closures, records, lists) are cells in a memory that  *)
(* is never freed.  Nothing at run time knows a word's static type, a      *)
(* list's bounds, or which cells were written: where the program would go  *)
(* on with something arbitrary, the machine stops and says so.             *)
(***************************************************************************)
EXTENDS JitGen

CONSTANTS
  FieldOrder,   (* the names of fields, sorted                             *)
  MaxDepth      (* bound: calls inside each other on the native stack      *)

V == INSTANCE Values

VARIABLE outcome  (* how main ended, and what it displayed                 *)

vars == <<typeVars, jitVars, genVars, outcome>>

Float(n)   == [ty |-> "f64", n |-> n]
Byte(b)    == [ty |-> "i8", b |-> b]
Address(s) == [ty |-> "i64", s |-> s]
Pointer(p) == [ty |-> "i64", p |-> p]
Unset      == [ty |-> "unset"]
HasText(w) == "s" \in DOMAIN w

WordOf(v) ==
  CASE v.k = "number" -> Float(v.n) [] v.k = "string" -> Address(v.s)
    [] v.k = "bool"   -> Byte(v.b)  [] v.k = "null"   -> Byte(FALSE)

-----------------------------------------------------------------------------
(* The machine: `how' it goes ("ok", or why it stopped), the words being   *)
(* worked with, the records of the block frames, memory, and the variables *)
(* of the top-level instances.                                             *)
(*   garbage   a cell not written, or a word taken for what it is not      *)
(*   bounds    a read outside a list                                       *)
(*   trap      a negative number converted to u32                          *)
(*   overflow  more than MaxDepth calls                                    *)
Started == [how |-> "ok", stack |-> <<>>, frames |-> <<>>, mem |-> <<>>,
            tops |-> [i \in DOMAIN instances |-> Unset], shown |-> V!Null]

Stop(m, how)  == [m EXCEPT !.how = how]
Push(m, w)    == [m EXCEPT !.stack = Append(@, w)]
PushAs(m, w, ty) == IF w.ty = ty THEN Push(m, w) ELSE Stop(m, "garbage")
TopOf(m, n)   == SubSeq(m.stack, Len(m.stack) - n + 1, Len(m.stack))
Pop(m, n)     == [m EXCEPT !.stack = SubSeq(@, 1, Len(@) - n)]

IsObject(m, w, kind) == "p" \in DOMAIN w /\ m.mem[w.p].kind = kind
Cells(m, w)     == m.mem[w.p].cells
Store(m, w, cell, val) == [m EXCEPT !.mem[w.p].cells[cell] = val]
Object(m, kind, key, cells) ==
  [m EXCEPT !.mem = Append(@, [kind |-> kind, key |-> key, cells |-> cells])]
New(m, kind, key, cells) ==
  Push(Object(m, kind, key, cells), Pointer(Len(m.mem) + 1))

(* A load at the IR type ty; outside the object it ends as `beyond' says.  *)
Load(m, w, kind, cell, ty, beyond) ==
  CASE ~IsObject(m, w, kind) -> Stop(m, "garbage")
    [] IsObject(m, w, kind) /\ cell \notin DOMAIN Cells(m, w) -> Stop(m, beyond)
    [] OTHER -> PushAs(m, Cells(m, w)[cell], ty)

(* Block frames: the record of a block is allocated first.                 *)
Blank(n) == [i \in 1..n |-> Unset]
Enter(m, n) ==
  [Object(m, "record", "", Blank(n)) EXCEPT !.frames = Append(@, Pointer(Len(m.mem) + 1))]
LeaveFrame(m) == [m EXCEPT !.frames = Front(@)]
Leave(c, m) ==
  CASE m.how # "ok" -> m
    [] m.how = "ok" /\ c = "locals" -> LeaveFrame(m)
    [] m.how = "ok" /\ c = "record" -> Push(LeaveFrame(m), Last(m.frames))

-----------------------------------------------------------------------------
(* Lists, strings, equality and display.                                   *)
ListOfWords(m, ws) == New(m, "list", "", ws)

(* spctr_list_slice, with a length computed in u32.                        *)
Slice(m, cells, start, n) ==
  IF n < 0 \/ start + n > Len(cells) THEN Stop(m, "bounds")
  ELSE ListOfWords(m, SubSeq(cells, start + 1, start + n))

(* Seeded fault: drop copies as many elements as the list has.             *)
DropFrom(c, m, cells, n) ==
  CASE n < 0 -> Stop(m, "trap")
    [] n >= 0 /\ c = "take" -> Slice(m, cells, 0, n)
    [] n >= 0 /\ c = "drop" -> Slice(m, cells, n, Len(cells))

(* fcvt_to_uint.                                                           *)
TakeOrDrop(c, m, cells, n) ==
  CASE n < 0 -> Stop(m, "trap")
    [] n >= 0 /\ c = "take" -> Slice(m, cells, 0, n)
    [] n >= 0 /\ c = "drop" -> Slice(m, cells, n, Len(cells) - n)

Range64(from, to) ==
  [i \in 1..(IF to > from THEN to - from ELSE 0) |-> Float(from + i - 1)]

(* On a word known to be a list, except `range'.                           *)
ListOp(c, vs, m) ==
  IF c.c = "range" THEN ListOfWords(m, Range64(vs[1].n, vs[2].n))
  ELSE IF ~IsObject(m, vs[1], "list") THEN Stop(m, "garbage")
  ELSE CASE
       c.c = "length" -> Push(m, Float(Len(Cells(m, vs[1]))))
    [] c.c = "head"   -> Load(m, vs[1], "list", 1, c.ty, "bounds")
    [] c.c = "index"  -> Load(m, vs[1], "list", vs[2].n + 1, c.ty, "bounds")
    [] c.c = "tail"   -> Slice(m, Cells(m, vs[1]), 1, Len(Cells(m, vs[1])) - 1)
    [] c.c \in {"take", "drop"} -> TakeOrDrop(c.c, m, Cells(m, vs[1]), vs[2].n)
    [] c.c = "concat" ->
         IF IsObject(m, vs[2], "list")
         THEN ListOfWords(m, Cells(m, vs[1]) \o Cells(m, vs[2])) ELSE Stop(m, "garbage")

(* What is read of a word to compare or display it at a static type is     *)
(* what it should be.                                                      *)
RECURSIVE Readable(_, _, _), Equals(_, _, _, _), Shown(_, _, _)
Readable(m, w, ty) ==
  CASE ty.t \in {"null", "fn"} -> TRUE
    [] ty.t \in {"number", "bool"} -> w.ty = IrType(ty)
    [] ty.t = "string" -> HasText(w)
    [] ty.t = "list"   -> IsObject(m, w, "list")
                          /\ \A i \in DOMAIN Cells(m, w) : Readable(m, Cells(m, w)[i], ty.elem)
    [] ty.t = "record" -> IsObject(m, w, "record") /\ Len(Cells(m, w)) >= Len(ty.tys)
                          /\ \A i \in DOMAIN ty.tys : Readable(m, Cells(m, w)[i], ty.tys[i])

Equals(m, l, r, ty) ==
  CASE ty.t \in {"record", "fn"} -> FALSE
    [] ty.t = "list" ->
         /\ Len(Cells(m, l)) = Len(Cells(m, r))
         /\ \A i \in DOMAIN Cells(m, l) : Equals(m, Cells(m, l)[i], Cells(m, r)[i], ty.elem)
    [] OTHER -> l = r
Equal(o, ty, vs, m) ==
  IF \A w \in Range(vs) : Readable(m, w, ty)
  THEN Push(m, Byte(Equals(m, vs[1], vs[2], ty) = (o = "Eq"))) ELSE Stop(m, "garbage")

(* Fields are displayed in the order of their names.                       *)
Shown(m, w, ty) ==
  CASE ty.t = "number" -> V!Number(w.n)
    [] ty.t = "string" -> V!Text(w.s)
    [] ty.t = "bool"   -> V!Boolean(w.b)
    [] ty.t = "null"   -> V!Null
    [] ty.t = "fn"     -> [k |-> "[function]"]
    [] ty.t = "list"   ->
         [k |-> "list", xs |-> [i \in DOMAIN Cells(m, w) |-> Shown(m, Cells(m, w)[i], ty.elem)]]
    [] ty.t = "record" ->
         LET byName(i, j) == SelectInSeq(FieldOrder, LAMBDA n : n = ty.names[i])
                             < SelectInSeq(FieldOrder, LAMBDA n : n = ty.names[j])
             order == SetToSortSeq(DOMAIN ty.tys, LAMBDA i, j :
                        byName(i, j) \/ (~byName(j, i) /\ i < j))
         IN  [k |-> "block", fs |-> [n \in DOMAIN order |->
                <<ty.names[order[n]], Shown(m, Cells(m, w)[order[n]], ty.tys[order[n]])>>]]
DisplayWord(m, w, ty) ==
  IF Readable(m, w, ty) THEN [m EXCEPT !.shown = Shown(m, w, ty)] ELSE Stop(m, "garbage")

ToText(m, w, ty) ==
  CASE ty.t = "number" -> Push(m, Address(ToString(w.n)))
    [] ty.t = "bool"   -> Push(m, Address(IF w.b THEN "true" ELSE "false"))
    [] ty.t = "null"   -> Push(m, Address("null"))
    [] ty.t = "string" -> IF HasText(w) THEN Push(m, w) ELSE Stop(m, "garbage")

ArithWord(o, l, r) ==
  IF o \in {"Add", "Sub", "Mul"} THEN Float(V!Arith(o, l.n, r.n)) ELSE Byte(V!Compare(o, l.n, r.n))

-----------------------------------------------------------------------------
(* Execution.  An activation of a function has its closure, its arguments, *)
(* and the number of calls it is in.                                       *)
Activation(clo, args, depth) == [clo |-> clo, args |-> args, depth |-> depth]
InMainFunction == Activation(Unset, <<>>, 0)

MaterializeAt(c, vs, m) ==
  New(m, "closure", c.x.key,
      [i \in DOMAIN funcs[c.x.key].captures |->
         LET j == SelectInSeq(c.x.fills, LAMBDA cell : cell = i)
         IN  IF j = 0 THEN Unset ELSE vs[j]])

(* The function behind a word has the signature that the call expects.     *)
HasSignature(m, w, params, ret) ==
  /\ IsObject(m, w, "closure")
  /\ IrTypes(m.mem[w.p].key[2].args) = params /\ IrType(m.mem[w.p].key[2].ret) = ret

RECURSIVE Exec(_, _, _), ExecAll(_, _, _), Loop(_, _, _, _, _, _)

ExecAll(cs, a, m) ==
  IF cs = <<>> THEN m ELSE ExecAll(Tail(cs), a, Exec(Head(cs), a, m))

(* A call leaves the frames of the caller as they are.                     *)
Return(m, frames) == [m EXCEPT !.frames = frames]
CallFunction(key, clo, args, a, m) ==
  IF a.depth >= MaxDepth THEN Stop(m, "overflow")
  ELSE Return(Exec(code[key], Activation(clo, args, a.depth + 1), Return(m, <<>>)), m.frames)
CallClosure(w, params, ret, args, a, m) ==
  IF HasSignature(m, w, params, ret) /\ [i \in DOMAIN args |-> args[i].ty] = params
  THEN CallFunction(m.mem[w.p].key, w, args, a, m)
  ELSE Stop(m, "garbage")

(* The inline loops over the elements that are left.                       *)
Took(c, fn, todo, acc, a, m) ==
  CASE m.how # "ok" -> m
    [] m.how = "ok" /\ c.c = "map" ->
         Loop(c, fn, Tail(todo), Append(acc, Last(m.stack)), a, Pop(m, 1))
    [] m.how = "ok" /\ c.c = "filter" ->
         Loop(c, fn, Tail(todo), IF Last(m.stack).b THEN Append(acc, Head(todo)) ELSE acc,
              a, Pop(m, 1))
    [] m.how = "ok" /\ c.c = "reduce" -> Loop(c, fn, Tail(todo), Last(m.stack), a, Pop(m, 1))
Loop(c, fn, todo, acc, a, m) ==
  CASE todo = <<>> /\ c.c = "reduce" -> Push(m, acc)
    [] todo = <<>> /\ c.c # "reduce" -> ListOfWords(m, acc)
    [] OTHER ->
         Took(c, fn, todo, acc, a,
              CallClosure(fn, c.x.params, c.x.ret,
                IF c.c = "reduce" THEN <<acc, Head(todo)>> ELSE <<Head(todo)>>, a, m))
HigherOrder(c, vs, a, m) ==
  IF IsObject(m, vs[1], "list")
  THEN Loop(c, Last(vs), Cells(m, vs[1]), IF c.c = "reduce" THEN vs[2] ELSE <<>>, a, m)
  ELSE Stop(m, "garbage")

(* An instruction whose operands are vs.                                   *)
Do(c, a, vs, m) ==
  CASE c.c = "const"   -> Push(m, WordOf(c.x))
    [] c.c = "param"   -> Push(m, a.args[c.x])
    [] c.c = "capture" -> Load(m, a.clo, "closure", c.x, c.ty, "garbage")
    [] c.c = "top"     -> PushAs(m, m.tops[c.x], c.ty)
    [] c.c = "cell"    -> Load(m, m.frames[c.x.frame], "record", c.x.slot, c.ty, "garbage")
    [] c.c = "closure" -> MaterializeAt(c, vs, m)
    [] c.c = "put"     -> Store(m, Last(m.frames), c.x, vs[1])
    [] c.c = "fill"    -> Store(m, Cells(m, Last(m.frames))[c.x.fn], c.x.cell, vs[1])
    [] c.c = "text"    -> ToText(m, vs[1], c.x)
    [] c.c = "concat_text" ->
         Push(m, Address(FoldLeft(LAMBDA out, w : out \o w.s, "", vs)))
    [] c.c = "equal"   -> Equal(c.x.o, c.x.ty, vs, m)
    [] c.c = "arith"   -> Push(m, ArithWord(c.x, vs[1], vs[2]))
    [] c.c = "negate"  -> Push(m, Float(0 - vs[1].n))
    [] c.c = "not"     -> Push(m, Byte(~vs[1].b))
    [] c.c = "field"   -> Load(m, vs[1], "record", c.x, c.ty, "garbage")
    [] c.c = "list"    -> ListOfWords(m, vs)
    [] c.c \in {"map", "filter", "reduce"} -> HigherOrder(c, vs, a, m)
    [] c.c = "direct"   -> CallFunction(c.x, vs[1], Tail(vs), a, m)
    [] c.c = "indirect" -> CallClosure(vs[1], c.x, c.ty, Tail(vs), a, m)
    [] c.c = "allocate" ->
         [Object(m, "closure", c.x.key, Blank(Len(funcs[c.x.key].captures)))
            EXCEPT !.tops[c.x.top] = Pointer(Len(m.mem) + 1)]
    [] c.c = "define"   -> [m EXCEPT !.tops[c.x] = vs[1]]
    [] c.c = "fill_top" -> Store(m, m.tops[c.x.top], c.x.cell, vs[1])
    [] c.c = "display"  -> DisplayWord(m, vs[1], c.x)
    [] OTHER -> ListOp(c, vs, m)

Perform(c, a, m) ==
  IF m.how # "ok" THEN m ELSE Do(c, a, TopOf(m, Len(c.kids)), Pop(m, Len(c.kids)))

(* The first operand decides which of the others is executed.              *)
Choose(yes, no, a, m) ==
  IF m.how # "ok" THEN m ELSE ExecAll(IF Last(m.stack).b THEN yes ELSE no, a, Pop(m, 1))
Constant(b) == Code("const", "i8", V!Boolean(b), <<>>)

Exec(c, a, m) ==
  CASE m.how # "ok" -> m
    [] c.c = "if"   -> Choose(<<c.kids[2]>>, <<c.kids[3]>>, a, Exec(c.kids[1], a, m))
    [] c.c = "And"  -> Choose(<<c.kids[2]>>, <<Constant(FALSE)>>, a, Exec(c.kids[1], a, m))
    [] c.c = "Or"   -> Choose(<<Constant(TRUE)>>, <<c.kids[2]>>, a, Exec(c.kids[1], a, m))
    [] c.c = "main" -> ExecAll(c.kids, a, m)
    [] c.c \in {"record", "locals"} -> Leave(c.c, ExecAll(c.kids, a, Enter(m, c.x)))
    [] OTHER -> Perform(c, a, ExecAll(c.kids, a, m))

-----------------------------------------------------------------------------
RunMain ==
  /\ stage = "run"
  /\ \E m \in {Exec(main, InMainFunction, Started)} :
       outcome' = [how |-> m.how, shown |-> m.shown]
  /\ stage' = "ran"
  /\ UNCHANGED <<typeVars, asked, worklist, instances, funcs, genVars>>

Terminated == stage \in Ended /\ UNCHANGED vars

Init == TypeInit /\ JitInit /\ GenInit /\ outcome = [how |-> "not run", shown |-> V!Null]
Next ==
  \/ TypeNext /\ UNCHANGED <<jitVars, genVars, outcome>>
  \/ JitNext /\ UNCHANGED <<genVars, outcome>>
  \/ GenNext /\ UNCHANGED outcome
  \/ RunMain
  \/ Terminated
Spec == Init /\ [][Next]_vars
=============================================================================
