----------------------------- MODULE CallByName -----------------------------
(***************************************************************************)
(* What a program means, defined without cells, sharing or a stack: a      *)
(* variable stands for its definition, evaluated afresh at each use.  The  *)
(* evaluation has a budget of uses and calls; a value that needs more than *)
(* that (a binding that depends on itself, for instance) is Failed.        *)
(* Imports are resolved against the directory of the file they are         *)
(* written in.  Counts and indices of lists are compared with positions,   *)
(* and not converted.                                                      *)
(*                                                                         *)
(* An environment is a chain of scopes: definitions, or argument values.   *)
(***************************************************************************)
EXTENDS Values, Syntax, FiniteSets

CONSTANTS Files, Locate, DirOf, MainDir, FieldOrder,
          Budget,       (* uses of variables and calls on one chain        *)
          Shares        (* are lists that are alike in everything one list *)

Nowhere == [kind |-> "end"]
Scope(defs, names, up) ==
  [kind |-> "defs", defs |-> defs, names |-> names, up |-> up]
Arguments(vals, up) == [kind |-> "args", vals |-> vals, up |-> up]
Module(names)  == [kind |-> "module", names |-> names, up |-> Nowhere]
FileRoot(d)    == [kind |-> "root", dir |-> d, up |-> Nowhere]

RecordOf(scope) == [k |-> "block", scope |-> scope]
Builtins(slot, d) ==
  CASE slot = 1 -> RecordOf(Module(<<"range", "length", "head", "tail", "concat", "take",
                                     "drop", "map", "filter", "reduce">>))
    [] slot = 4 -> [k |-> "foreign", name |-> "import", dir |-> d]
    [] OTHER    -> RecordOf(Module(<<>>))

LastIndex(names, name) ==
  CHOOSE s \in DOMAIN names :
    names[s] = name /\ \A t \in DOMAIN names : names[t] = name => t <= s

RECURSIVE Outward(_, _)
Outward(scope, n) == IF n = 0 THEN scope ELSE Outward(scope.up, n - 1)

RECURSIVE Den(_, _, _), DenAll(_, _, _, _), Invoke(_, _, _), Fold(_, _, _, _, _)

(* The value bound at a slot of a scope, and at a name of a record.        *)
Bound(scope, slot, fuel) ==
  CASE scope.kind = "args"   -> scope.vals[slot]
    [] scope.kind = "root"   -> Builtins(slot, scope.dir)
    [] scope.kind = "module" -> Foreign(scope.names[slot])
    [] scope.kind = "defs"   ->
         IF fuel = 0 THEN Failed ELSE Den(scope.defs[slot], scope, fuel - 1)
Field(v, name, fuel) ==
  IF v.k = "block" /\ Contains(v.scope.names, name)
  THEN Bound(v.scope, LastIndex(v.scope.names, name), fuel) ELSE Failed

(* The operands from the i-th on, or <<Failed>> if one of them fails.      *)
DenAll(es, i, scope, fuel) ==
  IF i > Len(es) THEN <<>>
  ELSE LET v == Den(es[i], scope, fuel)
           rest == DenAll(es, i + 1, scope, fuel)
       IN  IF v = Failed \/ Contains(rest, Failed) THEN <<Failed>> ELSE <<v>> \o rest

(* Lists that nothing tells apart may be one list, which is equal to       *)
(* itself even if it holds functions or records.                           *)
Equal(l, r) == ValueEq(l, r) \/ (Shares /\ IsList(l) /\ IsList(r) /\ l = r)

(* How many items of a list come before position n, counted from 0.        *)
Before(xs, n) == Cardinality({i \in DOMAIN xs : i <= n})

ItemAt(xs, n) == IF Before(xs, n) < Len(xs) THEN xs[Before(xs, n) + 1] ELSE Failed

ListMeaning(name, a) ==
  CASE name = "range" ->
         IF IsNumber(a[1]) /\ IsNumber(a[2])
         THEN List([i \in 1..(a[2].n - a[1].n) |-> Number(a[1].n + i - 1)], Unshared)
         ELSE Failed
    [] name \in {"take", "drop"} ->
         IF ~IsList(a[1]) \/ ~IsNumber(a[2]) THEN Failed
         ELSE LET xs == a[1].xs
                  n  == Before(xs, a[2].n)
              IN  List(IF name = "take" THEN SubSeq(xs, 1, n) ELSE SubSeq(xs, n + 1, Len(xs)),
                       Unshared)
    [] OTHER -> ListFunction(name, a, Unshared)

Operate(e, vs, fuel) ==
  CASE e.op = "List"   -> List(vs, Unshared)
    [] e.op = "Interpolation" ->
         IF \A i \in DOMAIN vs : CanInterpolate(vs[i]) THEN Interpolate(vs) ELSE Failed
    [] e.op = "Binary" ->
         IF e.o \in {"Eq", "Ne"} THEN Boolean(Equal(vs[1], vs[2]) = (e.o = "Eq"))
         ELSE ApplyBinop(e.o, vs[1], vs[2])
    [] e.op = "Unary"  -> ApplyUnaryop(e.o, vs[1])
    [] e.op = "Access" -> Field(vs[1], e.name, fuel)
    [] e.op = "Index"  ->
         IF IsList(vs[1]) /\ IsNumber(vs[2]) THEN ItemAt(vs[1].xs, vs[2].n)
         ELSE IF vs[2].k = "string" THEN Field(vs[1], vs[2].s, fuel) ELSE Failed
    [] e.op = "Call"   -> Invoke(Head(vs), Tail(vs), fuel)

Den(e, scope, fuel) ==
  CASE e.op = "Literal"  -> e.v
    [] e.op = "Variable" -> Bound(Outward(scope, e.depth), e.slot, fuel)
    [] e.op = "Function" -> Native(e.arity, e.body, scope)
    [] e.op = "Block"    -> RecordOf(Scope(e.defs, e.names, scope))
    [] e.op = "ImmediateBlock" -> Den(e.body, Scope(e.defs, <<>>, scope), fuel)
    [] e.op = "If" ->
         LET c == Den(e.cond, scope, fuel)
         IN  IF c = Failed THEN Failed
             ELSE Den(IF IsTruthy(c) THEN e.cons ELSE e.alt, scope, fuel)
    [] e.op \in {"And", "Or"} ->
         LET l == Den(e.l, scope, fuel)
         IN  IF l = Failed \/ IsTruthy(l) = (e.op = "Or") THEN l
             ELSE Den(e.r, scope, fuel)
    [] OTHER ->
         LET vs == DenAll(e.kids, 1, scope, fuel)
         IN  IF Contains(vs, Failed) THEN Failed ELSE Operate(e, vs, fuel)

(* An imported file means nothing if one of its definitions fails.         *)
DenFile(file, fuel) ==
  LET scope == Scope(Files[file].defs, <<>>, FileRoot(DirOf[file]))
  IN  IF \E i \in DOMAIN scope.defs : Bound(scope, i, fuel) = Failed THEN Failed
      ELSE Den(Files[file].body, scope, fuel)

(* map, filter and reduce over the items still to do.                      *)
Fold(how, fn, todo, acc, fuel) ==
  IF todo = <<>> THEN (IF how = "reduce" THEN acc ELSE List(acc, Unshared))
  ELSE LET x == Head(todo)
           v == Invoke(fn, IF how = "reduce" THEN <<acc, x>> ELSE <<x>>, fuel)
       IN  IF v = Failed \/ (how = "filter" /\ v.k # "bool") THEN Failed
           ELSE Fold(how, fn, Tail(todo),
                     CASE how = "map"    -> Append(acc, v)
                       [] how = "filter" -> (IF v.b THEN Append(acc, x) ELSE acc)
                       [] how = "reduce" -> v, fuel)

Invoke(fn, args, fuel) ==
  IF fuel = 0 \/ ~IsCallable(fn) THEN Failed
  ELSE IF fn.k = "function"
  THEN IF Len(args) # fn.arity THEN Failed
       ELSE Den(fn.body, Arguments(args, fn.env), fuel - 1)
  ELSE CASE fn.name = "import" ->
         IF Len(args) = 1 /\ args[1].k = "string" /\ <<fn.dir, args[1].s>> \in DOMAIN Locate
         THEN DenFile(Locate[<<fn.dir, args[1].s>>], fuel - 1) ELSE Failed
    [] fn.name \in DOMAIN PureListArity ->
         IF Len(args) = PureListArity[fn.name] THEN ListMeaning(fn.name, args) ELSE Failed
    [] OTHER ->
         IF Len(args) = (IF fn.name = "reduce" THEN 3 ELSE 2) /\ IsList(args[1])
         THEN Fold(fn.name, Last(args), args[1].xs,
                   IF fn.name = "reduce" THEN args[2] ELSE <<>>, fuel - 1)
         ELSE Failed

(* The text printed for a value: each field on its own, sorted by name.    *)
RECURSIVE Render(_, _)
Render(v, fuel) ==
  CASE v = Failed   -> [k |-> "<error>"]
    [] IsCallable(v) -> [k |-> "[function]"]
    [] v.k = "list"  -> [k |-> "list", xs |-> [i \in DOMAIN v.xs |-> Render(v.xs[i], fuel)]]
    [] v.k = "block" ->
         LET shown == SelectSeq(FieldOrder, LAMBDA n : Contains(v.scope.names, n))
         IN  [k |-> "block",
              fs |-> [i \in DOMAIN shown |->
                        <<shown[i], Render(Field(v, shown[i], fuel), fuel)>>]]
    [] OTHER -> v

Meaning(stmt) ==
  Render(Den(stmt.body, Scope(stmt.defs, <<>>, FileRoot(MainDir)), Budget), Budget)
=============================================================================
