------------------------------- MODULE Values -------------------------------
(***************************************************************************)
(* The run-time values of spctr and the pure operations on them:           *)
(* arithmetic, comparison, truthiness, and the first-order functions of    *)
(* the List module.  An operation returns a value or Failed (an Err).      *)
(* Numbers are integers: rounding, NaN and division are not modelled.      *)
(***************************************************************************)
EXTENDS Integers, Sequences, SequencesExt

Number(n)   == [k |-> "number", n |-> n]
Text(s)     == [k |-> "string", s |-> s]
Boolean(b)  == [k |-> "bool", b |-> b]
Null        == [k |-> "null"]
List(xs, rc) == [k |-> "list", xs |-> xs, rc |-> rc]
Record(f)   == [k |-> "block", frame |-> f]
Failed      == [k |-> "failed"]

(* A list is an Rc: rc tells one list from another with the same items.    *)
(* Where values are never shared, every list has this one.                 *)
Unshared    == 0

(* Function::Native keeps its environment, Function::Foreign is a builtin. *)
Native(arity, body, env) ==
  [k |-> "function", arity |-> arity, body |-> body, env |-> env]
Foreign(name) == [k |-> "foreign", name |-> name]

IsNumber(v)   == v.k = "number"
IsList(v)     == v.k = "list"
IsCallable(v) == v.k \in {"function", "foreign"}
Scalars       == {"number", "string", "bool", "null"}

IsTruthy(v) ==
  CASE v.k = "bool"   -> v.b
    [] v.k = "null"   -> FALSE
    [] v.k = "number" -> v.n # 0
    [] OTHER          -> TRUE

(* value_eq: functions and records are never equal to anything, themselves *)
(* included; lists are equal if they are one list (Rc::ptr_eq) or have the *)
(* same length and equal items.  Compared are the pairs that this leads    *)
(* to, level by level.                                                     *)
MaxNesting == 3          (* bound: items nested deeper are not looked at   *)

ScalarEq(a, b)   == a.k \in Scalars /\ a.k = b.k /\ a = b

(* Seeded fault: lists are compared item by item only.                     *)
NoListAtOnce(a, b) == FALSE
OneList(a, b)    == IsList(a) /\ IsList(b) /\ a.rc = b.rc /\ a.rc # Unshared
SameLength(a, b) == IsList(a) /\ IsList(b) /\ Len(a.xs) = Len(b.xs)

ItemPairs(a, b) ==
  IF SameLength(a, b) /\ ~OneList(a, b)
  THEN {<<a.xs[i], b.xs[i]>> : i \in DOMAIN a.xs} ELSE {}
Compared(a, b) ==
  LET level[n \in 0..MaxNesting] ==
        IF n = 0 THEN {<<a, b>>}
        ELSE UNION {ItemPairs(p[1], p[2]) : p \in level[n - 1]}
  IN  UNION {level[n] : n \in 0..MaxNesting}

ValueEq(a, b) ==
  \A p \in Compared(a, b) :
    ScalarEq(p[1], p[2]) \/ OneList(p[1], p[2]) \/ SameLength(p[1], p[2])

Compare(o, a, b) ==
  CASE o = "Gt" -> a > b
    [] o = "Lt" -> a < b
    [] o = "Ge" -> a >= b
    [] o = "Le" -> a <= b

Arith(o, a, b) ==
  CASE o = "Add" -> a + b
    [] o = "Sub" -> a - b
    [] o = "Mul" -> a * b

ApplyBinop(o, l, r) ==
  IF o \in {"Eq", "Ne"} THEN Boolean(ValueEq(l, r) = (o = "Eq"))
  ELSE IF ~(IsNumber(l) /\ IsNumber(r)) THEN Failed
  ELSE IF o \in {"Add", "Sub", "Mul"} THEN Number(Arith(o, l.n, r.n))
  ELSE Boolean(Compare(o, l.n, r.n))

ApplyUnaryop(o, v) ==
  CASE o = "Neg" /\ IsNumber(v)  -> Number(0 - v.n)
    [] o = "Not" /\ v.k = "bool" -> Boolean(~v.b)
    [] OTHER -> Failed

(* The text an embedded "${...}" contributes; a list, a function or a      *)
(* record cannot be interpolated.                                          *)
CanInterpolate(v) == v.k \in Scalars
TextOf(v) ==
  CASE v.k = "string" -> v.s
    [] v.k = "number" -> ToString(v.n)
    [] v.k = "bool"   -> IF v.b THEN "true" ELSE "false"
    [] v.k = "null"   -> "null"
Interpolate(parts) ==
  Text(FoldLeft(LAMBDA out, v : out \o TextOf(v), "", parts))

(* Seeded fault: a negative number wraps, as the cast of an i64 does.      *)
AsUsizeWrapping(n) == IF n < 0 THEN 2 ^ 16 + n ELSE n

(* `n as usize' saturates at zero.                                         *)
AsUsize(n)    == IF n < 0 THEN 0 ELSE n
Clamp(n, xs)  == IF AsUsize(n) < Len(xs) THEN AsUsize(n) ELSE Len(xs)

IndexList(xs, n) ==
  IF AsUsize(n) < Len(xs) THEN xs[AsUsize(n) + 1] ELSE Failed

(* The List functions that call nothing back, given the right number of    *)
(* arguments; `map', `filter' and `reduce' are steps of the evaluator.  A  *)
(* list they build is a new one, rc.                                       *)
PureListArity ==
  [range |-> 2, length |-> 1, head |-> 1, tail |-> 1, concat |-> 2,
   take |-> 2, drop |-> 2]

NumbersFrom(from, to, rc) ==
  List([i \in 1..AsUsize(to - from) |-> Number(from + i - 1)], rc)
FunctionOf(name, xs, a, rc) ==
  CASE name = "length" -> Number(Len(xs))
    [] name = "head"   -> IF xs = <<>> THEN Failed ELSE Head(xs)
    [] name = "tail"   -> IF xs = <<>> THEN Failed ELSE List(Tail(xs), rc)
    [] name = "concat" -> IF IsList(a[2]) THEN List(xs \o a[2].xs, rc) ELSE Failed
    [] name = "take"   ->
         IF IsNumber(a[2]) THEN List(SubSeq(xs, 1, Clamp(a[2].n, xs)), rc) ELSE Failed
    [] name = "drop"   ->
         IF IsNumber(a[2]) THEN List(SubSeq(xs, Clamp(a[2].n, xs) + 1, Len(xs)), rc)
         ELSE Failed
ListFunction(name, a, rc) ==
  IF name = "range"
  THEN IF IsNumber(a[1]) /\ IsNumber(a[2]) THEN NumbersFrom(a[1].n, a[2].n, rc) ELSE Failed
  ELSE IF IsList(a[1]) THEN FunctionOf(name, a[1].xs, a, rc) ELSE Failed
=============================================================================
