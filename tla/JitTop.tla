------------------------------- MODULE JitTop -------------------------------
(***************************************************************************)
(* define_main (jit.rs): the top-level definitions.  Closures are          *)
(* allocated, then all values are evaluated in source order, and only then *)
(* are the captures of the functions stored; a check on the references of  *)
(* each value refuses the orders that would read a later one.              *)
(*                                                                         *)
(* Every definition has one instance: the functions are monomorphic.       *)
(***************************************************************************)
EXTENDS JitCode

VARIABLES
  phase,        (* "A", "B1", then "compiled" or "rejected"                *)
  defined       (* the slots whose variable the emitted code has defined   *)

vars == <<scope, code, memory, phase, defined>>

Init ==
  /\ CodeInit
  /\ phase   = "A"
  /\ defined = {}

-----------------------------------------------------------------------------
(* Phase A.                                                                *)
AllocateFunctions ==
  /\ phase = "A"
  /\ code'    = Append(code, Alloc(Functions))
  /\ defined' = Functions
  /\ phase'   = "B1"
  /\ UNCHANGED <<scope, memory>>

(* Seeded faults: captured functions count as values; the comparison is    *)
(* off by one.                                                             *)
AnyCaptures(f)         == Refs(f)
ReadsMuchLaterValue(v) == \E r \in Refs(v) \cap Values : r > v + 1

(* The values a function captures itself; the check looks at the last.     *)
ValueCaptures(f) == Refs(f) \cap Values

(* The forward-reference check on value v.                                 *)
ReadsLaterValue(v) == \E r \in Refs(v) \cap Values : r > v
CallsTooEarly(v)   == \E f \in Refs(v) \cap Functions : \E r \in ValueCaptures(f) : r > v

(* Phase B1: the first value not evaluated yet.                            *)
Due(v) == v \in Values \ defined /\ \A u \in Values \ defined : v <= u

(* Seeded fault: the variable of the next slot is defined.                 *)
CompileValueOffByOne ==
  /\ phase = "B1"
  /\ \E v \in Slots :
       /\ Due(v)
       /\ ~ReadsLaterValue(v) /\ ~CallsTooEarly(v)
       /\ code'    = Append(code, Evaluate(v))
       /\ defined' = defined \cup {v + 1}
  /\ UNCHANGED <<scope, memory, phase>>

CompileValue ==
  /\ phase = "B1"
  /\ \E v \in Slots :
       /\ Due(v)
       /\ ~ReadsLaterValue(v) /\ ~CallsTooEarly(v)
       /\ code'    = Append(code, Evaluate(v))
       /\ defined' = defined \cup {v}
  /\ UNCHANGED <<scope, memory, phase>>

RejectValue ==
  /\ phase = "B1"
  /\ \E v \in Slots : Due(v) /\ (ReadsLaterValue(v) \/ CallsTooEarly(v))
  /\ phase' = "rejected"
  /\ UNCHANGED <<scope, code, memory, defined>>

(* Phase B2, and the main body.                                            *)
(* Seeded fault: only the captured values are stored.                      *)
CapturedValues == {p \in Functions \X Slots : p[2] \in Refs(p[1]) \cap Values}

Captures == {p \in Functions \X Slots : p[2] \in Refs(p[1])}

FillCaptures ==
  /\ phase = "B1" /\ Slots \subseteq defined
  /\ code'  = code \o <<Fill(Captures), Evaluate(Body)>>
  /\ phase' = "compiled"
  /\ UNCHANGED <<scope, memory, defined>>

RunCode ==
  /\ phase = "compiled"
  /\ Run
  /\ UNCHANGED <<scope, code, phase, defined>>

Next ==
  AllocateFunctions \/ CompileValue \/ RejectValue \/ FillCaptures \/ RunCode

Spec == Init /\ [][Next]_vars

-----------------------------------------------------------------------------
TypeOK ==
  /\ MemoryOK
  /\ phase \in {"A", "B1", "compiled", "rejected"}
  /\ defined \subseteq Slots

(* What is read too early is read by a function that a value called, or is *)
(* the value's own variable: no value reads another that comes later, and  *)
(* from the main body on nothing is missing.                               *)
GarbageOnlyInCalledFunctions ==
  garbage => /\ Head(calls) # Body
             /\ Len(calls) = 1 => \A r \in Refs(Active) : Read(r) = Unset => r = Active

(* No program is refused whose values can be evaluated in source order.    *)
RejectsOnlyForwardNeeds == phase = "rejected" => \E v \in Values : NeedsLater(scope, v)

(* A value body that calls a function whose captures are not stored yet is *)
(* refused (jit.rs:1522): while the values are evaluated, no function that *)
(* runs lacks a capture.                                                   *)
NoValueRunsAnIncompleteFunction == garbage => Len(calls) < 2
=============================================================================
