------------------------------- MODULE JitCode -------------------------------
(***************************************************************************)
(* The code the JIT emits for the definitions of one scope (the top level, *)
(* or a block), and its execution.  A definition is a function literal or  *)
(* a value; its references to definitions of the same scope are all that   *)
(* is kept of its body.  What a body does with the closures it gets at is  *)
(* a choice: it may call them, pass them on, return them, or put them into *)
(* the records and lists it makes.                                         *)
(*                                                                         *)
(* A function is a heap closure whose captures are cells of their own: a   *)
(* body reads a sibling through its closure, a value reads the slot.       *)
(* Memory is not cleared when it is allocated, so a cell read before it is *)
(* stored holds garbage.  JitBlock and JitTop choose the order of the      *)
(* instructions.                                                           *)
(***************************************************************************)
EXTENDS Naturals, Sequences, SequencesExt, FiniteSets

CONSTANTS
  NumDefs,      (* definitions in the scope                                *)
  Scopes,       (* the scopes a run may compile: slot -> [fn, refs]        *)
  MaxCalls      (* bound: calls nested inside each other                   *)

Slots == 1..NumDefs
Body  == NumDefs + 1     (* what follows the definitions; it may use them all *)

ASSUME ScopesAssumption ==
  /\ NumDefs \in Nat /\ MaxCalls \in Nat \ {0}
  /\ Scopes \subseteq [Slots -> [fn : BOOLEAN, refs : SUBSET Slots]]

VARIABLES
  scope,        (* the definitions being compiled                          *)
  code,         (* the instructions emitted so far                         *)
  pc,           (* the next one to run                                     *)
  slots,        (* run time: what each slot holds                          *)
  caps,         (* run time: what each capture of each closure holds       *)
  calls,        (* run time: the value or body being evaluated, then the   *)
                (* functions it is inside of, innermost last               *)
  hand,         (* run time: the functions whose closures these have got   *)
                (* at; by arguments and results any of them may have any   *)
  garbage       (* a cell was read before it was stored                    *)

memory == <<pc, slots, caps, calls, hand, garbage>>

(* What a cell holds: nothing yet, or a value, of which only the functions *)
(* count whose closures can be got out of it.                              *)
Unset == {0}
Contents == {Unset} \cup SUBSET Slots

IsFunction(i) == i \in Slots /\ scope[i].fn
Functions     == {i \in Slots : IsFunction(i)}
Values        == Slots \ Functions
Refs(i)       == IF i = Body THEN Slots ELSE scope[i].refs

(* Instructions: allocate closures and store them in their slots; store    *)
(* captures <<f, r>>, slot r in the closure of f; evaluate a value.        *)
Alloc(fs)   == [op |-> "alloc", on |-> fs]
Fill(pairs) == [op |-> "fill", on |-> pairs]
Evaluate(v) == [op |-> "evaluate", on |-> v]

CodeInit ==
  /\ scope   \in Scopes
  /\ code    = <<>>
  /\ pc      = 1
  /\ slots   = [i \in Slots \cup {Body} |-> Unset]
  /\ caps    = [f \in Slots |-> [r \in Slots |-> Unset]]
  /\ calls   = <<>>
  /\ hand    = {}
  /\ garbage = FALSE

-----------------------------------------------------------------------------
(* Execution.                                                              *)
Running(op) == ~garbage /\ calls = <<>> /\ pc <= Len(code) /\ code[pc].op = op
Operand     == code[pc].on

RunAlloc ==
  /\ Running("alloc")
  /\ slots' = [i \in DOMAIN slots |-> IF i \in Operand THEN {i} ELSE slots[i]]
  /\ pc' = pc + 1
  /\ UNCHANGED <<caps, calls, hand, garbage>>

RunFill ==
  /\ Running("fill")
  /\ caps' = [f \in Slots |->
                [r \in Slots |-> IF <<f, r>> \in Operand THEN slots[r] ELSE caps[f][r]]]
  /\ pc' = pc + 1
  /\ UNCHANGED <<slots, calls, hand, garbage>>

(* The cell that what is running reads for a reference, and the functions  *)
(* it gets at by reading all it can.                                       *)
Cell(a, r) == IF IsFunction(a) THEN caps[a][r] ELSE slots[r]
Found(a)   == UNION ({Cell(a, r) : r \in Refs(a)} \ {Unset})

RunEvaluate ==
  /\ Running("evaluate")
  /\ calls' = <<Operand>>
  /\ hand'  = Found(Operand)
  /\ UNCHANGED <<pc, slots, caps, garbage>>

(* The evaluation uses its references in any order, as often as it likes.  *)
Evaluating == ~garbage /\ calls # <<>>
Active     == Last(calls)
Read(r)    == Cell(Active, r)

ReadGarbage ==
  /\ Evaluating
  /\ \E r \in Refs(Active) : Read(r) = Unset
  /\ garbage' = TRUE
  /\ UNCHANGED <<pc, slots, caps, calls, hand>>

(* A closure that was read, passed as an argument, returned by a call, or  *)
(* inside one of these.                                                    *)
CallClosure ==
  /\ Evaluating /\ Len(calls) < MaxCalls
  /\ \E f \in hand :
       /\ calls' = Append(calls, f)
       /\ hand'  = hand \cup Found(f)
  /\ UNCHANGED <<pc, slots, caps, garbage>>

(* What the callee has got at may be in its result.                        *)
ReturnCall ==
  /\ Evaluating /\ Len(calls) > 1
  /\ calls' = Front(calls)
  /\ UNCHANGED <<pc, slots, caps, hand, garbage>>

(* So it may be in the value.                                              *)
StoreResult ==
  /\ Evaluating /\ Len(calls) = 1
  /\ \E held \in SUBSET hand : slots' = [slots EXCEPT ![Active] = held]
  /\ calls' = <<>> /\ hand' = {}
  /\ pc' = pc + 1
  /\ UNCHANGED <<caps, garbage>>

Run ==
  RunAlloc \/ RunFill \/ RunEvaluate \/ ReadGarbage \/ CallClosure \/ ReturnCall
  \/ StoreResult

MemoryOK ==
  /\ scope \in Scopes
  /\ pc \in 1..(Len(code) + 1)
  /\ slots \in [Slots \cup {Body} -> Contents]
  /\ caps  \in [Slots -> [Slots -> Contents]]
  /\ calls \in Seq(Slots \cup {Body}) /\ Len(calls) <= MaxCalls
  /\ hand \subseteq Slots
  /\ garbage \in BOOLEAN

-----------------------------------------------------------------------------
(* Does evaluating value v of scope s need a value that comes no earlier    *)
(* than v itself: directly, or through any chain of functions?             *)
ClosedUnderCalls(s, R) == \A f \in R : s[f].fn => s[f].refs \subseteq R
Reached(s, v) ==
  {k \in Slots : \A R \in SUBSET Slots :
                   s[v].refs \subseteq R /\ ClosedUnderCalls(s, R) => k \in R}
NeedsLater(s, v) == \E k \in Reached(s, v) : ~s[k].fn /\ k >= v

(* When the body starts, every capture of every function holds what its    *)
(* slot holds, so a closure that leaves the scope is complete.             *)
CompleteBeforeTheBody ==
  (calls # <<>> /\ Head(calls) = Body) =>
    /\ \A f \in Functions : \A r \in Refs(f) : caps[f][r] = slots[r]
    /\ \A i \in Slots : slots[i] # Unset

(* Compiled code never reads a cell that was not stored: a scope whose     *)
(* evaluation would is refused at compile time.                            *)
NoGarbageIsRead == ~garbage
=============================================================================
