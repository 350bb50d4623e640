------------------------------ MODULE JitBlock ------------------------------
(***************************************************************************)
(* compile_block_bindings (jit.rs): the definitions of a block inside a    *)
(* function or the main body.  Functions are allocated first, values are   *)
(* evaluated in source order, and each capture of a sibling is stored as   *)
(* soon as the sibling is.                                                 *)
(***************************************************************************)
EXTENDS JitCode

VARIABLES
  phase,        (* "functions", "values", then "compiled", or "rejected"   *)
                (* (an error in phase 2) or "cyclic" (one in phase 3)      *)
  pending,      (* function -> its captures still to be stored             *)
  populated     (* the slots the code emitted so far has stored            *)

vars == <<scope, code, memory, phase, pending, populated>>

Init ==
  /\ CodeInit
  /\ phase     = "functions"
  /\ pending   = [f \in Slots |-> {}]
  /\ populated = {}

-----------------------------------------------------------------------------
(* populate_caps_until_stable: a capture is ready when its slot is stored. *)
(* Seeded faults: what is not ready is forgotten; what is done is kept.    *)
NothingWaits(pend, pop) == [f \in Slots |-> {}]
NothingDone(pend, pop)  == pend

(* The pairs <<function, slot>> that can be stored.                        *)
Ready(pend, pop)      == {p \in Slots \X Slots : p[2] \in pend[p[1]] \cap pop}
StillWaits(pend, pop) == [f \in Slots |-> pend[f] \ pop]

(* Store `on', then the captures that became ready.                        *)
Emit(instr, pend, pop) ==
  /\ code'      = code \o <<instr, Fill(Ready(pend, pop))>>
  /\ pending'   = StillWaits(pend, pop)
  /\ populated' = pop

(* Phase 1.                                                                *)
AllocateFunctions ==
  /\ phase = "functions"
  /\ Emit(Alloc(Functions),
          [f \in Slots |-> IF IsFunction(f) THEN Refs(f) ELSE {}], Functions)
  /\ phase' = "values"
  /\ UNCHANGED <<scope, memory>>

(* Phase 2: the first value not evaluated yet.                             *)
Due(v) == v \in Values \ populated /\ \A u \in Values \ populated : v <= u

(* Seeded fault: there is no such check.                                   *)
NeverIncomplete(v) == FALSE

UsesIncompleteFunction(v) == \E r \in Refs(v) : pending[r] # {}
ReadsUnpopulated(v)       == ~(Refs(v) \subseteq populated)

(* Seeded fault: the populated bit of the next slot is set.                *)
CompileValueOffByOne ==
  /\ phase = "values"
  /\ \E v \in Slots :
       /\ Due(v)
       /\ ~UsesIncompleteFunction(v) /\ ~ReadsUnpopulated(v)
       /\ Emit(Evaluate(v), pending, populated \cup {v + 1})
  /\ UNCHANGED <<scope, memory, phase>>

CompileValue ==
  /\ phase = "values"
  /\ \E v \in Slots :
       /\ Due(v)
       /\ ~UsesIncompleteFunction(v) /\ ~ReadsUnpopulated(v)
       /\ Emit(Evaluate(v), pending, populated \cup {v})
  /\ UNCHANGED <<scope, memory, phase>>

RejectValue ==
  /\ phase = "values"
  /\ \E v \in Slots : Due(v) /\ (UsesIncompleteFunction(v) \/ ReadsUnpopulated(v))
  /\ phase' = "rejected"
  /\ UNCHANGED <<scope, code, memory, pending, populated>>

(* Phase 3, and the body of the block.                                     *)
Finalize ==
  /\ phase = "values" /\ Slots \subseteq populated
  /\ IF \A f \in Slots : pending[f] = {}
     THEN phase' = "compiled" /\ code' = Append(code, Evaluate(Body))
     ELSE phase' = "cyclic" /\ UNCHANGED code
  /\ UNCHANGED <<scope, memory, pending, populated>>

RunCode ==
  /\ phase = "compiled"
  /\ Run
  /\ UNCHANGED <<scope, code, phase, pending, populated>>

Next ==
  AllocateFunctions \/ CompileValue \/ RejectValue \/ Finalize \/ RunCode

Spec == Init /\ [][Next]_vars

-----------------------------------------------------------------------------
TypeOK ==
  /\ MemoryOK
  /\ phase \in {"functions", "values", "compiled", "rejected", "cyclic"}
  /\ pending \in [Slots -> SUBSET Slots]
  /\ populated \subseteq Slots

(* How far the check on pending captures protects an evaluation: the value *)
(* and every function it names itself find all they read stored, however   *)
(* they are reached.  A function it has from another one (called by it,    *)
(* returned by it, or out of an earlier value) may not, and what is        *)
(* missing then is a value whose turn has not come: no capture is stored   *)
(* later than it can be.                                                   *)
GarbageOnlyBehindAnotherFunction ==
  garbage =>
    /\ Active \in Functions \ Refs(Head(calls))
    /\ \A r \in Refs(Active) : Read(r) = Unset => r \in Values /\ slots[r] = Unset

(* No block is refused whose values can be evaluated in source order: the  *)
(* deferred captures cost no program its compilation.                      *)
RejectsOnlyForwardNeeds == phase = "rejected" => \E v \in Values : NeedsLater(scope, v)

(* Phase 3 never finds a capture to complain of: every cycle through a     *)
(* capture has been refused by phase 2.                                    *)
NothingIsLeftPending == phase # "cyclic"
=============================================================================
