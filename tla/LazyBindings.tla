---------------------------- MODULE LazyBindings ----------------------------
(***************************************************************************)
(* What the evaluator promises about its lazy bindings, with everything    *)
(* else about a program left out.                                          *)
(*                                                                         *)
(* Every definition, record field and function parameter lives in a cell   *)
(* (Rc<RefCell<BindState>>).  A cell is created suspended or already       *)
(* evaluated; `force' evaluates it at most once; a cell that is being      *)
(* evaluated is never entered again; a failed evaluation leaves the cell   *)
(* as it was found.  Interp.tla is the evaluator in detail and implements  *)
(* this module.                                                            *)
(***************************************************************************)
EXTENDS Naturals, Sequences, SequencesExt

CONSTANT Cells          (* the identities cells can take                   *)

VARIABLES
  cell,                 (* the BindState of each cell                      *)
  forcing,              (* the `force' calls in progress, innermost last   *)
  mode                  (* "run", or "fail" while an Err is propagating    *)

vars == <<cell, forcing, mode>>

BindStates == {"Absent", "Lazy", "InProgress", "Done"}

Innermost == Last(forcing)
Outer     == Front(forcing)

-----------------------------------------------------------------------------
(* The builtin bindings hold values; the program's own are suspended.      *)
Init ==
  /\ cell    \in [Cells -> {"Absent", "Lazy", "Done"}]
  /\ forcing = <<>>
  /\ mode    = "run"

(* A frame is built: all its cells are suspended (make_frame), or all hold *)
(* a value (a call's parameters, a builtin module).                        *)
NewFrame(st) ==
  /\ mode = "run"
  /\ cell' \in [Cells -> BindStates]
  /\ \A c \in Cells : cell'[c] # cell[c] => cell[c] = "Absent" /\ cell'[c] = st
  /\ UNCHANGED <<forcing, mode>>

(* Seeded fault: an evaluated cell is evaluated again.                     *)
EnterAgain(c) ==
  /\ mode = "run"
  /\ cell[c] \in {"Lazy", "Done"}
  /\ cell'    = [cell EXCEPT ![c] = "InProgress"]
  /\ forcing' = Append(forcing, c)
  /\ UNCHANGED mode

(* `force' finds the cell suspended and starts to evaluate it.             *)
Enter(c) ==
  /\ mode = "run"
  /\ cell[c] = "Lazy"
  /\ cell'    = [cell EXCEPT ![c] = "InProgress"]
  /\ forcing' = Append(forcing, c)
  /\ UNCHANGED mode

(* The evaluation `force' started returned a value.                        *)
Finish ==
  /\ mode = "run"
  /\ forcing # <<>>
  /\ cell'    = [cell EXCEPT ![Innermost] = "Done"]
  /\ forcing' = Outer
  /\ UNCHANGED mode

(* An Err is raised: a cell in progress was forced, or anything else.      *)
Fail ==
  /\ mode = "run"
  /\ mode' = "fail"
  /\ UNCHANGED <<cell, forcing>>

(* Seeded faults: the Err returns early and the cell stays in progress; or *)
(* the expression has been moved out of the cell and is not put back.      *)
UnwindBusy ==
  /\ mode = "fail"
  /\ forcing # <<>>
  /\ forcing' = Outer
  /\ UNCHANGED <<cell, mode>>
UnwindMoved ==
  /\ mode = "fail"
  /\ forcing # <<>>
  /\ cell'    = [cell EXCEPT ![Innermost] = "Moved"]
  /\ forcing' = Outer
  /\ UNCHANGED mode

(* The Err passes through a `force', which suspends its cell again.        *)
Unwind ==
  /\ mode = "fail"
  /\ forcing # <<>>
  /\ cell'    = [cell EXCEPT ![Innermost] = "Lazy"]
  /\ forcing' = Outer
  /\ UNCHANGED mode

(* Display prints <error> for a field and goes on with the next.           *)
Catch ==
  /\ mode = "fail"
  /\ forcing = <<>>
  /\ mode' = "run"
  /\ UNCHANGED <<cell, forcing>>

Next ==
  \/ \E st \in {"Lazy", "Done"} : NewFrame(st)
  \/ \E c \in Cells : Enter(c)
  \/ Finish
  \/ Fail
  \/ Unwind
  \/ Catch

Spec == Init /\ [][Next]_vars

-----------------------------------------------------------------------------
TypeOK ==
  /\ cell    \in [Cells -> BindStates]
  /\ forcing \in Seq(Cells)
  /\ mode    \in {"run", "fail"}

(* A cell is in progress exactly while one `force' call is evaluating it:  *)
(* no cell is left busy by a call that has returned or failed, and none is *)
(* entered a second time from inside its own evaluation.                   *)
BusyIffForcing ==
  /\ \A c \in Cells :
       cell[c] = "InProgress" <=> \E i \in 1..Len(forcing) : forcing[i] = c
  /\ \A i, j \in 1..Len(forcing) : forcing[i] = forcing[j] => i = j

IInv == TypeOK /\ BusyIffForcing

(* An evaluated cell keeps its value for ever, and a suspended one becomes *)
(* evaluated only through an evaluation that was seen in progress.         *)
EvaluatedOnce ==
  [][\A c \in Cells :
       /\ cell[c] = "Done" => cell'[c] = "Done"
       /\ cell[c] = "Lazy" => cell'[c] # "Done"]_vars
=============================================================================
