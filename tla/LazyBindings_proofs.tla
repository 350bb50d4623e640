------------------------ MODULE LazyBindings_proofs ------------------------
(***************************************************************************)
(* Proofs about LazyBindings for any set of cells, finite or not.          *)
(***************************************************************************)
EXTENDS LazyBindings, SequenceTheorems, TLAPS

(* The initial state satisfies the inductive invariant.                    *)
LEMMA InitIInv == Init => IInv
BY DEF Init, IInv, TypeOK, BusyIffForcing, BindStates

(* Removing the innermost force keeps the others where they were.          *)
LEMMA OuterSeq ==
  ASSUME forcing \in Seq(Cells), forcing # <<>>
  PROVE  /\ Outer \in Seq(Cells)
         /\ Len(Outer) = Len(forcing) - 1
         /\ \A i \in 1..Len(Outer) : i \in 1..Len(forcing) /\ Outer[i] = forcing[i]
         /\ Len(forcing) \in 1..Len(forcing)
         /\ Innermost \in Cells
<1>1. Len(forcing) \in Nat /\ Len(forcing) # 0
  BY EmptySeq
<1>2. Len(forcing) \in 1..Len(forcing) /\ Innermost \in Cells
  BY <1>1, ElementOfSeq DEF Innermost, Last
<1>3. \A i \in 1..(Len(forcing) - 1) : i \in 1..Len(forcing) /\ forcing[i] \in Cells
  BY <1>1, ElementOfSeq
<1>4. Outer = [i \in 1..(Len(forcing) - 1) |-> forcing[i]]
  BY <1>1 DEF Outer, Front
<1>5. Outer \in Seq(Cells) /\ Len(Outer) = Len(forcing) - 1
  BY <1>1, <1>3, <1>4
<1>6. QED
  BY <1>2, <1>3, <1>4, <1>5

(* A step that takes the innermost force off the stack and gives its cell  *)
(* a state other than InProgress keeps the invariant: `force' returning Ok *)
(* and `force' returning Err are both such steps.                          *)
LEMMA LeaveIInv ==
  ASSUME IInv, forcing # <<>>, NEW st \in {"Lazy", "Done"},
         cell' = [cell EXCEPT ![Innermost] = st],
         forcing' = Outer,
         mode' \in {"run", "fail"}
  PROVE  IInv'
<1>1. TypeOK /\ BusyIffForcing
  BY DEF IInv
<1>2. forcing \in Seq(Cells)
  BY <1>1 DEF TypeOK
<1>3. /\ Outer \in Seq(Cells)
      /\ Len(Outer) = Len(forcing) - 1
      /\ \A i \in 1..Len(Outer) : i \in 1..Len(forcing) /\ Outer[i] = forcing[i]
      /\ Len(forcing) \in 1..Len(forcing)
      /\ Innermost \in Cells
  BY <1>2, OuterSeq
<1>4. TypeOK'
  BY <1>1, <1>3 DEF TypeOK, BindStates
<1>5. ASSUME NEW c \in Cells
      PROVE  cell'[c] = "InProgress" <=> \E i \in 1..Len(forcing') : forcing'[i] = c
  <2>1. CASE c = Innermost
    <3>1. cell'[c] = st
      BY <1>1, <2>1 DEF TypeOK
    <3>2. \A i \in 1..Len(Outer) : Outer[i] # c
      BY <1>1, <1>2, <1>3, <2>1 DEF BusyIffForcing, Innermost, Last
    <3>3. QED
      BY <3>1, <3>2
  <2>2. CASE c # Innermost
    <3>1. cell'[c] = cell[c]
      BY <1>1, <2>2 DEF TypeOK
    <3>2. ASSUME NEW i \in 1..Len(forcing), forcing[i] = c
          PROVE  i \in 1..Len(Outer) /\ Outer[i] = c
      BY <1>2, <1>3, <2>2, <3>2 DEF Innermost, Last
    <3>3. QED
      BY <1>1, <1>3, <3>1, <3>2 DEF BusyIffForcing
  <2>3. QED
    BY <2>1, <2>2
<1>6. \A i, j \in 1..Len(forcing') : forcing'[i] = forcing'[j] => i = j
  BY <1>1, <1>3 DEF BusyIffForcing
<1>7. QED
  BY <1>4, <1>5, <1>6 DEF IInv, BusyIffForcing

(* Entering a suspended cell keeps the invariant: the cell was not in      *)
(* progress, so it is not on the stack already.                            *)
LEMMA EnterIInv ==
  ASSUME IInv, NEW c \in Cells, Enter(c)
  PROVE  IInv'
<1>1. TypeOK /\ BusyIffForcing /\ forcing \in Seq(Cells)
  BY DEF IInv, TypeOK
<1>2. /\ forcing' \in Seq(Cells)
      /\ Len(forcing') = Len(forcing) + 1
      /\ \A i \in 1..Len(forcing) : forcing'[i] = forcing[i]
      /\ forcing'[Len(forcing) + 1] = c
      /\ Len(forcing) \in Nat
  BY <1>1 DEF Enter
<1>3. TypeOK'
  BY <1>1, <1>2 DEF Enter, TypeOK, BindStates
<1>4. \A i \in 1..Len(forcing) : forcing[i] # c
  BY <1>1 DEF Enter, BusyIffForcing
<1>5. ASSUME NEW d \in Cells
      PROVE  cell'[d] = "InProgress" <=> \E i \in 1..Len(forcing') : forcing'[i] = d
  <2>1. CASE d = c
    <3>1. cell'[d] = "InProgress"
      BY <1>1, <2>1 DEF Enter, TypeOK
    <3>2. Len(forcing) + 1 \in 1..Len(forcing')
      BY <1>2
    <3>3. QED
      BY <3>1, <3>2, <1>2, <2>1
  <2>2. CASE d # c
    <3>1. cell'[d] = cell[d]
      BY <1>1, <2>2 DEF Enter, TypeOK
    <3>2. (\E i \in 1..Len(forcing') : forcing'[i] = d)
            <=> (\E i \in 1..Len(forcing) : forcing[i] = d)
      BY <1>2, <2>2
    <3>3. QED
      BY <1>1, <3>1, <3>2 DEF BusyIffForcing
  <2>3. QED
    BY <2>1, <2>2
<1>6. \A i, j \in 1..Len(forcing') : forcing'[i] = forcing'[j] => i = j
  BY <1>1, <1>2, <1>4 DEF BusyIffForcing
<1>7. QED
  BY <1>3, <1>5, <1>6 DEF IInv, BusyIffForcing

(* Building a frame touches absent cells only.                             *)
LEMMA NewFrameIInv ==
  ASSUME IInv, NEW st \in {"Lazy", "Done"}, NewFrame(st)
  PROVE  IInv'
<1>1. TypeOK /\ BusyIffForcing
  BY DEF IInv
<1>2. TypeOK'
  BY <1>1 DEF NewFrame, TypeOK, BindStates
<1>3. \A c \in Cells : cell'[c] = "InProgress" <=> cell[c] = "InProgress"
  BY <1>1 DEF NewFrame, TypeOK
<1>4. QED
  BY <1>1, <1>2, <1>3 DEF IInv, BusyIffForcing, NewFrame

(* Every step keeps the invariant.                                         *)
LEMMA NextIInv == IInv /\ [Next]_vars => IInv'
<1> SUFFICES ASSUME IInv, [Next]_vars
             PROVE  IInv'
  OBVIOUS
<1>1. ASSUME NEW st \in {"Lazy", "Done"}, NewFrame(st)
      PROVE  IInv'
  BY <1>1, NewFrameIInv
<1>2. ASSUME NEW c \in Cells, Enter(c)
      PROVE  IInv'
  BY <1>2, EnterIInv
<1>3. CASE Finish
  BY <1>3, LeaveIInv DEF Finish, IInv, TypeOK
<1>4. CASE Fail
  BY <1>4 DEF Fail, IInv, TypeOK, BusyIffForcing
<1>5. CASE Unwind
  BY <1>5, LeaveIInv DEF Unwind, IInv, TypeOK
<1>6. CASE Catch
  BY <1>6 DEF Catch, IInv, TypeOK, BusyIffForcing
<1>7. CASE UNCHANGED vars
  BY <1>7 DEF vars, IInv, TypeOK, BusyIffForcing
<1>8. QED
  BY <1>1, <1>2, <1>3, <1>4, <1>5, <1>6, <1>7 DEF Next

(* The types of the cells, the stack and the mode hold in every state.     *)
THEOREM TypeCorrect == Spec => []TypeOK
<1>1. IInv => TypeOK
  BY DEF IInv
<1>2. QED
  BY <1>1, InitIInv, NextIInv, PTL DEF Spec

(* In every reachable state a binding is in progress exactly while one     *)
(* `force' call is evaluating it: interp.rs's cyclic-binding error is      *)
(* raised for real cycles only, and no error leaves a binding stuck.       *)
THEOREM BusyCorrect == Spec => []BusyIffForcing
<1>1. IInv => BusyIffForcing
  BY DEF IInv
<1>2. QED
  BY <1>1, InitIInv, NextIInv, PTL DEF Spec

(* An evaluated binding never changes, and none becomes evaluated without  *)
(* having been in progress.                                                *)
THEOREM EvaluatedOnceCorrect == Spec => EvaluatedOnce
<1>1. IInv /\ [Next]_vars
        => [\A c \in Cells :
              /\ cell[c] = "Done" => cell'[c] = "Done"
              /\ cell[c] = "Lazy" => cell'[c] # "Done"]_vars
  <2> SUFFICES ASSUME IInv, [Next]_vars, NEW c \in Cells
               PROVE  /\ cell[c] = "Done" => cell'[c] = "Done"
                      /\ cell[c] = "Lazy" => cell'[c] # "Done"
    OBVIOUS
  <2>1. TypeOK /\ BusyIffForcing /\ forcing \in Seq(Cells)
    BY DEF IInv, TypeOK
  <2>2. ASSUME forcing # <<>>
        PROVE  cell[Innermost] = "InProgress"
    BY <2>1, <2>2, OuterSeq DEF BusyIffForcing, Innermost, Last
  <2>3. ASSUME NEW st \in {"Lazy", "Done"}, NewFrame(st)
        PROVE  cell[c] \in {"Done", "Lazy"} => cell'[c] = cell[c]
    BY <2>1, <2>3 DEF NewFrame, TypeOK
  <2>4. ASSUME NEW d \in Cells, Enter(d)
        PROVE  /\ cell[c] = "Done" => cell'[c] = "Done"
               /\ cell[c] = "Lazy" => cell'[c] # "Done"
    BY <2>1, <2>4 DEF Enter, TypeOK
  <2>5. CASE Finish
    BY <2>1, <2>2, <2>5 DEF Finish, TypeOK
  <2>6. CASE Unwind
    BY <2>1, <2>2, <2>6 DEF Unwind, TypeOK
  <2>7. CASE Fail \/ Catch \/ UNCHANGED vars
    BY <2>7 DEF Fail, Catch, vars
  <2>8. QED
    BY <2>3, <2>4, <2>5, <2>6, <2>7 DEF Next
<1>2. QED
  BY <1>1, InitIInv, NextIInv, PTL DEF Spec, EvaluatedOnce
=============================================================================
