--------------------------- MODULE JitBlock_proofs ---------------------------
(***************************************************************************)
(* Proofs about compile_block_bindings, for blocks of any size: phase 2    *)
(* refuses no block whose source order is a legal order, phase 3 has       *)
(* nothing to refuse, and what the code of a block that is not refused may *)
(* find missing when it runs.                                              *)
(***************************************************************************)
EXTENDS JitBlock, JitCode_proofs

(* Once the functions are allocated they are populated, what is pending is *)
(* a capture of an unpopulated sibling, and only functions capture.        *)
PendingOK ==
  /\ populated \subseteq Slots
  /\ pending \in [Slots -> SUBSET Slots]
  /\ \A f \in Slots : pending[f] \cap populated = {}
  /\ \A f \in Slots : pending[f] # {} => IsFunction(f) /\ pending[f] \subseteq Refs(f)
  /\ phase = "values" => Functions \subseteq populated

CompileInv == ScopeOK /\ PendingOK

LEMMA InitCompileInv == Init => CompileInv
BY ScopesAssumption DEF Init, CodeInit, CompileInv, ScopeOK, PendingOK

(* Emitting code for more populated slots leaves nothing pending on them.  *)
LEMMA EmitPending ==
  ASSUME CompileInv,
         NEW instr, NEW pend \in [Slots -> SUBSET Slots], NEW pop \in SUBSET Slots,
         \A f \in Slots : pend[f] # {} => IsFunction(f) /\ pend[f] \subseteq Refs(f),
         Functions \subseteq pop,
         Emit(instr, pend, pop), UNCHANGED scope
  PROVE  CompileInv'
<1>1. pending' = [f \in Slots |-> pend[f] \ pop]
  BY DEF Emit, StillWaits
<1>2. populated' = pop
  BY DEF Emit
<1>3. ScopeOK'
  BY DEF CompileInv, ScopeOK
<1>4. Functions' = Functions /\ \A f \in Slots : IsFunction(f)' = IsFunction(f)
  BY DEF Functions, IsFunction
<1>5. \A f \in Slots : Refs(f)' = Refs(f)
  BY DEF Refs
<1>6. PendingOK'
  BY <1>1, <1>2, <1>4, <1>5 DEF PendingOK
<1> QED BY <1>3, <1>6 DEF CompileInv

LEMMA NextCompileInv == CompileInv /\ [Next]_vars => CompileInv'
<1> SUFFICES ASSUME CompileInv, [Next]_vars PROVE CompileInv'
  OBVIOUS
<1> USE DEF CompileInv
<1>1. CASE AllocateFunctions
  <2> DEFINE captures == [f \in Slots |-> IF IsFunction(f) THEN Refs(f) ELSE {}]
  <2>1. \A f \in Slots : IsFunction(f) => Refs(f) \in SUBSET Slots
    BY DEF ScopeOK, IsFunction, Refs, Slots, Body
  <2>2. captures \in [Slots -> SUBSET Slots]
    BY <2>1
  <2>3. \A f \in Slots : captures[f] # {} => IsFunction(f) /\ captures[f] \subseteq Refs(f)
    OBVIOUS
  <2>4. Functions \in SUBSET Slots
    BY DEF Functions
  <2>5. Emit(Alloc(Functions), captures, Functions) /\ UNCHANGED scope
    BY <1>1 DEF AllocateFunctions
  <2> HIDE DEF captures
  <2> QED BY <2>2, <2>3, <2>4, <2>5, EmitPending
<1>2. CASE CompileValue
  <2>1. PICK v \in Slots : Emit(Evaluate(v), pending, populated \cup {v})
    BY <1>2 DEF CompileValue
  <2>2. Functions \subseteq populated \cup {v} /\ UNCHANGED scope
    BY <1>2 DEF CompileValue, PendingOK
  <2>3. populated \cup {v} \in SUBSET Slots
    BY DEF PendingOK
  <2> QED BY <2>1, <2>2, <2>3, EmitPending DEF PendingOK
<1>3. CASE RejectValue
  BY <1>3 DEF RejectValue, ScopeOK, PendingOK, Functions, IsFunction, Refs
<1>4. CASE Finalize
  BY <1>4 DEF Finalize, ScopeOK, PendingOK, Functions, IsFunction, Refs
<1>5. CASE RunCode
  BY <1>5 DEF RunCode, ScopeOK, PendingOK, Functions, IsFunction, Refs
<1>6. CASE UNCHANGED vars
  BY <1>6 DEF vars, ScopeOK, PendingOK, Functions, IsFunction, Refs
<1> QED BY <1>1, <1>2, <1>3, <1>4, <1>5, <1>6 DEF Next

-----------------------------------------------------------------------------
(* No block of any size reaches the error of phase 3 (jit.rs:2483).        *)
THEOREM NothingPendingCorrect == Spec => []NothingIsLeftPending
<1>1. Init => NothingIsLeftPending
  BY DEF Init, NothingIsLeftPending
<1>2. CompileInv /\ NothingIsLeftPending /\ [Next]_vars => NothingIsLeftPending'
  <2> SUFFICES ASSUME CompileInv, NothingIsLeftPending, [Next]_vars
               PROVE  NothingIsLeftPending'
    OBVIOUS
  <2>1. CASE Finalize
    <3>1. \A f \in Slots : pending[f] = {}
      BY <2>1 DEF Finalize, CompileInv, PendingOK
    <3> QED BY <2>1, <3>1 DEF Finalize, NothingIsLeftPending
  <2>2. CASE AllocateFunctions \/ CompileValue \/ RejectValue \/ RunCode \/ UNCHANGED vars
    BY <2>2 DEF AllocateFunctions, CompileValue, RejectValue, RunCode, vars, Emit,
                NothingIsLeftPending
  <2> QED BY <2>1, <2>2 DEF Next
<1> QED BY <1>1, <1>2, InitCompileInv, NextCompileInv, PTL DEF Spec

-----------------------------------------------------------------------------
(* A sibling used by value v that is not populated, or a pending capture   *)
(* of a function v uses, is a value that v reaches and that comes no       *)
(* earlier than v.                                                         *)
LEMMA UnpopulatedComesLater ==
  ASSUME CompileInv, phase = "values", NEW v \in Slots, Due(v),
         NEW k \in Slots, k \notin populated
  PROVE  ~scope[k].fn /\ k >= v
<1>1. ~IsFunction(k)
  BY DEF CompileInv, PendingOK, Functions
<1>2. k \in Values \ populated
  BY <1>1 DEF Values, Functions
<1>3. v <= k
  BY <1>2 DEF Due
<1> QED BY <1>1, <1>3 DEF IsFunction, Slots

LEMMA RejectedNeedsLater ==
  ASSUME CompileInv, phase = "values", NEW v \in Slots, Due(v),
         UsesIncompleteFunction(v) \/ ReadsUnpopulated(v)
  PROVE  NeedsLater(scope, v)
<1>0. v # Body /\ Refs(v) = scope[v].refs /\ Refs(v) \subseteq Slots
  BY ScopesAssumption DEF CompileInv, ScopeOK, Refs, Body, Slots
<1>1. CASE ReadsUnpopulated(v)
  <2>1. PICK k \in Refs(v) : k \notin populated
    BY <1>1 DEF ReadsUnpopulated
  <2>2. k \in Reached(scope, v)
    BY <1>0 DEF Reached
  <2> QED BY <1>0, <2>1, <2>2, UnpopulatedComesLater DEF NeedsLater
<1>2. CASE UsesIncompleteFunction(v)
  <2>1. PICK f \in Refs(v) : pending[f] # {}
    BY <1>2 DEF UsesIncompleteFunction
  <2>2. PICK k \in pending[f] : k \in Slots /\ k \notin populated
    BY <1>0, <2>1 DEF CompileInv, PendingOK
  <2>3. f \in Slots /\ scope[f].fn /\ k \in scope[f].refs
    BY <1>0, <2>1, <2>2, ScopesAssumption
       DEF CompileInv, PendingOK, IsFunction, Refs, Body, Slots
  <2>4. k \in Reached(scope, v)
    BY <1>0, <2>1, <2>2, <2>3 DEF Reached, ClosedUnderCalls
  <2> QED BY <2>2, <2>4, UnpopulatedComesLater DEF NeedsLater
<1> QED BY <1>1, <1>2

(* A block is refused only if one of its values needs, directly or through *)
(* functions, a value that comes no earlier than itself (jit.rs:2436).     *)
THEOREM RejectsCorrect == Spec => []RejectsOnlyForwardNeeds
<1>1. Init => RejectsOnlyForwardNeeds
  BY DEF Init, RejectsOnlyForwardNeeds
<1>2. CompileInv /\ RejectsOnlyForwardNeeds /\ [Next]_vars => RejectsOnlyForwardNeeds'
  <2> SUFFICES ASSUME CompileInv, RejectsOnlyForwardNeeds, [Next]_vars,
                      phase' = "rejected"
               PROVE  \E v \in Values' : NeedsLater(scope', v)
    BY DEF RejectsOnlyForwardNeeds
  <2>1. CASE RejectValue
    <3>1. PICK v \in Slots :
            Due(v) /\ (UsesIncompleteFunction(v) \/ ReadsUnpopulated(v))
      BY <2>1 DEF RejectValue
    <3>2. NeedsLater(scope, v)
      BY <2>1, <3>1, RejectedNeedsLater DEF RejectValue
    <3>3. v \in Values /\ scope' = scope
      BY <2>1, <3>1 DEF RejectValue, Due
    <3> QED BY <3>2, <3>3 DEF Values, Functions, IsFunction
  <2>2. CASE phase = "rejected"
    <3>1. scope' = scope
      BY <2>2 DEF Next, vars, AllocateFunctions, CompileValue, RejectValue, Finalize, RunCode
    <3> QED BY <2>2, <3>1 DEF RejectsOnlyForwardNeeds, Values, Functions, IsFunction
  <2>3. RejectValue \/ phase = "rejected"
    BY DEF Next, vars, AllocateFunctions, CompileValue, RejectValue, Finalize, RunCode
  <2> QED BY <2>1, <2>2, <2>3
<1> QED BY <1>1, <1>2, InitCompileInv, NextCompileInv, PTL DEF Spec

-----------------------------------------------------------------------------
(* The emitted code, and what memory holds when it runs.  An evaluation is *)
(* emitted where all it reads is stored, and all that the functions it     *)
(* reads capture; no capture of any function is late.                      *)
EvaluationOK(c, n, instr) ==
  instr.op = "evaluate" =>
    /\ \A r \in Refs(instr.on) :
         r \in StoredIn(c, n) /\ (r \in Functions => CompleteIn(c, r, n))
    /\ Functions \subseteq StoredIn(c, n)
    /\ \A f \in Functions : \A r \in Refs(f) :
         r \in StoredIn(c, n) => <<f, r>> \in FilledIn(c, n)
EvaluationsOK(c) == \A n \in 1..Len(c) : EvaluationOK(c, n, c[n])

(* The compiler's books are true of the code emitted so far, which runs    *)
(* only when it is complete.                                               *)
EmittedOK ==
  /\ phase \in {"functions", "values", "compiled", "rejected", "cyclic"}
  /\ phase = "functions" => code = <<>>
  /\ phase = "values" =>
       /\ populated = StoredIn(code, Len(code) + 1)
       /\ \A f \in Functions : \A r \in Refs(f) :
            r \in pending[f] \/ <<f, r>> \in FilledIn(code, Len(code) + 1)
  /\ phase # "compiled" => pc = 1 /\ calls = <<>> /\ ~garbage

(* What was read too early is a capture of a function that the evaluation  *)
(* does not name, for a value whose turn has not come.                     *)
RunOK ==
  garbage =>
    /\ calls # <<>>
    /\ Active \in Functions \ Refs(calls[1])
    /\ \A r \in Refs(Active) : Read(r) = Unset => r \in Values /\ slots[r] = Unset

CodeInv == MemoryInv /\ EvaluationsOK(code) /\ EmittedOK /\ RunOK
BlockInv == CompileInv /\ CodeInv

-----------------------------------------------------------------------------
LEMMA InitCodeInv == Init => CodeInv
<1> SUFFICES ASSUME Init PROVE CodeInv
  OBVIOUS
<1>1. MemoryInv
  BY InitMemory DEF Init
<1>2. /\ code = <<>> /\ pc = 1 /\ calls = <<>> /\ garbage = FALSE /\ phase = "functions"
      /\ Len(<<>>) = 0
  BY DEF Init, CodeInit
<1>3. EvaluationsOK(code)
  BY <1>2 DEF EvaluationsOK
<1>4. EmittedOK
  BY <1>2 DEF EmittedOK
<1>5. RunOK
  BY <1>2 DEF RunOK
<1> QED BY <1>1, <1>3, <1>4, <1>5 DEF CodeInv

LEMMA AppendEvaluationsOK ==
  ASSUME NEW c \in Seq(Instructions), EvaluationsOK(c),
         NEW instr \in Instructions, EvaluationOK(c, Len(c) + 1, instr)
  PROVE  EvaluationsOK(Append(c, instr))
<1> DEFINE d == Append(c, instr)
<1>1. /\ Len(d) = Len(c) + 1 /\ Len(c) \in Nat
      /\ \A m \in 1..Len(c) : d[m] = c[m]
      /\ d[Len(c) + 1] = instr
  BY AppendAdds
<1> HIDE DEF d
<1>2. ASSUME NEW n \in 1..Len(d) PROVE EvaluationOK(d, n, d[n])
  <2>1. StoredIn(d, n) = StoredIn(c, n) /\ FilledIn(d, n) = FilledIn(c, n)
    BY <1>1, PrefixDecides
  <2>2. EvaluationOK(c, n, d[n])
    BY <1>1 DEF EvaluationsOK
  <2> QED BY <2>1, <2>2 DEF EvaluationOK, CompleteIn
<1>3. EvaluationsOK(d)
  BY <1>2 DEF EvaluationsOK
<1> QED BY <1>3 DEF d

(* Code that grows before it runs keeps memory as it is.                   *)
LEMMA CompileMemory ==
  ASSUME MemoryInv, UNCHANGED <<scope, memory>>, ~garbage,
         WellFormed(code'), EvaluationsOK(code'),
         Len(code') >= Len(code), \A m \in 1..Len(code) : code'[m] = code[m]
  PROVE  MemoryInv' /\ EvaluationsOK(code)' /\ RunOK'
<1>1. Functions' = Functions /\ Values' = Values
  BY DEF Functions, Values, IsFunction
<1>2. WellFormed(code)'
  BY <1>1 DEF WellFormed, InstructionOK, Instructions
<1>3. EvaluationsOK(code)'
  BY <1>1 DEF EvaluationsOK, EvaluationOK, CompleteIn, Refs
<1>4. MemoryInv'
  BY <1>2, CodeGrows
<1>5. RunOK'
  BY DEF RunOK, memory
<1> QED BY <1>3, <1>4, <1>5

(* An allocation or an evaluation, followed by the fills it makes ready.   *)
LEMMA EmitCode ==
  ASSUME MemoryInv, CompileInv, EvaluationsOK(code), UNCHANGED <<scope, memory>>,
         pc = 1, calls = <<>>, ~garbage,
         NEW instr, NEW pend \in [Slots -> SUBSET Slots], NEW pop \in SUBSET Slots,
         \A f \in Slots : pend[f] # {} => f \in Functions,
         InstructionOK(code, Len(code) + 1, instr),
         EvaluationOK(code, Len(code) + 1, instr),
         \A p : ~Fills(instr, p),
         pop = StoredIn(code, Len(code) + 1) \cup {i \in Slots : Stores(instr, i)},
         \A f \in Functions : \A r \in Refs(f) :
           r \in pend[f] \/ <<f, r>> \in FilledIn(code, Len(code) + 1),
         Emit(instr, pend, pop), phase' = "values"
  PROVE  CodeInv'
<1> DEFINE one   == Append(code, instr)
           two   == Append(one, Fill(Ready(pend, pop)))
<1>0. WellFormed(code) /\ code \in Seq(Instructions) /\ Len(code) \in Nat
      /\ instr \in Instructions
  BY DEF MemoryInv, WellFormed, InstructionOK
<1>1. /\ one \in Seq(Instructions) /\ Len(one) = Len(code) + 1
      /\ \A m \in 1..Len(code) : one[m] = code[m]
      /\ StoredIn(one, Len(one) + 1) = pop
      /\ FilledIn(one, Len(one) + 1) = FilledIn(code, Len(code) + 1)
  <2>1. {p \in Slots \X Slots : Fills(instr, p)} = {}
    OBVIOUS
  <2>2. /\ one \in Seq(Instructions) /\ Len(one) = Len(code) + 1
        /\ \A m \in 1..Len(code) : one[m] = code[m]
        /\ StoredIn(one, Len(code) + 2)
             = StoredIn(code, Len(code) + 1) \cup {i \in Slots : Stores(instr, i)}
        /\ FilledIn(one, Len(code) + 2)
             = FilledIn(code, Len(code) + 1) \cup {p \in Slots \X Slots : Fills(instr, p)}
    BY <1>0, AppendAdds
  <2>3. Len(one) + 1 = Len(code) + 2
    BY <1>0
  <2>4. StoredIn(one, Len(one) + 1) = pop
    BY <2>2, <2>3
  <2>5. FilledIn(one, Len(one) + 1) = FilledIn(code, Len(code) + 1) \cup {}
    BY <2>1, <2>2, <2>3
  <2> QED BY <2>2, <2>4, <2>5
<1>2. WellFormed(one) /\ EvaluationsOK(one)
  BY <1>0, AppendWellFormed, AppendEvaluationsOK
<1>3. Ready(pend, pop) \subseteq Functions \X Slots
      /\ Fill(Ready(pend, pop)) \in Instructions
  <2>1. Ready(pend, pop) \subseteq Functions \X Slots
    BY FunctionsAreSlots DEF Ready
  <2> QED BY <2>1 DEF Fill, Instructions
<1>4. /\ \A i : ~Stores(Fill(Ready(pend, pop)), i)
      /\ \A p : Fills(Fill(Ready(pend, pop)), p) <=> p \in Ready(pend, pop)
  BY DEF Fill, Stores, Fills
<1>5. InstructionOK(one, Len(one) + 1, Fill(Ready(pend, pop)))
  BY <1>1, <1>3, <1>4 DEF InstructionOK, Ready
<1>6. EvaluationOK(one, Len(one) + 1, Fill(Ready(pend, pop)))
  BY DEF EvaluationOK, Fill
<1>7. WellFormed(two) /\ EvaluationsOK(two)
  BY <1>1, <1>2, <1>3, <1>5, <1>6, AppendWellFormed, AppendEvaluationsOK
<1>8. /\ two \in Seq(Instructions) /\ Len(two) = Len(code) + 2
      /\ \A m \in 1..Len(code) : two[m] = code[m]
      /\ StoredIn(two, Len(two) + 1) = pop
      /\ FilledIn(two, Len(two) + 1) = FilledIn(code, Len(code) + 1) \cup Ready(pend, pop)
  <2>1. {i \in Slots : Stores(Fill(Ready(pend, pop)), i)} = {}
    BY <1>4
  <2>2. {p \in Slots \X Slots : Fills(Fill(Ready(pend, pop)), p)} = Ready(pend, pop)
    BY <1>4 DEF Ready
  <2>3. /\ two \in Seq(Instructions) /\ Len(two) = Len(one) + 1
        /\ \A m \in 1..Len(one) : two[m] = one[m]
        /\ StoredIn(two, Len(one) + 2)
             = StoredIn(one, Len(one) + 1)
                 \cup {i \in Slots : Stores(Fill(Ready(pend, pop)), i)}
        /\ FilledIn(two, Len(one) + 2)
             = FilledIn(one, Len(one) + 1)
                 \cup {p \in Slots \X Slots : Fills(Fill(Ready(pend, pop)), p)}
    BY <1>1, <1>3, AppendAdds
  <2>4. Len(two) = Len(code) + 2 /\ Len(two) + 1 = Len(one) + 2
    BY <1>0, <1>1, <2>3
  <2>5. \A m \in 1..Len(code) : two[m] = code[m]
    BY <1>0, <1>1, <2>3
  <2>6. StoredIn(two, Len(two) + 1) = StoredIn(one, Len(one) + 1) \cup {}
    BY <2>1, <2>3, <2>4
  <2>7. FilledIn(two, Len(two) + 1) = FilledIn(one, Len(one) + 1) \cup Ready(pend, pop)
    BY <2>2, <2>3, <2>4
  <2> QED BY <1>1, <2>3, <2>4, <2>5, <2>6, <2>7
<1>9. code' = two
  <2>1. code' = code \o <<instr, Fill(Ready(pend, pop))>>
    BY DEF Emit
  <2> HIDE DEF one, two
  <2>2. two = Append(Append(code, instr), Fill(Ready(pend, pop)))
    BY DEF one, two
  <2> QED BY <1>0, <1>3, <2>1, <2>2
<1> HIDE DEF one, two
<1>10. MemoryInv' /\ EvaluationsOK(code)' /\ RunOK'
  BY <1>0, <1>7, <1>8, <1>9, CompileMemory
<1>11. EmittedOK'
  <2>1. Functions' = Functions /\ \A f \in Slots : Refs(f)' = Refs(f)
    BY DEF Functions, IsFunction, Refs
  <2>2. populated' = pop /\ pending' = [f \in Slots |-> pend[f] \ pop]
    BY DEF Emit, StillWaits
  <2>3. ASSUME NEW f \in Functions, NEW r \in Refs(f)
        PROVE  r \in pending'[f] \/ <<f, r>> \in FilledIn(two, Len(two) + 1)
    <3>1. f \in Slots /\ r \in Slots
      BY FunctionsAreSlots, RefsAreSlots DEF MemoryInv
    <3> QED BY <1>8, <2>2, <2>3, <3>1 DEF Ready
  <2>4. pc' = 1 /\ calls' = <<>> /\ ~garbage'
    BY DEF memory
  <2> QED BY <1>8, <1>9, <2>1, <2>2, <2>3, <2>4, FunctionsAreSlots DEF EmittedOK
<1> QED BY <1>10, <1>11 DEF CodeInv

LEMMA CompileCodeInv ==
  ASSUME MemoryInv, CompileInv, EvaluationsOK(code), EmittedOK,
         AllocateFunctions \/ CompileValue \/ RejectValue \/ Finalize
  PROVE  CodeInv'
<1>0. pc = 1 /\ calls = <<>> /\ ~garbage /\ UNCHANGED <<scope, memory>>
  BY DEF EmittedOK, AllocateFunctions, CompileValue, RejectValue, Finalize
<1>1. WellFormed(code) /\ code \in Seq(Instructions) /\ Len(code) \in Nat /\ ScopeOK
  BY DEF MemoryInv, WellFormed
<1>2. CASE AllocateFunctions
  <2> DEFINE pend == [f \in Slots |-> IF IsFunction(f) THEN Refs(f) ELSE {}]
  <2>1. phase = "functions" /\ Emit(Alloc(Functions), pend, Functions) /\ phase' = "values"
    BY <1>2 DEF AllocateFunctions
  <2>2. pend \in [Slots -> SUBSET Slots]
    BY <1>1, RefsAreSlots
  <2>3. /\ \A f \in Slots : pend[f] # {} => f \in Functions
        /\ \A f \in Functions : pend[f] = Refs(f)
    BY FunctionsAreSlots
  <2>4. StoredIn(code, Len(code) + 1) = {}
    BY <2>1 DEF EmittedOK, StoredIn
  <2>5. /\ \A i : Stores(Alloc(Functions), i) <=> i \in Functions
        /\ \A p : ~Fills(Alloc(Functions), p)
    BY DEF Stores, Fills, Alloc
  <2>6. InstructionOK(code, Len(code) + 1, Alloc(Functions))
    <3>1. Alloc(Functions) \in Instructions
      BY DEF Alloc, Instructions
    <3> QED BY <2>4, <2>5, <3>1 DEF InstructionOK
  <2>7. EvaluationOK(code, Len(code) + 1, Alloc(Functions))
    BY DEF EvaluationOK, Alloc
  <2>8. {i \in Slots : Stores(Alloc(Functions), i)} = Functions
    BY <2>5, FunctionsAreSlots
  <2>9. Functions = StoredIn(code, Len(code) + 1)
                      \cup {i \in Slots : Stores(Alloc(Functions), i)}
    BY <2>4, <2>8
  <2> HIDE DEF pend
  <2> QED BY <1>0, <2>1, <2>2, <2>3, <2>5, <2>6, <2>7, <2>9, EmitCode, FunctionsAreSlots
<1>3. CASE CompileValue
  <2>1. PICK v \in Slots : /\ Due(v) /\ ~UsesIncompleteFunction(v) /\ ~ReadsUnpopulated(v)
                           /\ Emit(Evaluate(v), pending, populated \cup {v})
    BY <1>3 DEF CompileValue
  <2>2. phase = "values" /\ phase' = "values"
    BY <1>3 DEF CompileValue
  <2>3. /\ populated = StoredIn(code, Len(code) + 1)
        /\ \A f \in Functions : \A r \in Refs(f) :
             r \in pending[f] \/ <<f, r>> \in FilledIn(code, Len(code) + 1)
    BY <2>2 DEF EmittedOK
  <2>4. v \in Values /\ v \notin populated
    BY <2>1 DEF Due
  <2>5. /\ \A i : Stores(Evaluate(v), i) <=> i = v
        /\ \A p : ~Fills(Evaluate(v), p)
    BY DEF Stores, Fills, Evaluate
  <2>6. InstructionOK(code, Len(code) + 1, Evaluate(v))
    <3>1. Evaluate(v) \in Instructions
      BY <2>4 DEF Evaluate, Instructions
    <3> QED BY <2>3, <2>4, <2>5, <3>1 DEF InstructionOK
  <2>7. EvaluationOK(code, Len(code) + 1, Evaluate(v))
    <3>1. ASSUME NEW r \in Refs(v)
          PROVE  /\ r \in StoredIn(code, Len(code) + 1)
                 /\ r \in Functions => CompleteIn(code, r, Len(code) + 1)
      BY <2>1, <2>3, <3>1 DEF UsesIncompleteFunction, ReadsUnpopulated, CompleteIn
    <3>2. Functions \subseteq StoredIn(code, Len(code) + 1)
      BY <2>2, <2>3 DEF CompileInv, PendingOK
    <3>3. ASSUME NEW f \in Functions, NEW r \in Refs(f), r \in StoredIn(code, Len(code) + 1)
          PROVE  <<f, r>> \in FilledIn(code, Len(code) + 1)
      <4>1. f \in Slots /\ r \in populated
        BY <2>3, <3>3, FunctionsAreSlots
      <4>2. r \notin pending[f]
        BY <4>1 DEF CompileInv, PendingOK
      <4> QED BY <2>3, <4>2
    <3> QED BY <3>1, <3>2, <3>3 DEF EvaluationOK, Evaluate
  <2>8. {i \in Slots : Stores(Evaluate(v), i)} = {v}
    BY <2>5
  <2>9. populated \cup {v}
          = StoredIn(code, Len(code) + 1) \cup {i \in Slots : Stores(Evaluate(v), i)}
    BY <2>3, <2>8
  <2>10. /\ pending \in [Slots -> SUBSET Slots] /\ populated \cup {v} \in SUBSET Slots
         /\ \A f \in Slots : pending[f] # {} => f \in Functions
    BY FunctionsAreSlots DEF CompileInv, PendingOK
  <2> QED BY <1>0, <2>1, <2>2, <2>3, <2>5, <2>6, <2>7, <2>9, <2>10, EmitCode
<1>4. CASE RejectValue
  <2>1. code' = code /\ phase' = "rejected"
    BY <1>4 DEF RejectValue
  <2>2. MemoryInv' /\ EvaluationsOK(code)' /\ RunOK'
    BY <1>0, <1>1, <2>1, CompileMemory
  <2> QED BY <1>0, <2>1, <2>2 DEF CodeInv, EmittedOK, memory
<1>5. CASE Finalize
  <2>1. /\ phase = "values" /\ Slots \subseteq populated
        /\ \/ phase' = "compiled" /\ code' = Append(code, Evaluate(Body))
              /\ \A f \in Slots : pending[f] = {}
           \/ phase' = "cyclic" /\ code' = code
    BY <1>5 DEF Finalize
  <2>2. CASE phase' = "cyclic" /\ code' = code
    <3>1. MemoryInv' /\ EvaluationsOK(code)' /\ RunOK'
      BY <1>0, <1>1, <2>2, CompileMemory
    <3> QED BY <1>0, <2>2, <3>1 DEF CodeInv, EmittedOK, memory
  <2>3. CASE /\ phase' = "compiled" /\ code' = Append(code, Evaluate(Body))
             /\ \A f \in Slots : pending[f] = {}
    <3>1. /\ \A i \in Slots : ~Stores(Evaluate(Body), i)
          /\ \A p : ~Fills(Evaluate(Body), p)
      BY Numbering DEF Stores, Fills, Evaluate
    <3>2. Evaluate(Body) \in Instructions
      BY DEF Evaluate, Instructions
    <3>3. InstructionOK(code, Len(code) + 1, Evaluate(Body))
      BY <3>1, <3>2 DEF InstructionOK
    <3>4. EvaluationOK(code, Len(code) + 1, Evaluate(Body))
      <4>1. Refs(Body) = Slots
        BY DEF Refs
      <4>2. ASSUME NEW f \in Functions PROVE CompleteIn(code, f, Len(code) + 1)
        BY <2>1, <2>3, FunctionsAreSlots DEF EmittedOK, CompleteIn
      <4>3. Slots \subseteq StoredIn(code, Len(code) + 1)
        BY <2>1 DEF EmittedOK
      <4>4. Functions \subseteq Slots
        BY FunctionsAreSlots
      <4> QED BY <4>1, <4>2, <4>3, <4>4 DEF EvaluationOK, Evaluate, CompleteIn
    <3>5. WellFormed(code') /\ EvaluationsOK(code')
      BY <1>1, <2>3, <3>2, <3>3, <3>4, AppendWellFormed, AppendEvaluationsOK
    <3>6. Len(code') = Len(code) + 1 /\ \A m \in 1..Len(code) : code'[m] = code[m]
      BY <1>1, <2>3, <3>2, AppendAdds
    <3>7. MemoryInv' /\ EvaluationsOK(code)' /\ RunOK'
      BY <1>0, <1>1, <3>5, <3>6, CompileMemory
    <3> QED BY <2>3, <3>7 DEF CodeInv, EmittedOK
  <2> QED BY <2>1, <2>2, <2>3
<1> QED BY <1>2, <1>3, <1>4, <1>5

-----------------------------------------------------------------------------
(* Every function is stored before any evaluation; what its closure lacks  *)
(* is a value not stored yet, unless the evaluation names the function.    *)
LEMMA MissingRead ==
  ASSUME MemoryInv, EvaluationsOK(code), calls # <<>>,
         NEW r \in Refs(Active), Read(r) = Unset
  PROVE  /\ Active \in Functions \ Refs(calls[1])
         /\ r \in Values /\ slots[r] = Unset
<1>1. /\ pc \in 1..Len(code) /\ code[pc].op = "evaluate" /\ calls[1] = code[pc].on
      /\ EvaluationOK(code, pc, code[pc])
  BY DEF MemoryInv, CallsOK, EvaluationsOK
<1>2. Active \in Slots \cup {Body} /\ r \in Slots
  BY ActiveIs, FunctionsAreSlots, RefsAreSlots DEF MemoryInv
<1>3. slots[r] = Unset <=> r \notin StoredIn(code, pc)
  BY <1>2 DEF MemoryInv, SlotsOK
<1>4. Active \in Functions
  <2> SUFFICES ASSUME Active \notin Functions PROVE FALSE
    OBVIOUS
  <2>1. Active = calls[1]
    BY ActiveIs DEF MemoryInv, CallsOK
  <2>2. slots[r] = Unset
    BY FunctionsAreSlots DEF Read, Cell
  <2> QED BY <1>1, <1>3, <2>1, <2>2 DEF EvaluationOK
<1>5. caps[Active][r] = Unset /\ Active \in Slots
  BY <1>4, FunctionsAreSlots DEF Read, Cell
<1>6. <<Active, r>> \notin FilledIn(code, pc)
  BY <1>2, <1>5 DEF MemoryInv, CapsOK
<1>7. r \notin StoredIn(code, pc)
  BY <1>1, <1>4, <1>6 DEF EvaluationOK
<1>8. r \in Values
  BY <1>1, <1>2, <1>7, FunctionsAreSlots DEF EvaluationOK
<1>9. Active \notin Refs(calls[1])
  BY <1>1, <1>4, <1>6 DEF EvaluationOK, CompleteIn
<1> QED BY <1>3, <1>4, <1>7, <1>8, <1>9

LEMMA RunCodeInv ==
  ASSUME CodeInv, RunCode
  PROVE  CodeInv'
<1>0. MemoryInv /\ EvaluationsOK(code) /\ EmittedOK /\ RunOK
  BY DEF CodeInv
<1>1. phase = "compiled" /\ Run /\ UNCHANGED <<scope, code, phase, pending, populated>>
  BY DEF RunCode
<1>2. MemoryInv'
  BY <1>0, <1>1, RunMemory
<1>3. Functions' = Functions /\ Values' = Values /\ \A i : Refs(i)' = Refs(i)
  BY <1>1 DEF Functions, Values, IsFunction, Refs
<1>4. EvaluationsOK(code)'
  BY <1>0, <1>1, <1>3 DEF EvaluationsOK, EvaluationOK, CompleteIn
<1>5. EmittedOK'
  BY <1>0, <1>1 DEF EmittedOK
<1>6. RunOK'
  <2>1. CASE ReadGarbage
    <3>1. calls # <<>> /\ UNCHANGED <<pc, slots, caps, calls, hand>>
      BY <2>1 DEF ReadGarbage, Evaluating
    <3>2. \E r \in Refs(Active) : Read(r) = Unset
      BY <2>1 DEF ReadGarbage
    <3>3. Active \in Functions \ Refs(calls[1])
      BY <1>0, <3>1, <3>2, MissingRead
    <3>4. \A r \in Refs(Active) : Read(r) = Unset => r \in Values /\ slots[r] = Unset
      BY <1>0, <3>1, MissingRead
    <3>5. Active' = Active /\ \A r : Read(r)' = Read(r)
      BY <1>1, <3>1 DEF Active, Read, Cell, IsFunction
    <3> QED BY <1>3, <3>1, <3>3, <3>4, <3>5 DEF RunOK
  <2>2. CASE RunAlloc \/ RunFill \/ RunEvaluate \/ CallClosure \/ ReturnCall \/ StoreResult
    <3>1. ~garbage'
      BY <2>2 DEF RunAlloc, RunFill, RunEvaluate, CallClosure, ReturnCall, StoreResult,
                  Running, Evaluating
    <3> QED BY <3>1 DEF RunOK
  <2> QED BY <1>1, <2>1, <2>2 DEF Run
<1> QED BY <1>2, <1>4, <1>5, <1>6 DEF CodeInv

LEMMA BlockInvariant == Spec => []BlockInv
<1>1. Init => BlockInv
  BY InitCompileInv, InitCodeInv DEF BlockInv
<1>2. BlockInv /\ [Next]_vars => BlockInv'
  <2> SUFFICES ASSUME BlockInv, [Next]_vars PROVE BlockInv'
    OBVIOUS
  <2>1. CompileInv /\ CodeInv
    BY DEF BlockInv
  <2>2. CompileInv'
    BY <2>1, NextCompileInv
  <2>3. CASE AllocateFunctions \/ CompileValue \/ RejectValue \/ Finalize
    BY <2>1, <2>2, <2>3, CompileCodeInv DEF BlockInv, CodeInv
  <2>4. CASE RunCode
    BY <2>1, <2>2, <2>4, RunCodeInv DEF BlockInv
  <2>5. CASE UNCHANGED vars
    <3>1. Functions' = Functions /\ Values' = Values /\ \A i : Refs(i)' = Refs(i)
      BY <2>5 DEF vars, Functions, Values, IsFunction, Refs
    <3>2. UNCHANGED <<scope, code, pc, slots, caps, calls, hand, garbage, phase,
                     pending, populated>>
      BY <2>5 DEF vars, memory
    <3>3. MemoryInv'
      BY <2>1, <3>1, <3>2, OnlyCallsChange DEF CodeInv, MemoryInv, MemoryOK, CallsOK
    <3>4. EvaluationsOK(code)' /\ EmittedOK'
      BY <2>1, <3>1, <3>2 DEF CodeInv, EvaluationsOK, EvaluationOK, CompleteIn, EmittedOK
    <3>5. RunOK'
      <4>1. Active' = Active /\ \A r : Read(r)' = Read(r)
        BY <3>2 DEF Active, Read, Cell, IsFunction
      <4> QED BY <2>1, <3>1, <3>2, <4>1 DEF CodeInv, RunOK
    <3> QED BY <2>2, <3>3, <3>4, <3>5 DEF BlockInv, CodeInv
  <2> QED BY <2>3, <2>4, <2>5 DEF Next
<1> QED BY <1>1, <1>2, PTL DEF Spec

(* Every cell of memory holds what it may, and the compiler's books are    *)
(* about the definitions of the block (jit.rs:2383-2488).                  *)
THEOREM TypeCorrect == Spec => []TypeOK
<1>1. BlockInv => TypeOK
  BY DEF BlockInv, CodeInv, CompileInv, MemoryInv, PendingOK, EmittedOK, TypeOK
<1> QED BY <1>1, BlockInvariant, PTL

(* When the body of a block starts, every slot is stored and the capture   *)
(* of every function holds what its slot holds: whatever order the fills   *)
(* were deferred in, a closure that leaves the block is complete           *)
(* (jit.rs:2469-2488).                                                     *)
THEOREM CompleteBeforeTheBodyCorrect == Spec => []CompleteBeforeTheBody
<1>1. BlockInv => CompleteBeforeTheBody
  <2> SUFFICES ASSUME BlockInv, calls # <<>>, Head(calls) = Body
               PROVE  /\ \A f \in Functions : \A r \in Refs(f) : caps[f][r] = slots[r]
                      /\ \A i \in Slots : slots[i] # Unset
    BY DEF CompleteBeforeTheBody
  <2>1. MemoryInv /\ EvaluationsOK(code)
    BY DEF BlockInv, CodeInv
  <2>2. pc \in 1..Len(code) /\ code[pc].op = "evaluate" /\ code[pc].on = Body
    <3>1. Head(calls) = calls[1]
      BY <2>1 DEF MemoryInv, MemoryOK
    <3> QED BY <2>1, <3>1 DEF MemoryInv, CallsOK
  <2>3. \A r \in Slots : r \in StoredIn(code, pc) /\ (r \in Functions => CompleteIn(code, r, pc))
    BY <2>1, <2>2 DEF EvaluationsOK, EvaluationOK, Refs
  <2>4. \A i \in Slots : slots[i] # Unset
    BY <2>1, <2>3 DEF MemoryInv, SlotsOK
  <2>5. ASSUME NEW f \in Functions, NEW r \in Refs(f) PROVE caps[f][r] = slots[r]
    <3>1. f \in Slots /\ r \in Slots
      BY <2>1, FunctionsAreSlots, RefsAreSlots DEF MemoryInv
    <3> QED BY <2>1, <2>3, <3>1 DEF MemoryInv, CapsOK, CompleteIn
  <2> QED BY <2>4, <2>5
<1> QED BY <1>1, BlockInvariant, PTL

(* The check of phase 2 on pending captures (jit.rs:2436) protects the     *)
(* evaluation of a value and every function that the value names, however  *)
(* it is reached, in blocks of any size and to any depth of calls.  What   *)
(* reads garbage is another function, called through one of those or out   *)
(* of a value that was returned or stored; and what it lacks is a value    *)
(* whose turn has not come.                                                *)
THEOREM GarbageCorrect == Spec => []GarbageOnlyBehindAnotherFunction
<1>1. BlockInv => GarbageOnlyBehindAnotherFunction
  <2> SUFFICES ASSUME BlockInv, garbage
               PROVE  /\ Active \in Functions \ Refs(Head(calls))
                      /\ \A r \in Refs(Active) :
                           Read(r) = Unset => r \in Values /\ slots[r] = Unset
    BY DEF GarbageOnlyBehindAnotherFunction
  <2>1. calls \in Seq(Slots \cup {Body}) /\ RunOK
    BY DEF BlockInv, CodeInv, MemoryInv, MemoryOK
  <2>2. Head(calls) = calls[1]
    BY <2>1
  <2> QED BY <2>1, <2>2 DEF RunOK
<1> QED BY <1>1, BlockInvariant, PTL
=============================================================================
