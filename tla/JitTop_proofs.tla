---------------------------- MODULE JitTop_proofs ----------------------------
(***************************************************************************)
(* Proofs about define_main, for top levels of any size: no program whose  *)
(* values can be evaluated in source order is refused, and what the code   *)
(* of one that is not refused may find missing when it runs.               *)
(***************************************************************************)
EXTENDS JitTop, JitCode_proofs

LEMMA InitScopeOK == Init => ScopeOK
BY ScopesAssumption DEF Init, CodeInit, ScopeOK

(* The definitions do not change while they are compiled or run.           *)
LEMMA ScopeIsConstant == [Next]_vars => scope' = scope
BY DEF Next, vars, AllocateFunctions, CompileValue, RejectValue, FillCaptures, RunCode

(* What the check on value v finds is a value that v reaches, directly or  *)
(* through the one function that captures it, and that comes after v.      *)
LEMMA RefusedNeedsLater ==
  ASSUME ScopeOK, NEW v \in Slots, ReadsLaterValue(v) \/ CallsTooEarly(v)
  PROVE  NeedsLater(scope, v)
<1>1. \A i \in Slots : Refs(i) = scope[i].refs /\ Refs(i) \subseteq Slots
  BY ScopesAssumption DEF ScopeOK, Refs, Body, Slots
<1>2. \A k \in Values : k \in Slots /\ ~scope[k].fn
  BY DEF Values, Functions, IsFunction
<1>3. CASE ReadsLaterValue(v)
  <2>1. PICK k \in Refs(v) \cap Values : k > v
    BY <1>3 DEF ReadsLaterValue
  <2>2. k \in Reached(scope, v)
    BY <1>1, <1>2, <2>1 DEF Reached
  <2>3. k >= v
    BY <2>1, <1>2 DEF Slots
  <2> QED BY <1>2, <2>1, <2>2, <2>3 DEF NeedsLater
<1>4. CASE CallsTooEarly(v)
  <2>1. PICK f \in Refs(v) \cap Functions : \E r \in ValueCaptures(f) : r > v
    BY <1>4 DEF CallsTooEarly
  <2>2. PICK k \in Refs(f) \cap Values : k > v
    BY <2>1 DEF ValueCaptures
  <2>3. f \in Slots /\ scope[f].fn
    BY <2>1 DEF Functions, IsFunction
  <2>4. k \in Reached(scope, v)
    BY <1>1, <1>2, <2>1, <2>2, <2>3 DEF Reached, ClosedUnderCalls
  <2>5. k >= v
    BY <2>2, <1>2 DEF Slots
  <2> QED BY <1>2, <2>2, <2>4, <2>5 DEF NeedsLater
<1> QED BY <1>3, <1>4

(* A program is refused only if one of its top-level values needs, directly *)
(* or through functions, a value that comes no earlier than itself          *)
(* (jit.rs:1575-1616).                                                      *)
THEOREM RejectsCorrect == Spec => []RejectsOnlyForwardNeeds
<1>1. Init => RejectsOnlyForwardNeeds
  BY DEF Init, RejectsOnlyForwardNeeds
<1>2. ScopeOK /\ [Next]_vars => ScopeOK'
  BY ScopeIsConstant DEF ScopeOK
<1>3. ScopeOK /\ RejectsOnlyForwardNeeds /\ [Next]_vars => RejectsOnlyForwardNeeds'
  <2> SUFFICES ASSUME ScopeOK, RejectsOnlyForwardNeeds, [Next]_vars, phase' = "rejected"
               PROVE  \E v \in Values' : NeedsLater(scope', v)
    BY DEF RejectsOnlyForwardNeeds
  <2>1. scope' = scope /\ Values' = Values
    BY ScopeIsConstant DEF Values, Functions, IsFunction
  <2>2. CASE RejectValue
    <3>1. PICK v \in Slots : Due(v) /\ (ReadsLaterValue(v) \/ CallsTooEarly(v))
      BY <2>2 DEF RejectValue
    <3> QED BY <2>1, <3>1, RefusedNeedsLater DEF Due
  <2>3. CASE phase = "rejected"
    BY <2>1, <2>3 DEF RejectsOnlyForwardNeeds
  <2>4. RejectValue \/ phase = "rejected"
    BY DEF Next, vars, AllocateFunctions, CompileValue, RejectValue, FillCaptures, RunCode
  <2> QED BY <2>2, <2>3, <2>4
<1> QED BY <1>1, <1>2, <1>3, InitScopeOK, PTL DEF Spec

-----------------------------------------------------------------------------
(* The emitted code, and what memory holds when it runs.  The body is      *)
(* evaluated when all is stored and filled; a value, when all it reads is  *)
(* stored but perhaps itself.                                              *)
EvaluationOK(c, n, instr) ==
  instr.op = "evaluate" =>
    /\ instr.on = Body =>
         Slots \subseteq StoredIn(c, n) /\ \A f \in Functions : CompleteIn(c, f, n)
    /\ instr.on # Body => \A r \in Refs(instr.on) : r \in StoredIn(c, n) \/ r = instr.on
EvaluationsOK(c) == \A n \in 1..Len(c) : EvaluationOK(c, n, c[n])

(* The variables defined are the slots the code emitted so far stores, and *)
(* it runs only when it is complete.                                       *)
EmittedOK ==
  /\ phase \in {"A", "B1", "compiled", "rejected"}
  /\ defined \subseteq Slots
  /\ phase = "A" => code = <<>>
  /\ phase = "B1" =>
       /\ defined = StoredIn(code, Len(code) + 1) /\ Functions \subseteq defined
       /\ FilledIn(code, Len(code) + 1) = {}
  /\ phase # "compiled" => pc = 1 /\ calls = <<>> /\ ~garbage

RunOK ==
  garbage => /\ calls[1] # Body
             /\ Len(calls) = 1 => \A r \in Refs(Active) : Read(r) = Unset => r = Active

TopInv == MemoryInv /\ EvaluationsOK(code) /\ EmittedOK /\ RunOK

-----------------------------------------------------------------------------
LEMMA InitTopInv == Init => TopInv
<1> SUFFICES ASSUME Init PROVE TopInv
  OBVIOUS
<1>1. MemoryInv
  BY InitMemory DEF Init
<1>2. /\ code = <<>> /\ pc = 1 /\ calls = <<>> /\ garbage = FALSE /\ phase = "A"
      /\ defined = {} /\ Len(<<>>) = 0
  BY DEF Init, CodeInit
<1>3. EvaluationsOK(code)
  BY <1>2 DEF EvaluationsOK
<1>4. EmittedOK /\ RunOK
  BY <1>2 DEF EmittedOK, RunOK
<1> QED BY <1>1, <1>3, <1>4 DEF TopInv

LEMMA AppendEvaluationsOK ==
  ASSUME NEW c \in Seq(Instructions), EvaluationsOK(c),
         NEW instr \in Instructions, EvaluationOK(c, Len(c) + 1, instr)
  PROVE  EvaluationsOK(Append(c, instr))
<1> DEFINE d == Append(c, instr)
<1>1. /\ Len(d) = Len(c) + 1 /\ Len(c) \in Nat
      /\ \A m \in 1..Len(c) : d[m] = c[m]
      /\ d[Len(c) + 1] = instr
  BY AppendAdds
<1> HIDE DEF d
<1>2. ASSUME NEW n \in 1..Len(d) PROVE EvaluationOK(d, n, d[n])
  <2>1. StoredIn(d, n) = StoredIn(c, n) /\ FilledIn(d, n) = FilledIn(c, n)
    BY <1>1, PrefixDecides
  <2>2. EvaluationOK(c, n, d[n])
    BY <1>1 DEF EvaluationsOK
  <2> QED BY <2>1, <2>2 DEF EvaluationOK, CompleteIn
<1>3. EvaluationsOK(d)
  BY <1>2 DEF EvaluationsOK
<1> QED BY <1>3 DEF d

(* Code that grows before it runs keeps memory as it is.                   *)
LEMMA CompileMemory ==
  ASSUME MemoryInv, UNCHANGED <<scope, memory>>, ~garbage,
         WellFormed(code'), EvaluationsOK(code'),
         Len(code') >= Len(code), \A m \in 1..Len(code) : code'[m] = code[m]
  PROVE  MemoryInv' /\ EvaluationsOK(code)' /\ RunOK'
<1>1. Functions' = Functions /\ Values' = Values
  BY DEF Functions, Values, IsFunction
<1>2. WellFormed(code)'
  BY <1>1 DEF WellFormed, InstructionOK, Instructions
<1>3. EvaluationsOK(code)'
  BY <1>1 DEF EvaluationsOK, EvaluationOK, CompleteIn, Refs
<1>4. MemoryInv'
  BY <1>2, CodeGrows
<1>5. RunOK'
  BY DEF RunOK, memory
<1> QED BY <1>3, <1>4, <1>5

LEMMA CompileTopInv ==
  ASSUME TopInv, AllocateFunctions \/ CompileValue \/ RejectValue \/ FillCaptures
  PROVE  TopInv'
<1>0. /\ MemoryInv /\ EvaluationsOK(code) /\ EmittedOK /\ RunOK
      /\ pc = 1 /\ calls = <<>> /\ ~garbage /\ UNCHANGED <<scope, memory>>
  BY DEF TopInv, EmittedOK, AllocateFunctions, CompileValue, RejectValue, FillCaptures
<1>1. WellFormed(code) /\ code \in Seq(Instructions) /\ Len(code) \in Nat /\ ScopeOK
  BY <1>0 DEF MemoryInv, WellFormed
<1>2. pc' = 1 /\ calls' = <<>> /\ ~garbage' /\ Functions' = Functions
  BY <1>0 DEF memory, Functions, IsFunction
<1>3. CASE AllocateFunctions
  <2>1. /\ phase = "A" /\ phase' = "B1" /\ defined' = Functions
        /\ code' = Append(code, Alloc(Functions))
    BY <1>3 DEF AllocateFunctions
  <2>2. StoredIn(code, Len(code) + 1) = {} /\ FilledIn(code, Len(code) + 1) = {}
    BY <1>0, <2>1 DEF EmittedOK, StoredIn, FilledIn
  <2>3. /\ \A i : Stores(Alloc(Functions), i) <=> i \in Functions
        /\ \A p : ~Fills(Alloc(Functions), p)
        /\ Alloc(Functions) \in Instructions
    BY DEF Stores, Fills, Alloc, Instructions
  <2>4. InstructionOK(code, Len(code) + 1, Alloc(Functions))
    BY <2>2, <2>3 DEF InstructionOK
  <2>5. EvaluationOK(code, Len(code) + 1, Alloc(Functions))
    BY DEF EvaluationOK, Alloc
  <2>6. WellFormed(code') /\ EvaluationsOK(code')
    BY <1>0, <1>1, <2>1, <2>3, <2>4, <2>5, AppendWellFormed, AppendEvaluationsOK
  <2>7. /\ Len(code') = Len(code) + 1 /\ \A m \in 1..Len(code) : code'[m] = code[m]
        /\ StoredIn(code', Len(code) + 2)
             = StoredIn(code, Len(code) + 1)
                 \cup {i \in Slots : Stores(Alloc(Functions), i)}
        /\ FilledIn(code', Len(code) + 2)
             = FilledIn(code, Len(code) + 1)
                 \cup {p \in Slots \X Slots : Fills(Alloc(Functions), p)}
    BY <1>1, <2>1, <2>3, AppendAdds
  <2>8. /\ {i \in Slots : Stores(Alloc(Functions), i)} = Functions
        /\ {p \in Slots \X Slots : Fills(Alloc(Functions), p)} = {}
    BY <2>3, FunctionsAreSlots
  <2>9. Len(code') + 1 = Len(code) + 2
    BY <1>1, <2>7
  <2>10. StoredIn(code', Len(code') + 1) = Functions /\ FilledIn(code', Len(code') + 1) = {}
    BY <2>2, <2>7, <2>8, <2>9
  <2>11. MemoryInv' /\ EvaluationsOK(code)' /\ RunOK'
    BY <1>0, <1>1, <2>6, <2>7, CompileMemory
  <2> QED BY <1>2, <2>1, <2>10, <2>11, FunctionsAreSlots DEF TopInv, EmittedOK
<1>4. CASE CompileValue
  <2>1. PICK v \in Slots : /\ Due(v) /\ ~ReadsLaterValue(v)
                           /\ code' = Append(code, Evaluate(v))
                           /\ defined' = defined \cup {v}
    BY <1>4 DEF CompileValue
  <2>2. /\ phase = "B1" /\ phase' = "B1"
        /\ defined = StoredIn(code, Len(code) + 1) /\ Functions \subseteq defined
        /\ FilledIn(code, Len(code) + 1) = {}
    BY <1>0, <1>4 DEF CompileValue, EmittedOK
  <2>3. v \in Values /\ v \notin defined /\ v # Body
    BY <2>1, Numbering DEF Due
  <2>4. /\ \A i : Stores(Evaluate(v), i) <=> i = v
        /\ \A p : ~Fills(Evaluate(v), p)
        /\ Evaluate(v) \in Instructions
    BY <2>3 DEF Stores, Fills, Evaluate, Instructions
  <2>5. InstructionOK(code, Len(code) + 1, Evaluate(v))
    BY <2>2, <2>3, <2>4 DEF InstructionOK
  <2>6. EvaluationOK(code, Len(code) + 1, Evaluate(v))
    <3>1. ASSUME NEW r \in Refs(v), r # v PROVE r \in defined
      <4>1. r \in Slots
        BY <1>1, RefsAreSlots
      <4>2. CASE r \in Functions
        BY <2>2, <4>2
      <4>3. CASE r \in Values
        <5>1. r <= v
          BY <2>1, <4>1, <4>3, Numbering DEF ReadsLaterValue
        <5>2. ~(v <= r)
          BY <3>1, <4>1, <5>1, Numbering
        <5> QED BY <2>1, <4>3, <5>2 DEF Due
      <4> QED BY <4>1, <4>2, <4>3, FunctionsAreSlots
    <3> QED BY <2>2, <2>3, <3>1 DEF EvaluationOK, Evaluate
  <2>7. WellFormed(code') /\ EvaluationsOK(code')
    BY <1>0, <1>1, <2>1, <2>4, <2>5, <2>6, AppendWellFormed, AppendEvaluationsOK
  <2>8. /\ Len(code') = Len(code) + 1 /\ \A m \in 1..Len(code) : code'[m] = code[m]
        /\ StoredIn(code', Len(code) + 2)
             = StoredIn(code, Len(code) + 1) \cup {i \in Slots : Stores(Evaluate(v), i)}
        /\ FilledIn(code', Len(code) + 2)
             = FilledIn(code, Len(code) + 1)
                 \cup {p \in Slots \X Slots : Fills(Evaluate(v), p)}
    BY <1>1, <2>1, <2>4, AppendAdds
  <2>9. /\ {i \in Slots : Stores(Evaluate(v), i)} = {v}
        /\ {p \in Slots \X Slots : Fills(Evaluate(v), p)} = {}
    BY <2>4
  <2>10. Len(code') + 1 = Len(code) + 2
    BY <1>1, <2>8
  <2>11. StoredIn(code', Len(code') + 1) = defined' /\ FilledIn(code', Len(code') + 1) = {}
    BY <2>1, <2>2, <2>8, <2>9, <2>10
  <2>12. MemoryInv' /\ EvaluationsOK(code)' /\ RunOK'
    BY <1>0, <1>1, <2>7, <2>8, CompileMemory
  <2>13. defined' \subseteq Slots /\ Functions' \subseteq defined'
    BY <1>0, <1>2, <2>1, <2>2 DEF EmittedOK
  <2> QED BY <1>2, <2>2, <2>11, <2>12, <2>13 DEF TopInv, EmittedOK
<1>5. CASE RejectValue
  <2>1. code' = code /\ phase' = "rejected" /\ defined' = defined
    BY <1>5 DEF RejectValue
  <2>2. MemoryInv' /\ EvaluationsOK(code)' /\ RunOK'
    BY <1>0, <1>1, <2>1, CompileMemory
  <2> QED BY <1>0, <1>2, <2>1, <2>2 DEF TopInv, EmittedOK
<1>6. CASE FillCaptures
  <2> DEFINE filled == Append(code, Fill(Captures))
  <2>1. /\ phase = "B1" /\ phase' = "compiled" /\ Slots \subseteq defined
        /\ defined' = defined /\ code' = code \o <<Fill(Captures), Evaluate(Body)>>
    BY <1>6 DEF FillCaptures
  <2>2. Slots \subseteq StoredIn(code, Len(code) + 1)
    BY <1>0, <2>1 DEF EmittedOK
  <2>3. /\ \A i : ~Stores(Fill(Captures), i)
        /\ \A p : Fills(Fill(Captures), p) <=> p \in Captures
        /\ Fill(Captures) \in Instructions
    BY DEF Stores, Fills, Fill, Captures, Instructions
  <2>4. InstructionOK(code, Len(code) + 1, Fill(Captures))
    BY <2>2, <2>3 DEF InstructionOK
  <2>5. EvaluationOK(code, Len(code) + 1, Fill(Captures))
    BY DEF EvaluationOK, Fill
  <2>6. /\ filled \in Seq(Instructions) /\ Len(filled) = Len(code) + 1
        /\ \A m \in 1..Len(code) : filled[m] = code[m]
        /\ StoredIn(filled, Len(code) + 2)
             = StoredIn(code, Len(code) + 1) \cup {i \in Slots : Stores(Fill(Captures), i)}
        /\ FilledIn(filled, Len(code) + 2)
             = FilledIn(code, Len(code) + 1)
                 \cup {p \in Slots \X Slots : Fills(Fill(Captures), p)}
    BY <1>1, <2>3, AppendAdds
  <2>7. WellFormed(filled) /\ EvaluationsOK(filled)
    BY <1>0, <1>1, <2>3, <2>4, <2>5, AppendWellFormed, AppendEvaluationsOK
  <2> HIDE DEF filled
  <2>8. /\ \A i \in Slots : ~Stores(Evaluate(Body), i)
        /\ \A p : ~Fills(Evaluate(Body), p)
        /\ Evaluate(Body) \in Instructions
    BY Numbering DEF Stores, Fills, Evaluate, Instructions
  <2>9. Len(filled) + 1 = Len(code) + 2
    BY <1>1, <2>6
  <2>10. Slots \subseteq StoredIn(filled, Len(filled) + 1)
    BY <2>2, <2>6, <2>9
  <2>11. InstructionOK(filled, Len(filled) + 1, Evaluate(Body))
    BY <2>8 DEF InstructionOK
  <2>12. EvaluationOK(filled, Len(filled) + 1, Evaluate(Body))
    <3>1. \A p \in Captures : p \in FilledIn(filled, Len(filled) + 1)
      BY <2>3, <2>6, <2>9, FunctionsAreSlots DEF Captures
    <3>2. ASSUME NEW f \in Functions PROVE CompleteIn(filled, f, Len(filled) + 1)
      <4>1. \A r \in Refs(f) : <<f, r>> \in Captures
        BY <1>1, FunctionsAreSlots, RefsAreSlots DEF Captures
      <4> QED BY <3>1, <4>1 DEF CompleteIn
    <3> QED BY <2>10, <3>2 DEF EvaluationOK, Evaluate
  <2>13. code' = Append(filled, Evaluate(Body))
    <3>1. filled = Append(code, Fill(Captures))
      BY DEF filled
    <3> QED BY <1>1, <2>1, <2>3, <2>8, <3>1
  <2>14. WellFormed(code') /\ EvaluationsOK(code')
    BY <2>6, <2>7, <2>8, <2>11, <2>12, <2>13, AppendWellFormed, AppendEvaluationsOK
  <2>15. Len(code') >= Len(code) /\ \A m \in 1..Len(code) : code'[m] = code[m]
    <3>1. Len(code') = Len(filled) + 1 /\ \A m \in 1..Len(filled) : code'[m] = filled[m]
      BY <2>6, <2>8, <2>13, AppendAdds
    <3> QED BY <1>1, <2>6, <3>1
  <2>16. MemoryInv' /\ EvaluationsOK(code)' /\ RunOK'
    BY <1>0, <2>14, <2>15, CompileMemory
  <2> QED BY <1>0, <2>1, <2>16 DEF TopInv, EmittedOK
<1> QED BY <1>3, <1>4, <1>5, <1>6

-----------------------------------------------------------------------------
(* Nothing is missing once the body has started, and a value misses only   *)
(* its own variable.                                                       *)
LEMMA MissingRead ==
  ASSUME MemoryInv, EvaluationsOK(code), calls # <<>>,
         NEW r \in Refs(Active), Read(r) = Unset
  PROVE  calls[1] # Body /\ (Len(calls) = 1 => r = Active)
<1>1. /\ pc \in 1..Len(code) /\ code[pc].op = "evaluate" /\ calls[1] = code[pc].on
      /\ EvaluationOK(code, pc, code[pc])
  BY DEF MemoryInv, CallsOK, EvaluationsOK
<1>2. Active \in Slots \cup {Body} /\ r \in Slots
  BY ActiveIs, FunctionsAreSlots, RefsAreSlots DEF MemoryInv
<1>3. slots[r] = Unset => r \notin StoredIn(code, pc)
  BY <1>2 DEF MemoryInv, SlotsOK
<1>4. ASSUME calls[1] = Body PROVE FALSE
  <2>1. Slots \subseteq StoredIn(code, pc) /\ \A f \in Functions : CompleteIn(code, f, pc)
    BY <1>1, <1>4 DEF EvaluationOK
  <2>2. CASE Active \in Functions
    <3>1. <<Active, r>> \in FilledIn(code, pc) /\ Active \in Slots
      BY <2>1, <2>2, FunctionsAreSlots DEF CompleteIn
    <3>2. caps[Active][r] # Unset
      BY <1>2, <3>1 DEF MemoryInv, CapsOK
    <3> QED BY <2>2, <3>2, FunctionsAreSlots DEF Read, Cell
  <2>3. CASE Active \notin Functions
    BY <1>2, <1>3, <2>1, <2>3, FunctionsAreSlots DEF Read, Cell
  <2> QED BY <2>2, <2>3
<1>5. ASSUME Len(calls) = 1 PROVE r = Active
  <2>1. Active = code[pc].on /\ ~IsFunction(Active)
    BY <1>1, <1>5, ActiveIs
  <2>2. slots[r] = Unset
    BY <2>1 DEF Read, Cell
  <2>3. r \notin StoredIn(code, pc)
    BY <1>3, <2>2
  <2>4. Active # Body
    BY <1>1, <1>4, <2>1
  <2> QED BY <1>1, <2>1, <2>3, <2>4 DEF EvaluationOK
<1> QED BY <1>4, <1>5

LEMMA RunTopInv ==
  ASSUME TopInv, RunCode
  PROVE  TopInv'
<1>0. MemoryInv /\ EvaluationsOK(code) /\ EmittedOK /\ RunOK
  BY DEF TopInv
<1>1. phase = "compiled" /\ Run /\ UNCHANGED <<scope, code, phase, defined>>
  BY DEF RunCode
<1>2. MemoryInv'
  BY <1>0, <1>1, RunMemory
<1>3. Functions' = Functions /\ \A i : Refs(i)' = Refs(i)
  BY <1>1 DEF Functions, IsFunction, Refs
<1>4. EvaluationsOK(code)'
  BY <1>0, <1>1, <1>3 DEF EvaluationsOK, EvaluationOK, CompleteIn
<1>5. EmittedOK'
  BY <1>0, <1>1 DEF EmittedOK
<1>6. RunOK'
  <2>1. CASE ReadGarbage
    <3>1. calls # <<>> /\ UNCHANGED <<pc, slots, caps, calls, hand>>
      BY <2>1 DEF ReadGarbage, Evaluating
    <3>2. \E r \in Refs(Active) : Read(r) = Unset
      BY <2>1 DEF ReadGarbage
    <3>3. calls[1] # Body
      BY <1>0, <3>1, <3>2, MissingRead
    <3>4. Len(calls) = 1 => \A r \in Refs(Active) : Read(r) = Unset => r = Active
      BY <1>0, <3>1, MissingRead
    <3> QED BY <1>1, <3>1, <3>3, <3>4 DEF RunOK, Active, Read, Cell, Refs, IsFunction
  <2>2. CASE RunAlloc \/ RunFill \/ RunEvaluate \/ CallClosure \/ ReturnCall \/ StoreResult
    <3>1. ~garbage'
      BY <2>2 DEF RunAlloc, RunFill, RunEvaluate, CallClosure, ReturnCall, StoreResult,
                  Running, Evaluating
    <3> QED BY <3>1 DEF RunOK
  <2> QED BY <1>1, <2>1, <2>2 DEF Run
<1> QED BY <1>2, <1>4, <1>5, <1>6 DEF TopInv

LEMMA TopInvariant == Spec => []TopInv
<1>1. TopInv /\ [Next]_vars => TopInv'
  <2> SUFFICES ASSUME TopInv, [Next]_vars PROVE TopInv'
    OBVIOUS
  <2>1. CASE AllocateFunctions \/ CompileValue \/ RejectValue \/ FillCaptures
    BY <2>1, CompileTopInv
  <2>2. CASE RunCode
    BY <2>2, RunTopInv
  <2>3. CASE UNCHANGED vars
    <3>1. UNCHANGED <<scope, code, pc, slots, caps, calls, hand, garbage, phase, defined>>
      BY <2>3 DEF vars, memory
    <3>2. Functions' = Functions /\ \A i : Refs(i)' = Refs(i)
      BY <3>1 DEF Functions, IsFunction, Refs
    <3>3. MemoryInv'
      BY <3>1, <3>2, OnlyCallsChange DEF TopInv, MemoryInv, MemoryOK, CallsOK
    <3>4. EvaluationsOK(code)' /\ EmittedOK'
      BY <3>1, <3>2 DEF TopInv, EvaluationsOK, EvaluationOK, CompleteIn, EmittedOK
    <3>5. RunOK'
      BY <3>1 DEF TopInv, RunOK, Active, Read, Cell, Refs, IsFunction
    <3> QED BY <3>3, <3>4, <3>5 DEF TopInv
  <2> QED BY <2>1, <2>2, <2>3 DEF Next
<1> QED BY <1>1, InitTopInv, PTL DEF Spec

(* Every cell of memory holds what it may, and the variables defined are   *)
(* those of top-level definitions (jit.rs:1475-1711).                      *)
THEOREM TypeCorrect == Spec => []TypeOK
<1>1. TopInv => TypeOK
  BY DEF TopInv, MemoryInv, EmittedOK, TypeOK
<1> QED BY <1>1, TopInvariant, PTL

(* When the main body starts, every top-level definition is stored and     *)
(* every capture of every function holds what its slot holds (phase B2).   *)
THEOREM CompleteBeforeTheBodyCorrect == Spec => []CompleteBeforeTheBody
<1>1. TopInv => CompleteBeforeTheBody
  <2> SUFFICES ASSUME TopInv, calls # <<>>, Head(calls) = Body
               PROVE  /\ \A f \in Functions : \A r \in Refs(f) : caps[f][r] = slots[r]
                      /\ \A i \in Slots : slots[i] # Unset
    BY DEF CompleteBeforeTheBody
  <2>1. MemoryInv /\ EvaluationsOK(code)
    BY DEF TopInv
  <2>2. pc \in 1..Len(code) /\ code[pc].op = "evaluate" /\ code[pc].on = Body
    <3>1. Head(calls) = calls[1]
      BY <2>1 DEF MemoryInv, MemoryOK
    <3> QED BY <2>1, <3>1 DEF MemoryInv, CallsOK
  <2>3. Slots \subseteq StoredIn(code, pc) /\ \A f \in Functions : CompleteIn(code, f, pc)
    BY <2>1, <2>2 DEF EvaluationsOK, EvaluationOK
  <2>4. \A i \in Slots : slots[i] # Unset
    BY <2>1, <2>3 DEF MemoryInv, SlotsOK
  <2>5. ASSUME NEW f \in Functions, NEW r \in Refs(f) PROVE caps[f][r] = slots[r]
    <3>1. f \in Slots /\ r \in Slots
      BY <2>1, FunctionsAreSlots, RefsAreSlots DEF MemoryInv
    <3> QED BY <2>1, <2>3, <3>1 DEF MemoryInv, CapsOK, CompleteIn
  <2> QED BY <2>4, <2>5
<1> QED BY <1>1, TopInvariant, PTL

(* The check on forward references (jit.rs:1575-1616) leaves one way to    *)
(* read a cell before it is stored: a function that a value calls reads a  *)
(* capture that phase B2 has not stored, or a value reads its own          *)
(* variable.  No value reads a later one, and from the main body on        *)
(* nothing is missing.                                                     *)
THEOREM GarbageCorrect == Spec => []GarbageOnlyInCalledFunctions
<1>1. TopInv => GarbageOnlyInCalledFunctions
  <2> SUFFICES ASSUME TopInv, garbage
               PROVE  /\ Head(calls) # Body
                      /\ Len(calls) = 1 => \A r \in Refs(Active) : Read(r) = Unset => r = Active
    BY DEF GarbageOnlyInCalledFunctions
  <2>1. calls \in Seq(Slots \cup {Body}) /\ RunOK
    BY DEF TopInv, MemoryInv, MemoryOK
  <2>2. Head(calls) = calls[1]
    BY <2>1
  <2> QED BY <2>1, <2>2 DEF RunOK
<1> QED BY <1>1, TopInvariant, PTL
=============================================================================
