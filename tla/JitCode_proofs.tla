---------------------------- MODULE JitCode_proofs ----------------------------
(***************************************************************************)
(* What running the code of a scope does to memory, whatever the order of  *)
(* its instructions: at every instruction the slots hold exactly what the  *)
(* instructions before it store, and the captures what the fills before it *)
(* copied.  JitBlock_proofs and JitTop_proofs build on it.                 *)
(***************************************************************************)
EXTENDS JitCode, SequenceTheorems, TLAPS

Instructions ==
  [op : {"alloc"}, on : SUBSET Functions]
    \cup [op : {"fill"}, on : SUBSET (Functions \X Slots)]
    \cup [op : {"evaluate"}, on : Values \cup {Body}]

Stores(instr, i) ==
  \/ instr.op = "alloc" /\ i \in instr.on
  \/ instr.op = "evaluate" /\ i = instr.on
Fills(instr, p) == instr.op = "fill" /\ p \in instr.on

(* The slots stored, and the captures filled, before instruction n of c.   *)
StoredIn(c, n) == {i \in Slots : \E m \in 1..(n - 1) : Stores(c[m], i)}
FilledIn(c, n) == {p \in Slots \X Slots : \E m \in 1..(n - 1) : Fills(c[m], p)}

(* All that function f captures is filled before instruction n.            *)
CompleteIn(c, f, n) == \A r \in Refs(f) : <<f, r>> \in FilledIn(c, n)

(* Every slot is stored once, and a capture is filled after its slot.      *)
InstructionOK(c, n, instr) ==
  /\ instr \in Instructions
  /\ \A i \in Slots : Stores(instr, i) => i \notin StoredIn(c, n)
  /\ \A p \in Slots \X Slots : Fills(instr, p) => p[2] \in StoredIn(c, n)
WellFormed(c) ==
  /\ c \in Seq(Instructions)
  /\ \A n \in 1..Len(c) : InstructionOK(c, n, c[n])

ScopeOK == scope \in [Slots -> [fn : BOOLEAN, refs : SUBSET Slots]]

(* Memory, just before instruction pc or in the middle of it.              *)
SlotsOK ==
  \A i \in Slots :
    /\ slots[i] # Unset <=> i \in StoredIn(code, pc)
    /\ slots[i] # Unset => slots[i] \subseteq Functions
    /\ i \in Functions => slots[i] \in {Unset, {i}}
CapsOK ==
  \A f, r \in Slots :
    /\ <<f, r>> \in FilledIn(code, pc) => caps[f][r] = slots[r] /\ caps[f][r] # Unset
    /\ <<f, r>> \notin FilledIn(code, pc) => caps[f][r] = Unset
CallsOK ==
  /\ hand \subseteq Functions
  /\ calls # <<>> =>
       /\ pc \in 1..Len(code) /\ code[pc].op = "evaluate" /\ calls[1] = code[pc].on
       /\ \A i \in 2..Len(calls) : calls[i] \in Functions

MemoryInv == ScopeOK /\ WellFormed(code) /\ MemoryOK /\ SlotsOK /\ CapsOK /\ CallsOK

-----------------------------------------------------------------------------
LEMMA Numbering ==
  /\ Body \notin Slots /\ \A i \in Slots : i \in Nat
  /\ \A S \in SUBSET Slots : S # Unset
BY ScopesAssumption DEF Unset, Body, Slots

LEMMA FunctionsAreSlots ==
  /\ Functions \subseteq Slots /\ Values \subseteq Slots
  /\ Functions \cap Values = {} /\ Slots = Functions \cup Values
  /\ \A i : IsFunction(i) <=> i \in Functions
BY DEF Functions, Values, IsFunction

(* What an instruction adds to what is stored and filled.                  *)
LEMMA OneMore ==
  ASSUME NEW c, NEW n \in Nat \ {0}
  PROVE  /\ StoredIn(c, n + 1) = StoredIn(c, n) \cup {i \in Slots : Stores(c[n], i)}
         /\ FilledIn(c, n + 1) = FilledIn(c, n) \cup {p \in Slots \X Slots : Fills(c[n], p)}
<1>1. 1..(n + 1 - 1) = 1..(n - 1) \cup {n}
  OBVIOUS
<1> QED BY <1>1 DEF StoredIn, FilledIn

(* It does not depend on the instructions that follow.                     *)
LEMMA PrefixDecides ==
  ASSUME NEW c, NEW d, NEW k \in Nat, \A m \in 1..k : d[m] = c[m],
         NEW n \in 1..(k + 1)
  PROVE  StoredIn(d, n) = StoredIn(c, n) /\ FilledIn(d, n) = FilledIn(c, n)
<1>1. 1..(n - 1) \subseteq 1..k
  OBVIOUS
<1> QED BY <1>1 DEF StoredIn, FilledIn

LEMMA AppendWellFormed ==
  ASSUME NEW c, WellFormed(c), NEW instr, InstructionOK(c, Len(c) + 1, instr)
  PROVE  WellFormed(Append(c, instr))
<1> DEFINE d == Append(c, instr)
<1>1. c \in Seq(Instructions) /\ instr \in Instructions /\ Len(c) \in Nat
  BY DEF WellFormed, InstructionOK
<1>2. /\ d \in Seq(Instructions) /\ Len(d) = Len(c) + 1
      /\ \A m \in 1..Len(c) : d[m] = c[m]
      /\ d[Len(c) + 1] = instr
  BY <1>1
<1> HIDE DEF d
<1>3. ASSUME NEW n \in 1..Len(d) PROVE InstructionOK(d, n, d[n])
  <2>1. StoredIn(d, n) = StoredIn(c, n)
    BY <1>1, <1>2, PrefixDecides
  <2>2. InstructionOK(c, n, d[n])
    BY <1>1, <1>2 DEF WellFormed
  <2> QED BY <2>1, <2>2 DEF InstructionOK
<1>4. WellFormed(d)
  BY <1>2, <1>3 DEF WellFormed
<1> QED BY <1>4 DEF d

(* The instruction appended adds its stores and its fills.                 *)
LEMMA AppendAdds ==
  ASSUME NEW c \in Seq(Instructions), NEW instr \in Instructions
  PROVE  /\ Append(c, instr) \in Seq(Instructions)
         /\ Len(Append(c, instr)) = Len(c) + 1
         /\ \A m \in 1..Len(c) : Append(c, instr)[m] = c[m]
         /\ Append(c, instr)[Len(c) + 1] = instr
         /\ StoredIn(Append(c, instr), Len(c) + 2)
              = StoredIn(c, Len(c) + 1) \cup {i \in Slots : Stores(instr, i)}
         /\ FilledIn(Append(c, instr), Len(c) + 2)
              = FilledIn(c, Len(c) + 1) \cup {p \in Slots \X Slots : Fills(instr, p)}
<1> DEFINE d == Append(c, instr)
<1>1. /\ d \in Seq(Instructions) /\ Len(c) \in Nat /\ Len(d) = Len(c) + 1
      /\ \A m \in 1..Len(c) : d[m] = c[m]
      /\ d[Len(c) + 1] = instr
  OBVIOUS
<1> HIDE DEF d
<1>2. Len(c) + 1 \in Nat \ {0} /\ Len(c) + 1 + 1 = Len(c) + 2
  BY <1>1
<1>3. /\ StoredIn(d, Len(c) + 1) = StoredIn(c, Len(c) + 1)
      /\ FilledIn(d, Len(c) + 1) = FilledIn(c, Len(c) + 1)
  BY <1>1, PrefixDecides
<1>4. /\ StoredIn(d, Len(c) + 1 + 1)
           = StoredIn(d, Len(c) + 1) \cup {i \in Slots : Stores(d[Len(c) + 1], i)}
      /\ FilledIn(d, Len(c) + 1 + 1)
           = FilledIn(d, Len(c) + 1) \cup {p \in Slots \X Slots : Fills(d[Len(c) + 1], p)}
  BY <1>2, OneMore
<1>5. /\ StoredIn(d, Len(c) + 2)
           = StoredIn(c, Len(c) + 1) \cup {i \in Slots : Stores(instr, i)}
      /\ FilledIn(d, Len(c) + 2)
           = FilledIn(c, Len(c) + 1) \cup {p \in Slots \X Slots : Fills(instr, p)}
  BY <1>1, <1>2, <1>3, <1>4
<1> QED BY <1>1, <1>5 DEF d

(* What is filled stays filled.                                            *)
LEMMA CompleteGrows ==
  ASSUME NEW c, NEW f, NEW n \in Nat \ {0}, CompleteIn(c, f, n)
  PROVE  CompleteIn(c, f, n + 1)
<1>1. 1..(n - 1) \subseteq 1..(n + 1 - 1)
  OBVIOUS
<1>2. FilledIn(c, n) \subseteq FilledIn(c, n + 1)
  BY <1>1 DEF FilledIn
<1> QED BY <1>2 DEF CompleteIn

-----------------------------------------------------------------------------
LEMMA InitMemory == CodeInit => MemoryInv
<1> SUFFICES ASSUME CodeInit PROVE MemoryInv
  OBVIOUS
<1>1. ScopeOK
  BY ScopesAssumption DEF CodeInit, ScopeOK
<1>2. code = <<>> /\ Len(code) = 0 /\ pc = 1
  BY DEF CodeInit
<1>3. WellFormed(code)
  BY <1>2 DEF WellFormed
<1>4. StoredIn(code, pc) = {} /\ FilledIn(code, pc) = {}
  BY <1>2 DEF StoredIn, FilledIn
<1>5. MemoryOK
  <2>1. slots \in [Slots \cup {Body} -> Contents] /\ caps \in [Slots -> [Slots -> Contents]]
    BY DEF CodeInit, Contents
  <2>2. calls \in Seq(Slots \cup {Body}) /\ Len(calls) <= MaxCalls
    <3>1. calls = <<>> /\ Len(<<>>) = 0 /\ <<>> \in Seq(Slots \cup {Body})
      BY DEF CodeInit
    <3> QED BY <3>1, ScopesAssumption
  <2>3. scope \in Scopes /\ garbage \in BOOLEAN
    BY DEF CodeInit
  <2>4. pc \in 1..(Len(code) + 1)
    BY <1>2
  <2>5. hand \subseteq Slots
    BY DEF CodeInit
  <2> QED BY <2>1, <2>2, <2>3, <2>4, <2>5 DEF MemoryOK
<1>6. SlotsOK
  BY <1>4, Numbering DEF CodeInit, SlotsOK
<1>7. CapsOK /\ CallsOK
  BY <1>4 DEF CodeInit, CapsOK, CallsOK
<1> QED BY <1>1, <1>3, <1>5, <1>6, <1>7 DEF MemoryInv

(* Compiling more code leaves memory and what it means as they are.        *)
LEMMA CodeGrows ==
  ASSUME MemoryInv, UNCHANGED <<scope, memory>>, WellFormed(code)',
         Len(code') >= Len(code), \A m \in 1..Len(code) : code'[m] = code[m]
  PROVE  MemoryInv'
<1>0. scope' = scope /\ pc' = pc /\ slots' = slots /\ caps' = caps
      /\ calls' = calls /\ hand' = hand /\ garbage' = garbage
  BY DEF memory
<1>1. Len(code) \in Nat /\ Len(code') \in Nat /\ pc \in 1..(Len(code) + 1)
  BY DEF MemoryInv, MemoryOK, WellFormed
<1>2. StoredIn(code', pc') = StoredIn(code, pc) /\ FilledIn(code', pc') = FilledIn(code, pc)
  BY <1>0, <1>1, PrefixDecides
<1>3. ScopeOK' /\ MemoryOK'
  BY <1>0, <1>1 DEF MemoryInv, ScopeOK, MemoryOK
<1>4. Functions' = Functions
  BY <1>0 DEF Functions, IsFunction
<1>5. SlotsOK'
  BY <1>0, <1>2, <1>4 DEF MemoryInv, SlotsOK
<1>6. CapsOK'
  BY <1>0, <1>2 DEF MemoryInv, CapsOK
<1>7. CallsOK'
  BY <1>0, <1>1, <1>4 DEF MemoryInv, CallsOK
<1> QED BY <1>3, <1>5, <1>6, <1>7 DEF MemoryInv

-----------------------------------------------------------------------------
(* Execution.                                                              *)
LEMMA AtInstruction ==
  ASSUME MemoryInv, pc \in 1..Len(code)
  PROVE  /\ pc \in Nat \ {0} /\ Len(code) \in Nat /\ pc + 1 \in 1..(Len(code) + 1)
         /\ code[pc] \in Instructions /\ InstructionOK(code, pc, code[pc])
         /\ StoredIn(code, pc + 1)
              = StoredIn(code, pc) \cup {i \in Slots : Stores(code[pc], i)}
         /\ FilledIn(code, pc + 1)
              = FilledIn(code, pc) \cup {p \in Slots \X Slots : Fills(code[pc], p)}
<1>1. pc \in Nat \ {0} /\ Len(code) \in Nat /\ pc + 1 \in 1..(Len(code) + 1)
  BY DEF MemoryInv, WellFormed
<1>2. code[pc] \in Instructions /\ InstructionOK(code, pc, code[pc])
  BY DEF MemoryInv, WellFormed, InstructionOK
<1> QED BY <1>1, <1>2, OneMore

(* Steps inside an evaluation change nothing but the calls.                *)
LEMMA OnlyCallsChange ==
  ASSUME MemoryInv, UNCHANGED <<scope, code, pc, slots, caps>>,
         calls' \in Seq(Slots \cup {Body}), Len(calls') <= MaxCalls, garbage' \in BOOLEAN,
         CallsOK'
  PROVE  MemoryInv'
<1>1. Functions' = Functions
  BY DEF Functions, IsFunction
<1>2. ScopeOK' /\ MemoryOK' /\ SlotsOK' /\ CapsOK'
  BY <1>1, FunctionsAreSlots DEF MemoryInv, ScopeOK, MemoryOK, SlotsOK, CapsOK, CallsOK
<1>3. WellFormed(code)'
  BY <1>1 DEF MemoryInv, WellFormed, InstructionOK, Instructions, Values
<1> QED BY <1>2, <1>3 DEF MemoryInv

LEMMA RunAllocMemory ==
  ASSUME MemoryInv, RunAlloc, UNCHANGED <<scope, code>>
  PROVE  MemoryInv'
<1>1. /\ calls = <<>> /\ pc \in 1..Len(code) /\ code[pc].op = "alloc"
      /\ slots' = [i \in DOMAIN slots |-> IF i \in Operand THEN {i} ELSE slots[i]]
      /\ pc' = pc + 1 /\ UNCHANGED <<caps, calls, hand, garbage>>
  BY DEF RunAlloc, Running, MemoryInv, MemoryOK
<1>2. Operand \subseteq Functions
  BY <1>1, AtInstruction DEF Operand, Instructions
<1>3. Functions' = Functions
  BY DEF Functions, IsFunction
<1>4. /\ StoredIn(code, pc') = StoredIn(code, pc) \cup Operand
      /\ FilledIn(code, pc') = FilledIn(code, pc)
  <2>1. {i \in Slots : Stores(code[pc], i)} = Operand
    BY <1>1, <1>2, FunctionsAreSlots DEF Stores, Operand
  <2>2. {p \in Slots \X Slots : Fills(code[pc], p)} = {}
    BY <1>1 DEF Fills
  <2> QED BY <1>1, <2>1, <2>2, AtInstruction
<1>5. Operand \cap StoredIn(code, pc) = {}
  BY <1>1, <1>2, AtInstruction, FunctionsAreSlots DEF InstructionOK, Stores, Operand
<1>6. WellFormed(code)'
  BY <1>3 DEF MemoryInv, WellFormed, InstructionOK, Instructions, Values
<1>7. MemoryOK' /\ ScopeOK'
  BY <1>1, <1>2, AtInstruction, FunctionsAreSlots DEF MemoryInv, MemoryOK, ScopeOK, Contents
<1>8. SlotsOK'
  BY <1>1, <1>2, <1>3, <1>4, Numbering, FunctionsAreSlots
     DEF MemoryInv, MemoryOK, SlotsOK
<1>9. CapsOK'
  <2>1. \A r \in StoredIn(code, pc) : slots'[r] = slots[r]
    BY <1>1, <1>5 DEF MemoryInv, MemoryOK, StoredIn
  <2>2. \A f, r \in Slots : <<f, r>> \in FilledIn(code, pc) => r \in StoredIn(code, pc)
    BY DEF MemoryInv, CapsOK, SlotsOK
  <2> QED BY <1>1, <1>4, <2>1, <2>2 DEF MemoryInv, CapsOK
<1>10. CallsOK'
  BY <1>1, <1>3 DEF MemoryInv, CallsOK
<1> QED BY <1>6, <1>7, <1>8, <1>9, <1>10 DEF MemoryInv

LEMMA RunFillMemory ==
  ASSUME MemoryInv, RunFill, UNCHANGED <<scope, code>>
  PROVE  MemoryInv'
<1>1. /\ calls = <<>> /\ pc \in 1..Len(code) /\ code[pc].op = "fill"
      /\ caps' = [f \in Slots |-> [r \in Slots |->
                    IF <<f, r>> \in Operand THEN slots[r] ELSE caps[f][r]]]
      /\ pc' = pc + 1 /\ UNCHANGED <<slots, calls, hand, garbage>>
  BY DEF RunFill, Running, MemoryInv, MemoryOK
<1>2. Operand \subseteq Slots \X Slots
  BY <1>1, AtInstruction, FunctionsAreSlots DEF Operand, Instructions
<1>3. Functions' = Functions
  BY DEF Functions, IsFunction
<1>4. /\ StoredIn(code, pc') = StoredIn(code, pc)
      /\ FilledIn(code, pc') = FilledIn(code, pc) \cup Operand
  <2>1. {i \in Slots : Stores(code[pc], i)} = {}
    BY <1>1 DEF Stores
  <2>2. {p \in Slots \X Slots : Fills(code[pc], p)} = Operand
    BY <1>1, <1>2 DEF Fills, Operand
  <2> QED BY <1>1, <2>1, <2>2, AtInstruction
<1>5. \A p \in Operand : p[2] \in StoredIn(code, pc)
  BY <1>1, <1>2, AtInstruction DEF InstructionOK, Fills, Operand
<1>6. WellFormed(code)'
  BY <1>3 DEF MemoryInv, WellFormed, InstructionOK, Instructions, Values
<1>7. MemoryOK' /\ ScopeOK'
  BY <1>1, AtInstruction DEF MemoryInv, MemoryOK, ScopeOK
<1>8. SlotsOK'
  BY <1>1, <1>3, <1>4 DEF MemoryInv, SlotsOK
<1>9. CapsOK'
  <2> SUFFICES ASSUME NEW f \in Slots, NEW r \in Slots
               PROVE  /\ <<f, r>> \in FilledIn(code, pc')
                           => caps'[f][r] = slots[r] /\ caps'[f][r] # Unset
                      /\ <<f, r>> \notin FilledIn(code, pc') => caps'[f][r] = Unset
    BY <1>1 DEF CapsOK
  <2>1. CASE <<f, r>> \in Operand
    <3>1. r \in StoredIn(code, pc)
      BY <1>5, <2>1
    <3> QED BY <1>1, <1>4, <2>1, <3>1 DEF MemoryInv, SlotsOK
  <2>2. CASE <<f, r>> \notin Operand
    BY <1>1, <1>4, <2>2 DEF MemoryInv, CapsOK
  <2> QED BY <2>1, <2>2
<1>10. CallsOK'
  BY <1>1, <1>3 DEF MemoryInv, CallsOK
<1> QED BY <1>6, <1>7, <1>8, <1>9, <1>10 DEF MemoryInv

(* The activation that runs is a function, unless it is the evaluation     *)
(* itself, which is of a value or of the body.                             *)
LEMMA ActiveIs ==
  ASSUME MemoryInv, calls # <<>>
  PROVE  /\ Len(calls) \in Nat \ {0} /\ Active = calls[Len(calls)]
         /\ calls[1] \in Values \cup {Body} /\ calls[1] = code[pc].on
         /\ Len(calls) = 1 => ~IsFunction(Active) /\ Active = calls[1]
         /\ Len(calls) > 1 => Active \in Functions
<1>1. calls \in Seq(Slots \cup {Body}) /\ Len(calls) \in Nat \ {0}
  BY DEF MemoryInv, MemoryOK
<1>2. Active = calls[Len(calls)]
  BY DEF Active, Last
<1>3. calls[1] \in Values \cup {Body} /\ calls[1] = code[pc].on
  BY AtInstruction DEF MemoryInv, CallsOK, Instructions
<1>4. ~IsFunction(calls[1])
  BY <1>3, Numbering, FunctionsAreSlots
<1>5. Len(calls) > 1 => calls[Len(calls)] \in Functions
  BY <1>1 DEF MemoryInv, CallsOK
<1> QED BY <1>1, <1>2, <1>3, <1>4, <1>5

LEMMA RefsAreSlots ==
  ASSUME ScopeOK, NEW i \in Slots \cup {Body}
  PROVE  Refs(i) \subseteq Slots /\ (i \in Slots => Refs(i) = scope[i].refs)
BY Numbering DEF ScopeOK, Refs

(* What a cell holds is nothing, or closures of functions.                 *)
LEMMA CellIs ==
  ASSUME MemoryInv, NEW a \in Slots \cup {Body}, NEW r \in Refs(a)
  PROVE  Cell(a, r) # Unset => Cell(a, r) \subseteq Functions
<1>1. r \in Slots
  BY RefsAreSlots DEF MemoryInv
<1>2. slots[r] # Unset => slots[r] \subseteq Functions
  BY <1>1 DEF MemoryInv, SlotsOK
<1>3. CASE IsFunction(a)
  <2>1. caps[a][r] \in {Unset, slots[r]}
    BY <1>1, <1>3, FunctionsAreSlots DEF MemoryInv, CapsOK
  <2> QED BY <1>2, <1>3, <2>1 DEF Cell
<1>4. CASE ~IsFunction(a)
  BY <1>2, <1>4 DEF Cell
<1> QED BY <1>3, <1>4

LEMMA FoundAreFunctions ==
  ASSUME MemoryInv, NEW a \in Slots \cup {Body}
  PROVE  Found(a) \subseteq Functions
BY CellIs DEF Found

LEMMA RunEvaluateMemory ==
  ASSUME MemoryInv, RunEvaluate, UNCHANGED <<scope, code>>
  PROVE  MemoryInv'
<1>1. /\ pc \in 1..Len(code) /\ code[pc].op = "evaluate"
      /\ calls' = <<Operand>> /\ hand' = Found(Operand)
      /\ UNCHANGED <<pc, slots, caps, garbage>>
  BY DEF RunEvaluate, Running, MemoryInv, MemoryOK
<1>2. Operand \in Slots \cup {Body}
  BY <1>1, AtInstruction, FunctionsAreSlots DEF Operand, Instructions
<1>3. calls' \in Seq(Slots \cup {Body}) /\ Len(calls') <= MaxCalls
  BY <1>1, <1>2, ScopesAssumption
<1>4. Functions' = Functions
  BY DEF Functions, IsFunction
<1>5. CallsOK'
  BY <1>1, <1>2, <1>4, FoundAreFunctions DEF CallsOK, Operand
<1> QED BY <1>1, <1>3, <1>5, OnlyCallsChange DEF MemoryInv, MemoryOK

LEMMA CallClosureMemory ==
  ASSUME MemoryInv, CallClosure, UNCHANGED <<scope, code>>
  PROVE  MemoryInv'
<1>1. PICK f \in hand : calls' = Append(calls, f) /\ hand' = hand \cup Found(f)
  BY DEF CallClosure
<1>2. calls # <<>> /\ Len(calls) < MaxCalls /\ UNCHANGED <<pc, slots, caps, garbage>>
  BY DEF CallClosure, Evaluating
<1>3. f \in Functions /\ f \in Slots \cup {Body} /\ hand' \subseteq Functions
  <2>1. f \in Functions /\ f \in Slots \cup {Body} /\ hand \subseteq Functions
    BY <1>1, FunctionsAreSlots DEF MemoryInv, CallsOK
  <2> QED BY <1>1, <2>1, FoundAreFunctions
<1>4. calls \in Seq(Slots \cup {Body}) /\ Len(calls) \in Nat \ {0}
  BY <1>2, ActiveIs DEF MemoryInv, MemoryOK
<1>5. /\ calls' \in Seq(Slots \cup {Body}) /\ Len(calls') = Len(calls) + 1
      /\ calls'[Len(calls) + 1] = f
      /\ \A i \in 1..Len(calls) : calls'[i] = calls[i]
  BY <1>1, <1>3, <1>4, AppendProperties
<1>6. Len(calls') <= MaxCalls
  BY <1>2, <1>4, <1>5, ScopesAssumption
<1>7. Functions' = Functions
  BY DEF Functions, IsFunction
<1>8. CallsOK'
  <2>1. calls'[1] = calls[1]
    BY <1>4, <1>5
  <2>2. \A i \in 2..Len(calls') : calls'[i] \in Functions
    BY <1>2, <1>3, <1>4, <1>5 DEF MemoryInv, CallsOK
  <2> QED BY <1>2, <1>3, <1>7, <2>1, <2>2 DEF MemoryInv, CallsOK
<1> QED BY <1>2, <1>5, <1>6, <1>8, OnlyCallsChange DEF MemoryInv, MemoryOK

LEMMA ReturnCallMemory ==
  ASSUME MemoryInv, ReturnCall, UNCHANGED <<scope, code>>
  PROVE  MemoryInv'
<1>1. /\ calls # <<>> /\ Len(calls) > 1 /\ calls' = SubSeq(calls, 1, Len(calls) - 1)
      /\ UNCHANGED <<pc, slots, caps, hand, garbage>>
  BY DEF ReturnCall, Evaluating, Front
<1>2. calls \in Seq(Slots \cup {Body}) /\ Len(calls) \in Nat /\ Len(calls) <= MaxCalls
  BY DEF MemoryInv, MemoryOK
<1>3. /\ calls' \in Seq(Slots \cup {Body}) /\ Len(calls') = Len(calls) - 1
      /\ \A i \in 1..(Len(calls) - 1) : calls'[i] = calls[i]
  BY <1>1, <1>2
<1>4. Functions' = Functions
  BY DEF Functions, IsFunction
<1>5. CallsOK'
  BY <1>1, <1>2, <1>3, <1>4 DEF MemoryInv, CallsOK
<1>6. Len(calls') <= MaxCalls
  BY <1>2, <1>3, ScopesAssumption
<1> QED BY <1>1, <1>3, <1>5, <1>6, OnlyCallsChange DEF MemoryInv, MemoryOK

LEMMA StoreResultMemory ==
  ASSUME MemoryInv, StoreResult, UNCHANGED <<scope, code>>
  PROVE  MemoryInv'
<1>1. /\ calls # <<>> /\ Len(calls) = 1 /\ calls' = <<>> /\ hand' = {} /\ pc' = pc + 1
      /\ UNCHANGED <<caps, garbage>>
  BY DEF StoreResult, Evaluating
<1>2. PICK c \in SUBSET hand : slots' = [slots EXCEPT ![Active] = c]
  BY DEF StoreResult
<1>3. c # Unset /\ c \in Contents /\ c \subseteq Functions
  <2>1. c \subseteq Functions /\ c \in SUBSET Slots
    BY <1>2, FunctionsAreSlots DEF MemoryInv, CallsOK
  <2> QED BY <2>1, Numbering DEF Contents
<1>4. pc \in 1..Len(code) /\ code[pc].op = "evaluate"
  BY <1>1 DEF MemoryInv, CallsOK
<1>5. Active \in Values \cup {Body} /\ Active = code[pc].on
  BY <1>1, ActiveIs
<1>6. Functions' = Functions
  BY DEF Functions, IsFunction
<1>7. /\ StoredIn(code, pc') = StoredIn(code, pc) \cup ({Active} \cap Slots)
      /\ FilledIn(code, pc') = FilledIn(code, pc)
  <2>1. {i \in Slots : Stores(code[pc], i)} = {Active} \cap Slots
    BY <1>4, <1>5 DEF Stores
  <2>2. {p \in Slots \X Slots : Fills(code[pc], p)} = {}
    BY <1>4 DEF Fills
  <2> QED BY <1>1, <1>4, <2>1, <2>2, AtInstruction
<1>8. Active \notin StoredIn(code, pc)
  BY <1>4, <1>5, AtInstruction DEF InstructionOK, Stores, StoredIn
<1>9. /\ slots' \in [Slots \cup {Body} -> Contents] /\ slots'[Active] = c
      /\ \A i \in Slots : i # Active => slots'[i] = slots[i]
  BY <1>2, <1>3, <1>5, FunctionsAreSlots DEF MemoryInv, MemoryOK
<1>10. WellFormed(code)'
  BY <1>6 DEF MemoryInv, WellFormed, InstructionOK, Instructions, Values
<1>11. MemoryOK' /\ ScopeOK'
  BY <1>1, <1>4, <1>9, AtInstruction, ScopesAssumption DEF MemoryInv, MemoryOK, ScopeOK
<1>12. SlotsOK'
  BY <1>3, <1>5, <1>6, <1>7, <1>9, FunctionsAreSlots, Numbering DEF MemoryInv, SlotsOK
<1>13. CapsOK'
  <2>1. \A r \in StoredIn(code, pc) : slots'[r] = slots[r]
    BY <1>8, <1>9 DEF StoredIn
  <2>2. \A f, r \in Slots : <<f, r>> \in FilledIn(code, pc) => r \in StoredIn(code, pc)
    BY DEF MemoryInv, CapsOK, SlotsOK
  <2> QED BY <1>1, <1>7, <2>1, <2>2 DEF MemoryInv, CapsOK
<1>14. CallsOK'
  BY <1>1 DEF CallsOK
<1> QED BY <1>10, <1>11, <1>12, <1>13, <1>14 DEF MemoryInv

LEMMA RunMemory ==
  ASSUME MemoryInv, Run, UNCHANGED <<scope, code>>
  PROVE  MemoryInv'
<1>1. CASE ReadGarbage
  <2>1. UNCHANGED <<pc, slots, caps, calls, hand>> /\ garbage' = TRUE
    BY <1>1 DEF ReadGarbage
  <2>2. Functions' = Functions
    BY DEF Functions, IsFunction
  <2>3. CallsOK'
    BY <2>1, <2>2 DEF MemoryInv, CallsOK
  <2> QED BY <2>1, <2>3, OnlyCallsChange DEF MemoryInv, MemoryOK
<1> QED BY <1>1, RunAllocMemory, RunFillMemory, RunEvaluateMemory, CallClosureMemory,
           ReturnCallMemory, StoreResultMemory DEF Run
=============================================================================
