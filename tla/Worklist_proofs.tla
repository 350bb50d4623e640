--------------------------- MODULE Worklist_proofs ---------------------------
(***************************************************************************)
(* Proofs about the queue of instances, for programs of any size and any   *)
(* order of the hash maps: when the queue is empty, what was compiled is   *)
(* what the program uses, neither more nor less.                           *)
(***************************************************************************)
EXTENDS Worklist, FiniteSetTheorems, SequenceTheorems, WellFoundedInduction, TLAPS

(* The orders of a finite set enumerate it without repetition.             *)
LEMMA Orders ==
  ASSUME NEW S, IsFiniteSet(S), NEW q \in SetToSeqs(S)
  PROVE  q \in Seq(S) /\ Range(q) = S /\ IsInjective(q)
<1> DEFINE n == Cardinality(S)
<1>1. n \in Nat
  BY FS_CardinalityType
<1>2. q \in [1 .. n -> S] /\ \A i, j \in 1 .. n : q[i] = q[j] => i = j
  BY DEF SetToSeqs
<1>3. q \in Injection(1 .. n, S)
  BY <1>2 DEF Injection, IsInjective
<1>4. Cardinality(1 .. n) = n
  BY <1>1, FS_Interval
<1>5. q \in Surjection(1 .. n, S)
  BY <1>3, <1>4, FS_Injection
<1>6. \A x \in S : \E i \in 1 .. n : q[i] = x
  BY <1>5 DEF Surjection
<1>7. q \in Seq(S) /\ DOMAIN q = 1 .. n
  BY <1>1, <1>2
<1> QED BY <1>2, <1>6, <1>7 DEF Range, IsInjective

(* One sequence after another.                                             *)
LEMMA Joined ==
  ASSUME NEW S, NEW q \in Seq(S), NEW r \in Seq(S)
  PROVE  /\ q \o r \in Seq(S) /\ Range(q \o r) = Range(q) \cup Range(r)
         /\ IsInjective(q) /\ IsInjective(r) /\ Range(q) \cap Range(r) = {} => IsInjective(q \o r)
<1> DEFINE m == Len(q)  n == Len(r)  both == q \o r
<1>1. /\ m \in Nat /\ n \in Nat /\ both \in Seq(S)
      /\ DOMAIN both = 1 .. (m + n) /\ DOMAIN q = 1 .. m /\ DOMAIN r = 1 .. n
  OBVIOUS
<1>2. Range(both) = Range(q) \cup Range(r)
  BY RangeConcatenation
<1>3. \A k \in 1 .. m : both[k] = q[k]
  BY <1>1
<1>4. \A k \in 1 .. (m + n) : k \notin 1 .. m => k - m \in 1 .. n /\ both[k] = r[k - m]
  BY <1>1
<1> HIDE DEF m, n, both
<1>5. ASSUME IsInjective(q), IsInjective(r), Range(q) \cap Range(r) = {},
             NEW k \in 1 .. (m + n), NEW l \in 1 .. (m + n), both[k] = both[l]
      PROVE  k = l
  <2>1. \A i \in 1 .. m, j \in 1 .. n : q[i] # r[j]
    BY <1>1, <1>5 DEF Range
  <2>2. CASE k \in 1 .. m /\ l \in 1 .. m
    BY <1>1, <1>3, <1>5, <2>2 DEF IsInjective
  <2>3. CASE k \notin 1 .. m /\ l \notin 1 .. m
    <3>1. k - m \in 1 .. n /\ l - m \in 1 .. n /\ r[k - m] = r[l - m]
      BY <1>4, <1>5, <2>3
    <3>2. k - m = l - m
      BY <3>1, <1>1, <1>5 DEF IsInjective
    <3> QED BY <3>2, <1>1
  <2>4. CASE k \in 1 .. m /\ l \notin 1 .. m
    BY <1>3, <1>4, <1>5, <2>1, <2>4
  <2>5. CASE k \notin 1 .. m /\ l \in 1 .. m
    BY <1>3, <1>4, <1>5, <2>1, <2>5
  <2> QED BY <2>2, <2>3, <2>4, <2>5
<1>6. IsInjective(q) /\ IsInjective(r) /\ Range(q) \cap Range(r) = {} => IsInjective(both)
  BY <1>1, <1>5 DEF IsInjective
<1> QED BY <1>1, <1>2, <1>6 DEF both

(* A sequence without its first element.                                   *)
LEMMA Rest ==
  ASSUME NEW S, NEW q \in Seq(S), q # <<>>
  PROVE  /\ Head(q) \in S /\ Tail(q) \in Seq(S)
         /\ Range(q) = {Head(q)} \cup Range(Tail(q))
         /\ IsInjective(q) => Head(q) \notin Range(Tail(q)) /\ IsInjective(Tail(q))
<1> DEFINE n == Len(q)  t == Tail(q)
<1>1. /\ n \in Nat \ {0} /\ DOMAIN q = 1 .. n /\ t \in Seq(S) /\ DOMAIN t = 1 .. (n - 1)
      /\ Head(q) = q[1] /\ q[1] \in S
  BY EmptySeq
<1>2. \A k \in 1 .. n : k # 1 => k - 1 \in 1 .. (n - 1) /\ t[k - 1] = q[k]
  BY <1>1
<1>3. \A i \in 1 .. (n - 1) : i + 1 \in 1 .. n /\ i + 1 # 1 /\ t[i] = q[i + 1]
  BY <1>1
<1> HIDE DEF n, t
<1>4. Range(q) = {Head(q)} \cup Range(t)
  <2>1. ASSUME NEW x \in Range(q), x # Head(q) PROVE x \in Range(t)
    <3>1. PICK k \in 1 .. n : x = q[k]
      BY <1>1 DEF Range
    <3>2. k - 1 \in 1 .. (n - 1) /\ t[k - 1] = x
      BY <1>1, <1>2, <2>1, <3>1
    <3> QED BY <1>1, <3>2 DEF Range
  <2>2. ASSUME NEW x \in Range(t) PROVE x \in Range(q)
    <3>1. PICK i \in 1 .. (n - 1) : x = t[i]
      BY <1>1 DEF Range
    <3>2. i + 1 \in 1 .. n /\ x = q[i + 1]
      BY <1>3, <3>1
    <3> QED BY <1>1, <3>2 DEF Range
  <2>3. 1 \in 1 .. n
    BY <1>1
  <2> QED BY <1>1, <2>1, <2>2, <2>3 DEF Range
<1>5. ASSUME IsInjective(q) PROVE Head(q) \notin Range(t)
  <2>1. \A i \in 1 .. (n - 1) : q[i + 1] # q[1]
    BY <1>1, <1>3, <1>5 DEF IsInjective
  <2> QED BY <1>1, <1>3, <2>1 DEF Range
<1>6. ASSUME IsInjective(q), NEW i \in 1 .. (n - 1), NEW j \in 1 .. (n - 1), t[i] = t[j]
      PROVE  i = j
  <2>1. q[i + 1] = q[j + 1] /\ i + 1 \in 1 .. n /\ j + 1 \in 1 .. n
    BY <1>3, <1>6
  <2>2. i + 1 = j + 1
    BY <1>1, <1>6, <2>1 DEF IsInjective
  <2> QED BY <2>2
<1>7. IsInjective(q) => IsInjective(t)
  BY <1>1, <1>6 DEF IsInjective
<1> QED BY <1>1, <1>5, <1>7, <1>4 DEF t

-----------------------------------------------------------------------------
(* The invariant.  What has been asked for is what is compiled and what is *)
(* queued, no pair twice; the uses of a compiled instance have been asked  *)
(* for; and each pair is among the first or is used by an instance that    *)
(* was compiled before it.                                                 *)
Values == AtTheirTypes(ValueSlots)

Asked ==
  /\ \A a \in asked : a[1] \in FunctionSlots
  /\ instances \in Seq(Values \cup asked) /\ worklist \in Seq(asked)
  /\ First \subseteq asked
  /\ asked = AllOfThem \cup Range(worklist)
  /\ \A i \in Compiled : UsedBy(instances[i]) \subseteq asked

Once ==
  /\ \A i, j \in Compiled : instances[i] = instances[j] => i = j
  /\ IsInjective(worklist)
  /\ AllOfThem \cap Range(worklist) = {}

Needed ==
  /\ \A i \in Compiled :
       \/ instances[i] \in First
       \/ \E j \in Compiled : j < i /\ instances[i] \in UsedBy(instances[j])
  /\ \A u \in Range(worklist) :
       u \in First \/ \E j \in Compiled : u \in UsedBy(instances[j])

IInv ==
  /\ stage \in {"check", "seed"} => asked = {} /\ worklist = <<>>
  /\ stage \in {"seed", "work"} => FiniteProgram
  /\ stage = "seed" => instances \in Seq(Values)
  /\ stage = "work" \/ stage \in Later => Asked /\ Once /\ Needed
  /\ stage \in Later => worklist = <<>>

LEMMA FiniteSets ==
  ASSUME FiniteProgram
  PROVE  /\ IsFiniteSet(AtTheirTypes(ValueSlots)) /\ IsFiniteSet(AtTheirTypes(Unused))
         /\ IsFiniteSet(Seeds) /\ \A inst : IsFiniteSet(NewUses(inst))
<1>1. IsFiniteSet(ValueSlots) /\ IsFiniteSet(Unused)
  BY FS_Subset DEF FiniteProgram, ValueSlots, Unused, FunctionSlots
<1>2. \A S : IsFiniteSet(S) => IsFiniteSet(AtTheirTypes(S))
  <2> SUFFICES ASSUME NEW S, IsFiniteSet(S) PROVE IsFiniteSet(AtTheirTypes(S))
    OBVIOUS
  <2> DEFINE f == [s \in S |-> <<s, DefType(s)>>]
  <2>1. f \in Surjection(S, AtTheirTypes(S))
    BY DEF Surjection, AtTheirTypes
  <2> QED BY <2>1, FS_Surjection
<1>3. IsFiniteSet(Seeds)
  BY FS_Subset DEF FiniteProgram, Seeds, OfFunctions
<1>4. ASSUME NEW inst PROVE IsFiniteSet(NewUses(inst))
  <2>1. NewUses(inst) \subseteq MetIn(prog, inferer, inst)
    BY DEF NewUses, UsedBy, OfFunctions
  <2> QED BY <2>1, FS_Subset DEF FiniteProgram
<1> QED BY <1>1, <1>2, <1>3, <1>4

(* What the program is does not change once it is compiled.                *)
LEMMA SameProgram ==
  ASSUME UNCHANGED <<prog, inferer>>
  PROVE  /\ FunctionSlots' = FunctionSlots /\ Values' = Values /\ First' = First
         /\ FiniteProgram' = FiniteProgram
         /\ \A inst : UsedBy(inst)' = UsedBy(inst)
BY DEF FunctionSlots, IsFunctionDef, Values, ValueSlots, AtTheirTypes, DefType, First, Seeds,
       Unused, OfFunctions, UsedBy, FiniteProgram

LEMMA PairSlots ==
  /\ \A v \in Values : v[1] \notin FunctionSlots
  /\ \A a \in First : a[1] \in FunctionSlots
  /\ \A inst : \A u \in UsedBy(inst) : u[1] \in FunctionSlots
BY DEF Values, ValueSlots, AtTheirTypes, First, Seeds, Unused, OfFunctions, UsedBy

(* A step that leaves the queue alone.                                     *)
LEMMA IdleStep ==
  ASSUME IInv, UNCHANGED <<prog, inferer, asked, worklist, instances>>,
         \/ stage' = stage
         \/ stage = "work" /\ worklist = <<>> /\ stage' = "code"
         \/ stage' \in {"refused", "cut"}
         \/ stage \in Later /\ stage' \in Later
  PROVE  IInv'
<1>1. Compiled' = Compiled /\ AllOfThem' = AllOfThem
  BY SameProgram DEF Compiled, AllOfThem
<1>2. \A i \in Compiled : UsedBy(instances[i])' = UsedBy(instances[i])
  BY DEF UsedBy, OfFunctions, FunctionSlots, IsFunctionDef
<1>3. (Asked /\ Once /\ Needed) => (Asked /\ Once /\ Needed)'
  BY <1>1, <1>2, SameProgram DEF Asked, Once, Needed
<1> QED BY <1>3, SameProgram DEF IInv, Later

LEMMA RegisterStep ==
  ASSUME IInv, FiniteProgram, Register, UNCHANGED <<prog, inferer>>
  PROVE  IInv'
<1>1. PICK order \in SetToSeqs(Values) : instances' = order
  BY DEF Register, Values
<1>2. order \in Seq(Values)
  BY <1>1, FiniteSets, Orders DEF Values
<1> QED BY <1>1, <1>2, SameProgram DEF IInv, Register, Later

LEMMA SeedStep ==
  ASSUME IInv, Seed, UNCHANGED <<prog, inferer>>
  PROVE  IInv'
<1>1. PICK order \in SetToSeqs(Seeds), rest \in SetToSeqs(AtTheirTypes(Unused)) :
        worklist' = order \o rest
  BY DEF Seed
<1>2. FiniteProgram /\ instances \in Seq(Values) /\ stage' = "work"
  BY DEF IInv, Seed
<1>3. order \in Seq(Seeds) /\ Range(order) = Seeds /\ IsInjective(order)
  BY <1>2, FiniteSets, Orders
<1>4. /\ rest \in Seq(AtTheirTypes(Unused)) /\ Range(rest) = AtTheirTypes(Unused)
      /\ IsInjective(rest)
  BY <1>2, FiniteSets, Orders
<1>5. asked' = First /\ instances' = instances
  BY DEF Seed, First
<1>6. Seeds \cap AtTheirTypes(Unused) = {}
  BY DEF AtTheirTypes, Unused
<1>7. order \in Seq(First) /\ rest \in Seq(First)
  BY <1>3, <1>4 DEF First
<1>8. worklist' \in Seq(First) /\ Range(worklist') = First /\ IsInjective(worklist')
  BY <1>1, <1>3, <1>4, <1>6, <1>7, Joined DEF First
<1>9. Compiled' = {} /\ AllOfThem' = {}
  <2>1. \A i \in DOMAIN instances : instances[i] \in Values
    BY <1>2, ElementOfSeq
  <2> QED BY <2>1, <1>5, PairSlots, SameProgram DEF Compiled, AllOfThem
<1>10. instances' \in Seq(Values' \cup asked')
  BY <1>2, <1>5, SameProgram
<1>11. Asked'
  BY <1>5, <1>8, <1>9, <1>10, PairSlots, SameProgram DEF Asked
<1>12. Once'
  BY <1>8, <1>9 DEF Once
<1>13. Needed'
  BY <1>8, <1>9, SameProgram DEF Needed
<1> QED BY <1>2, <1>11, <1>12, <1>13, SameProgram DEF IInv, Later

LEMMA CompileStep ==
  ASSUME IInv, Compile, UNCHANGED <<prog, inferer>>
  PROVE  IInv'
<1> DEFINE inst == Head(worklist)  new == NewUses(inst)  rest == Tail(worklist)
<1>1. PICK order \in SetToSeqs(new) : worklist' = rest \o order
  BY DEF Compile
<1>2. /\ FiniteProgram /\ Asked /\ Once /\ Needed
      /\ stage = "work" /\ stage' = "work" /\ worklist # <<>>
  BY DEF IInv, Compile
<1>3. order \in Seq(new) /\ Range(order) = new /\ IsInjective(order)
  BY <1>2, FiniteSets, Orders
<1>4. /\ inst \in asked /\ rest \in Seq(asked)
      /\ Range(worklist) = {inst} \cup Range(rest)
      /\ inst \notin Range(rest) /\ IsInjective(rest)
  BY <1>2, Rest DEF Asked, Once
<1>5. asked' = asked \cup new /\ new \cap asked = {} /\ UsedBy(inst) \subseteq asked'
  BY DEF Compile, NewUses
<1>6. /\ worklist' \in Seq(asked') /\ IsInjective(worklist')
      /\ Range(worklist') = Range(rest) \cup new
  <2>1. rest \in Seq(asked') /\ order \in Seq(asked')
    BY <1>3, <1>4, <1>5, SeqMonotonic
  <2>2. Range(rest) \cap Range(order) = {}
    BY <1>3, <1>4, <1>5, RangeOfSeq
  <2> HIDE DEF rest, new
  <2>3. /\ rest \o order \in Seq(asked') /\ IsInjective(rest \o order)
        /\ Range(rest \o order) = Range(rest) \cup Range(order)
    BY <1>3, <1>4, <2>1, <2>2, Joined
  <2> QED BY <1>1, <1>3, <2>3
<1>7. PICK n \in Nat : n = Len(instances)
  BY <1>2 DEF Asked
<1>8. /\ DOMAIN instances = 1 .. n /\ DOMAIN instances' = 1 .. (n + 1)
      /\ instances'[n + 1] = inst /\ \A i \in 1 .. n : instances'[i] = instances[i]
      /\ instances' \in Seq(Values \cup asked')
  <2>1. instances \in Seq(Values \cup asked') /\ inst \in Values \cup asked'
    BY <1>2, <1>4, <1>5, SeqMonotonic DEF Asked
  <2>2. instances' = Append(instances, inst)
    BY DEF Compile
  <2> HIDE DEF inst, new, rest
  <2>3. /\ instances' \in Seq(Values \cup asked') /\ Len(instances') = Len(instances) + 1
        /\ \A i \in 1 .. Len(instances) : instances'[i] = instances[i]
        /\ instances'[Len(instances) + 1] = inst
    BY <2>1, <2>2, AppendProperties
  <2> QED BY <1>7, <2>1, <2>3
<1> HIDE DEF inst, new, rest
<1>9. /\ Compiled' = Compiled \cup {n + 1} /\ AllOfThem' = AllOfThem \cup {inst}
      /\ \A i \in Compiled : i \in 1 .. n /\ instances'[i] = instances[i]
  <2>1. inst[1] \in FunctionSlots
    BY <1>2, <1>4 DEF Asked
  <2>2. 1 .. (n + 1) = 1 .. n \cup {n + 1}
    BY <1>8
  <2>3. Compiled' = Compiled \cup {n + 1}
    BY <1>8, <2>1, <2>2, SameProgram DEF Compiled
  <2>4. \A i \in Compiled : i \in 1 .. n
    BY <1>8 DEF Compiled
  <2> QED BY <1>8, <2>3, <2>4 DEF AllOfThem
<1>10. /\ \A i \in Compiled : UsedBy(instances[i])' = UsedBy(instances[i])
      /\ UsedBy(instances[n + 1])' = UsedBy(inst)
  BY <1>8, <1>9 DEF UsedBy, OfFunctions, FunctionSlots, IsFunctionDef
<1>11. n + 1 \notin Compiled /\ \A i \in Compiled : i < n + 1
  BY <1>8, <1>9
<1>12. Asked'
  <2>1. \A a \in asked' : a[1] \in FunctionSlots'
    BY <1>2, <1>5, PairSlots, SameProgram DEF Asked, new, NewUses
  <2>2. asked' = AllOfThem' \cup Range(worklist')
    BY <1>2, <1>4, <1>5, <1>6, <1>9 DEF Asked
  <2>3. \A i \in Compiled' : UsedBy(instances[i])' \subseteq asked'
    BY <1>2, <1>5, <1>9, <1>10 DEF Asked
  <2>4. First' \subseteq asked' /\ instances' \in Seq(Values' \cup asked')
    BY <1>2, <1>5, <1>8, SameProgram DEF Asked
  <2> QED BY <1>6, <2>1, <2>2, <2>3, <2>4 DEF Asked
<1>13. Once'
  <2>1. inst \notin AllOfThem
    BY <1>2, <1>4 DEF Once
  <2>2. \A i, j \in Compiled' : instances'[i] = instances'[j] => i = j
    BY <1>2, <1>8, <1>9, <2>1 DEF Once, AllOfThem
  <2>3. AllOfThem' \cap Range(worklist') = {}
    BY <1>2, <1>4, <1>5, <1>6, <1>9 DEF Once, Asked
  <2> QED BY <1>6, <2>2, <2>3 DEF Once
<1>14. Needed'
  <2>1. inst \in First \/ \E j \in Compiled : inst \in UsedBy(instances[j])
    BY <1>2, <1>4 DEF Needed
  <2>2. ASSUME NEW i \in Compiled'
        PROVE  \/ instances'[i] \in First
               \/ \E j \in Compiled' : j < i /\ instances'[i] \in UsedBy(instances[j])'
    <3>1. CASE i = n + 1
      BY <3>1, <2>1, <1>8, <1>9, <1>10, <1>11
    <3>2. CASE i \in Compiled
      BY <3>2, <1>2, <1>9, <1>10 DEF Needed
    <3> QED BY <3>1, <3>2, <1>9
  <2>3. ASSUME NEW u \in Range(worklist')
        PROVE  u \in First \/ \E j \in Compiled' : u \in UsedBy(instances[j])'
    <3>1. CASE u \in Range(rest)
      BY <3>1, <1>2, <1>4, <1>9, <1>10 DEF Needed
    <3>2. CASE u \in new
      <4>1. u \in UsedBy(inst)
        BY <3>2 DEF new, NewUses
      <4> QED BY <4>1, <1>9, <1>10
    <3> QED BY <3>1, <3>2, <1>6
  <2> QED BY <2>2, <2>3, SameProgram DEF Needed
<1> QED BY <1>2, <1>12, <1>13, <1>14, SameProgram DEF IInv, Later

-----------------------------------------------------------------------------
(* The inductive invariant of the queue, whatever the program is.          *)
THEOREM QueueCorrect == QueueSpec => []IInv
<1>1. QueueInit => IInv
  BY DEF QueueInit, IInv, Later
<1>2. IInv /\ [QueueNext]_<<prog, inferer, queueVars>> => IInv'
  <2> SUFFICES ASSUME IInv, [QueueNext]_<<prog, inferer, queueVars>> PROVE IInv'
    OBVIOUS
  <2>1. CASE stage = "check" /\ UNCHANGED queueVars
    BY <2>1 DEF IInv, queueVars, Later
  <2>2. CASE FiniteProgram /\ Register /\ UNCHANGED <<prog, inferer>>
    BY <2>2, RegisterStep
  <2>3. CASE Seed /\ UNCHANGED <<prog, inferer>>
    BY <2>3, SeedStep
  <2>4. CASE Compile /\ UNCHANGED <<prog, inferer>>
    BY <2>4, CompileStep
  <2>5. CASE Finish /\ UNCHANGED <<prog, inferer>>
    BY <2>5, IdleStep DEF Finish
  <2>6. CASE (GoTo("refused") \/ GoTo("cut")) /\ UNCHANGED <<prog, inferer>>
    BY <2>6, IdleStep DEF GoTo
  <2>7. CASE (stage \in Later /\ \E how \in Later : GoTo(how)) /\ UNCHANGED <<prog, inferer>>
    BY <2>7, IdleStep DEF GoTo
  <2>8. CASE UNCHANGED <<prog, inferer, queueVars>>
    BY <2>8, IdleStep DEF queueVars
  <2> QED BY <2>1, <2>2, <2>3, <2>4, <2>5, <2>6, <2>7, <2>8 DEF QueueNext
<1> QED BY <1>1, <1>2, PTL DEF QueueSpec

(* When the queue is empty (jit.rs:1056) each pair that main or a value    *)
(* uses has been compiled, each function without a use, and what these use *)
(* in turn, each pair once and nothing else: for programs of any size, and *)
(* in whatever order the hash maps are iterated.                           *)
THEOREM CompilesExactlyWhatIsUsedCorrect == QueueSpec => []CompilesExactlyWhatIsUsed
<1>1. IInv => CompilesExactlyWhatIsUsed
  <2>1. SUFFICES ASSUME IInv, stage \in Later PROVE CompilesExactlyWhatIsUsed
    BY DEF CompilesExactlyWhatIsUsed
  <2>2. Asked /\ Once /\ Needed /\ Range(worklist) = {}
    BY <2>1 DEF IInv, Range
  <2>3. asked = AllOfThem
    BY <2>2 DEF Asked
  <2> QED BY <2>2, <2>3 DEF Asked, Once, Needed, CompilesExactlyWhatIsUsed
<1> QED BY QueueCorrect, <1>1, PTL

(* And none of them is superfluous (jit.rs:1056): a smaller set of         *)
(* instances lacks something that the program or one of them uses.         *)
THEOREM NothingIsSuperfluousCorrect == QueueSpec => []NothingIsSuperfluous
<1>1. IInv => NothingIsSuperfluous
  <2>1. SUFFICES ASSUME IInv, stage \in Later, NEW S \in SUBSET AllOfThem, First \subseteq S,
                        \A inst \in S : UsedBy(inst) \subseteq S,
                        NEW k \in Compiled, instances[k] \notin S
                 PROVE  FALSE
    BY DEF NothingIsSuperfluous, AllOfThem
  <2> DEFINE Missing == {i \in Compiled : instances[i] \notin S}
  <2>2. Asked /\ Needed
    BY <2>1 DEF IInv
  <2>3. Compiled \subseteq Nat
    BY <2>2 DEF Asked, Compiled
  <2>4. k \in Missing /\ Missing \subseteq Nat
    BY <2>1, <2>3
  <2> HIDE DEF Missing
  <2>5. PICK m \in Missing : \A j \in Missing : ~ (<<j, m>> \in OpToRel(<, Nat))
    BY <2>4, NatLessThanWellFounded, WFMin
  <2>6. \A j \in Missing : ~ (j < m)
    BY <2>4, <2>5 DEF OpToRel
  <2>7. m \in Compiled /\ instances[m] \notin S
    BY DEF Missing
  <2>8. PICK j \in Compiled : j < m /\ instances[m] \in UsedBy(instances[j])
    BY <2>1, <2>2, <2>7 DEF Needed
  <2>9. instances[j] \in S
    BY <2>6, <2>8 DEF Missing
  <2> QED BY <2>1, <2>7, <2>8, <2>9
<1> QED BY QueueCorrect, <1>1, PTL
=============================================================================
