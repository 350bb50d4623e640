---------------------------- MODULE Interp_proofs ----------------------------
(***************************************************************************)
(* Proofs about the evaluator and the driver, for any programs, files and  *)
(* REPL sessions: they implement LazyBindings, CURRENT_DIR is always the   *)
(* directory of the innermost import, and a variable is always where its   *)
(* coordinates say.                                                        *)
(*                                                                         *)
(* The stack of activations is reasoned about one entry at a time: what a  *)
(* step does to it is to push an entry, to remove one or to replace one.   *)
(***************************************************************************)
EXTENDS Repl, FiniteSetTheorems, SequenceTheorems, WellFoundedInduction, TLAPS

(* A sequence, whatever its entries are.                                   *)
IsSequence(q) == q \in Seq({q[i] : i \in DOMAIN q})

LEMMA SequenceIs ==
  ASSUME NEW q, IsSequence(q)
  PROVE  Len(q) \in Nat /\ DOMAIN q = 1..Len(q)
BY DEF IsSequence

LEMMA AnySequence ==
  ASSUME NEW S, NEW q \in Seq(S)
  PROVE  IsSequence(q)
<1> DEFINE T == {q[i] : i \in DOMAIN q}
<1>1. Len(q) \in Nat /\ q = [i \in 1..Len(q) |-> q[i]]
  OBVIOUS
<1>2. \A i \in 1..Len(q) : q[i] \in T
  BY <1>1
<1> HIDE DEF T
<1>3. q \in [1..Len(q) -> T]
  BY <1>1, <1>2
<1>4. q \in Seq(T)
  BY <1>1, <1>3, SeqDef
<1> QED BY <1>4 DEF T, IsSequence

LEMMA Pushed ==
  ASSUME NEW q, IsSequence(q), NEW e
  PROVE  /\ IsSequence(Append(q, e)) /\ Len(Append(q, e)) = Len(q) + 1
         /\ DOMAIN Append(q, e) = DOMAIN q \cup {Len(q) + 1}
         /\ \A i \in DOMAIN q : Append(q, e)[i] = q[i] /\ i < Len(q) + 1
         /\ Append(q, e)[Len(q) + 1] = e
<1> DEFINE S == {q[i] : i \in DOMAIN q} \cup {e}
           d == Append(q, e)
<1>1. q \in Seq(S) /\ e \in S
  <2>1. \A i \in 1..Len(q) : q[i] \in S
    BY SequenceIs
  <2> QED BY <2>1 DEF IsSequence
<1> HIDE DEF S
<1>2. /\ d \in Seq(S) /\ Len(d) = Len(q) + 1 /\ Len(q) \in Nat
      /\ \A i \in 1..Len(q) : d[i] = q[i]
      /\ d[Len(q) + 1] = e
  BY <1>1, AppendProperties
<1>3. DOMAIN q = 1..Len(q) /\ DOMAIN d = 1..(Len(q) + 1)
  BY <1>1, <1>2
<1> HIDE DEF d
<1>4. IsSequence(d)
  BY <1>2, AnySequence
<1>5. DOMAIN d = DOMAIN q \cup {Len(q) + 1} /\ \A i \in DOMAIN q : i < Len(q) + 1
  BY <1>2, <1>3
<1> QED BY <1>2, <1>3, <1>4, <1>5 DEF d

LEMMA Popped ==
  ASSUME NEW q, IsSequence(q), q # <<>>
  PROVE  /\ IsSequence(Front(q)) /\ Len(Front(q)) = Len(q) - 1
         /\ Len(q) \in DOMAIN q /\ Len(q) = Len(Front(q)) + 1
         /\ DOMAIN q = DOMAIN Front(q) \cup {Len(q)}
         /\ \A i \in DOMAIN Front(q) : Front(q)[i] = q[i] /\ i < Len(q)
         /\ Last(q) = q[Len(q)]
         /\ q = Append(Front(q), Last(q))
<1> DEFINE S == {q[i] : i \in DOMAIN q}
           d == SubSeq(q, 1, Len(q) - 1)
<1>1. q \in Seq(S) /\ Len(q) \in Nat /\ Len(q) # 0 /\ DOMAIN q = 1..Len(q)
  BY EmptySeq DEF IsSequence
<1> HIDE DEF S
<1>2. /\ d \in Seq(S) /\ Len(d) = Len(q) - 1 /\ DOMAIN d = 1..(Len(q) - 1)
      /\ \A i \in 1..(Len(q) - 1) : d[i] = q[i]
  BY <1>1
<1>3. Front(q) = d /\ Last(q) = q[Len(q)]
  BY DEF Front, Last
<1> HIDE DEF d
<1>4. IsSequence(d)
  BY <1>2, AnySequence
<1>5. /\ Len(q) \in DOMAIN q /\ Len(q) = Len(d) + 1 /\ DOMAIN q = DOMAIN d \cup {Len(q)}
      /\ \A i \in DOMAIN d : d[i] = q[i] /\ i < Len(q)
  BY <1>1, <1>2
<1>6. q = Append(d, q[Len(q)])
  <2>1. q[Len(q)] \in S
    BY <1>1, <1>5, ElementOfSeq
  <2> DEFINE a == Append(d, q[Len(q)])
  <2>2. /\ a \in Seq(S) /\ Len(a) = Len(d) + 1
        /\ \A i \in 1..Len(d) : a[i] = d[i]
        /\ a[Len(d) + 1] = q[Len(q)]
    BY <1>2, <2>1, AppendProperties
  <2> HIDE DEF a
  <2>3. Len(a) = Len(q) /\ a[Len(q)] = q[Len(q)]
    BY <1>5, <2>2, SMTT(30)
  <2>4. \A i \in 1..Len(q) : i \in 1..Len(d) \/ i = Len(q)
    <3>1. \A n \in Nat : \A i \in 1..n : i \in 1..(n - 1) \/ i = n
      OBVIOUS
    <3> QED BY <1>1, <1>2, <3>1
  <2>5. \A i \in 1..Len(q) : a[i] = q[i]
    BY <1>2, <2>2, <2>3, <2>4
  <2>6. a = q
    BY <1>1, <2>2, <2>3, <2>5, SeqEqual
  <2> QED BY <2>6 DEF a
<1> QED BY <1>2, <1>3, <1>4, <1>5, <1>6

-----------------------------------------------------------------------------
(* Every position of a kind has its rank among them.                       *)
RanksOK(ks) ==
  \A n \in 1..Cardinality(Positions(ks, "Force")) :
    Ranked(Positions(ks, "Force"), n) # {}

LEMMA PositionsAre ==
  ASSUME NEW ks, IsSequence(ks), NEW kind
  PROVE  /\ Positions(ks, kind) \subseteq 1..Len(ks)
         /\ IsFiniteSet(Positions(ks, kind)) /\ Cardinality(Positions(ks, kind)) \in Nat
<1>1. Positions(ks, kind) \subseteq 1..Len(ks) /\ Len(ks) \in Nat
  BY SequenceIs DEF Positions
<1>2. IsFiniteSet(1..Len(ks))
  BY <1>1, FS_Interval
<1>3. IsFiniteSet(Positions(ks, kind))
  BY <1>1, <1>2, FS_Subset
<1> QED BY <1>1, <1>3, FS_CardinalityType

LEMMA PositionsPushed ==
  ASSUME NEW ks, IsSequence(ks), NEW e, NEW kind
  PROVE  Positions(Append(ks, e), kind)
           = IF e.k = kind THEN Positions(ks, kind) \cup {Len(ks) + 1}
             ELSE Positions(ks, kind)
<1>1. /\ DOMAIN Append(ks, e) = DOMAIN ks \cup {Len(ks) + 1}
      /\ \A i \in DOMAIN ks : Append(ks, e)[i] = ks[i]
      /\ Append(ks, e)[Len(ks) + 1] = e
  BY Pushed
<1> QED BY <1>1 DEF Positions

(* A position above all others has the next rank and changes no other's.   *)
LEMMA RankedAbove ==
  ASSUME NEW m \in Nat, NEW S \in SUBSET (1..m)
  PROVE  /\ Cardinality(S \cup {m + 1}) = Cardinality(S) + 1 /\ Cardinality(S) \in Nat
         /\ \A n \in 1..Cardinality(S) : Ranked(S \cup {m + 1}, n) = Ranked(S, n)
         /\ Ranked(S \cup {m + 1}, Cardinality(S) + 1) = {m + 1}
<1> DEFINE T == S \cup {m + 1}
           N == Cardinality(S)
<1>1. IsFiniteSet(S) /\ N \in Nat
  <2>1. IsFiniteSet(1..m)
    BY FS_Interval
  <2>2. IsFiniteSet(S)
    BY <2>1, FS_Subset
  <2> QED BY <2>2, FS_CardinalityType
<1>2. /\ m + 1 \notin S /\ m + 1 <= m + 1
      /\ \A j \in S : j \in Nat /\ j <= m + 1 /\ ~(m + 1 <= j)
  OBVIOUS
<1>3. Cardinality(T) = N + 1
  BY <1>1, <1>2, FS_AddElement
<1>4. \A j : j \in T <=> j \in S \/ j = m + 1
  OBVIOUS
<1>5. \A n \in 1..N : n # N + 1
  BY <1>1
<1> HIDE DEF T
<1>6. UpTo(T, m + 1) = T
  <2>1. \A j \in T : j <= m + 1
    BY <1>2, <1>4
  <2> QED BY <2>1 DEF UpTo
<1>7. \A i \in S : UpTo(T, i) = UpTo(S, i)
  BY <1>2, <1>4 DEF UpTo
<1>8. ASSUME NEW i \in S PROVE Cardinality(UpTo(S, i)) # N + 1
  <2>1. UpTo(S, i) \in SUBSET S
    BY DEF UpTo
  <2>2. IsFiniteSet(UpTo(S, i)) /\ Cardinality(UpTo(S, i)) <= N
    BY <1>1, <2>1, FS_Subset
  <2>3. Cardinality(UpTo(S, i)) \in Nat
    BY <2>2, FS_CardinalityType
  <2> HIDE DEF N
  <2>4. \A n \in Nat : n <= N => n # N + 1
    BY <1>1
  <2> QED BY <2>2, <2>3, <2>4
<1> HIDE DEF N
<1>9. ASSUME NEW n \in 1..N PROVE Ranked(T, n) = Ranked(S, n)
  <2>1. Cardinality(UpTo(T, m + 1)) # n
    BY <1>3, <1>5, <1>6
  <2>2. \A i : i \in T /\ Cardinality(UpTo(T, i)) = n <=> i \in S /\ Cardinality(UpTo(S, i)) = n
    BY <1>4, <1>7, <2>1
  <2> QED BY <2>2 DEF Ranked
<1>10. Ranked(T, N + 1) = {m + 1}
  <2>1. \A i : i \in T /\ Cardinality(UpTo(T, i)) = N + 1 <=> i = m + 1
    BY <1>3, <1>4, <1>6, <1>7, <1>8
  <2> QED BY <2>1 DEF Ranked
<1> QED BY <1>1, <1>3, <1>9, <1>10 DEF N, T

LEMMA ForcingIs ==
  ASSUME NEW ks
  PROVE  ForcingIn(ks)
           = [n \in 1..Cardinality(Positions(ks, "Force")) |->
                <<ks[Nth(Positions(ks, "Force"), n)].f, ks[Nth(Positions(ks, "Force"), n)].s>>]
BY DEF ForcingIn

(* The forces in progress follow the stack.                                *)
LEMMA ForcingPushed ==
  ASSUME NEW ks, IsSequence(ks), NEW e
  PROVE  /\ IsSequence(ForcingIn(ks))
         /\ RanksOK(Append(ks, e)) <=> RanksOK(ks)
         /\ RanksOK(ks) =>
              ForcingIn(Append(ks, e))
                = IF e.k = "Force" THEN Append(ForcingIn(ks), <<e.f, e.s>>) ELSE ForcingIn(ks)
<1> DEFINE S == Positions(ks, "Force")
           d == Append(ks, e)
           T == Positions(d, "Force")
           m == Len(ks)
<1>1. /\ m \in Nat /\ DOMAIN ks = 1..m /\ S \in SUBSET (1..m) /\ Cardinality(S) \in Nat
      /\ \A i \in 1..m : d[i] = ks[i]
      /\ d[m + 1] = e
  BY SequenceIs, PositionsAre, Pushed
<1>2. ForcingIn(ks) = [n \in 1..Cardinality(S) |-> <<ks[Nth(S, n)].f, ks[Nth(S, n)].s>>]
  BY ForcingIs
<1>3. ForcingIn(d) = [n \in 1..Cardinality(T) |-> <<d[Nth(T, n)].f, d[Nth(T, n)].s>>]
  BY ForcingIs
<1>4. T = IF e.k = "Force" THEN S \cup {m + 1} ELSE S
  BY PositionsPushed
<1>5. RanksOK(ks) <=> \A n \in 1..Cardinality(S) : Ranked(S, n) # {}
  BY DEF RanksOK
<1>6. RanksOK(d) <=> \A n \in 1..Cardinality(T) : Ranked(T, n) # {}
  BY DEF RanksOK
<1> HIDE DEF S, T, d, m
<1>7. IsSequence(ForcingIn(ks))
  <2> DEFINE V == {<<ks[Nth(S, n)].f, ks[Nth(S, n)].s>> : n \in 1..Cardinality(S)}
  <2>1. ForcingIn(ks) \in [1..Cardinality(S) -> V]
    BY <1>2
  <2> HIDE DEF V
  <2>2. ForcingIn(ks) \in Seq(V)
    BY <1>1, <2>1, SeqDef
  <2> QED BY <2>2, AnySequence
<1>8. RanksOK(ks) => \A n \in 1..Cardinality(S) : Nth(S, n) \in 1..m
  BY <1>1, <1>5 DEF Nth, Ranked
<1>9. CASE e.k # "Force"
  <2>1. T = S
    BY <1>4, <1>9
  <2>2. RanksOK(d) <=> RanksOK(ks)
    BY <1>5, <1>6, <2>1
  <2>3. RanksOK(ks) => ForcingIn(d) = ForcingIn(ks)
    BY <1>1, <1>2, <1>3, <1>8, <2>1
  <2> QED BY <1>7, <1>9, <2>2, <2>3 DEF d
<1>10. CASE e.k = "Force"
  <2>1. /\ T = S \cup {m + 1} /\ Cardinality(T) = Cardinality(S) + 1
        /\ \A n \in 1..Cardinality(S) : Ranked(T, n) = Ranked(S, n)
        /\ Ranked(T, Cardinality(S) + 1) = {m + 1}
    BY <1>1, <1>4, <1>10, RankedAbove
  <2>2. RanksOK(d) <=> RanksOK(ks)
    <3>1. \A n : n \in 1..(Cardinality(S) + 1)
                  <=> n \in 1..Cardinality(S) \/ n = Cardinality(S) + 1
      BY <1>1
    <3> QED BY <1>5, <1>6, <2>1, <3>1
  <2>3. /\ \A n \in 1..Cardinality(S) : Nth(T, n) = Nth(S, n)
        /\ Nth(T, Cardinality(S) + 1) = m + 1
    BY <2>1 DEF Nth
  <2>4. ASSUME RanksOK(ks) PROVE ForcingIn(d) = Append(ForcingIn(ks), <<e.f, e.s>>)
    <3> DEFINE a == Append(ForcingIn(ks), <<e.f, e.s>>)
               N == Cardinality(S)
    <3>1. Len(ForcingIn(ks)) = N /\ DOMAIN ForcingIn(ks) = 1..N
      BY <1>1, <1>2
    <3>2. /\ IsSequence(a) /\ Len(a) = N + 1
          /\ \A n \in 1..N : a[n] = ForcingIn(ks)[n]
          /\ a[N + 1] = <<e.f, e.s>>
      BY <1>7, <3>1, Pushed
    <3>0. /\ \A n \in 1..N : n \in 1..Cardinality(T)
          /\ N + 1 \in 1..Cardinality(T)
      BY <1>1, <2>1
    <3>3. \A n \in 1..N : ForcingIn(d)[n] = ForcingIn(ks)[n]
      <4>1. \A n \in 1..N : ForcingIn(d)[n] = <<d[Nth(S, n)].f, d[Nth(S, n)].s>>
        BY <1>3, <2>3, <3>0
      <4>2. \A n \in 1..N : d[Nth(S, n)] = ks[Nth(S, n)]
        BY <1>1, <1>8, <2>4
      <4> QED BY <1>2, <4>1, <4>2
    <3>4. ForcingIn(d)[N + 1] = <<e.f, e.s>>
      <4>1. ForcingIn(d)[N + 1] = <<d[m + 1].f, d[m + 1].s>>
        BY <1>3, <2>3, <3>0
      <4> QED BY <1>1, <4>1
    <3>5. /\ DOMAIN ForcingIn(d) = 1..(N + 1)
          /\ ForcingIn(d) = [n \in 1..(N + 1) |-> ForcingIn(d)[n]]
      BY <1>3, <2>1
    <3>6. a = [n \in 1..(N + 1) |-> a[n]]
      BY <3>2 DEF IsSequence
    <3> HIDE DEF a, N
    <3>7. \A n \in 1..(N + 1) : n \in 1..N \/ n = N + 1
      BY <1>1 DEF N
    <3>8. \A n \in 1..(N + 1) : ForcingIn(d)[n] = a[n]
      BY <3>2, <3>3, <3>4, <3>7
    <3>9. ForcingIn(d) = a
      BY <3>5, <3>6, <3>8
    <3> QED BY <3>9 DEF a
  <2> QED BY <1>7, <1>10, <2>2, <2>4 DEF d
<1> QED BY <1>9, <1>10 DEF d

-----------------------------------------------------------------------------
(* The entries that an activation of Display leaves are below all others.  *)
Display == {"Field", "Item"}
AllDisplay(ks) == \A i \in DOMAIN ks : ks[i].k \in Display
ShapeOK(ks) ==
  \A i \in DOMAIN ks : ks[i].k \in Display => \A j \in DOMAIN ks : j < i => ks[j].k \in Display

(* The cells being forced are some of the existing ones.                   *)
EntriesOK(ks, cells) ==
  \A i \in DOMAIN ks : ks[i].k = "Force" => <<ks[i].f, ks[i].s>> \in cells

(* The directory an import puts back is that of the import below it.       *)
DirsOK(ks, d) ==
  /\ IsDirectoryBelow(Len(ks) + 1, ks, d)
  /\ \A i \in DOMAIN ks : ks[i].k = "Import" => IsDirectoryBelow(i, ks, ks[i].prev)

StackOK(ks, cells, d) ==
  /\ IsSequence(ks) /\ RanksOK(ks)
  /\ ShapeOK(ks) /\ EntriesOK(ks, cells) /\ DirsOK(ks, d)

LEMMA PrefixDirectory ==
  ASSUME NEW ks, IsSequence(ks), NEW e, NEW d, NEW n \in 1..(Len(ks) + 1)
  PROVE  IsDirectoryBelow(n, Append(ks, e), d) <=> IsDirectoryBelow(n, ks, d)
<1> DEFINE q == Append(ks, e)
<1>1. /\ Len(ks) \in Nat /\ DOMAIN ks = 1..Len(ks) /\ DOMAIN q = DOMAIN ks \cup {Len(ks) + 1}
      /\ \A i \in DOMAIN ks : q[i] = ks[i]
  BY SequenceIs, Pushed
<1> HIDE DEF q
<1>2. \A i \in DOMAIN q : i < n <=> i \in DOMAIN ks /\ i < n
  BY <1>1
<1>3. {i \in Positions(q, "Import") : i < n} = {i \in Positions(ks, "Import") : i < n}
  BY <1>1, <1>2 DEF Positions
<1>4. \A i \in Positions(ks, "Import") : q[i] = ks[i]
  BY <1>1 DEF Positions
<1>5. IsDirectoryBelow(n, q, d) <=> IsDirectoryBelow(n, ks, d)
  BY <1>3, <1>4 DEF IsDirectoryBelow
<1> QED BY <1>5 DEF q

LEMMA DirsPushed ==
  ASSUME NEW ks, IsSequence(ks), NEW e, NEW d
  PROVE  /\ e.k # "Import" => (DirsOK(Append(ks, e), d) <=> DirsOK(ks, d))
         /\ e.k = "Import" /\ e.prev = d /\ DirsOK(ks, d)
              => DirsOK(Append(ks, e), DirOf[e.file])
         /\ e.k = "Import" /\ DirsOK(Append(ks, e), d) => DirsOK(ks, e.prev)
<1> DEFINE q == Append(ks, e)
           m == Len(ks) + 1
<1>1. /\ Len(ks) \in Nat /\ DOMAIN ks = 1..Len(ks) /\ DOMAIN q = DOMAIN ks \cup {m}
      /\ Len(q) = m /\ q[m] = e
      /\ \A i \in DOMAIN ks : q[i] = ks[i]
  BY SequenceIs, Pushed
<1>2. \A n \in 1..m : \A x : IsDirectoryBelow(n, q, x) <=> IsDirectoryBelow(n, ks, x)
  BY PrefixDirectory
<1> HIDE DEF q, m
<1>3. m \in 1..m /\ \A i \in DOMAIN ks : i \in 1..m /\ i <= m
  BY <1>1 DEF m
<1>4. (\A i \in DOMAIN ks : q[i].k = "Import" => IsDirectoryBelow(i, q, q[i].prev))
        <=> (\A i \in DOMAIN ks : ks[i].k = "Import" => IsDirectoryBelow(i, ks, ks[i].prev))
  BY <1>1, <1>2, <1>3
<1>5. \A i \in DOMAIN q : i < m + 1
  BY <1>1, <1>3 DEF m
<1>6. CASE e.k # "Import"
  <2>1. {i \in Positions(q, "Import") : i < m + 1} = {i \in Positions(q, "Import") : i < m}
    BY <1>1, <1>3, <1>5, <1>6 DEF Positions, m
  <2>2. IsDirectoryBelow(m + 1, q, d) <=> IsDirectoryBelow(m, ks, d)
    BY <1>2, <1>3, <2>1 DEF IsDirectoryBelow
  <2>3. DirsOK(q, d) <=> DirsOK(ks, d)
    BY <1>1, <1>4, <1>6, <2>2 DEF DirsOK, m
  <2> QED BY <1>6, <2>3 DEF q
<1>7. CASE e.k = "Import"
  <2>1. ASSUME e.prev = d, DirsOK(ks, d) PROVE DirsOK(q, DirOf[e.file])
    <3>1. m \in {i \in Positions(q, "Import") : i < m + 1}
      BY <1>1, <1>5, <1>7 DEF Positions
    <3>2. IsDirectoryBelow(m + 1, q, DirOf[e.file])
      BY <1>1, <1>3, <3>1 DEF IsDirectoryBelow, Positions
    <3>3. IsDirectoryBelow(m, q, e.prev)
      BY <1>2, <1>3, <2>1 DEF DirsOK, m
    <3> QED BY <1>1, <1>4, <2>1, <3>2, <3>3 DEF DirsOK
  <2>2. ASSUME DirsOK(q, d) PROVE DirsOK(ks, e.prev)
    <3>1. IsDirectoryBelow(m, q, e.prev)
      BY <1>1, <1>7, <2>2 DEF DirsOK
    <3>2. IsDirectoryBelow(m, ks, e.prev)
      BY <1>2, <1>3, <3>1
    <3> QED BY <1>1, <1>4, <2>2, <3>2 DEF DirsOK, m
  <2> QED BY <1>7, <2>1, <2>2 DEF q
<1> QED BY <1>6, <1>7

LEMMA StackPushed ==
  ASSUME NEW ks, NEW cells, NEW d, StackOK(ks, cells, d), NEW e,
         e.k \in Display => AllDisplay(ks),
         e.k = "Force" => <<e.f, e.s>> \in cells,
         e.k = "Import" => e.prev = d
  PROVE  /\ StackOK(Append(ks, e), cells, IF e.k = "Import" THEN DirOf[e.file] ELSE d)
         /\ ForcingIn(Append(ks, e))
              = IF e.k = "Force" THEN Append(ForcingIn(ks), <<e.f, e.s>>) ELSE ForcingIn(ks)
         /\ AllDisplay(Append(ks, e)) <=> AllDisplay(ks) /\ e.k \in Display
<1> DEFINE q == Append(ks, e)
           m == Len(ks) + 1
<1>1. IsSequence(ks) /\ RanksOK(ks) /\ ShapeOK(ks) /\ EntriesOK(ks, cells) /\ DirsOK(ks, d)
  BY DEF StackOK
<1>2. /\ IsSequence(q) /\ DOMAIN q = DOMAIN ks \cup {m} /\ q[m] = e
      /\ \A i \in DOMAIN ks : q[i] = ks[i] /\ i < m
  BY <1>1, Pushed
<1>3. RanksOK(q) /\ ForcingIn(q) = IF e.k = "Force" THEN Append(ForcingIn(ks), <<e.f, e.s>>)
                                   ELSE ForcingIn(ks)
  BY <1>1, ForcingPushed
<1>4. DirsOK(q, IF e.k = "Import" THEN DirOf[e.file] ELSE d)
  BY <1>1, DirsPushed
<1>5. m \in Nat /\ DOMAIN ks \subseteq Nat
  BY <1>1, SequenceIs
<1> HIDE DEF q, m
<1>6. AllDisplay(q) <=> AllDisplay(ks) /\ e.k \in Display
  BY <1>2 DEF AllDisplay
<1>7. EntriesOK(q, cells)
  BY <1>1, <1>2 DEF EntriesOK
<1>8. ShapeOK(q)
  <2> SUFFICES ASSUME NEW i \in DOMAIN q, q[i].k \in Display, NEW j \in DOMAIN q, j < i
               PROVE  q[j].k \in Display
    BY DEF ShapeOK
  <2>1. j \in DOMAIN ks
    BY <1>2, <1>5
  <2> QED BY <1>1, <1>2, <2>1 DEF ShapeOK, AllDisplay
<1> QED BY <1>2, <1>3, <1>4, <1>6, <1>7, <1>8 DEF StackOK, q

LEMMA StackPopped ==
  ASSUME NEW ks, NEW cells, NEW d, StackOK(ks, cells, d), ks # <<>>
  PROVE  /\ StackOK(Front(ks), cells, IF Last(ks).k = "Import" THEN Last(ks).prev ELSE d)
         /\ ForcingIn(ks) = IF Last(ks).k = "Force"
                            THEN Append(ForcingIn(Front(ks)), <<Last(ks).f, Last(ks).s>>)
                            ELSE ForcingIn(Front(ks))
         /\ Last(ks).k = "Force" => <<Last(ks).f, Last(ks).s>> \in cells
         /\ Last(ks).k \in Display => AllDisplay(ks)
         /\ AllDisplay(ks) => AllDisplay(Front(ks)) /\ Last(ks).k \in Display
<1> DEFINE q == Front(ks)
           e == Last(ks)
           m == Len(ks)
<1>1. IsSequence(ks) /\ RanksOK(ks) /\ ShapeOK(ks) /\ EntriesOK(ks, cells) /\ DirsOK(ks, d)
  BY DEF StackOK
<1>2. /\ IsSequence(q) /\ DOMAIN ks = DOMAIN q \cup {m} /\ e = ks[m] /\ m \in DOMAIN ks
      /\ \A i \in DOMAIN q : q[i] = ks[i] /\ i < m
      /\ ks = Append(q, e)
  BY <1>1, Popped
<1> HIDE DEF q, e, m
<1>3. /\ RanksOK(q)
      /\ ForcingIn(ks) = IF e.k = "Force" THEN Append(ForcingIn(q), <<e.f, e.s>>)
                         ELSE ForcingIn(q)
  BY <1>1, <1>2, ForcingPushed
<1>4. DirsOK(q, IF e.k = "Import" THEN e.prev ELSE d)
  BY <1>1, <1>2, DirsPushed
<1>5. EntriesOK(q, cells) /\ (e.k = "Force" => <<e.f, e.s>> \in cells)
  BY <1>1, <1>2 DEF EntriesOK
<1>6. ShapeOK(q)
  BY <1>1, <1>2 DEF ShapeOK
<1>7. e.k \in Display => AllDisplay(ks)
  BY <1>1, <1>2 DEF ShapeOK, AllDisplay
<1>8. AllDisplay(ks) => AllDisplay(q) /\ e.k \in Display
  BY <1>2 DEF AllDisplay
<1> QED BY <1>2, <1>3, <1>4, <1>5, <1>6, <1>7, <1>8 DEF StackOK, q, e

(* Only Display's entries: nothing is being forced.                        *)
LEMMA DisplayForcesNothing ==
  ASSUME NEW ks, AllDisplay(ks)
  PROVE  ForcingIn(ks) = <<>>
<1>1. Positions(ks, "Force") = {}
  BY DEF Positions, AllDisplay, Display
<1>2. Cardinality(Positions(ks, "Force")) = 0
  BY <1>1, FS_EmptySet
<1> DEFINE at(n) == <<ks[Nth(Positions(ks, "Force"), n)].f, ks[Nth(Positions(ks, "Force"), n)].s>>
<1>3. ForcingIn(ks) = [n \in 1..0 |-> at(n)]
  BY <1>2, ForcingIs
<1> QED BY <1>3

LEMMA MoreCells ==
  ASSUME NEW ks, NEW cells, NEW d, StackOK(ks, cells, d), NEW more, cells \subseteq more
  PROVE  StackOK(ks, more, d)
BY DEF StackOK, EntriesOK

LEMMA EmptyStack ==
  ASSUME NEW cells
  PROVE  StackOK(<<>>, cells, MainDir) /\ AllDisplay(<<>>) /\ ForcingIn(<<>>) = <<>>
<1>1. IsSequence(<<>>) /\ DOMAIN <<>> = {} /\ Len(<<>>) = 0
  <2>1. <<>> \in Seq({}) /\ Len(<<>>) = 0
    BY EmptySeq
  <2>2. IsSequence(<<>>)
    BY <2>1, AnySequence
  <2>3. DOMAIN <<>> = 1..Len(<<>>)
    BY <2>2, SequenceIs
  <2>4. 1..0 = {}
    OBVIOUS
  <2>5. DOMAIN <<>> = {}
    BY <2>1, <2>3, <2>4
  <2> QED BY <2>1, <2>2, <2>5
<1>2. \A kind : Positions(<<>>, kind) = {}
  BY <1>1 DEF Positions
<1>3. RanksOK(<<>>)
  <2>1. Cardinality(Positions(<<>>, "Force")) = 0
    BY <1>2, FS_EmptySet
  <2> QED BY <2>1 DEF RanksOK
<1>4. DirsOK(<<>>, MainDir)
  BY <1>1, <1>2 DEF DirsOK, IsDirectoryBelow
<1>5. ShapeOK(<<>>) /\ EntriesOK(<<>>, cells) /\ AllDisplay(<<>>)
  BY <1>1 DEF ShapeOK, EntriesOK, AllDisplay
<1> QED BY <1>1, <1>3, <1>4, <1>5, DisplayForcesNothing DEF StackOK

-----------------------------------------------------------------------------
(* The heap.  All but the newest frame fit the bound: a step is taken only *)
(* when the newest does too.                                               *)
FramesOK ==
  /\ IsSequence(frames) /\ frames # <<>> /\ Len(frames) <= MaxFrames + 1
  /\ \A f \in DOMAIN frames :
       /\ "cells" \in DOMAIN frames[f]
       /\ \A s \in DOMAIN frames[f].cells : Cell(f, s).st \in CellStates
       /\ f < Len(frames) => DOMAIN frames[f].cells \subseteq 1..MaxCells

SetCell(f, s, b) == frames' = [frames EXCEPT ![f].cells[s] = b]

ExistingCells == {c \in CellIds : IsCell(c[1], c[2])}
BoundCells    == [c \in CellIds |-> CellState(c)]

LEMMA LastFrame ==
  ASSUME FramesOK
  PROVE  /\ Len(frames) \in Nat /\ DOMAIN frames = 1..Len(frames) /\ Len(frames) \in DOMAIN frames
         /\ \A f \in DOMAIN frames : f \in 1..(MaxFrames + 1)
<1>1. /\ Len(frames) \in Nat /\ DOMAIN frames = 1..Len(frames) /\ Len(frames) <= MaxFrames + 1
      /\ MaxFrames \in Nat
  BY SequenceIs, LimitsAssumption DEF FramesOK
<1>2. Len(frames) # 0
  BY EmptySeq DEF FramesOK, IsSequence
<1> QED BY <1>1, <1>2

(* Where the evaluator goes on, every cell is within the bounds.           *)
LEMMA CellsInBounds ==
  ASSUME FramesOK, ~TooLarge, NEW f, NEW s, IsCell(f, s)
  PROVE  <<f, s>> \in ExistingCells
<1>1. f \in DOMAIN frames /\ s \in DOMAIN frames[f].cells /\ f \in 1..(MaxFrames + 1)
  BY LastFrame DEF IsCell
<1>2. f < Len(frames) \/ f = Len(frames)
  BY <1>1, LastFrame
<1>3. DOMAIN frames[f].cells \subseteq 1..MaxCells
  BY <1>1, <1>2 DEF FramesOK, TooLarge, TooWide
<1>4. <<f, s>> \in CellIds
  BY <1>1, <1>3 DEF CellIds
<1> QED BY <1>4 DEF ExistingCells

LEMMA CellSet ==
  ASSUME FramesOK, NEW f, NEW s, <<f, s>> \in ExistingCells, NEW b, b.st \in CellStates, SetCell(f, s, b)
  PROVE  /\ FramesOK' /\ ExistingCells' = ExistingCells
         /\ BoundCells' = [BoundCells EXCEPT ![<<f, s>>] = b.st]
<1>1. IsCell(f, s)
  BY DEF ExistingCells
<1>2. /\ frames' = [g \in DOMAIN frames |-> IF g = f
                      THEN [frames[f] EXCEPT !.cells = [frames[f].cells EXCEPT ![s] = b]]
                      ELSE frames[g]]
      /\ f \in DOMAIN frames /\ s \in DOMAIN frames[f].cells /\ "cells" \in DOMAIN frames[f]
  BY <1>1 DEF FramesOK, IsCell, SetCell
<1>3. DOMAIN frames' = DOMAIN frames /\ \A g \in DOMAIN frames : g # f => frames'[g] = frames[g]
  BY <1>2
<1>4. /\ DOMAIN frames'[f] = DOMAIN frames[f]
      /\ frames'[f].cells = [frames[f].cells EXCEPT ![s] = b]
  BY <1>2
<1>5. /\ DOMAIN frames'[f].cells = DOMAIN frames[f].cells
      /\ frames'[f].cells[s] = b
      /\ \A t \in DOMAIN frames[f].cells : t # s => frames'[f].cells[t] = frames[f].cells[t]
  BY <1>2, <1>4
<1>6. IsSequence(frames') /\ Len(frames') = Len(frames) /\ frames' # <<>>
  <2>1. DOMAIN frames' = 1..Len(frames) /\ Len(frames) \in Nat
    BY <1>3, LastFrame
  <2> DEFINE T == {frames'[g] : g \in DOMAIN frames'}
  <2>2. \A g \in 1..Len(frames) : frames'[g] \in T
    BY <2>1
  <2> HIDE DEF T
  <2>3. frames' \in [1..Len(frames) -> T]
    BY <1>2, <2>1, <2>2, LastFrame
  <2>4. frames' \in Seq(T)
    BY <2>1, <2>3, SeqDef
  <2>5. IsSequence(frames')
    BY <2>4, AnySequence
  <2>6. Len(frames') = Len(frames)
    BY <2>1, <2>4
  <2>7. frames' # <<>>
    BY <1>2, <1>3, <2>1, <2>6, LastFrame, EmptySeq
  <2> QED BY <2>5, <2>6, <2>7
<1>7. \A g, t : IsCell(g, t)' <=> IsCell(g, t)
  BY <1>3, <1>5 DEF IsCell
<1>8. \A g, t : IsCell(g, t) =>
         Cell(g, t)' = IF <<g, t>> = <<f, s>> THEN b ELSE Cell(g, t)
  BY <1>3, <1>5 DEF IsCell, Cell
<1>9. FramesOK'
  <2> SUFFICES ASSUME NEW g \in DOMAIN frames'
               PROVE  /\ "cells" \in DOMAIN frames'[g]
                      /\ \A t \in DOMAIN frames'[g].cells : Cell(g, t)'.st \in CellStates
                      /\ g < Len(frames') => DOMAIN frames'[g].cells \subseteq 1..MaxCells
    BY <1>6 DEF FramesOK
  <2>1. "cells" \in DOMAIN frames'[g] /\ DOMAIN frames'[g].cells = DOMAIN frames[g].cells
    BY <1>2, <1>3, <1>4, <1>5 DEF FramesOK
  <2>2. ASSUME NEW t \in DOMAIN frames'[g].cells PROVE Cell(g, t)'.st \in CellStates
    <3>1. IsCell(g, t) /\ Cell(g, t).st \in CellStates
      BY <1>3, <2>1 DEF IsCell, FramesOK
    <3> QED BY <1>8, <3>1
  <2> QED BY <1>3, <1>6, <2>1, <2>2 DEF FramesOK
<1>10. ExistingCells' = ExistingCells
  BY <1>7 DEF ExistingCells, CellIds
<1>11. BoundCells' = [BoundCells EXCEPT ![<<f, s>>] = b.st]
  <2>1. BoundCells' = [c \in CellIds |-> CellState(c)'] /\ BoundCells = [c \in CellIds |-> CellState(c)]
    BY DEF BoundCells, CellIds
  <2>2. \A c \in CellIds : c = <<c[1], c[2]>>
    BY DEF CellIds
  <2>3. \A c \in CellIds : CellState(c)' = IF c = <<f, s>> THEN b.st ELSE CellState(c)
    BY <1>1, <1>7, <1>8, <2>2 DEF CellState
  <2> QED BY <2>1, <2>3
<1> QED BY <1>9, <1>10, <1>11

LEMMA FrameBuilt ==
  ASSUME FramesOK, ~TooLarge, NEW new, Build(new), "cells" \in DOMAIN new,
         NEW st \in {"Lazy", "Done"}, \A s \in DOMAIN new.cells : new.cells[s].st = st
  PROVE  /\ FramesOK' /\ ExistingCells \subseteq ExistingCells'
         /\ BoundCells' \in [CellIds -> CellStates \cup {"Absent"}]
         /\ \A c \in CellIds : BoundCells'[c] # BoundCells[c]
                               => BoundCells[c] = "Absent" /\ BoundCells'[c] = st
<1> DEFINE n == Len(frames) + 1
<1>1. /\ IsSequence(frames') /\ Len(frames') = n /\ DOMAIN frames' = DOMAIN frames \cup {n}
      /\ \A g \in DOMAIN frames : frames'[g] = frames[g] /\ g < n
      /\ frames'[n] = new
  BY Pushed DEF Build, FramesOK
<1>2. /\ n \in Nat /\ n <= MaxFrames + 1 /\ \A g \in DOMAIN frames : g < Len(frames) \/ g = Len(frames)
      /\ n # 0 /\ ~(n < n)
  BY LastFrame, LimitsAssumption DEF TooLarge
<1> HIDE DEF n
<1>3. /\ \A g, t : IsCell(g, t) => IsCell(g, t)' /\ Cell(g, t)' = Cell(g, t)
      /\ \A g, t : IsCell(g, t)' /\ ~IsCell(g, t) => Cell(g, t)'.st = st
  BY <1>1 DEF IsCell, Cell
<1>4. st \in CellStates
  BY DEF CellStates
<1>5. FramesOK'
  <2>1. frames' # <<>>
    BY <1>1, <1>2, EmptySeq
  <2> SUFFICES ASSUME NEW g \in DOMAIN frames'
               PROVE  /\ "cells" \in DOMAIN frames'[g]
                      /\ \A t \in DOMAIN frames'[g].cells : Cell(g, t)'.st \in CellStates
                      /\ g < n => DOMAIN frames'[g].cells \subseteq 1..MaxCells
    BY <1>1, <1>2, <2>1 DEF FramesOK
  <2>2. CASE g = n
    BY <1>1, <1>2, <1>4, <2>2 DEF Cell
  <2>3. CASE g \in DOMAIN frames
    <3>1. "cells" \in DOMAIN frames'[g] /\ \A t \in DOMAIN frames'[g].cells : Cell(g, t)'.st \in CellStates
      BY <1>1, <2>3 DEF Cell, FramesOK
    <3>2. DOMAIN frames'[g].cells \subseteq 1..MaxCells
      BY <1>1, <1>2, <2>3 DEF FramesOK, TooLarge, TooWide
    <3> QED BY <3>1, <3>2
  <2> QED BY <1>1, <2>2, <2>3
<1>6. ExistingCells \subseteq ExistingCells'
  BY <1>3 DEF ExistingCells, CellIds
<1>7. \A c \in CellIds : /\ BoundCells'[c] = CellState(c)' /\ BoundCells[c] = CellState(c)
                       /\ CellState(c)' \in CellStates \cup {"Absent"}
  <2>1. \A c \in CellIds : BoundCells'[c] = CellState(c)' /\ BoundCells[c] = CellState(c)
    BY DEF BoundCells, CellIds
  <2>2. \A c \in CellIds : CellState(c)' \in CellStates \cup {"Absent"}
    BY <1>5 DEF CellState, IsCell, FramesOK
  <2> QED BY <2>1, <2>2
<1>8. BoundCells' \in [CellIds -> CellStates \cup {"Absent"}]
  <2>1. BoundCells' = [c \in CellIds |-> CellState(c)']
    BY DEF BoundCells, CellIds
  <2> QED BY <1>7, <2>1
<1>9. \A c \in CellIds : CellState(c)' # CellState(c) => CellState(c) = "Absent" /\ CellState(c)' = st
  BY <1>3 DEF CellState
<1> QED BY <1>5, <1>6, <1>7, <1>8, <1>9

-----------------------------------------------------------------------------
(* The inductive invariant: the heap, the stack over it, and that Display  *)
(* runs with nothing but its own activations below.                        *)
DisplayModes == {"show", "items", "fields", "shown"}
FailModes    == {"err", "abort", "cut"}
ModeOK       == ctl.m \in DisplayModes => AllDisplay(kont)

IInv == FramesOK /\ StackOK(kont, ExistingCells, dir) /\ ModeOK

(* The frames a program starts with: no cell is being evaluated.           *)
LEMMA InitFrames ==
  Init => /\ FramesOK
          /\ \A f, s : IsCell(f, s) => Cell(f, s).st \in {"Lazy", "Done"}
<1> SUFFICES ASSUME Init
             PROVE  FramesOK /\ \A f, s : IsCell(f, s) => Cell(f, s).st \in {"Lazy", "Done"}
  OBVIOUS
<1> DEFINE new == MakeFrame(prog.defs, RootEnv, <<>>)
<1>1. /\ DOMAIN RootFrames = 1..4 /\ Len(RootFrames) = 4 /\ IsSequence(RootFrames)
      /\ \A f \in 1..4 : /\ "cells" \in DOMAIN RootFrames[f]
                        /\ \A s \in DOMAIN RootFrames[f].cells : RootFrames[f].cells[s].st = "Done"
                        /\ DOMAIN RootFrames[f].cells \subseteq 1..10
  <2>1. RootFrames \in Seq({RootFrames[1], RootFrames[2], RootFrames[3], RootFrames[4]})
    BY DEF RootFrames
  <2>2. IsSequence(RootFrames)
    BY <2>1, AnySequence
  <2>3. DOMAIN RootFrames = 1..4 /\ Len(RootFrames) = 4
    BY DEF RootFrames
  <2>4. DOMAIN ListNames = 1..10
    BY DEF ListNames
  <2>5. ASSUME NEW f \in 1..4
        PROVE  /\ "cells" \in DOMAIN RootFrames[f]
               /\ \A s \in DOMAIN RootFrames[f].cells : RootFrames[f].cells[s].st = "Done"
               /\ DOMAIN RootFrames[f].cells \subseteq 1..10
    <3>1. f = 1 \/ f = 2 \/ f = 3 \/ f = 4
      OBVIOUS
    <3>2. CASE f = 1
      BY <3>2 DEF RootFrames, Frame, Done
    <3>3. CASE f = 2
      BY <2>4, <3>3 DEF RootFrames, Frame, Done
    <3>4. CASE f = 3
      BY <3>4 DEF RootFrames, Frame
    <3>5. CASE f = 4
      BY <3>5 DEF RootFrames, Frame
    <3> QED BY <3>1, <3>2, <3>3, <3>4, <3>5
  <2> QED BY <2>2, <2>3, <2>5
<1>2. /\ IsSequence(frames) /\ Len(frames) = 5 /\ DOMAIN frames = 1..5 /\ frames # <<>>
      /\ \A f \in 1..4 : frames[f] = RootFrames[f]
      /\ frames[5] = new
  <2>1. frames = Append(RootFrames, new)
    BY DEF Init
  <2> HIDE DEF new
  <2> DEFINE q == Append(RootFrames, new)
  <2>3. /\ IsSequence(q) /\ Len(q) = Len(RootFrames) + 1
        /\ DOMAIN q = DOMAIN RootFrames \cup {Len(RootFrames) + 1}
        /\ \A f \in DOMAIN RootFrames : q[f] = RootFrames[f] /\ f < Len(RootFrames) + 1
        /\ q[Len(RootFrames) + 1] = new
    BY <1>1, Pushed
  <2> HIDE DEF q
  <2>4. frames = q
    BY <2>1 DEF q
  <2>2. /\ IsSequence(frames) /\ Len(frames) = 4 + 1 /\ DOMAIN frames = (1..4) \cup {4 + 1}
        /\ \A f \in 1..4 : frames[f] = RootFrames[f]
        /\ frames[4 + 1] = new
    BY <1>1, <2>3, <2>4
  <2> QED BY <2>2, EmptySeq
<1>3. /\ "cells" \in DOMAIN new
      /\ \A s \in DOMAIN new.cells : new.cells[s].st = "Lazy"
  BY DEF MakeFrame, Frame, Suspended
<1> HIDE DEF new
<1>4. FramesOK
  <2>1. Len(frames) <= MaxFrames + 1 /\ \A f \in 1..5 : f < Len(frames) <=> f \in 1..4
    BY <1>2, LimitsAssumption
  <2>2. 1..10 \subseteq 1..MaxCells
    BY LimitsAssumption
  <2>3. \A f \in 1..5 : f \in 1..4 \/ f = 5
    OBVIOUS
  <2> QED BY <1>1, <1>2, <1>3, <2>1, <2>2, <2>3 DEF FramesOK, Cell, CellStates
<1>5. \A f, s : IsCell(f, s) => Cell(f, s).st \in {"Lazy", "Done"}
  <2>1. \A f \in 1..5 : f \in 1..4 \/ f = 5
    OBVIOUS
  <2> QED BY <1>1, <1>2, <1>3, <2>1 DEF IsCell, Cell
<1> QED BY <1>4, <1>5

LEMMA InitIInv == Init => IInv
<1> SUFFICES ASSUME Init PROVE IInv
  OBVIOUS
<1>1. kont = <<>> /\ dir = MainDir /\ ctl.m = "eval"
  BY DEF Init, Eval
<1>2. StackOK(kont, ExistingCells, dir)
  BY <1>1, EmptyStack
<1>3. ModeOK
  BY <1>1 DEF ModeOK, DisplayModes
<1> QED BY <1>2, <1>3, InitFrames DEF IInv

-----------------------------------------------------------------------------
(* The kinds of steps.  A step that touches neither the heap nor the       *)
(* directory: of the stack it pushes, removes or replaces an entry.        *)
Plain(k) == k \notin {"Force", "Import"}

(* Display's entries lie on others of Display only.                        *)
Allowed(e)   == Plain(e.k) /\ (e.k \in Display => AllDisplay(kont))
Replacing(e) == kont # <<>> /\ Plain(Top.k) /\ Plain(e.k) /\ e.k \notin Display

Calm ==
  /\ UNCHANGED <<frames, dir>>
  /\ \/ kont' = kont
     \/ kont # <<>> /\ kont' = Below /\ Plain(Top.k)
     \/ \E e : kont' = Push(e) /\ Allowed(e)
     \/ \E e : kont' = Append(Below, e) /\ Replacing(e)
  /\ ctl'.m \in DisplayModes => AllDisplay(kont')
  /\ ctl.m \in FailModes => ctl'.m \in FailModes \/ AllDisplay(kont)

(* A frame is built, for an expression, a call or an import.               *)
Building ==
  /\ ctl.m \notin FailModes /\ ctl'.m \notin FailModes \cup DisplayModes
  /\ \E new, st : /\ Build(new)
                 /\ "cells" \in DOMAIN new /\ st \in {"Lazy", "Done"}
                 /\ \A s \in DOMAIN new.cells : new.cells[s].st = st
  /\ \/ kont' = kont /\ UNCHANGED dir
     \/ \E e : kont' = Push(e) /\ e.k = "Import" /\ e.prev = dir /\ dir' = DirOf[e.file]

(* `force' starts to evaluate a cell, for the activation ks.               *)
Entering ==
  /\ ctl.m \notin FailModes /\ ctl'.m \notin FailModes \cup DisplayModes
  /\ UNCHANGED dir
  /\ \E ks, f, s, e :
       /\ ks = kont \/ \E a : ks = Push(a) /\ Allowed(a)
       /\ IsCell(f, s) /\ Cell(f, s).st = "Lazy"
       /\ kont' = Append(ks, e) /\ e.k = "Force" /\ e.f = f /\ e.s = s
       /\ SetCell(f, s, Busy)

(* It leaves it with the state b, which a value and an Err decide.         *)
Leaving ==
  /\ TopIs("Force") /\ kont' = Below /\ UNCHANGED dir
  /\ ctl'.m \notin DisplayModes
  /\ \E b : /\ SetCell(Top.f, Top.s, b)
           /\ \/ ctl.m \notin FailModes /\ ctl'.m \notin FailModes /\ b.st = "Done"
              \/ ctl.m \in FailModes /\ ctl'.m \in FailModes /\ b.st = "Lazy"

(* An import puts the directory back.                                      *)
EndingImport ==
  /\ TopIs("Import") /\ kont' = Below /\ dir' = Top.prev /\ UNCHANGED frames
  /\ ctl'.m = ctl.m /\ ctl.m \notin DisplayModes

Kinds == Calm \/ Building \/ Entering \/ Leaving \/ EndingImport

(* What a kind of step does to the invariant and to the bindings.          *)
Correct == IInv' /\ [Bindings!Next]_(Bindings!vars)

(* What they are in the next state.                                        *)
LEMMA ForcingPrimed == ForcingIn(kont)' = ForcingIn(kont')
BY DEF ForcingIn, Positions, Ranked, UpTo, Nth

LEMMA StackPrimed ==
  StackOK(kont, ExistingCells, dir)' <=> StackOK(kont', ExistingCells', dir')
BY DEF StackOK, IsSequence, RanksOK, Ranked, UpTo, Positions, ShapeOK, EntriesOK,
       DirsOK, IsDirectoryBelow, ExistingCells

LEMMA BindingsAre ==
  /\ Bindings!vars = <<BoundCells, ForcingIn(kont), IF ctl.m \in FailModes THEN "fail" ELSE "run">>
  /\ Bindings!vars' = <<BoundCells', ForcingIn(kont'), IF ctl'.m \in FailModes THEN "fail" ELSE "run">>
BY ForcingPrimed DEF Bindings!vars, BoundCells, FailModes

LEMMA CalmStep ==
  ASSUME IInv, Calm
  PROVE  Correct
<1>1. FramesOK /\ StackOK(kont, ExistingCells, dir) /\ frames' = frames /\ dir' = dir
  BY DEF IInv, Calm
<1>2. FramesOK' /\ ExistingCells' = ExistingCells /\ BoundCells' = BoundCells
  BY <1>1 DEF FramesOK, Cell, ExistingCells, CellIds, IsCell, BoundCells, CellState
<1>3. StackOK(kont', ExistingCells, dir) /\ ForcingIn(kont') = ForcingIn(kont)
  <2>1. CASE kont' = kont
    BY <1>1, <2>1
  <2>2. ASSUME kont # <<>>, Plain(Top.k)
        PROVE  /\ StackOK(Below, ExistingCells, dir) /\ ForcingIn(Below) = ForcingIn(kont)
    BY <1>1, <2>2, StackPopped DEF Below, Top, Plain
  <2>3. ASSUME NEW e, kont' = Push(e), Allowed(e)
        PROVE  StackOK(kont', ExistingCells, dir) /\ ForcingIn(kont') = ForcingIn(kont)
    BY <1>1, <2>3, StackPushed DEF Push, Plain, Allowed
  <2>4. ASSUME NEW e, kont' = Append(Below, e), Replacing(e)
        PROVE  StackOK(kont', ExistingCells, dir) /\ ForcingIn(kont') = ForcingIn(kont)
    <3>1. StackOK(Below, ExistingCells, dir) /\ ForcingIn(Below) = ForcingIn(kont)
      BY <2>2, <2>4 DEF Replacing
    <3> QED BY <2>4, <3>1, StackPushed DEF Plain, Replacing
  <2>5. CASE kont # <<>> /\ kont' = Below /\ Plain(Top.k)
    BY <2>2, <2>5
  <2>6. CASE \E e : kont' = Push(e) /\ Allowed(e)
    <3>1. PICK e : kont' = Push(e) /\ Allowed(e)
      BY <2>6
    <3> QED BY <2>3, <3>1
  <2>7. CASE \E e : kont' = Append(Below, e) /\ Replacing(e)
    <3>1. PICK e : kont' = Append(Below, e) /\ Replacing(e)
      BY <2>7
    <3> QED BY <2>4, <3>1
  <2> QED BY <2>1, <2>5, <2>6, <2>7 DEF Calm
<1>4. IInv'
  <2>1. ModeOK'
    BY DEF ModeOK, Calm, AllDisplay
  <2>2. StackOK(kont, ExistingCells, dir)'
    BY <1>1, <1>2, <1>3, StackPrimed
  <2> QED BY <1>2, <2>1, <2>2 DEF IInv
<1>5. [Bindings!Next]_(Bindings!vars)
  <2>1. ctl.m \in FailModes /\ ctl'.m \notin FailModes => ForcingIn(kont) = <<>>
    BY DisplayForcesNothing DEF Calm
  <2>2. CASE (ctl.m \in FailModes) <=> (ctl'.m \in FailModes)
    BY <1>2, <1>3, <2>2, BindingsAre
  <2>3. CASE ctl.m \notin FailModes /\ ctl'.m \in FailModes
    <3>1. Bindings!Fail
      BY <1>2, <1>3, <2>3, ForcingPrimed DEF Bindings!Fail, BoundCells, FailModes
    <3> QED BY <3>1 DEF Bindings!Next
  <2>4. CASE ctl.m \in FailModes /\ ctl'.m \notin FailModes
    <3>1. Bindings!Catch
      BY <1>2, <1>3, <2>1, <2>4, ForcingPrimed DEF Bindings!Catch, BoundCells, FailModes
    <3> QED BY <3>1 DEF Bindings!Next
  <2> QED BY <2>2, <2>3, <2>4
<1> QED BY <1>4, <1>5 DEF Correct

LEMMA BuildingStep ==
  ASSUME IInv, Building, ~TooLarge
  PROVE  Correct
<1>1. FramesOK /\ StackOK(kont, ExistingCells, dir)
  BY DEF IInv
<1>2. PICK new, st : /\ Build(new) /\ "cells" \in DOMAIN new /\ st \in {"Lazy", "Done"}
                     /\ \A s \in DOMAIN new.cells : new.cells[s].st = st
  BY DEF Building
<1>3. /\ FramesOK' /\ ExistingCells \subseteq ExistingCells'
      /\ BoundCells' \in [CellIds -> CellStates \cup {"Absent"}]
      /\ \A c \in CellIds : BoundCells'[c] # BoundCells[c]
                            => BoundCells[c] = "Absent" /\ BoundCells'[c] = st
  BY <1>1, <1>2, FrameBuilt
<1>4. StackOK(kont', ExistingCells, dir') /\ ForcingIn(kont') = ForcingIn(kont)
  <2>1. CASE kont' = kont /\ UNCHANGED dir
    BY <1>1, <2>1
  <2>2. CASE \E e : kont' = Push(e) /\ e.k = "Import" /\ e.prev = dir /\ dir' = DirOf[e.file]
    <3>1. PICK e : kont' = Push(e) /\ e.k = "Import" /\ e.prev = dir /\ dir' = DirOf[e.file]
      BY <2>2
    <3>2. e.k \notin Display /\ e.k # "Force"
      BY <3>1 DEF Display
    <3>3. /\ StackOK(Append(kont, e), ExistingCells, IF e.k = "Import" THEN DirOf[e.file] ELSE dir)
          /\ ForcingIn(Append(kont, e)) = ForcingIn(kont)
      BY <1>1, <3>1, <3>2, StackPushed
    <3> QED BY <3>1, <3>3 DEF Push
  <2> QED BY <2>1, <2>2 DEF Building
<1>5. IInv'
  <2>1. ModeOK'
    BY DEF ModeOK, Building
  <2>2. StackOK(kont', ExistingCells', dir')
    BY <1>3, <1>4, MoreCells
  <2> QED BY <1>3, <2>1, <2>2, StackPrimed DEF IInv
<1>6. [Bindings!Next]_(Bindings!vars)
  <2>1. ctl.m \notin FailModes /\ ctl'.m \notin FailModes
    BY DEF Building
  <2>2. BoundCells' \in [CellIds -> Bindings!BindStates]
    BY <1>3 DEF Bindings!BindStates, CellStates
  <2>3. Bindings!NewFrame(st)
    BY <1>3, <1>4, <2>1, <2>2, ForcingPrimed DEF Bindings!NewFrame, BoundCells, FailModes
  <2> QED BY <1>2, <2>3 DEF Bindings!Next
<1> QED BY <1>5, <1>6 DEF Correct

LEMMA EnteringStep ==
  ASSUME IInv, Entering, ~TooLarge
  PROVE  Correct
<1>1. FramesOK /\ StackOK(kont, ExistingCells, dir)
  BY DEF IInv
<1>2. PICK ks, f, s, e :
       /\ ks = kont \/ \E a : ks = Push(a) /\ Allowed(a)
       /\ IsCell(f, s) /\ Cell(f, s).st = "Lazy"
       /\ kont' = Append(ks, e) /\ e.k = "Force" /\ e.f = f /\ e.s = s
       /\ SetCell(f, s, Busy)
  BY DEF Entering
<1>3. <<f, s>> \in ExistingCells /\ <<f, s>> \in CellIds /\ BoundCells[<<f, s>>] = "Lazy"
  <2>1. <<f, s>> \in ExistingCells
    BY <1>1, <1>2, CellsInBounds
  <2>2. <<f, s>> \in CellIds
    BY <2>1 DEF ExistingCells
  <2> QED BY <1>2, <2>1, <2>2 DEF BoundCells, CellState
<1>4. /\ FramesOK' /\ ExistingCells' = ExistingCells
      /\ BoundCells' = [BoundCells EXCEPT ![<<f, s>>] = "InProgress"]
  <2>1. Busy.st = "InProgress" /\ Busy.st \in CellStates
    BY DEF Busy, CellStates
  <2>2. /\ FramesOK' /\ ExistingCells' = ExistingCells
        /\ BoundCells' = [BoundCells EXCEPT ![<<f, s>>] = Busy.st]
    BY <1>1, <1>2, <1>3, <2>1, CellSet
  <2> QED BY <2>1, <2>2
<1>5. StackOK(ks, ExistingCells, dir) /\ ForcingIn(ks) = ForcingIn(kont)
  <2>1. CASE ks = kont
    BY <1>1, <2>1
  <2>2. CASE \E a : ks = Push(a) /\ Allowed(a)
    <3>1. PICK a : ks = Push(a) /\ Allowed(a)
      BY <2>2
    <3> QED BY <1>1, <3>1, StackPushed DEF Push, Plain, Allowed
  <2> QED BY <1>2, <2>1, <2>2
<1>6. /\ StackOK(kont', ExistingCells, dir)
      /\ ForcingIn(kont') = Append(ForcingIn(kont), <<f, s>>)
  <2>1. e.k \notin Display /\ e.k # "Import" /\ e.k = "Force" /\ <<e.f, e.s>> = <<f, s>>
    BY <1>2 DEF Display
  <2>2. /\ StackOK(Append(ks, e), ExistingCells, dir)
        /\ ForcingIn(Append(ks, e)) = Append(ForcingIn(ks), <<e.f, e.s>>)
    BY <1>3, <1>5, <2>1, StackPushed
  <2> QED BY <1>2, <1>5, <2>1, <2>2
<1>7. IInv'
  <2>1. ModeOK'
    BY DEF ModeOK, Entering
  <2>2. dir' = dir
    BY DEF Entering
  <2> QED BY <1>4, <1>6, <2>1, <2>2, StackPrimed DEF IInv
<1>8. [Bindings!Next]_(Bindings!vars)
  <2>1. ctl.m \notin FailModes /\ ctl'.m \notin FailModes
    BY DEF Entering
  <2>2. Bindings!Enter(<<f, s>>)
    BY <1>3, <1>4, <1>6, <2>1, ForcingPrimed DEF Bindings!Enter, BoundCells, FailModes
  <2> QED BY <1>3, <2>2 DEF Bindings!Next
<1> QED BY <1>7, <1>8 DEF Correct

(* The innermost force in progress is taken off.                           *)
LEMMA Appended ==
  ASSUME NEW q, IsSequence(q), NEW e
  PROVE  Front(Append(q, e)) = q /\ Last(Append(q, e)) = e /\ Append(q, e) # <<>>
<1> DEFINE d == Append(q, e)
<1>1. IsSequence(d) /\ Len(d) = Len(q) + 1 /\ d[Len(q) + 1] = e /\ Len(q) \in Nat
      /\ \A i \in DOMAIN q : d[i] = q[i]
  BY Pushed, SequenceIs
<1> HIDE DEF d
<1>2. d # <<>>
  BY <1>1, EmptySeq
<1>3. /\ IsSequence(Front(d)) /\ Len(Front(d)) = Len(d) - 1 /\ Last(d) = d[Len(d)]
      /\ \A i \in DOMAIN Front(d) : Front(d)[i] = d[i]
  BY <1>1, <1>2, Popped
<1>4. Last(d) = e /\ Len(Front(d)) = Len(q)
  BY <1>1, <1>3
<1>5. DOMAIN Front(d) = DOMAIN q /\ DOMAIN q = 1..Len(q) /\ \A i \in DOMAIN q : Front(d)[i] = q[i]
  BY <1>1, <1>3, <1>4, SequenceIs
<1>6. Front(d) = [i \in DOMAIN Front(d) |-> Front(d)[i]] /\ q = [i \in DOMAIN q |-> q[i]]
  BY <1>1, <1>3 DEF IsSequence
<1>7. Front(d) = q
  BY <1>5, <1>6
<1> QED BY <1>2, <1>4, <1>7 DEF d

LEMMA LeavingStep ==
  ASSUME IInv, Leaving
  PROVE  Correct
<1>1. FramesOK /\ StackOK(kont, ExistingCells, dir) /\ kont # <<>> /\ Top.k = "Force"
  BY DEF IInv, Leaving, TopIs
<1>2. PICK b : /\ SetCell(Top.f, Top.s, b)
               /\ \/ ctl.m \notin FailModes /\ ctl'.m \notin FailModes /\ b.st = "Done"
                  \/ ctl.m \in FailModes /\ ctl'.m \in FailModes /\ b.st = "Lazy"
  BY DEF Leaving
<1> DEFINE c == <<Top.f, Top.s>>
<1>3. /\ StackOK(Below, ExistingCells, dir) /\ c \in ExistingCells
      /\ ForcingIn(kont) = Append(ForcingIn(Below), c)
  <2>1. /\ StackOK(Front(kont), ExistingCells, IF Last(kont).k = "Import" THEN Last(kont).prev ELSE dir)
        /\ ForcingIn(kont) = IF Last(kont).k = "Force"
                              THEN Append(ForcingIn(Front(kont)), <<Last(kont).f, Last(kont).s>>)
                              ELSE ForcingIn(Front(kont))
        /\ Last(kont).k = "Force" => <<Last(kont).f, Last(kont).s>> \in ExistingCells
    BY <1>1, StackPopped
  <2>2. Last(kont).k = "Force" /\ Last(kont).k # "Import"
    BY <1>1 DEF Top
  <2> QED BY <2>1, <2>2 DEF Top, Below
<1>4. /\ FramesOK' /\ ExistingCells' = ExistingCells
      /\ BoundCells' = [BoundCells EXCEPT ![c] = b.st]
  <2>1. b.st \in CellStates
    BY <1>2 DEF CellStates
  <2> QED BY <1>1, <1>2, <1>3, <2>1, CellSet
<1> HIDE DEF c
<1>5. kont' = Below /\ dir' = dir /\ ModeOK'
  BY DEF Leaving, ModeOK
<1>6. IInv'
  BY <1>3, <1>4, <1>5, StackPrimed DEF IInv
<1>7. [Bindings!Next]_(Bindings!vars)
  <2>1. IsSequence(ForcingIn(Below))
    BY <1>3, ForcingPushed DEF StackOK
  <2>2. /\ ForcingIn(kont) # <<>> /\ Last(ForcingIn(kont)) = c
        /\ ForcingIn(kont') = Front(ForcingIn(kont))
    BY <1>3, <1>5, <2>1, Appended
  <2>3. CASE ctl.m \notin FailModes /\ ctl'.m \notin FailModes /\ b.st = "Done"
    <3>1. Bindings!Finish
      BY <1>4, <2>2, <2>3, ForcingPrimed
      DEF Bindings!Finish, Bindings!Innermost, Bindings!Outer, Bindings!Last, Bindings!Front,
          Last, Front, BoundCells, FailModes
    <3> QED BY <3>1 DEF Bindings!Next
  <2>4. CASE ctl.m \in FailModes /\ ctl'.m \in FailModes /\ b.st = "Lazy"
    <3>1. Bindings!Unwind
      BY <1>4, <2>2, <2>4, ForcingPrimed
      DEF Bindings!Unwind, Bindings!Innermost, Bindings!Outer, Bindings!Last, Bindings!Front,
          Last, Front, BoundCells, FailModes
    <3> QED BY <3>1 DEF Bindings!Next
  <2> QED BY <1>2, <2>3, <2>4
<1> QED BY <1>6, <1>7 DEF Correct

LEMMA EndingImportStep ==
  ASSUME IInv, EndingImport
  PROVE  Correct
<1>1. /\ FramesOK /\ StackOK(kont, ExistingCells, dir) /\ kont # <<>> /\ Top.k = "Import"
      /\ kont' = Below /\ dir' = Top.prev /\ frames' = frames
  BY DEF IInv, EndingImport, TopIs
<1>2. FramesOK' /\ ExistingCells' = ExistingCells /\ BoundCells' = BoundCells
  BY <1>1 DEF FramesOK, Cell, ExistingCells, CellIds, IsCell, BoundCells, CellState
<1>3. StackOK(kont', ExistingCells, dir') /\ ForcingIn(kont') = ForcingIn(kont)
  <2>1. Last(kont).k = "Import" /\ Last(kont).k # "Force"
    BY <1>1 DEF Top
  <2>2. StackOK(Front(kont), ExistingCells, Last(kont).prev)
        /\ ForcingIn(kont) = ForcingIn(Front(kont))
    BY <1>1, <2>1, StackPopped
  <2> QED BY <1>1, <2>2 DEF Below, Top
<1>4. IInv'
  <2>1. ModeOK'
    BY DEF ModeOK, EndingImport
  <2> QED BY <1>2, <1>3, <2>1, StackPrimed DEF IInv
<1>5. [Bindings!Next]_(Bindings!vars)
  <2>1. ctl'.m = ctl.m
    BY DEF EndingImport
  <2> QED BY <1>2, <1>3, <2>1, BindingsAre
<1> QED BY <1>4, <1>5 DEF Correct

-----------------------------------------------------------------------------
(* Every step is of one of the kinds.                                      *)
LEMMA Stays ==
  ASSUME UNCHANGED <<frames, dir>>, kont' = kont, ctl.m \notin FailModes,
         ctl'.m \in DisplayModes => AllDisplay(kont)
  PROVE  Calm
BY DEF Calm

LEMMA Pushes ==
  ASSUME UNCHANGED <<frames, dir>>, NEW e, kont' = Push(e), Allowed(e),
         ctl.m \notin FailModes, ctl'.m \notin DisplayModes
  PROVE  Calm
BY DEF Calm

LEMMA Pops ==
  ASSUME UNCHANGED <<frames, dir>>, kont # <<>>, kont' = Below, Plain(Top.k),
         ctl'.m \notin DisplayModes, ctl.m \in FailModes => ctl'.m \in FailModes
  PROVE  Calm
BY DEF Calm

LEMMA Replaces ==
  ASSUME UNCHANGED <<frames, dir>>, NEW e, kont' = Append(Below, e), Replacing(e),
         ctl.m \notin FailModes, ctl'.m \notin DisplayModes
  PROVE  Calm
BY DEF Calm

LEMMA Forces ==
  ASSUME NEW f, NEW s, NEW ks, ForceSlot(f, s, ks), UNCHANGED dir,
         ctl.m \notin FailModes,
         ks = kont \/ \E a : ks = Push(a) /\ Allowed(a)
  PROVE  Calm \/ Entering
<1>1. CASE /\ Cell(f, s).st = "Done"
           /\ Go(Ret(Cell(f, s).v), ks)
           /\ UNCHANGED frames
  <2>1. ctl'.m = "ret" /\ ctl'.m \notin DisplayModes /\ kont' = ks /\ UNCHANGED <<frames, dir>>
    BY <1>1 DEF Go, Ret, DisplayModes
  <2> QED BY <2>1, Stays, Pushes
<1>2. CASE /\ Cell(f, s).st = "InProgress"
           /\ Go(Err, ks)
           /\ UNCHANGED frames
  <2>1. ctl'.m = "err" /\ ctl'.m \notin DisplayModes /\ kont' = ks /\ UNCHANGED <<frames, dir>>
    BY <1>2 DEF Go, Err, DisplayModes
  <2> QED BY <2>1, Stays, Pushes
<1>3. CASE /\ IsCell(f, s) /\ Cell(f, s).st = "Lazy"
           /\ Go(Eval(Cell(f, s).e, f),
                 Append(ks, [k |-> "Force", f |-> f, s |-> s, e |-> Cell(f, s).e]))
           /\ frames' = [frames EXCEPT ![f].cells[s] = Busy]
  <2> DEFINE e == [k |-> "Force", f |-> f, s |-> s, e |-> Cell(f, s).e]
  <2>1. ctl'.m = "eval" /\ ctl'.m \notin FailModes \cup DisplayModes /\ kont' = Append(ks, e)
    BY <1>3 DEF Go, Eval, FailModes, DisplayModes
  <2>2. e.k = "Force" /\ e.f = f /\ e.s = s
    OBVIOUS
  <2>3. SetCell(f, s, Busy)
    BY <1>3 DEF SetCell
  <2> HIDE DEF e
  <2> QED BY <1>3, <2>1, <2>2, <2>3 DEF Entering
<1> QED BY <1>1, <1>2, <1>3 DEF ForceSlot

LEMMA FieldForces ==
  ASSUME NEW f, NEW name, AccessField(f, name, kont), UNCHANGED dir, ctl.m \notin FailModes
  PROVE  Calm \/ Entering
<1>1. CASE HasField(f, name)
  <2>1. ForceSlot(f, SlotOf(f, name), kont)
    BY <1>1 DEF AccessField
  <2> QED BY <2>1, Forces
<1>2. CASE ~HasField(f, name)
  BY <1>2, Stays DEF AccessField, Go, Err, DisplayModes
<1> QED BY <1>1, <1>2

LEMMA Builds ==
  ASSUME NEW new, NEW st \in {"Lazy", "Done"}, Build(new), "cells" \in DOMAIN new,
         \A s \in DOMAIN new.cells : new.cells[s].st = st,
         ctl.m \notin FailModes, ctl'.m \notin FailModes \cup DisplayModes,
         kont' = kont, UNCHANGED dir
  PROVE  Building
BY DEF Building

LEMMA SuspendedFrame ==
  ASSUME NEW defs, NEW parent, NEW names
  PROVE  /\ "cells" \in DOMAIN MakeFrame(defs, parent, names)
         /\ \A s \in DOMAIN MakeFrame(defs, parent, names).cells :
              MakeFrame(defs, parent, names).cells[s].st = "Lazy"
BY DEF MakeFrame, Frame, Suspended

LEMMA EvaluatedFrame ==
  ASSUME NEW fn, NEW args
  PROVE  /\ "cells" \in DOMAIN CallFrame(fn, args)
         /\ \A s \in DOMAIN CallFrame(fn, args).cells : CallFrame(fn, args).cells[s].st = "Done"
BY DEF CallFrame, Frame, Done

(* The modes that the control states are in.                               *)
LEMMA Modes ==
  /\ \A e, env : Eval(e, env).m = "eval"
  /\ \A v : Ret(v).m = "ret" /\ Outcome(v).m \in {"ret", "err"} /\ Show(v).m = "show"
  /\ Err.m = "err" /\ Abort.m = "abort" /\ Cut.m = "cut"
  /\ \A e, env, vs : Gather(e, env, vs).m = "operands"
  /\ \A fn, args : Apply(fn, args).m = "apply"
  /\ \A how, fn, todo, acc : Each(how, fn, todo, acc).m = "each"
  /\ \A f, next, body : Definitions(f, next, body).m = "definitions"
  /\ \A todo, done : ShowItems(todo, done).m = "items"
  /\ \A f, todo, done : ShowFields(f, todo, done).m = "fields"
  /\ \A t : Shown(t).m = "shown" /\ Exit(t).m = "exit"
BY DEF Eval, Ret, Outcome, Show, Err, Abort, Cut, Gather, Apply, Each, Definitions,
       ShowItems, ShowFields, Shown, Exit

LEMMA EvaluatingSteps ==
  ASSUME EvalLiteral \/ EvalVariable \/ EvalFunction \/ EvalBlock \/ EvalImmediateBlock
         \/ EvalCondition \/ EvalLogical \/ EvalOperands
  PROVE  Kinds
<1>1. ctl.m = "eval" /\ ctl.m \notin FailModes
  BY DEF EvalLiteral, EvalVariable, EvalFunction, EvalBlock, EvalImmediateBlock,
         EvalCondition, EvalLogical, EvalOperands, Evaluating, FailModes
<1>2. CASE EvalLiteral \/ EvalFunction \/ EvalOperands
  <2>1. UNCHANGED <<frames, dir>> /\ kont' = kont /\ ctl'.m \in {"ret", "operands"}
    BY <1>2, Modes DEF EvalLiteral, EvalFunction, EvalOperands, Go
  <2> QED BY <1>1, <2>1, Stays DEF Kinds, DisplayModes
<1>3. CASE EvalVariable
  BY <1>1, <1>3, Forces DEF EvalVariable, Kinds
<1>4. CASE EvalBlock \/ EvalImmediateBlock
  <2>1. /\ kont' = kont /\ UNCHANGED dir /\ ctl'.m \in {"ret", "eval"}
        /\ \E defs, names : Build(MakeFrame(defs, ctl.env, names))
    BY <1>4, Modes DEF EvalBlock, EvalImmediateBlock, Go
  <2> QED BY <1>1, <2>1, Builds, SuspendedFrame DEF Kinds, FailModes, DisplayModes
<1>5. CASE EvalCondition
  <2> DEFINE e == [k |-> "If", cons |-> ctl.e.cons, alt |-> ctl.e.alt, env |-> ctl.env]
  <2>1. e.k = "If"
    OBVIOUS
  <2>2. UNCHANGED <<frames, dir>> /\ kont' = Push(e) /\ ctl'.m = "eval"
    BY <1>5, Modes DEF EvalCondition, Go
  <2> HIDE DEF e
  <2> QED BY <1>1, <2>1, <2>2, Pushes DEF Kinds, DisplayModes, Allowed, Plain, Display
<1>6. CASE EvalLogical
  <2> DEFINE e == [k |-> "Logical", o |-> ctl.e.op, r |-> ctl.e.r, env |-> ctl.env]
  <2>1. e.k = "Logical"
    OBVIOUS
  <2>2. UNCHANGED <<frames, dir>> /\ kont' = Push(e) /\ ctl'.m = "eval"
    BY <1>6, Modes DEF EvalLogical, Go
  <2> HIDE DEF e
  <2> QED BY <1>1, <2>1, <2>2, Pushes DEF Kinds, DisplayModes, Allowed, Plain, Display
<1> QED BY <1>2, <1>3, <1>4, <1>5, <1>6

LEMMA OperandSteps ==
  ASSUME NextOperand \/ CombineOperands \/ AccessRecord \/ IndexValue \/ CallFunction
  PROVE  Kinds
<1>1. ctl.m = "operands" /\ ctl.m \notin FailModes
  BY DEF NextOperand, CombineOperands, AccessRecord, IndexValue, CallFunction,
         Gathered, Gathering, FailModes
<1>2. CASE NextOperand
  <2> DEFINE e == [k |-> "Operand", e |-> ctl.e, env |-> ctl.env, vs |-> ctl.vs]
  <2>1. e.k = "Operand"
    OBVIOUS
  <2>2. UNCHANGED <<frames, dir>> /\ kont' = Push(e) /\ ctl'.m = "eval"
    BY <1>2, Modes DEF NextOperand, Go
  <2> HIDE DEF e
  <2> QED BY <1>1, <2>1, <2>2, Pushes DEF Kinds, DisplayModes, Allowed, Plain, Display
<1>3. CASE CombineOperands \/ CallFunction
  <2>1. UNCHANGED <<frames, dir>> /\ kont' = kont /\ ctl'.m \in {"ret", "err", "apply"}
    BY <1>3, Modes DEF CombineOperands, CallFunction, TailCall, Go
  <2> QED BY <1>1, <2>1, Stays DEF Kinds, DisplayModes
<1>4. CASE AccessRecord
  <2>1. CASE ctl.vs[1].k = "block"
    BY <1>1, <1>4, <2>1, FieldForces DEF AccessRecord, Kinds
  <2>2. CASE ctl.vs[1].k # "block"
    <3>1. UNCHANGED <<frames, dir>> /\ kont' = kont /\ ctl'.m = "err"
      BY <1>4, <2>2, Modes DEF AccessRecord, Go
    <3> QED BY <1>1, <3>1, Stays DEF Kinds, DisplayModes
  <2> QED BY <2>1, <2>2
<1>5. CASE IndexValue
  <2>1. CASE ctl.vs[1].k = "block" /\ ctl.vs[2].k = "string"
    BY <1>1, <1>5, <2>1, FieldForces DEF IndexValue, Kinds
  <2>2. CASE ~(ctl.vs[1].k = "block" /\ ctl.vs[2].k = "string")
    <3>1. UNCHANGED <<frames, dir>> /\ kont' = kont /\ ctl'.m \in {"ret", "err"}
      BY <1>5, <2>2, Modes DEF IndexValue, Go
    <3> QED BY <1>1, <3>1, Stays DEF Kinds, DisplayModes
  <2> QED BY <2>1, <2>2
<1> QED BY <1>2, <1>3, <1>4, <1>5

LEMMA ApplyingSteps ==
  ASSUME ApplyNative \/ ApplyFails \/ ApplyPure \/ ApplyHigherOrder \/ EachItem
         \/ ImportFails \/ ImportFile \/ EagerDefinition
  PROVE  Kinds
<1>1. ctl.m \in {"apply", "each", "definitions"} /\ ctl.m \notin FailModes
  BY DEF ApplyNative, ApplyFails, ApplyPure, ApplyHigherOrder, EachItem, ImportFails,
         ImportFile, EagerDefinition, Applying, ApplyingForeign, FailModes
<1>2. CASE ApplyNative
  <2>1. /\ kont' = kont /\ UNCHANGED dir /\ ctl'.m = "eval"
        /\ Build(CallFrame(ctl.fn, ctl.args))
    BY <1>2, Modes DEF ApplyNative, Go
  <2> QED BY <1>1, <2>1, Builds, EvaluatedFrame DEF Kinds, FailModes, DisplayModes
<1>3. CASE ApplyFails \/ ApplyPure \/ ApplyHigherOrder \/ ImportFails
  <2>1. UNCHANGED <<frames, dir>> /\ kont' = kont /\ ctl'.m \in {"ret", "err", "each"}
    BY <1>3, Modes DEF ApplyFails, ApplyPure, ApplyHigherOrder, ImportFails, Go
  <2> QED BY <1>1, <2>1, Stays DEF Kinds, DisplayModes
<1>4. CASE EachItem
  <2>1. CASE ctl.todo = <<>>
    <3>1. UNCHANGED <<frames, dir>> /\ kont' = kont /\ ctl'.m = "ret"
      BY <1>4, <2>1, Modes DEF EachItem, Go
    <3> QED BY <1>1, <3>1, Stays DEF Kinds, DisplayModes
  <2>2. CASE ctl.todo # <<>>
    <3> DEFINE e == [k |-> "Each", how |-> ctl.how, fn |-> ctl.fn, acc |-> ctl.acc,
                     item |-> Head(ctl.todo), todo |-> Tail(ctl.todo)]
    <3>1. e.k = "Each"
      OBVIOUS
    <3>2. UNCHANGED <<frames, dir>> /\ kont' = Push(e) /\ ctl'.m = "apply"
      BY <1>4, <2>2, Modes DEF EachItem, Go
    <3> HIDE DEF e
    <3> QED BY <1>1, <3>1, <3>2, Pushes DEF Kinds, DisplayModes, Allowed, Plain, Display
  <2> QED BY <2>1, <2>2
<1>5. CASE ImportFile
  <2> DEFINE file == Locate[<<dir, ctl.args[1].s>>]
             e    == [k |-> "Import", file |-> file, prev |-> dir]
  <2>1. e.k = "Import" /\ e.prev = dir /\ e.file = file
    OBVIOUS
  <2>2. /\ kont' = Push(e) /\ ctl'.m = "definitions" /\ dir' = DirOf[file]
        /\ Build(MakeFrame(Files[file].defs, RootEnv, <<>>))
    BY <1>5, Modes DEF ImportFile, Go
  <2> HIDE DEF e, file
  <2>3. \E new, st : /\ Build(new) /\ "cells" \in DOMAIN new /\ st \in {"Lazy", "Done"}
                     /\ \A s \in DOMAIN new.cells : new.cells[s].st = st
    BY <2>2, SuspendedFrame, SMTT(30)
  <2>4. Building
    BY <1>1, <2>1, <2>2, <2>3 DEF Building, FailModes, DisplayModes
  <2> QED BY <2>4 DEF Kinds
<1>6. CASE EagerDefinition
  <2>1. CASE ctl.next \in DOMAIN frames[ctl.f].cells
    <3> DEFINE a == [k |-> "Eager", f |-> ctl.f, next |-> ctl.next, body |-> ctl.body]
    <3>1. a.k = "Eager"
      OBVIOUS
    <3>2. ForceSlot(ctl.f, ctl.next, Push(a)) /\ UNCHANGED dir
      BY <1>6, <2>1 DEF EagerDefinition
    <3> HIDE DEF a
    <3>3. Allowed(a)
      BY <3>1 DEF Allowed, Plain, Display
    <3> QED BY <1>1, <3>2, <3>3, Forces DEF Kinds
  <2>2. CASE ctl.next \notin DOMAIN frames[ctl.f].cells
    <3>1. UNCHANGED <<frames, dir>> /\ kont' = kont /\ ctl'.m = "eval"
      BY <1>6, <2>2, Modes DEF EagerDefinition, Go
    <3> QED BY <1>1, <3>1, Stays DEF Kinds, DisplayModes
  <2> QED BY <2>1, <2>2
<1> QED BY <1>2, <1>3, <1>4, <1>5, <1>6

(* A field is shown where only Display's entries are.                      *)
LEMMA OnDisplay ==
  ASSUME IInv, kont # <<>>
  PROVE  /\ Top.k \in Display => AllDisplay(kont)
         /\ AllDisplay(kont) => AllDisplay(Below) /\ Top.k \in Display
<1>1. StackOK(kont, ExistingCells, dir)
  BY DEF IInv
<1> QED BY <1>1, StackPopped DEF Top, Below

LEMMA ReturningSteps ==
  ASSUME IInv,
         ReturnCondition \/ ReturnLogical \/ ReturnRight \/ ReturnOperand \/ ReturnEach
         \/ ReturnEager \/ ReturnImport \/ ReturnForce \/ PrintValue \/ ReturnField
  PROVE  Kinds
<1>1. ctl.m = "ret" /\ ctl.m \notin FailModes \cup DisplayModes
  BY DEF ReturnCondition, ReturnLogical, ReturnRight, ReturnOperand, ReturnEach, ReturnEager,
         ReturnImport, ReturnForce, PrintValue, ReturnField, FailModes, DisplayModes
<1>2. CASE ReturnCondition \/ ReturnRight \/ ReturnOperand \/ ReturnEach \/ ReturnEager
  <2>1. kont # <<>> /\ Plain(Top.k)
    BY <1>2 DEF ReturnCondition, ReturnRight, ReturnOperand, ReturnEach, ReturnEager, TopIs, Plain
  <2>2. /\ UNCHANGED <<frames, dir>> /\ kont' = Below
        /\ ctl'.m \in {"eval", "ret", "operands", "err", "each", "definitions"}
    BY <1>1, <1>2, Modes
    DEF ReturnCondition, ReturnRight, ReturnOperand, ReturnEach, ReturnEager, Go
  <2> QED BY <1>1, <2>1, <2>2, Pops DEF Kinds, DisplayModes
<1>3. CASE ReturnLogical
  <2> DEFINE e == [k |-> "Right"]
  <2>1. e.k = "Right"
    OBVIOUS
  <2>2. kont # <<>> /\ Plain(Top.k) /\ UNCHANGED <<frames, dir>>
    BY <1>3 DEF ReturnLogical, TopIs, Plain
  <2>3. \/ ctl'.m = "ret" /\ kont' = Below
        \/ ctl'.m = "eval" /\ kont' = Append(Below, e)
    BY <1>1, <1>3, Modes DEF ReturnLogical, Go
  <2> HIDE DEF e
  <2>4. Replacing(e)
    BY <2>1, <2>2 DEF Replacing, Plain, Display
  <2>5. ctl'.m \notin DisplayModes
    BY <2>3 DEF DisplayModes
  <2>6. CASE kont' = Below
    BY <1>1, <2>2, <2>5, <2>6, Pops DEF Kinds
  <2>7. CASE kont' = Append(Below, e)
    BY <1>1, <2>2, <2>4, <2>5, <2>7, Replaces DEF Kinds
  <2> QED BY <2>3, <2>6, <2>7
<1>4. CASE ReturnImport
  BY <1>1, <1>4 DEF ReturnImport, EndingImport, Kinds, Go
<1>5. CASE ReturnForce
  <2>1. SetCell(Top.f, Top.s, Done(ctl.v)) /\ Done(ctl.v).st = "Done"
    BY <1>5 DEF ReturnForce, SetCell, Done
  <2>2. TopIs("Force") /\ kont' = Below /\ UNCHANGED dir /\ ctl' = ctl
    BY <1>5 DEF ReturnForce, Go
  <2>3. ctl'.m \notin DisplayModes /\ ctl.m \notin FailModes /\ ctl'.m \notin FailModes
    BY <1>1, <2>2
  <2>4. Leaving
    BY <2>1, <2>2, <2>3 DEF Leaving
  <2> QED BY <2>4 DEF Kinds
<1>6. CASE PrintValue
  <2>1. kont = <<>> /\ kont' = kont /\ UNCHANGED <<frames, dir>>
    BY <1>6 DEF PrintValue, Go
  <2>2. AllDisplay(kont)
    BY <2>1, EmptyStack
  <2> QED BY <1>1, <2>1, <2>2, Stays DEF Kinds
<1>7. CASE ReturnField
  <2>1. kont # <<>> /\ Top.k = "Field" /\ kont' = kont /\ UNCHANGED <<frames, dir>>
    BY <1>7 DEF ReturnField, Go, TopIs
  <2>2. AllDisplay(kont)
    BY <2>1, OnDisplay DEF Display
  <2> QED BY <1>1, <2>1, <2>2, Stays DEF Kinds
<1> QED BY <1>2, <1>3, <1>4, <1>5, <1>6, <1>7

LEMMA UnwindingSteps ==
  ASSUME IInv, UnwindForce \/ UnwindImport \/ UnwindOther \/ CatchField \/ PrintDiagnostic
  PROVE  Kinds
<1>1. ctl.m = "err" /\ ctl.m \in FailModes /\ ctl.m \notin DisplayModes
  BY DEF UnwindForce, UnwindImport, UnwindOther, CatchField, PrintDiagnostic, Failing,
         FailModes, DisplayModes
<1>2. CASE UnwindForce
  <2>1. SetCell(Top.f, Top.s, Suspended(Top.e)) /\ Suspended(Top.e).st = "Lazy"
    BY <1>2 DEF UnwindForce, SetCell, Suspended
  <2>2. TopIs("Force") /\ kont' = Below /\ UNCHANGED dir /\ ctl'.m = "err"
    BY <1>2, Modes DEF UnwindForce, Go
  <2>3. ctl'.m \notin DisplayModes /\ ctl'.m \in FailModes
    BY <2>2 DEF DisplayModes, FailModes
  <2>4. Leaving
    BY <1>1, <2>1, <2>2, <2>3 DEF Leaving
  <2> QED BY <2>4 DEF Kinds
<1>3. CASE UnwindImport
  BY <1>1, <1>3, Modes DEF UnwindImport, EndingImport, Kinds, Go
<1>4. CASE UnwindOther
  <2>1. kont # <<>> /\ Plain(Top.k)
    BY <1>4 DEF UnwindOther, Failing, Plain
  <2>2. UNCHANGED <<frames, dir>> /\ kont' = Below /\ ctl'.m = "err"
    BY <1>4, Modes DEF UnwindOther, Go
  <2> QED BY <2>1, <2>2, Pops DEF Kinds, DisplayModes, FailModes
<1>5. CASE CatchField
  <2>1. /\ kont # <<>> /\ Top.k = "Field" /\ kont' = Below /\ UNCHANGED <<frames, dir>>
    BY <1>5 DEF CatchField, FieldShown, Go, TopIs
  <2>2. AllDisplay(kont) /\ AllDisplay(kont')
    BY <2>1, OnDisplay DEF Display
  <2>3. Calm
    BY <2>1, <2>2 DEF Calm, Plain
  <2> QED BY <2>3 DEF Kinds
<1>6. CASE PrintDiagnostic
  <2>1. kont = <<>> /\ kont' = kont /\ UNCHANGED <<frames, dir>>
    BY <1>6 DEF PrintDiagnostic, Go
  <2>2. AllDisplay(kont)
    BY <2>1, EmptyStack
  <2>3. Calm
    BY <2>1, <2>2 DEF Calm
  <2> QED BY <2>3 DEF Kinds
<1> QED BY <1>2, <1>3, <1>4, <1>5, <1>6

LEMMA DisplaySteps ==
  ASSUME IInv, ShowValue \/ ShowNextItem \/ ShowNextField \/ AppendShown \/ ExitShown
  PROVE  Kinds
<1>1. ctl.m \in DisplayModes /\ ctl.m \notin FailModes
  BY DEF ShowValue, ShowNextItem, ShowNextField, AppendShown, ExitShown, FailModes, DisplayModes
<1>2. AllDisplay(kont)
  BY <1>1 DEF IInv, ModeOK
<1>3. CASE ShowValue \/ ExitShown
  BY <1>1, <1>2, <1>3, Stays DEF ShowValue, ExitShown, Go, Kinds
<1>4. CASE ShowNextItem
  <2>1. CASE ctl.todo = <<>>
    BY <1>1, <1>2, <1>4, <2>1, Stays DEF ShowNextItem, Go, Kinds
  <2>2. CASE ctl.todo # <<>>
    <3> DEFINE e == [k |-> "Item", todo |-> Tail(ctl.todo), done |-> ctl.done]
    <3>1. e.k = "Item"
      OBVIOUS
    <3>2. UNCHANGED <<frames, dir>> /\ kont' = Push(e)
      BY <1>4, <2>2 DEF ShowNextItem, Go
    <3> HIDE DEF e
    <3>3. Allowed(e) /\ e.k \in Display /\ e.k # "Force" /\ e.k # "Import"
      BY <1>2, <3>1 DEF Allowed, Plain, Display
    <3>4. AllDisplay(kont')
      <4>1. StackOK(kont, ExistingCells, dir)
        BY DEF IInv
      <4>2. AllDisplay(Append(kont, e)) <=> AllDisplay(kont) /\ e.k \in Display
        BY <1>2, <3>3, <4>1, StackPushed
      <4> QED BY <1>2, <3>2, <3>3, <4>2 DEF Push
    <3>5. Calm
      BY <1>1, <3>2, <3>3, <3>4 DEF Calm
    <3> QED BY <3>5 DEF Kinds
  <2> QED BY <2>1, <2>2
<1>5. CASE ShowNextField
  <2>1. CASE ctl.todo = <<>>
    BY <1>1, <1>2, <1>5, <2>1, Stays DEF ShowNextField, Go, Kinds
  <2>2. CASE ctl.todo # <<>>
    <3> DEFINE a == [k |-> "Field", f |-> ctl.f, todo |-> ctl.todo, done |-> ctl.done]
    <3>1. a.k = "Field"
      OBVIOUS
    <3>2. ForceSlot(ctl.f, SlotOf(ctl.f, Head(ctl.todo)), Push(a)) /\ UNCHANGED dir
      BY <1>5, <2>2 DEF ShowNextField
    <3> HIDE DEF a
    <3>3. Allowed(a)
      BY <1>2, <3>1 DEF Allowed, Plain
    <3> QED BY <1>1, <3>2, <3>3, Forces DEF Kinds
  <2> QED BY <2>1, <2>2
<1>6. CASE AppendShown
  <2>1. kont # <<>> /\ kont' = Below /\ UNCHANGED <<frames, dir>>
    BY <1>6 DEF AppendShown, FieldShown, Go
  <2>2. AllDisplay(kont') /\ Top.k \in Display
    BY <1>2, <2>1, OnDisplay
  <2>3. Plain(Top.k)
    BY <2>2 DEF Plain, Display
  <2>4. Calm
    BY <1>1, <2>1, <2>2, <2>3 DEF Calm
  <2> QED BY <2>4 DEF Kinds
<1> QED BY <1>3, <1>4, <1>5, <1>6

(* A run that is given up counts as failing for good.                      *)
LEMMA GivingUp ==
  ASSUME Overflow \/ CutOff
  PROVE  Calm
<1>1. UNCHANGED <<frames, dir>> /\ kont' = kont /\ ctl'.m \in {"abort", "cut"}
  BY Modes DEF Overflow, CutOff, Go
<1> QED BY <1>1 DEF Calm, FailModes, DisplayModes

-----------------------------------------------------------------------------
(* The invariant is inductive, and a step of the evaluator is one of the   *)
(* bindings or leaves them alone.                                          *)
LEMMA StepCorrect ==
  ASSUME IInv, [Next]_vars
  PROVE  Correct
<1>1. CASE ~TooLarge /\ Step
  <2>1. Kinds
    BY <1>1, EvaluatingSteps, OperandSteps, ApplyingSteps, ReturningSteps, UnwindingSteps,
       DisplaySteps DEF Step
  <2> QED BY <1>1, <2>1, CalmStep, BuildingStep, EnteringStep, LeavingStep, EndingImportStep
      DEF Kinds
<1>2. CASE Overflow \/ CutOff
  BY <1>2, GivingUp, CalmStep
<1>3. CASE UNCHANGED vars
  <2>1. UNCHANGED <<frames, ctl, kont, dir>>
    BY <1>3 DEF vars
  <2>2. BoundCells' = BoundCells /\ FramesOK' /\ ExistingCells' = ExistingCells /\ ModeOK'
    BY <2>1 DEF IInv, FramesOK, Cell, ExistingCells, CellIds, IsCell, BoundCells, CellState,
                ModeOK, AllDisplay
  <2>3. IInv'
    BY <2>1, <2>2, StackPrimed DEF IInv
  <2>4. UNCHANGED Bindings!vars
    BY <2>1, <2>2, BindingsAre
  <2> QED BY <2>3, <2>4 DEF Correct
<1> QED BY <1>1, <1>2, <1>3 DEF Next

LEMMA InitBindings == Init => Bindings!Init
<1> SUFFICES ASSUME Init PROVE Bindings!Init
  OBVIOUS
<1>1. kont = <<>> /\ ctl.m = "eval"
  BY Modes DEF Init
<1>2. ForcingIn(kont) = <<>>
  BY <1>1, EmptyStack
<1>3. \A c \in CellIds : CellState(c) \in {"Absent", "Lazy", "Done"}
  BY InitFrames DEF CellState
<1> QED BY <1>1, <1>2, <1>3 DEF Bindings!Init

(* The inductive invariant of the evaluator, for any programs and files:   *)
(* the heap is well formed, every force in progress is of a binding that   *)
(* exists, every import that is running remembers the directory of the one *)
(* below it, and Display runs above nothing but itself.                    *)
THEOREM StackCorrect == Spec => []IInv
<1>1. IInv /\ [Next]_vars => IInv'
  BY StepCorrect DEF Correct
<1> QED BY InitIInv, <1>1, PTL DEF Spec

(* The evaluator implements LazyBindings: whatever the program, force      *)
(* (interp.rs:122) enters a binding at most once at a time, keeps its      *)
(* value for ever, and gives the expression back on every path an Err can  *)
(* take, through calls, callbacks, imports and Display.                    *)
THEOREM ImplementsBindings == Spec => ImplementsLazyBindings
<1>1. IInv /\ [Next]_vars => [Bindings!Next]_(Bindings!vars)
  BY StepCorrect DEF Correct
<1>2. Init /\ [][Next]_vars => [][Bindings!Next]_(Bindings!vars)
  <2>1. IInv /\ [Next]_vars => IInv'
    BY StepCorrect DEF Correct
  <2> QED BY InitIInv, <1>1, <2>1, PTL
<1> QED BY InitBindings, <1>2, PTL DEF Spec, ImplementsLazyBindings, Bindings!Spec

(* CURRENT_DIR is always the directory of the innermost import that is     *)
(* still running (stdlib/imports.rs), however calls, callbacks, failed     *)
(* imports and failures that Display swallows follow each other.           *)
THEOREM DirectoryCorrect == Spec => []DirectoryOfInnermostImport
<1>1. IInv => DirectoryOfInnermostImport
  BY DEF IInv, StackOK, DirsOK, DirectoryOfInnermostImport
<1> QED BY StackCorrect, <1>1, PTL

-----------------------------------------------------------------------------
(* What is proved of LazyBindings holds of the evaluator's bindings.       *)
Promises == INSTANCE LazyBindings_proofs WITH
  Cells   <- CellIds,
  cell    <- [c \in CellIds |-> CellState(c)],
  forcing <- ForcingIn(kont),
  mode    <- IF ctl.m \in {"err", "abort", "cut"} THEN "fail" ELSE "run"

LEMMA BindingsPromise == Bindings!Spec => Promises!Spec
<1>1. Bindings!Init => Promises!Init
  BY DEF Bindings!Init, Promises!Init
<1>2. [Bindings!Next]_(Bindings!vars) => [Promises!Next]_(Promises!vars)
  <2>1. \A st : Bindings!NewFrame(st) => Promises!NewFrame(st)
    BY DEF Bindings!NewFrame, Promises!NewFrame, Bindings!BindStates, Promises!BindStates
  <2>2. \A c : Bindings!Enter(c) => Promises!Enter(c)
    BY DEF Bindings!Enter, Promises!Enter
  <2>3. Bindings!Innermost = Promises!Innermost /\ Bindings!Outer = Promises!Outer
    BY DEF Bindings!Innermost, Promises!Innermost, Bindings!Outer, Promises!Outer,
           Bindings!Last, Promises!Last, Bindings!Front, Promises!Front
  <2>4. Bindings!Finish => Promises!Finish
    BY <2>3 DEF Bindings!Finish, Promises!Finish
  <2>5. Bindings!Fail => Promises!Fail
    BY DEF Bindings!Fail, Promises!Fail
  <2>6. Bindings!Unwind => Promises!Unwind
    BY <2>3 DEF Bindings!Unwind, Promises!Unwind
  <2>7. Bindings!Catch => Promises!Catch
    BY DEF Bindings!Catch, Promises!Catch
  <2>8. UNCHANGED Bindings!vars => UNCHANGED Promises!vars
    BY DEF Bindings!vars, Promises!vars
  <2>9. QED
    BY <2>1, <2>2, <2>4, <2>5, <2>6, <2>7, <2>8 DEF Bindings!Next, Promises!Next
<1> QED BY <1>1, <1>2, PTL DEF Bindings!Spec, Promises!Spec

LEMMA BindingsBusy == Bindings!Spec => []Bindings!BusyIffForcing
<1>1. Promises!BusyIffForcing => Bindings!BusyIffForcing
  BY DEF Promises!BusyIffForcing, Bindings!BusyIffForcing
<1>2. Promises!Spec => []Promises!BusyIffForcing
  BY Promises!BusyCorrect
<1> QED BY <1>1, <1>2, BindingsPromise, PTL

LEMMA BindingsEvaluatedOnce == Bindings!Spec => Bindings!EvaluatedOnce
<1>1. Promises!EvaluatedOnce => Bindings!EvaluatedOnce
  BY DEF Promises!EvaluatedOnce, Bindings!EvaluatedOnce, Promises!vars, Bindings!vars
<1>2. Promises!Spec => Promises!EvaluatedOnce
  BY Promises!EvaluatedOnceCorrect
<1> QED BY <1>1, <1>2, BindingsPromise, PTL

(* A binding of the evaluator is marked as being evaluated exactly while   *)
(* one call of force, and one only, evaluates it (interp.rs:122): a        *)
(* binding that reaches itself is reported and never recursed into, and no *)
(* failure leaves one marked.                                              *)
THEOREM BusyCorrect == Spec => []Bindings!BusyIffForcing
BY ImplementsBindings, BindingsBusy, PTL DEF ImplementsLazyBindings

(* What a binding of the evaluator holds once it is evaluated stays, and a *)
(* binding is never evaluated without being marked (interp.rs:122).        *)
THEOREM EvaluatedOnceCorrect == Spec => Bindings!EvaluatedOnce
BY ImplementsBindings, BindingsEvaluatedOnce, PTL DEF ImplementsLazyBindings

-----------------------------------------------------------------------------
(* The heap.  Every environment stands for the scopes the resolver         *)
(* resolved an expression in: chains[f] are those of frame f, innermost    *)
(* first.  What is suspended in a cell, kept by a function or waiting on   *)
(* the stack is in the scopes of the environment it will be evaluated in,  *)
(* so that its variables are where their coordinates say.                  *)

(* A value: what it refers to exists, and a function's body is in the      *)
(* scopes of the environment it keeps.  V is a set of values that has the  *)
(* items of its lists; chains[f] are the scopes of frame f.                *)
ValueIn(v, V, J, chains) ==
  /\ v.k = "number" => v.n \in Int
  /\ v.k = "list"   => v.xs \in Seq(V)
  /\ v.k = "block"  => v.frame \in DOMAIN chains
  /\ v.k = "function" => /\ v.env \in DOMAIN chains /\ v.arity \in Nat
                         /\ <<v.body, Inner(1..v.arity, chains[v.env])>> \in J

ValuesOK(V, J, chains) ==
  /\ \A n \in Int : Number(n) \in V
  /\ \A v \in V : ValueIn(v, V, J, chains)

(* An expression that is evaluated in the scopes it was resolved in.       *)
At(e, env, J, chains) == env \in DOMAIN chains /\ <<e, chains[env]>> \in J

CellOK(c, chain, V, J) ==
  /\ c.st \in CellStates
  /\ c.st = "Lazy" => <<c.e, chain>> \in J
  /\ c.st = "Done" => c.v \in V

FrameOK(fr, f, V, J, chains) ==
  /\ fr.parent \in 0..(f - 1)
  /\ fr.parent = 0 => chains[f] = <<DOMAIN fr.cells>>
  /\ fr.parent # 0 => chains[f] = Inner(DOMAIN fr.cells, chains[fr.parent])
  /\ IsSequence(chains[f])
  /\ DOMAIN fr = {"parent", "names", "cells"} /\ DOMAIN fr.names \subseteq DOMAIN fr.cells
  /\ \A s \in DOMAIN fr.cells : CellOK(fr.cells[s], chains[f], V, J)

HeapOK(fs, V, J, chains) ==
  /\ IsSequence(fs) /\ DOMAIN chains = DOMAIN fs
  /\ RootEnv \in DOMAIN chains /\ chains[RootEnv] = <<RootScope>>
  /\ \A f \in DOMAIN fs : FrameOK(fs[f], f, V, J, chains)

Callbacks == {"map", "filter", "reduce"}
AccOK(how, acc, V) ==
  /\ how \in Callbacks
  /\ how = "reduce" => acc \in V
  /\ how # "reduce" => acc \in Seq(V)

OperandsOK(e, env, vs, V, J, chains) ==
  /\ At(e, env, J, chains) /\ e.op \in Operands
  /\ vs \in Seq(V) /\ Len(vs) <= Len(e.kids)

CtlModes == {"eval", "ret", "err", "operands", "apply", "each", "definitions",
             "show", "items", "fields", "shown", "exit", "abort", "cut"}
CtlOK(c, V, J, chains) ==
  /\ c.m \in CtlModes
  /\ c.m = "eval"          => At(c.e, c.env, J, chains)
  /\ c.m \in {"ret", "show"} => c.v \in V
  /\ c.m = "operands"      => OperandsOK(c.e, c.env, c.vs, V, J, chains)
  /\ c.m = "apply"         => c.fn \in V /\ c.args \in Seq(V)
  /\ c.m = "each"          => c.fn \in V /\ c.todo \in Seq(V) /\ AccOK(c.how, c.acc, V)
  /\ c.m = "definitions"   => At(c.body, c.f, J, chains)
  /\ c.m = "items"         => c.todo \in Seq(V)

Directories == {MainDir} \cup {DirOf[f] : f \in DOMAIN Files}
EntryOK(k, V, J, chains) ==
  /\ k.k \in ContKinds
  /\ k.k = "If"      => At(k.cons, k.env, J, chains) /\ At(k.alt, k.env, J, chains)
  /\ k.k = "Logical" => At(k.r, k.env, J, chains)
  /\ k.k = "Operand" => /\ OperandsOK(k.e, k.env, k.vs, V, J, chains)
                        /\ Len(k.vs) < Len(k.e.kids)
  /\ k.k = "Each"    => /\ k.fn \in V /\ k.item \in V /\ k.todo \in Seq(V)
                        /\ AccOK(k.how, k.acc, V)
  /\ k.k = "Import"  => k.prev \in Directories
  /\ k.k = "Eager"   => At(k.body, k.f, J, chains)
  /\ k.k = "Force"   => At(k.e, k.f, J, chains)
  /\ k.k = "Item"    => k.todo \in Seq(V)

EntriesIn(ks, V, J, chains) ==
  IsSequence(ks) /\ \A i \in DOMAIN ks : EntryOK(ks[i], V, J, chains)

World(V, J, chains) ==
  /\ ValuesOK(V, J, chains)
  /\ HeapOK(frames, V, J, chains)
  /\ CtlOK(ctl, V, J, chains)
  /\ EntriesIn(kont, V, J, chains)
  /\ dir \in Directories

-----------------------------------------------------------------------------
(* More values and more frames.                                            *)
Grown(V, chains, more, longer) ==
  /\ V \subseteq more
  /\ \A f \in DOMAIN chains : f \in DOMAIN longer /\ longer[f] = chains[f]

LEMMA MoreItems ==
  ASSUME NEW V, NEW more, V \subseteq more, NEW q \in Seq(V)
  PROVE  q \in Seq(more)
OBVIOUS

LEMMA ValueGrown ==
  ASSUME NEW J, NEW V, NEW chains, NEW more, NEW longer, Grown(V, chains, more, longer),
         NEW v, ValueIn(v, V, J, chains)
  PROVE  ValueIn(v, more, J, longer)
BY MoreItems DEF ValueIn, Grown

LEMMA AtGrown ==
  ASSUME NEW J, NEW V, NEW chains, NEW more, NEW longer, Grown(V, chains, more, longer),
         NEW e, NEW env, At(e, env, J, chains)
  PROVE  At(e, env, J, longer)
BY DEF At, Grown

LEMMA AccGrown ==
  ASSUME NEW V, NEW more, V \subseteq more, NEW how, NEW acc, AccOK(how, acc, V)
  PROVE  AccOK(how, acc, more)
BY MoreItems DEF AccOK

LEMMA OperandsGrown ==
  ASSUME NEW J, NEW V, NEW chains, NEW more, NEW longer, Grown(V, chains, more, longer),
         NEW e, NEW env, NEW vs, OperandsOK(e, env, vs, V, J, chains)
  PROVE  OperandsOK(e, env, vs, more, J, longer)
BY MoreItems, AtGrown DEF OperandsOK, Grown

LEMMA CtlGrown ==
  ASSUME NEW J, NEW V, NEW chains, NEW more, NEW longer, Grown(V, chains, more, longer),
         NEW c, CtlOK(c, V, J, chains)
  PROVE  CtlOK(c, more, J, longer)
<1>1. V \subseteq more
  BY DEF Grown
<1>2. c.m = "eval" => At(c.e, c.env, J, longer)
  BY AtGrown DEF CtlOK
<1>3. c.m = "operands" => OperandsOK(c.e, c.env, c.vs, more, J, longer)
  BY OperandsGrown DEF CtlOK
<1>4. c.m = "each" => AccOK(c.how, c.acc, more)
  BY <1>1, AccGrown DEF CtlOK
<1>5. c.m = "definitions" => At(c.body, c.f, J, longer)
  BY AtGrown DEF CtlOK
<1> QED BY <1>1, <1>2, <1>3, <1>4, <1>5, MoreItems DEF CtlOK

LEMMA EntryGrown ==
  ASSUME NEW J, NEW V, NEW chains, NEW more, NEW longer, Grown(V, chains, more, longer),
         NEW k, EntryOK(k, V, J, chains)
  PROVE  EntryOK(k, more, J, longer)
<1>1. V \subseteq more
  BY DEF Grown
<1>2. k.k = "If" => At(k.cons, k.env, J, longer) /\ At(k.alt, k.env, J, longer)
  BY AtGrown DEF EntryOK
<1>3. k.k = "Logical" => At(k.r, k.env, J, longer)
  BY AtGrown DEF EntryOK
<1>4. k.k = "Operand" => OperandsOK(k.e, k.env, k.vs, more, J, longer)
  BY OperandsGrown DEF EntryOK
<1>5. k.k = "Each" => AccOK(k.how, k.acc, more)
  BY <1>1, AccGrown DEF EntryOK
<1>6. k.k = "Eager" => At(k.body, k.f, J, longer)
  BY AtGrown DEF EntryOK
<1>7. k.k = "Force" => At(k.e, k.f, J, longer)
  BY AtGrown DEF EntryOK
<1> QED BY <1>1, <1>2, <1>3, <1>4, <1>5, <1>6, <1>7, MoreItems DEF EntryOK

LEMMA EntriesGrown ==
  ASSUME NEW J, NEW V, NEW chains, NEW more, NEW longer, Grown(V, chains, more, longer),
         NEW ks, EntriesIn(ks, V, J, chains)
  PROVE  EntriesIn(ks, more, J, longer)
BY EntryGrown DEF EntriesIn

LEMMA FrameGrown ==
  ASSUME NEW J, NEW V, NEW chains, NEW more, NEW longer, Grown(V, chains, more, longer),
         NEW fr, NEW f \in DOMAIN chains, FrameOK(fr, f, V, J, chains),
         fr.parent # 0 => fr.parent \in DOMAIN chains
  PROVE  FrameOK(fr, f, more, J, longer)
<1>1. longer[f] = chains[f] /\ V \subseteq more
  BY DEF Grown
<1>2. fr.parent # 0 => longer[fr.parent] = chains[fr.parent]
  BY DEF Grown
<1>3. \A s \in DOMAIN fr.cells : CellOK(fr.cells[s], longer[f], more, J)
  BY <1>1 DEF FrameOK, CellOK
<1> QED BY <1>1, <1>2, <1>3 DEF FrameOK

(* Adding a value that is one in the set that has it.                      *)
LEMMA ValueAdded ==
  ASSUME NEW J, NEW V, NEW chains, ValuesOK(V, J, chains),
         NEW v, ValueIn(v, V, J, chains)
  PROVE  /\ ValuesOK(V \cup {v}, J, chains)
         /\ Grown(V, chains, V \cup {v}, chains)
<1> DEFINE more == V \cup {v}
<1>1. V \subseteq more /\ \A w \in more : w \in V \/ w = v
  OBVIOUS
<1> HIDE DEF more
<1>2. Grown(V, chains, more, chains)
  BY <1>1 DEF Grown
<1>3. \A w \in more : ValueIn(w, more, J, chains)
  <2> SUFFICES ASSUME NEW w \in more PROVE ValueIn(w, more, J, chains)
    OBVIOUS
  <2>1. ValueIn(w, V, J, chains)
    BY <1>1 DEF ValuesOK
  <2> QED BY <1>2, <2>1, ValueGrown
<1>4. ValuesOK(more, J, chains)
  BY <1>1, <1>3 DEF ValuesOK
<1> QED BY <1>2, <1>4 DEF more

(* A frame built on others.                                                *)
Longer(chains, f, scopes) ==
  [g \in DOMAIN chains \cup {f} |-> IF g = f THEN scopes ELSE chains[g]]

LEMMA InnerScopes ==
  ASSUME NEW slots, NEW scopes, IsSequence(scopes)
  PROVE  /\ IsSequence(Inner(slots, scopes)) /\ Len(Inner(slots, scopes)) = Len(scopes) + 1
         /\ Inner(slots, scopes)[1] = slots
         /\ \A i \in DOMAIN scopes : Inner(slots, scopes)[i + 1] = scopes[i]
<1> DEFINE S == {scopes[i] : i \in DOMAIN scopes} \cup {slots}
           d == <<slots>> \o scopes
<1>1. scopes \in Seq(S) /\ <<slots>> \in Seq(S)
  <2>1. \A i \in 1..Len(scopes) : scopes[i] \in S
    BY SequenceIs
  <2> QED BY <2>1 DEF IsSequence
<1> HIDE DEF S
<1>2. /\ d \in Seq(S) /\ Len(d) = 1 + Len(scopes) /\ Len(scopes) \in Nat
      /\ DOMAIN scopes = 1..Len(scopes) /\ d[1] = slots
      /\ \A i \in 1..Len(scopes) : d[i + 1] = scopes[i]
  BY <1>1
<1> HIDE DEF d
<1>3. IsSequence(d)
  BY <1>2, AnySequence
<1>4. Inner(slots, scopes) = d
  BY DEF Inner, d
<1> QED BY <1>2, <1>3, <1>4

LEMMA LongerIs ==
  ASSUME NEW J, NEW V, NEW chains, NEW fs, HeapOK(fs, V, J, chains), NEW scopes
  PROVE  /\ Len(fs) + 1 \notin DOMAIN chains /\ Len(fs) \in Nat
         /\ DOMAIN Longer(chains, Len(fs) + 1, scopes) = DOMAIN fs \cup {Len(fs) + 1}
         /\ Longer(chains, Len(fs) + 1, scopes)[Len(fs) + 1] = scopes
         /\ Grown(V, chains, V, Longer(chains, Len(fs) + 1, scopes))
<1> DEFINE n == Len(fs) + 1
<1>1. DOMAIN chains = 1..Len(fs) /\ DOMAIN fs = 1..Len(fs) /\ Len(fs) \in Nat
  BY SequenceIs DEF HeapOK
<1>2. n \notin DOMAIN chains
  BY <1>1
<1> HIDE DEF n
<1>3. Grown(V, chains, V, Longer(chains, n, scopes))
  BY <1>2 DEF Grown, Longer
<1>4. DOMAIN Longer(chains, n, scopes) = DOMAIN fs \cup {n} /\ Longer(chains, n, scopes)[n] = scopes
  BY <1>1 DEF Longer
<1> QED BY <1>1, <1>2, <1>3, <1>4 DEF n

LEMMA LongerScopes ==
  ASSUME NEW chains, NEW f, NEW scopes
  PROVE  /\ f \in DOMAIN Longer(chains, f, scopes)
         /\ Longer(chains, f, scopes)[f] = scopes
BY DEF Longer

LEMMA ValuesGrown ==
  ASSUME NEW J, NEW V, NEW chains, NEW longer, Grown(V, chains, V, longer), ValuesOK(V, J, chains)
  PROVE  ValuesOK(V, J, longer)
BY ValueGrown DEF ValuesOK

NewFrameOK(new, V, J, chains) ==
  /\ DOMAIN new = {"parent", "names", "cells"} /\ DOMAIN new.names \subseteq DOMAIN new.cells
  /\ new.parent \in DOMAIN chains
  /\ \A s \in DOMAIN new.cells :
       CellOK(new.cells[s], Inner(DOMAIN new.cells, chains[new.parent]), V, J)

LEMMA HeapBuilt ==
  ASSUME NEW J, NEW V, NEW chains, NEW fs, HeapOK(fs, V, J, chains),
         NEW new, NewFrameOK(new, V, J, chains), NEW scopes,
         scopes = Inner(DOMAIN new.cells, chains[new.parent])
  PROVE  HeapOK(Append(fs, new), V, J, Longer(chains, Len(fs) + 1, scopes))
<1> DEFINE n == Len(fs) + 1
           q == Append(fs, new)
           longer == Longer(chains, n, scopes)
<1>1. /\ IsSequence(q) /\ DOMAIN q = DOMAIN fs \cup {n}
      /\ \A i \in DOMAIN fs : q[i] = fs[i]
      /\ q[n] = new
  <2>1. IsSequence(fs)
    BY DEF HeapOK
  <2> QED BY <2>1, Pushed
<1>2. /\ n \notin DOMAIN chains /\ DOMAIN longer = DOMAIN fs \cup {n}
      /\ longer[n] = scopes /\ Grown(V, chains, V, longer) /\ Len(fs) \in Nat
  <2>1. /\ Len(fs) + 1 \notin DOMAIN chains /\ Len(fs) \in Nat
        /\ DOMAIN Longer(chains, Len(fs) + 1, scopes) = DOMAIN fs \cup {Len(fs) + 1}
        /\ Longer(chains, Len(fs) + 1, scopes)[Len(fs) + 1] = scopes
        /\ Grown(V, chains, V, Longer(chains, Len(fs) + 1, scopes))
    BY ONLY HeapOK(fs, V, J, chains), LongerIs
  <2> QED BY <2>1
<1>3. DOMAIN chains = DOMAIN fs /\ DOMAIN fs = 1..Len(fs)
  BY SequenceIs DEF HeapOK
<1>4. n - 1 = Len(fs) /\ n \in Nat
  BY <1>2
<1> HIDE DEF q, n, longer
<1>5. RootEnv \in DOMAIN longer /\ longer[RootEnv] = <<RootScope>>
  BY <1>2 DEF HeapOK, Grown
<1>6. ASSUME NEW f \in DOMAIN fs PROVE FrameOK(q[f], f, V, J, longer)
  <2>1. FrameOK(fs[f], f, V, J, chains) /\ f \in DOMAIN chains
    BY <1>3 DEF HeapOK
  <2>2. fs[f].parent # 0 => fs[f].parent \in DOMAIN chains
    <3>1. fs[f].parent \in 0..(f - 1) /\ f \in 1..Len(fs)
      BY <1>3, <2>1 DEF FrameOK
    <3> QED BY <1>2, <1>3, <3>1
  <2>3. FrameOK(fs[f], f, V, J, longer)
    BY <1>2, <2>1, <2>2, FrameGrown
  <2> QED BY <1>1, <2>3
<1>7. FrameOK(q[n], n, V, J, longer)
  <2>1. /\ DOMAIN new = {"parent", "names", "cells"} /\ DOMAIN new.names \subseteq DOMAIN new.cells
        /\ new.parent \in DOMAIN chains
        /\ \A s \in DOMAIN new.cells : CellOK(new.cells[s], scopes, V, J)
    BY DEF NewFrameOK
  <2>2. new.parent \in 0..(n - 1) /\ new.parent # 0
    BY <1>2, <1>3, <1>4, <2>1
  <2>3. longer[n] = Inner(DOMAIN new.cells, longer[new.parent])
    BY <1>2, <2>1 DEF Grown
  <2>4. IsSequence(longer[n])
    <3>1. IsSequence(chains[new.parent])
      BY <1>3, <2>1 DEF HeapOK, FrameOK
    <3> QED BY <1>2, <3>1, InnerScopes
  <2> QED BY <1>1, <1>2, <2>1, <2>2, <2>3, <2>4 DEF FrameOK
<1>8. HeapOK(q, V, J, longer)
  BY <1>1, <1>2, <1>5, <1>6, <1>7 DEF HeapOK
<1> QED BY <1>8 DEF q, n, longer

LEMMA HeapChanged ==
  ASSUME NEW J, NEW V, NEW chains, HeapOK(frames, V, J, chains),
         NEW f, NEW s, IsCell(f, s), NEW c, CellOK(c, chains[f], V, J), SetCell(f, s, c)
  PROVE  HeapOK(frames', V, J, chains)
<1>1. /\ f \in DOMAIN frames /\ s \in DOMAIN frames[f].cells
      /\ DOMAIN frames[f] = {"parent", "names", "cells"}
  BY DEF IsCell, HeapOK, FrameOK
<1>2. frames' = [g \in DOMAIN frames |-> IF g = f
                   THEN [frames[f] EXCEPT !.cells = [frames[f].cells EXCEPT ![s] = c]]
                   ELSE frames[g]]
  BY <1>1 DEF SetCell, HeapOK, IsSequence
<1>3. DOMAIN frames' = DOMAIN frames /\ \A g \in DOMAIN frames : g # f => frames'[g] = frames[g]
  BY <1>2
<1>4. /\ DOMAIN frames'[f] = DOMAIN frames[f]
      /\ frames'[f].cells = [frames[f].cells EXCEPT ![s] = c]
      /\ frames'[f].parent = frames[f].parent /\ frames'[f].names = frames[f].names
  BY <1>1, <1>2
<1>5. /\ DOMAIN frames'[f].cells = DOMAIN frames[f].cells
      /\ \A t \in DOMAIN frames[f].cells :
           frames'[f].cells[t] = IF t = s THEN c ELSE frames[f].cells[t]
  BY <1>1, <1>4
<1>6. IsSequence(frames')
  <2>1. DOMAIN frames' = 1..Len(frames) /\ Len(frames) \in Nat
    BY <1>3, SequenceIs DEF HeapOK
  <2> DEFINE T == {frames'[g] : g \in DOMAIN frames'}
  <2>2. \A g \in 1..Len(frames) : frames'[g] \in T
    BY <2>1
  <2> HIDE DEF T
  <2>3. frames' = [g \in DOMAIN frames' |-> frames'[g]]
    BY <1>2
  <2>4. frames' \in [1..Len(frames) -> T]
    BY <2>1, <2>2, <2>3
  <2>5. frames' \in Seq(T)
    BY <2>1, <2>4, SeqDef
  <2> QED BY <2>5, AnySequence
<1>7. ASSUME NEW g \in DOMAIN frames PROVE FrameOK(frames'[g], g, V, J, chains)
  <2>1. FrameOK(frames[g], g, V, J, chains)
    BY DEF HeapOK
  <2>2. CASE g # f
    BY <1>3, <2>1, <2>2
  <2>3. CASE g = f
    <3>1. \A t \in DOMAIN frames'[f].cells : CellOK(frames'[f].cells[t], chains[f], V, J)
      BY <1>5, <2>1, <2>3 DEF FrameOK
    <3> QED BY <1>1, <1>4, <1>5, <2>1, <2>3, <3>1 DEF FrameOK
  <2> QED BY <2>2, <2>3
<1> QED BY <1>3, <1>6, <1>7 DEF HeapOK

(* The stack.                                                              *)
LEMMA EntriesPushed ==
  ASSUME NEW J, NEW V, NEW chains, NEW ks, EntriesIn(ks, V, J, chains),
         NEW k, EntryOK(k, V, J, chains)
  PROVE  EntriesIn(Append(ks, k), V, J, chains)
<1>1. /\ IsSequence(Append(ks, k)) /\ DOMAIN Append(ks, k) = DOMAIN ks \cup {Len(ks) + 1}
      /\ \A i \in DOMAIN ks : Append(ks, k)[i] = ks[i]
      /\ Append(ks, k)[Len(ks) + 1] = k
  <2>1. IsSequence(ks)
    BY DEF EntriesIn
  <2> QED BY ONLY <2>1, Pushed
<1> DEFINE q == Append(ks, k)
           n == Len(ks) + 1
<1>2. IsSequence(q) /\ DOMAIN q = DOMAIN ks \cup {n} /\ (\A i \in DOMAIN ks : q[i] = ks[i])
      /\ q[n] = k
  BY <1>1
<1> HIDE DEF q, n
<1>3. \A i \in DOMAIN q : EntryOK(q[i], V, J, chains)
  BY <1>2 DEF EntriesIn
<1>4. EntriesIn(q, V, J, chains)
  BY <1>2, <1>3 DEF EntriesIn
<1> QED BY <1>4 DEF q

LEMMA EntriesPopped ==
  ASSUME NEW J, NEW V, NEW chains, NEW ks, EntriesIn(ks, V, J, chains), ks # <<>>
  PROVE  EntriesIn(Front(ks), V, J, chains) /\ EntryOK(Last(ks), V, J, chains)
<1>1. /\ IsSequence(Front(ks)) /\ Len(ks) \in DOMAIN ks
      /\ DOMAIN ks = DOMAIN Front(ks) \cup {Len(ks)}
      /\ \A i \in DOMAIN Front(ks) : Front(ks)[i] = ks[i]
      /\ Last(ks) = ks[Len(ks)]
  <2>1. IsSequence(ks)
    BY DEF EntriesIn
  <2> QED BY ONLY <2>1, ks # <<>>, Popped, Zenon
<1> DEFINE q == Front(ks)
<1>2. /\ IsSequence(q) /\ \A i \in DOMAIN q : i \in DOMAIN ks /\ q[i] = ks[i]
  BY <1>1, Zenon
<1> HIDE DEF q
<1>3. \A i \in DOMAIN q : EntryOK(q[i], V, J, chains)
  BY <1>2, Zenon DEF EntriesIn
<1>4. EntriesIn(q, V, J, chains)
  BY <1>2, <1>3, Zenon DEF EntriesIn
<1>5. EntryOK(Last(ks), V, J, chains)
  BY <1>1, Zenon DEF EntriesIn
<1> QED BY <1>4, <1>5 DEF q

-----------------------------------------------------------------------------
(* The state after a step.                                                 *)
HeapInv(J) == \E V, chains : World(V, J, chains)

LEMMA WorldAfter ==
  ASSUME NEW J, NEW V, NEW chains, ValuesOK(V, J, chains), HeapOK(frames', V, J, chains),
         CtlOK(ctl', V, J, chains), EntriesIn(kont', V, J, chains), dir' \in Directories
  PROVE  HeapInv(J)'
BY DEF HeapInv, World

(* A step that leaves the heap alone, with a value it may have computed.   *)
LEMMA WorldKept ==
  ASSUME NEW J, NEW V, NEW chains, World(V, J, chains), UNCHANGED frames,
         CtlOK(ctl', V, J, chains), EntriesIn(kont', V, J, chains), dir' \in Directories
  PROVE  HeapInv(J)'
BY WorldAfter DEF World

LEMMA HeapGrown ==
  ASSUME NEW J, NEW V, NEW chains, NEW more, Grown(V, chains, more, chains),
         NEW fs, HeapOK(fs, V, J, chains)
  PROVE  HeapOK(fs, more, J, chains)
<1> SUFFICES ASSUME NEW f \in DOMAIN fs PROVE FrameOK(fs[f], f, more, J, chains)
  BY DEF HeapOK
<1>1. FrameOK(fs[f], f, V, J, chains) /\ f \in DOMAIN chains
  BY DEF HeapOK
<1>2. fs[f].parent # 0 => fs[f].parent \in DOMAIN chains
  <2>1. DOMAIN chains = 1..Len(fs) /\ Len(fs) \in Nat
    BY SequenceIs DEF HeapOK
  <2>2. fs[f].parent \in 0..(f - 1) /\ f \in 1..Len(fs)
    BY <1>1, <2>1 DEF FrameOK
  <2> QED BY <2>1, <2>2
<1> QED BY <1>1, <1>2, FrameGrown

LEMMA NewScopes ==
  ASSUME NEW J, NEW V, NEW chains, NEW fs, HeapOK(fs, V, J, chains), NEW scopes,
         NEW e, <<e, scopes>> \in J
  PROVE  At(e, Len(fs) + 1, J, Longer(chains, Len(fs) + 1, scopes))
<1> DEFINE n == Len(fs) + 1
<1> HIDE DEF n
<1>1. At(e, n, J, Longer(chains, n, scopes))
  BY LongerScopes DEF At
<1> QED BY <1>1 DEF n

LEMMA WorldReturns ==
  ASSUME NEW J, NEW V, NEW chains, World(V, J, chains), UNCHANGED <<frames, dir>>,
         NEW v, ValueIn(v, V, J, chains), ctl' = Ret(v), kont' = kont
  PROVE  HeapInv(J)'
<1> DEFINE more == V \cup {v}
<1>1. ValuesOK(more, J, chains) /\ Grown(V, chains, more, chains)
  BY ValueAdded DEF World
<1>2. v \in more
  OBVIOUS
<1> HIDE DEF more
<1>3. EntriesIn(kont', more, J, chains)
  BY <1>1, EntriesGrown DEF World
<1>4. CtlOK(ctl', more, J, chains)
  BY <1>2, Modes DEF CtlOK, CtlModes, Ret
<1>5. HeapOK(frames', more, J, chains)
  BY <1>1, HeapGrown DEF World
<1> QED BY <1>1, <1>3, <1>4, <1>5, WorldAfter DEF World

(* A step that builds a frame.                                             *)
LEMMA WorldBuilt ==
  ASSUME NEW J, NEW V, NEW chains, World(V, J, chains),
         NEW new, NewFrameOK(new, V, J, chains), Build(new),
         NEW scopes, scopes = Inner(DOMAIN new.cells, chains[new.parent]),
         CtlOK(ctl', V, J, Longer(chains, NewEnv, scopes)),
         EntriesIn(kont', V, J, chains), dir' \in Directories
  PROVE  HeapInv(J)'
<1>1. HeapOK(frames, V, J, chains) /\ ValuesOK(V, J, chains)
  BY DEF World
<1>2. HeapOK(frames', V, J, Longer(chains, Len(frames) + 1, scopes))
  <2>1. HeapOK(Append(frames, new), V, J, Longer(chains, Len(frames) + 1, scopes))
    BY <1>1, HeapBuilt
  <2> QED BY <2>1 DEF Build
<1>3. Grown(V, chains, V, Longer(chains, Len(frames) + 1, scopes))
  BY ONLY <1>1, LongerIs
<1> DEFINE longer == Longer(chains, Len(frames) + 1, scopes)
<1>4. CtlOK(ctl', V, J, longer)
  BY DEF NewEnv
<1> HIDE DEF longer
<1>5. HeapOK(frames', V, J, longer) /\ Grown(V, chains, V, longer)
  BY <1>2, <1>3 DEF longer
<1>6. ValuesOK(V, J, longer) /\ EntriesIn(kont', V, J, longer)
  BY <1>1, <1>5, ValuesGrown, EntriesGrown
<1> QED BY <1>4, <1>5, <1>6, WorldAfter

-----------------------------------------------------------------------------
(* The parts of an expression are in the scopes it gives them.             *)
LEMMA PartsAt ==
  ASSUME NEW J, NEW S, ResolvedIn(J, S), NEW chains, NEW e, NEW env, At(e, env, J, chains)
  PROVE  /\ env \in DOMAIN chains
         /\ WellFormed(e, chains[env]) /\ Parts(e, chains[env]) \subseteq J
BY DEF ResolvedIn, At

LEMMA PartsAre ==
  ASSUME NEW e, NEW scopes
  PROVE  /\ e.op = "Function" =>
              Parts(e, scopes) = {<<e.body, Inner(1..e.arity, scopes)>>}
         /\ e.op = "Block" => Parts(e, scopes) = In(e.defs, Inner(DOMAIN e.defs, scopes))
         /\ e.op = "ImmediateBlock" =>
              Parts(e, scopes) = In(e.defs, Inner(DOMAIN e.defs, scopes))
                                   \cup {<<e.body, Inner(DOMAIN e.defs, scopes)>>}
         /\ e.op = "If" =>
              Parts(e, scopes) = {<<e.cond, scopes>>, <<e.cons, scopes>>, <<e.alt, scopes>>}
         /\ e.op \in {"And", "Or"} => Parts(e, scopes) = {<<e.l, scopes>>, <<e.r, scopes>>}
         /\ e.op \in Operands => Parts(e, scopes) = In(e.kids, scopes)
<1> DEFINE function  == {<<e.body, Inner(1..e.arity, scopes)>>}
           block     == In(e.defs, Inner(DOMAIN e.defs, scopes))
           immediate == In(e.defs, Inner(DOMAIN e.defs, scopes))
                          \cup {<<e.body, Inner(DOMAIN e.defs, scopes)>>}
           condition == {<<e.cond, scopes>>, <<e.cons, scopes>>, <<e.alt, scopes>>}
           logical   == {<<e.l, scopes>>, <<e.r, scopes>>}
           operands  == In(e.kids, scopes)
           op        == e.op
<1>1. Parts(e, scopes) = CASE op = "Function" -> function
                           [] op = "Block" -> block
                           [] op = "ImmediateBlock" -> immediate
                           [] op = "If" -> condition
                           [] op \in {"And", "Or"} -> logical
                           [] op \in Operands -> operands
                           [] OTHER -> {}
  BY Zenon DEF Parts
<1> HIDE DEF function, block, immediate, condition, logical, operands, op
<1>2. /\ op = "Function" => Parts(e, scopes) = function
      /\ op = "Block" => Parts(e, scopes) = block
      /\ op = "ImmediateBlock" => Parts(e, scopes) = immediate
      /\ op = "If" => Parts(e, scopes) = condition
      /\ op \in {"And", "Or"} => Parts(e, scopes) = logical
      /\ op \in Operands => Parts(e, scopes) = operands
  BY <1>1 DEF Operands
<1> QED BY <1>2 DEF function, block, immediate, condition, logical, operands, op

LEMMA ConditionParts ==
  ASSUME NEW J, NEW S, ResolvedIn(J, S), NEW chains, NEW e, NEW env, At(e, env, J, chains),
         e.op = "If"
  PROVE  At(e.cond, env, J, chains) /\ At(e.cons, env, J, chains) /\ At(e.alt, env, J, chains)
<1>1. env \in DOMAIN chains /\ Parts(e, chains[env]) \subseteq J
  BY PartsAt
<1>2. Parts(e, chains[env])
        = {<<e.cond, chains[env]>>, <<e.cons, chains[env]>>, <<e.alt, chains[env]>>}
  BY PartsAre
<1> QED BY <1>1, <1>2 DEF At

LEMMA LogicalParts ==
  ASSUME NEW J, NEW S, ResolvedIn(J, S), NEW chains, NEW e, NEW env, At(e, env, J, chains),
         e.op = "And" \/ e.op = "Or"
  PROVE  At(e.l, env, J, chains) /\ At(e.r, env, J, chains)
<1>1. env \in DOMAIN chains /\ Parts(e, chains[env]) \subseteq J
  BY PartsAt
<1>2. Parts(e, chains[env]) = {<<e.l, chains[env]>>, <<e.r, chains[env]>>}
  BY PartsAre
<1> QED BY <1>1, <1>2 DEF At

LEMMA OperandParts ==
  ASSUME NEW J, NEW S, ResolvedIn(J, S), NEW chains, NEW e, NEW env, At(e, env, J, chains),
         e.op \in Operands
  PROVE  /\ \A i \in DOMAIN e.kids : At(e.kids[i], env, J, chains)
         /\ DOMAIN e.kids = 1..Len(e.kids) /\ Len(e.kids) \in OperandCount(e.op)
         /\ e.op = "Binary" => e.o \in BinaryOps
<1>1. /\ env \in DOMAIN chains /\ Parts(e, chains[env]) \subseteq J
      /\ WellFormed(e, chains[env])
  BY PartsAt
<1>2. Parts(e, chains[env]) = In(e.kids, chains[env])
  BY PartsAre
<1>3. \A i \in DOMAIN e.kids : At(e.kids[i], env, J, chains)
  BY <1>1, <1>2 DEF In, At
<1>4. /\ DOMAIN e.kids = 1..Len(e.kids) /\ Len(e.kids) \in OperandCount(e.op)
      /\ e.op = "Binary" => e.o \in BinaryOps
  BY <1>1 DEF WellFormed
<1> QED BY <1>3, <1>4

LEMMA FunctionParts ==
  ASSUME NEW J, NEW S, ResolvedIn(J, S), NEW chains, NEW e, NEW env, At(e, env, J, chains),
         e.op = "Function"
  PROVE  /\ e.arity \in Nat /\ env \in DOMAIN chains
         /\ <<e.body, Inner(1..e.arity, chains[env])>> \in J
<1>1. /\ env \in DOMAIN chains /\ Parts(e, chains[env]) \subseteq J
      /\ WellFormed(e, chains[env])
  BY PartsAt
<1>2. Parts(e, chains[env]) = {<<e.body, Inner(1..e.arity, chains[env])>>}
  BY PartsAre
<1> QED BY <1>1, <1>2 DEF WellFormed

LEMMA BlockParts ==
  ASSUME NEW J, NEW S, ResolvedIn(J, S), NEW chains, NEW e, NEW env, At(e, env, J, chains),
         e.op = "Block"
  PROVE  /\ env \in DOMAIN chains /\ DOMAIN e.names = DOMAIN e.defs
         /\ \A i \in DOMAIN e.defs : <<e.defs[i], Inner(DOMAIN e.defs, chains[env])>> \in J
<1>1. /\ env \in DOMAIN chains /\ Parts(e, chains[env]) \subseteq J
      /\ WellFormed(e, chains[env])
  BY PartsAt
<1>2. Parts(e, chains[env]) = In(e.defs, Inner(DOMAIN e.defs, chains[env]))
  BY PartsAre
<1> QED BY <1>1, <1>2 DEF WellFormed, In

LEMMA ImmediateBlockParts ==
  ASSUME NEW J, NEW S, ResolvedIn(J, S), NEW chains, NEW e, NEW env, At(e, env, J, chains),
         e.op = "ImmediateBlock"
  PROVE  /\ env \in DOMAIN chains
         /\ \A i \in DOMAIN e.defs : <<e.defs[i], Inner(DOMAIN e.defs, chains[env])>> \in J
         /\ <<e.body, Inner(DOMAIN e.defs, chains[env])>> \in J
<1>1. env \in DOMAIN chains /\ Parts(e, chains[env]) \subseteq J
  BY PartsAt
<1>2. Parts(e, chains[env])
        = In(e.defs, Inner(DOMAIN e.defs, chains[env]))
            \cup {<<e.body, Inner(DOMAIN e.defs, chains[env])>>}
  BY PartsAre
<1> QED BY <1>1, <1>2 DEF In

LEMMA StatementScopes ==
  ASSUME NEW stmt, NEW J, StatementParts(stmt) \subseteq J
  PROVE  /\ \A i \in DOMAIN stmt.defs :
              <<stmt.defs[i], Inner(DOMAIN stmt.defs, <<RootScope>>)>> \in J
         /\ <<stmt.body, Inner(DOMAIN stmt.defs, <<RootScope>>)>> \in J
<1> DEFINE slots == DOMAIN stmt.defs
<1>1. Inner(slots, <<RootScope>>) = <<slots, RootScope>>
  <2> HIDE DEF slots
  <2>1. ASSUME NEW x, NEW y PROVE <<x>> \o <<y>> = <<x, y>>
    <3> DEFINE q == <<x>> \o <<y>>
               r == <<x, y>>
    <3>1. /\ q \in Seq({x, y}) /\ Len(q) = 2 /\ q[1] = x /\ q[2] = y
          /\ r \in Seq({x, y}) /\ Len(r) = 2 /\ r[1] = x /\ r[2] = y
      OBVIOUS
    <3> HIDE DEF q, r
    <3>2. \A i \in 1..2 : i = 1 \/ i = 2
      OBVIOUS
    <3>3. q = r
      BY <3>1, <3>2, SeqEqual
    <3> QED BY <3>3 DEF q, r
  <2> QED BY <2>1 DEF Inner
<1> QED BY <1>1 DEF StatementParts, In

-----------------------------------------------------------------------------
(* The frames the evaluator builds.                                        *)
LEMMA FrameIs ==
  ASSUME NEW parent, NEW names, NEW cells
  PROVE  /\ DOMAIN Frame(parent, names, cells) = {"parent", "names", "cells"}
         /\ Frame(parent, names, cells).parent = parent
         /\ Frame(parent, names, cells).names = names
         /\ Frame(parent, names, cells).cells = cells
BY DEF Frame

LEMMA MadeFrameIs ==
  ASSUME NEW defs, NEW parent, NEW names
  PROVE  /\ DOMAIN MakeFrame(defs, parent, names) = {"parent", "names", "cells"}
         /\ MakeFrame(defs, parent, names).parent = parent
         /\ MakeFrame(defs, parent, names).names = names
         /\ DOMAIN MakeFrame(defs, parent, names).cells = DOMAIN defs
         /\ \A i \in DOMAIN defs :
              MakeFrame(defs, parent, names).cells[i] = Suspended(defs[i])
<1> DEFINE cells == [i \in DOMAIN defs |-> Suspended(defs[i])]
<1>1. DOMAIN cells = DOMAIN defs /\ \A i \in DOMAIN defs : cells[i] = Suspended(defs[i])
  OBVIOUS
<1>2. MakeFrame(defs, parent, names) = Frame(parent, names, cells)
  BY DEF MakeFrame
<1> HIDE DEF cells
<1> QED BY <1>1, <1>2, FrameIs

LEMMA MadeFrame ==
  ASSUME NEW J, NEW V, NEW chains, NEW defs, NEW parent \in DOMAIN chains, NEW names,
         DOMAIN names \subseteq DOMAIN defs,
         \A i \in DOMAIN defs : <<defs[i], Inner(DOMAIN defs, chains[parent])>> \in J
  PROVE  NewFrameOK(MakeFrame(defs, parent, names), V, J, chains)
<1> DEFINE new == MakeFrame(defs, parent, names)
<1>1. /\ DOMAIN new = {"parent", "names", "cells"} /\ new.parent = parent
      /\ new.names = names /\ DOMAIN new.cells = DOMAIN defs
      /\ \A i \in DOMAIN defs : new.cells[i] = Suspended(defs[i])
  BY MadeFrameIs
<1> HIDE DEF new
<1>2. \A i \in DOMAIN defs : CellOK(new.cells[i], Inner(DOMAIN defs, chains[parent]), V, J)
  <2> SUFFICES ASSUME NEW i \in DOMAIN defs
               PROVE  CellOK(new.cells[i], Inner(DOMAIN defs, chains[parent]), V, J)
    OBVIOUS
  <2>1. new.cells[i].st = "Lazy" /\ new.cells[i].e = defs[i]
    <3>1. new.cells[i] = Suspended(defs[i])
      BY <1>1
    <3>2. \A e : Suspended(e).st = "Lazy" /\ Suspended(e).e = e
      BY DEF Suspended
    <3> QED BY <3>1, <3>2
  <2> QED BY <2>1 DEF CellOK, CellStates
<1>3. NewFrameOK(new, V, J, chains)
  BY <1>1, <1>2 DEF NewFrameOK
<1> QED BY <1>3 DEF new

LEMMA CalledFrameIs ==
  ASSUME NEW V, NEW fn, NEW args \in Seq(V)
  PROVE  /\ DOMAIN CallFrame(fn, args) = {"parent", "names", "cells"}
         /\ CallFrame(fn, args).parent = fn.env
         /\ CallFrame(fn, args).names = <<>>
         /\ DOMAIN CallFrame(fn, args).cells = 1..Len(args)
         /\ \A i \in 1..Len(args) :
              CallFrame(fn, args).cells[i] = Done(args[i]) /\ args[i] \in V
<1> DEFINE cells == [i \in DOMAIN args |-> Done(args[i])]
           env == fn.env
<1>1. /\ DOMAIN cells = 1..Len(args)
      /\ \A i \in 1..Len(args) : cells[i] = Done(args[i]) /\ args[i] \in V
  OBVIOUS
<1>2. CallFrame(fn, args) = Frame(env, <<>>, cells)
  BY DEF CallFrame
<1> HIDE DEF cells, env
<1>3. /\ DOMAIN Frame(env, <<>>, cells) = {"parent", "names", "cells"}
      /\ Frame(env, <<>>, cells).parent = env
      /\ Frame(env, <<>>, cells).names = <<>>
      /\ Frame(env, <<>>, cells).cells = cells
  BY FrameIs
<1> QED BY <1>1, <1>2, <1>3 DEF env

LEMMA CalledFrame ==
  ASSUME NEW J, NEW V, NEW chains, NEW fn, fn.env \in DOMAIN chains, NEW args \in Seq(V)
  PROVE  NewFrameOK(CallFrame(fn, args), V, J, chains)
<1> DEFINE new == CallFrame(fn, args)
<1>1. /\ DOMAIN new = {"parent", "names", "cells"} /\ new.parent = fn.env
      /\ new.names = <<>> /\ DOMAIN new.cells = 1..Len(args)
      /\ \A i \in 1..Len(args) : new.cells[i] = Done(args[i]) /\ args[i] \in V
  BY CalledFrameIs
<1> HIDE DEF new
<1>2. \A i \in DOMAIN new.cells :
        CellOK(new.cells[i], Inner(DOMAIN new.cells, chains[fn.env]), V, J)
  <2>1. \A x : Done(x).st = "Done" /\ Done(x).v = x
    BY DEF Done
  <2> QED BY <1>1, <2>1 DEF CellOK, CellStates
<1>3. DOMAIN <<>> = {}
  OBVIOUS
<1>4. NewFrameOK(new, V, J, chains)
  BY <1>1, <1>2, <1>3 DEF NewFrameOK
<1> QED BY <1>4 DEF new


-----------------------------------------------------------------------------
(* The control states.                                                     *)
LEMMA EvalOK ==
  ASSUME NEW J, NEW V, NEW chains, NEW e, NEW env, At(e, env, J, chains)
  PROVE  CtlOK(Eval(e, env), V, J, chains)
BY DEF Eval, CtlOK, CtlModes

LEMMA RetOK ==
  ASSUME NEW J, NEW V, NEW chains, NEW v \in V
  PROVE  CtlOK(Ret(v), V, J, chains) /\ CtlOK(Show(v), V, J, chains)
BY DEF Ret, Show, CtlOK, CtlModes

LEMMA NothingOK ==
  ASSUME NEW J, NEW V, NEW chains
  PROVE  /\ CtlOK(Err, V, J, chains) /\ CtlOK(Abort, V, J, chains) /\ CtlOK(Cut, V, J, chains)
         /\ \A t : CtlOK(Shown(t), V, J, chains) /\ CtlOK(Exit(t), V, J, chains)
BY DEF Err, Abort, Cut, Shown, Exit, CtlOK, CtlModes

LEMMA FieldsOK ==
  ASSUME NEW J, NEW V, NEW chains, NEW f, NEW todo, NEW done
  PROVE  CtlOK(ShowFields(f, todo, done), V, J, chains)
BY DEF ShowFields, CtlOK, CtlModes

LEMMA ItemsOK ==
  ASSUME NEW J, NEW V, NEW chains, NEW todo \in Seq(V), NEW done
  PROVE  CtlOK(ShowItems(todo, done), V, J, chains)
BY DEF ShowItems, CtlOK, CtlModes

LEMMA GatherOK ==
  ASSUME NEW J, NEW V, NEW chains, NEW e, NEW env, NEW vs, OperandsOK(e, env, vs, V, J, chains)
  PROVE  CtlOK(Gather(e, env, vs), V, J, chains)
BY DEF Gather, CtlOK, CtlModes

LEMMA ApplyOK ==
  ASSUME NEW J, NEW V, NEW chains, NEW fn \in V, NEW args \in Seq(V)
  PROVE  CtlOK(Apply(fn, args), V, J, chains)
BY DEF Apply, CtlOK, CtlModes

LEMMA EachOK ==
  ASSUME NEW J, NEW V, NEW chains, NEW fn \in V, NEW todo \in Seq(V), NEW how, NEW acc,
         AccOK(how, acc, V)
  PROVE  CtlOK(Each(how, fn, todo, acc), V, J, chains)
BY DEF Each, CtlOK, CtlModes

LEMMA DefinitionsOK ==
  ASSUME NEW J, NEW V, NEW chains, NEW f, NEW next, NEW body, At(body, f, J, chains)
  PROVE  CtlOK(Definitions(f, next, body), V, J, chains)
BY DEF Definitions, CtlOK, CtlModes

(* A cell that is forced: its value, an Err or its expression.             *)
LEMMA ForcedWorld ==
  ASSUME NEW J, NEW V, NEW chains, World(V, J, chains), NEW f, NEW s, NEW ks,
         EntriesIn(ks, V, J, chains), ForceSlot(f, s, ks), UNCHANGED dir
  PROVE  HeapInv(J)'
<1>1. IsCell(f, s) /\ HeapOK(frames, V, J, chains) /\ ValuesOK(V, J, chains)
      /\ dir' \in Directories
  BY DEF ForceSlot, World
<1>2. CellOK(Cell(f, s), chains[f], V, J) /\ f \in DOMAIN chains
  BY <1>1 DEF IsCell, Cell, HeapOK, FrameOK
<1>3. CASE /\ Cell(f, s).st = "Done"
           /\ Go(Ret(Cell(f, s).v), ks)
           /\ UNCHANGED frames
  <2>1. Cell(f, s).v \in V
    BY <1>2, <1>3 DEF CellOK
  <2>2. CtlOK(ctl', V, J, chains) /\ EntriesIn(kont', V, J, chains)
    BY <1>3, <2>1, RetOK DEF Go
  <2> QED BY <1>1, <1>3, <2>2, WorldKept
<1>4. CASE /\ Cell(f, s).st = "InProgress"
           /\ Go(Err, ks)
           /\ UNCHANGED frames
  <2>1. CtlOK(ctl', V, J, chains) /\ EntriesIn(kont', V, J, chains)
    BY <1>4, NothingOK DEF Go
  <2> QED BY <1>1, <1>4, <2>1, WorldKept
<1>5. CASE /\ Cell(f, s).st = "Lazy"
           /\ Go(Eval(Cell(f, s).e, f),
                 Append(ks, [k |-> "Force", f |-> f, s |-> s, e |-> Cell(f, s).e]))
           /\ frames' = [frames EXCEPT ![f].cells[s] = Busy]
  <2> DEFINE k == [k |-> "Force", f |-> f, s |-> s, e |-> Cell(f, s).e]
  <2>1. At(Cell(f, s).e, f, J, chains)
    BY <1>2, <1>5 DEF CellOK, At
  <2>2. k.k = "Force" /\ k.e = Cell(f, s).e /\ k.f = f
    OBVIOUS
  <2>3. ctl' = Eval(Cell(f, s).e, f) /\ kont' = Append(ks, k) /\ SetCell(f, s, Busy)
    BY <1>5 DEF Go, SetCell
  <2> HIDE DEF k
  <2>4. EntryOK(k, V, J, chains)
    BY <2>1, <2>2 DEF EntryOK, ContKinds
  <2>5. EntriesIn(kont', V, J, chains) /\ CtlOK(ctl', V, J, chains)
    BY <2>1, <2>3, <2>4, EntriesPushed, EvalOK
  <2>6. CellOK(Busy, chains[f], V, J)
    BY DEF CellOK, Busy, CellStates
  <2>7. HeapOK(frames', V, J, chains)
    BY <1>1, <2>3, <2>6, HeapChanged
  <2> QED BY <1>1, <2>5, <2>7, WorldAfter
<1> QED BY <1>3, <1>4, <1>5 DEF ForceSlot

LEMMA AccessedWorld ==
  ASSUME NEW J, NEW V, NEW chains, World(V, J, chains), NEW f, NEW name,
         AccessField(f, name, kont), UNCHANGED dir
  PROVE  HeapInv(J)'
<1>1. EntriesIn(kont, V, J, chains) /\ dir' \in Directories
  BY DEF World
<1>2. CASE HasField(f, name)
  <2>1. ForceSlot(f, SlotOf(f, name), kont)
    BY <1>2 DEF AccessField
  <2> QED BY <1>1, <2>1, ForcedWorld
<1>3. CASE ~HasField(f, name)
  <2>1. ctl' = Err /\ kont' = kont /\ UNCHANGED frames
    BY <1>3 DEF AccessField, Go
  <2> QED BY <1>1, <2>1, NothingOK, WorldKept
<1> QED BY <1>2, <1>3

-----------------------------------------------------------------------------
(* What the operations on values return.                                   *)
LEMMA ScalarIn ==
  ASSUME NEW J, NEW V, NEW chains, NEW v, v.k \in Scalars, IsNumber(v) => v.n \in Int
  PROVE  ValueIn(v, V, J, chains)
BY DEF ValueIn, Scalars, IsNumber

LEMMA BooleanIn ==
  ASSUME NEW J, NEW V, NEW chains, NEW b
  PROVE  ValueIn(Boolean(b), V, J, chains)
BY DEF ValueIn, Boolean

LEMMA NumberIn ==
  ASSUME NEW J, NEW V, NEW chains, NEW n \in Int
  PROVE  ValueIn(Number(n), V, J, chains)
BY DEF ValueIn, Number

LEMMA ListIn ==
  ASSUME NEW J, NEW V, NEW chains, NEW xs \in Seq(V), NEW rc
  PROVE  ValueIn(List(xs, rc), V, J, chains)
BY DEF ValueIn, List

LEMMA TextIn ==
  ASSUME NEW J, NEW V, NEW chains, NEW s
  PROVE  ValueIn(Text(s), V, J, chains)
BY DEF ValueIn, Text

LEMMA BinopIn ==
  ASSUME NEW J, NEW V, NEW chains, NEW l, NEW r, NEW o \in BinaryOps,
         ValueIn(l, V, J, chains), ValueIn(r, V, J, chains)
  PROVE  ApplyBinop(o, l, r) = Failed \/ ValueIn(ApplyBinop(o, l, r), V, J, chains)
<1>1. CASE o \in {"Eq", "Ne"}
  <2>1. ApplyBinop(o, l, r) = Boolean(ValueEq(l, r) = (o = "Eq"))
    BY <1>1 DEF ApplyBinop
  <2> QED BY <2>1, BooleanIn
<1>2. CASE o \notin {"Eq", "Ne"} /\ ~(IsNumber(l) /\ IsNumber(r))
  BY <1>2 DEF ApplyBinop
<1>3. CASE o \in {"Add", "Sub", "Mul"} /\ IsNumber(l) /\ IsNumber(r)
  <2>1. ApplyBinop(o, l, r) = Number(Arith(o, l.n, r.n))
    BY <1>3 DEF ApplyBinop
  <2>2. l.n \in Int /\ r.n \in Int
    BY <1>3 DEF ValueIn, IsNumber
  <2>3. Arith(o, l.n, r.n) \in Int
    BY <1>3, <2>2 DEF Arith
  <2> QED BY <2>1, <2>3, NumberIn
<1>4. CASE o \in {"Gt", "Lt", "Ge", "Le"} /\ IsNumber(l) /\ IsNumber(r)
  <2>1. ApplyBinop(o, l, r) = Boolean(Compare(o, l.n, r.n))
    BY <1>4 DEF ApplyBinop
  <2> QED BY <2>1, BooleanIn
<1> QED BY <1>1, <1>2, <1>3, <1>4 DEF BinaryOps

LEMMA UnaryopIn ==
  ASSUME NEW J, NEW V, NEW chains, NEW v, NEW o, ValueIn(v, V, J, chains)
  PROVE  ApplyUnaryop(o, v) = Failed \/ ValueIn(ApplyUnaryop(o, v), V, J, chains)
<1>1. CASE o = "Neg" /\ IsNumber(v)
  <2>1. ApplyUnaryop(o, v) = Number(0 - v.n) /\ v.n \in Int
    BY <1>1 DEF ApplyUnaryop, ValueIn, IsNumber
  <2>2. 0 - v.n \in Int
    BY <2>1
  <2> QED BY <2>1, <2>2, NumberIn
<1>2. CASE ~(o = "Neg" /\ IsNumber(v)) /\ o = "Not" /\ v.k = "bool"
  <2>1. ApplyUnaryop(o, v) = Boolean(~v.b)
    BY <1>2 DEF ApplyUnaryop
  <2> QED BY <2>1, BooleanIn
<1>3. CASE ~(o = "Neg" /\ IsNumber(v)) /\ ~(o = "Not" /\ v.k = "bool")
  BY <1>3 DEF ApplyUnaryop
<1> QED BY <1>1, <1>2, <1>3

LEMMA ItemsIn ==
  ASSUME NEW V, NEW q \in Seq(V), NEW n \in Nat, Len(q) = n
  PROVE  \A i \in 1..n : q[i] \in V
OBVIOUS

LEMMA IndexIn ==
  ASSUME NEW V, NEW xs \in Seq(V), NEW n \in Int
  PROVE  IndexList(xs, n) = Failed \/ IndexList(xs, n) \in V
<1>1. AsUsize(n) \in Nat /\ Len(xs) \in Nat
  BY DEF AsUsize
<1> DEFINE i == AsUsize(n) + 1
<1>2. AsUsize(n) < Len(xs) => i \in 1..Len(xs)
  BY <1>1
<1>3. AsUsize(n) < Len(xs) => xs[i] \in V
  BY <1>2
<1> QED BY <1>3 DEF IndexList

(* A list function returns a list of values it was given, one of them or a *)
(* number.                                                                 *)
LEMMA NumbersFromIn ==
  ASSUME NEW J, NEW V, NEW chains, ValuesOK(V, J, chains), NEW from \in Int, NEW to \in Int,
         NEW rc
  PROVE  ValueIn(NumbersFrom(from, to, rc), V, J, chains)
<1> DEFINE n == AsUsize(to - from)
           xs == [i \in 1..n |-> Number(from + i - 1)]
<1>1. n \in Nat
  BY DEF AsUsize
<1> HIDE DEF n
<1>2. \A i \in 1..n : from + i - 1 \in Int
  BY <1>1
<1>3. \A i \in 1..n : Number(from + i - 1) \in V
  BY <1>2 DEF ValuesOK
<1>4. xs \in Seq(V)
  BY <1>1, <1>3, SeqDef
<1>5. NumbersFrom(from, to, rc) = List(xs, rc)
  BY DEF NumbersFrom, n
<1> QED BY <1>4, <1>5, ListIn

LEMMA ClampIn ==
  ASSUME NEW n \in Int, NEW V, NEW xs \in Seq(V)
  PROVE  Clamp(n, xs) \in 0..Len(xs)
<1>1. AsUsize(n) \in Nat /\ Len(xs) \in Nat
  BY DEF AsUsize
<1> QED BY <1>1 DEF Clamp

LEMMA FunctionOfIn ==
  ASSUME NEW J, NEW V, NEW chains, ValuesOK(V, J, chains),
         NEW name \in {"length", "head", "tail", "concat", "take", "drop"},
         NEW xs \in Seq(V), NEW rc, NEW a, name \in {"concat", "take", "drop"} => a[2] \in V
  PROVE  FunctionOf(name, xs, a, rc) = Failed \/ ValueIn(FunctionOf(name, xs, a, rc), V, J, chains)
<1>1. CASE name = "length"
  <2>1. FunctionOf(name, xs, a, rc) = Number(Len(xs)) /\ Len(xs) \in Int
    BY <1>1 DEF FunctionOf
  <2> QED BY <2>1, NumberIn
<1>2. CASE name = "head"
  <2>1. FunctionOf(name, xs, a, rc) = IF xs = <<>> THEN Failed ELSE Head(xs)
    BY <1>2 DEF FunctionOf
  <2>2. xs # <<>> => Head(xs) \in V
    OBVIOUS
  <2> QED BY <2>1, <2>2 DEF ValuesOK
<1>3. CASE name = "tail"
  <2>1. FunctionOf(name, xs, a, rc) = IF xs = <<>> THEN Failed ELSE List(Tail(xs), rc)
    BY <1>3 DEF FunctionOf
  <2>2. xs # <<>> => Tail(xs) \in Seq(V)
    OBVIOUS
  <2> QED BY <2>1, <2>2, ListIn
<1>4. CASE name = "concat"
  <2>1. FunctionOf(name, xs, a, rc) = IF IsList(a[2]) THEN List(xs \o a[2].xs, rc) ELSE Failed
    BY <1>4 DEF FunctionOf
  <2>2. IsList(a[2]) => a[2].xs \in Seq(V)
    BY <1>4 DEF ValuesOK, ValueIn, IsList
  <2>3. IsList(a[2]) => xs \o a[2].xs \in Seq(V)
    BY <2>2
  <2> QED BY <2>1, <2>3, ListIn
<1>5. ASSUME name \in {"take", "drop"}, IsNumber(a[2])
      PROVE  /\ Clamp(a[2].n, xs) \in 0..Len(xs)
             /\ SubSeq(xs, 1, Clamp(a[2].n, xs)) \in Seq(V)
             /\ SubSeq(xs, Clamp(a[2].n, xs) + 1, Len(xs)) \in Seq(V)
  <2>1. a[2].n \in Int
    BY <1>5 DEF ValuesOK, ValueIn, IsNumber
  <2> DEFINE n == Clamp(a[2].n, xs)
  <2>2. n \in 0..Len(xs)
    BY <2>1, ClampIn
  <2> HIDE DEF n
  <2>3. SubSeq(xs, 1, n) \in Seq(V) /\ SubSeq(xs, n + 1, Len(xs)) \in Seq(V)
    BY <2>2
  <2> QED BY <2>2, <2>3 DEF n
<1>6. CASE name = "take"
  <2>1. FunctionOf(name, xs, a, rc)
          = IF IsNumber(a[2]) THEN List(SubSeq(xs, 1, Clamp(a[2].n, xs)), rc) ELSE Failed
    BY <1>6 DEF FunctionOf
  <2> QED BY <1>5, <1>6, <2>1, ListIn
<1>7. CASE name = "drop"
  <2>1. FunctionOf(name, xs, a, rc)
          = IF IsNumber(a[2]) THEN List(SubSeq(xs, Clamp(a[2].n, xs) + 1, Len(xs)), rc) ELSE Failed
    BY <1>7 DEF FunctionOf
  <2> QED BY <1>5, <1>7, <2>1, ListIn
<1> QED BY <1>1, <1>2, <1>3, <1>4, <1>6, <1>7

LEMMA ListFunctionIn ==
  ASSUME NEW J, NEW V, NEW chains, ValuesOK(V, J, chains),
         NEW name \in DOMAIN PureListArity, NEW a \in Seq(V), Len(a) = PureListArity[name],
         NEW rc
  PROVE  ListFunction(name, a, rc) = Failed \/ ValueIn(ListFunction(name, a, rc), V, J, chains)
<1>1. /\ name \in {"range", "length", "head", "tail", "concat", "take", "drop"}
      /\ Len(a) = IF name \in {"range", "concat", "take", "drop"} THEN 2 ELSE 1
  BY DEF PureListArity
<1>2. a[1] \in V
  BY <1>1
<1>3. name \in {"range", "concat", "take", "drop"} => a[2] \in V
  <2>1. Len(a) = 2 => \A i \in 1..2 : a[i] \in V
    BY ItemsIn
  <2> QED BY <1>1, <2>1
<1>4. CASE name = "range"
  <2>1. IsNumber(a[1]) /\ IsNumber(a[2]) => a[1].n \in Int /\ a[2].n \in Int
    BY <1>2, <1>3, <1>4 DEF ValuesOK, ValueIn, IsNumber
  <2>2. ListFunction(name, a, rc)
          = IF IsNumber(a[1]) /\ IsNumber(a[2]) THEN NumbersFrom(a[1].n, a[2].n, rc) ELSE Failed
    BY <1>4 DEF ListFunction
  <2> QED BY <2>1, <2>2, NumbersFromIn
<1>5. CASE name # "range"
  <2>1. ListFunction(name, a, rc) = IF IsList(a[1]) THEN FunctionOf(name, a[1].xs, a, rc) ELSE Failed
    BY <1>5 DEF ListFunction
  <2>2. IsList(a[1]) => a[1].xs \in Seq(V)
    BY <1>2 DEF ValuesOK, ValueIn, IsList
  <2> QED BY <1>1, <1>3, <1>5, <2>1, <2>2, FunctionOfIn
<1> QED BY <1>4, <1>5

LEMMA CombineIn ==
  ASSUME NEW J, NEW S, ResolvedIn(J, S), NEW V, NEW chains, ValuesOK(V, J, chains),
         NEW e, NEW env, NEW vs, OperandsOK(e, env, vs, V, J, chains),
         Len(vs) = Len(e.kids), e.op \in {"List", "Interpolation", "Binary", "Unary"}
  PROVE  Combine(e.op, e, vs) = Failed \/ ValueIn(Combine(e.op, e, vs), V, J, chains)
<1>1. At(e, env, J, chains) /\ e.op \in Operands /\ vs \in Seq(V)
  BY DEF OperandsOK
<1>2. Len(e.kids) \in OperandCount(e.op) /\ (e.op = "Binary" => e.o \in BinaryOps)
  BY <1>1, OperandParts
<1>3. CASE e.op = "List"
  <2>1. Combine(e.op, e, vs) = List(vs, NewList)
    BY <1>3 DEF Combine
  <2> QED BY <1>1, <2>1, ListIn
<1>4. CASE e.op = "Interpolation"
  <2>1. \E s : Combine(e.op, e, vs) = Text(s)
    BY <1>4 DEF Combine, Interpolate
  <2> QED BY <2>1, TextIn
<1>5. CASE e.op = "Binary"
  <2>1. Combine(e.op, e, vs) = ApplyBinop(e.o, vs[1], vs[2])
    BY <1>5 DEF Combine
  <2>2. Len(vs) = 2
    BY <1>2, <1>5 DEF OperandCount
  <2>3. vs[1] \in V /\ vs[2] \in V
    <3>1. \A i \in 1..2 : vs[i] \in V
      BY <1>1, <2>2, ItemsIn
    <3> QED BY <3>1
  <2> QED BY <1>2, <1>5, <2>1, <2>3, BinopIn DEF ValuesOK
<1>6. CASE e.op = "Unary"
  <2>1. Combine(e.op, e, vs) = ApplyUnaryop(e.o, vs[1])
    BY <1>6 DEF Combine
  <2>2. Len(vs) = 1
    BY <1>2, <1>6 DEF OperandCount
  <2>3. vs[1] \in V
    <3>1. \A i \in 1..1 : vs[i] \in V
      BY <1>1, <2>2, ItemsIn
    <3> QED BY <3>1
  <2> QED BY <2>1, <2>3, UnaryopIn DEF ValuesOK
<1> QED BY <1>3, <1>4, <1>5, <1>6

LEMMA WorldOutcome ==
  ASSUME NEW J, NEW V, NEW chains, World(V, J, chains), UNCHANGED <<frames, dir>>,
         NEW v, v = Failed \/ ValueIn(v, V, J, chains), ctl' = Outcome(v), kont' = kont
  PROVE  HeapInv(J)'
<1>1. CASE v = Failed
  <2>1. ctl' = Err
    BY <1>1 DEF Outcome
  <2> QED BY <2>1, NothingOK, WorldKept DEF World
<1>2. CASE v # Failed
  <2>1. ctl' = Ret(v)
    BY <1>2 DEF Outcome
  <2> QED BY <1>2, <2>1, WorldReturns
<1> QED BY <1>1, <1>2

-----------------------------------------------------------------------------
(* Every step keeps the heap well typed.                                   *)
LEMMA EvaluatingKeeps ==
  ASSUME NEW J, NEW S, ResolvedIn(J, S), NEW V, NEW chains, World(V, J, chains),
         EvalLiteral \/ EvalVariable \/ EvalFunction \/ EvalBlock \/ EvalImmediateBlock
         \/ EvalCondition \/ EvalLogical \/ EvalOperands
  PROVE  HeapInv(J)'
<1>1. ctl.m = "eval"
  BY DEF EvalLiteral, EvalVariable, EvalFunction, EvalBlock, EvalImmediateBlock,
         EvalCondition, EvalLogical, EvalOperands, Evaluating
<1>2. /\ At(ctl.e, ctl.env, J, chains) /\ EntriesIn(kont, V, J, chains)
      /\ dir \in Directories /\ ValuesOK(V, J, chains) /\ HeapOK(frames, V, J, chains)
  BY <1>1 DEF World, CtlOK
<1>3. ctl.env \in DOMAIN chains /\ WellFormed(ctl.e, chains[ctl.env])
  BY <1>2, PartsAt
<1>4. CASE EvalLiteral
  <2>1. ctl.e.v.k \in Scalars /\ (IsNumber(ctl.e.v) => ctl.e.v.n \in Int)
    BY <1>3, <1>4 DEF WellFormed, EvalLiteral, Evaluating
  <2>2. ValueIn(ctl.e.v, V, J, chains)
    BY <2>1, ScalarIn
  <2>3. ctl' = Ret(ctl.e.v) /\ kont' = kont /\ UNCHANGED <<frames, dir>>
    BY <1>4 DEF EvalLiteral, Go
  <2> QED BY <2>2, <2>3, WorldReturns
<1>5. CASE EvalVariable
  BY <1>2, <1>5, ForcedWorld DEF EvalVariable
<1>6. CASE EvalFunction
  <2> DEFINE v == Native(ctl.e.arity, ctl.e.body, ctl.env)
  <2>1. /\ v.k = "function" /\ v.arity = ctl.e.arity /\ v.body = ctl.e.body
        /\ v.env = ctl.env
    BY DEF Native
  <2>2. ctl' = Ret(v) /\ kont' = kont /\ UNCHANGED <<frames, dir>>
    BY <1>6 DEF EvalFunction, Go
  <2> HIDE DEF v
  <2>3. /\ ctl.e.arity \in Nat
        /\ <<ctl.e.body, Inner(1..ctl.e.arity, chains[ctl.env])>> \in J
    BY <1>2, <1>6, FunctionParts DEF EvalFunction, Evaluating
  <2>4. ValueIn(v, V, J, chains)
    BY <1>3, <2>1, <2>3 DEF ValueIn
  <2> QED BY <2>2, <2>4, WorldReturns
<1>7. CASE EvalBlock
  <2> DEFINE new == MakeFrame(ctl.e.defs, ctl.env, ctl.e.names)
             scopes == Inner(DOMAIN ctl.e.defs, chains[ctl.env])
             longer == Longer(chains, NewEnv, scopes)
  <2>1. /\ DOMAIN ctl.e.names = DOMAIN ctl.e.defs
        /\ \A i \in DOMAIN ctl.e.defs : <<ctl.e.defs[i], scopes>> \in J
    BY <1>2, <1>7, BlockParts DEF EvalBlock, Evaluating
  <2>2. /\ NewFrameOK(new, V, J, chains) /\ DOMAIN new.cells = DOMAIN ctl.e.defs
        /\ new.parent = ctl.env
    <3>1. ctl.env \in DOMAIN chains /\ DOMAIN ctl.e.names \subseteq DOMAIN ctl.e.defs
      BY <1>3, <2>1
    <3>2. NewFrameOK(new, V, J, chains)
      BY ONLY <2>1, <3>1, MadeFrame
    <3> QED BY <3>2, MadeFrameIs
  <2>3. Build(new) /\ ctl' = Ret(Record(NewEnv)) /\ kont' = kont /\ UNCHANGED dir
    BY <1>7 DEF EvalBlock, Go
  <2>4. NewEnv \in DOMAIN longer /\ Grown(V, chains, V, longer)
    <3>1. HeapOK(frames, V, J, chains)
      BY <1>2
    <3>2. Grown(V, chains, V, Longer(chains, Len(frames) + 1, scopes))
      BY ONLY <3>1, LongerIs
    <3> QED BY <3>2, LongerScopes DEF NewEnv
  <2>5. HeapOK(frames', V, J, longer)
    <3>1. HeapOK(Append(frames, new), V, J, Longer(chains, Len(frames) + 1, scopes))
      BY <1>2, <2>2, HeapBuilt
    <3> QED BY <2>3, <3>1 DEF Build, NewEnv
  <2> HIDE DEF new, scopes, longer
  <2>6. ValuesOK(V, J, longer) /\ EntriesIn(kont', V, J, longer)
    BY <1>2, <2>3, <2>4, ValuesGrown, EntriesGrown
  <2> DEFINE v == Record(NewEnv)
  <2>7. ValueIn(v, V, J, longer)
    BY <2>4 DEF ValueIn, Record
  <2> HIDE DEF v
  <2>8. ValuesOK(V \cup {v}, J, longer) /\ Grown(V, longer, V \cup {v}, longer)
    BY <2>6, <2>7, ValueAdded
  <2>9. EntriesIn(kont', V \cup {v}, J, longer) /\ HeapOK(frames', V \cup {v}, J, longer)
    BY <2>5, <2>6, <2>8, EntriesGrown, HeapGrown
  <2>10. CtlOK(ctl', V \cup {v}, J, longer)
    <3>1. v \in V \cup {v}
      OBVIOUS
    <3> QED BY <2>3, <3>1, RetOK DEF v
  <2>11. dir' \in Directories
    BY <1>2, <2>3
  <2> QED BY <2>8, <2>9, <2>10, <2>11, WorldAfter
<1>8. CASE EvalImmediateBlock
  <2> DEFINE new == MakeFrame(ctl.e.defs, ctl.env, <<>>)
             scopes == Inner(DOMAIN ctl.e.defs, chains[ctl.env])
  <2>1. /\ \A i \in DOMAIN ctl.e.defs : <<ctl.e.defs[i], scopes>> \in J
        /\ <<ctl.e.body, scopes>> \in J
    BY <1>2, <1>8, ImmediateBlockParts DEF EvalImmediateBlock, Evaluating
  <2>2. /\ NewFrameOK(new, V, J, chains) /\ DOMAIN new.cells = DOMAIN ctl.e.defs
        /\ new.parent = ctl.env
    <3>1. ctl.env \in DOMAIN chains /\ DOMAIN <<>> \subseteq DOMAIN ctl.e.defs
      BY <1>3
    <3>2. NewFrameOK(new, V, J, chains)
      BY ONLY <2>1, <3>1, MadeFrame
    <3> QED BY <3>2, MadeFrameIs
  <2>3. Build(new) /\ ctl' = Eval(ctl.e.body, NewEnv) /\ kont' = kont /\ UNCHANGED dir
    BY <1>8 DEF EvalImmediateBlock, Go
  <2>4. At(ctl.e.body, NewEnv, J, Longer(chains, NewEnv, scopes))
    BY <1>2, <2>1, NewScopes DEF NewEnv
  <2> HIDE DEF new
  <2>5. CtlOK(ctl', V, J, Longer(chains, NewEnv, scopes))
    BY <2>3, <2>4, EvalOK
  <2>6. scopes = Inner(DOMAIN new.cells, chains[new.parent])
    BY <2>2
  <2> HIDE DEF scopes
  <2> QED BY <1>2, <2>2, <2>3, <2>5, <2>6, WorldBuilt
<1>9. CASE EvalCondition
  <2> DEFINE k == [k |-> "If", cons |-> ctl.e.cons, alt |-> ctl.e.alt, env |-> ctl.env]
  <2>1. k.k = "If" /\ k.cons = ctl.e.cons /\ k.alt = ctl.e.alt /\ k.env = ctl.env
    OBVIOUS
  <2>2. ctl' = Eval(ctl.e.cond, ctl.env) /\ kont' = Append(kont, k) /\ UNCHANGED <<frames, dir>>
    BY <1>9 DEF EvalCondition, Go, Push
  <2> HIDE DEF k
  <2>3. /\ At(ctl.e.cond, ctl.env, J, chains) /\ At(ctl.e.cons, ctl.env, J, chains)
        /\ At(ctl.e.alt, ctl.env, J, chains)
    BY <1>2, <1>9, ConditionParts DEF EvalCondition, Evaluating
  <2>4. EntryOK(k, V, J, chains)
    BY <2>1, <2>3 DEF EntryOK, ContKinds
  <2>5. EntriesIn(kont', V, J, chains) /\ CtlOK(ctl', V, J, chains)
    BY <1>2, <2>2, <2>3, <2>4, EntriesPushed, EvalOK
  <2> QED BY <1>2, <2>2, <2>5, WorldKept
<1>10. CASE EvalLogical
  <2> DEFINE k == [k |-> "Logical", o |-> ctl.e.op, r |-> ctl.e.r, env |-> ctl.env]
  <2>1. k.k = "Logical" /\ k.r = ctl.e.r /\ k.env = ctl.env
    OBVIOUS
  <2>2. ctl' = Eval(ctl.e.l, ctl.env) /\ kont' = Append(kont, k) /\ UNCHANGED <<frames, dir>>
    BY <1>10 DEF EvalLogical, Go, Push
  <2> HIDE DEF k
  <2>3. At(ctl.e.l, ctl.env, J, chains) /\ At(ctl.e.r, ctl.env, J, chains)
    BY <1>2, <1>10, LogicalParts DEF EvalLogical, Evaluating
  <2>4. EntryOK(k, V, J, chains)
    BY <2>1, <2>3 DEF EntryOK, ContKinds
  <2>5. EntriesIn(kont', V, J, chains) /\ CtlOK(ctl', V, J, chains)
    BY <1>2, <2>2, <2>3, <2>4, EntriesPushed, EvalOK
  <2> QED BY <1>2, <2>2, <2>5, WorldKept
<1>11. CASE EvalOperands
  <2>1. ctl' = Gather(ctl.e, ctl.env, <<>>) /\ kont' = kont /\ UNCHANGED <<frames, dir>>
    BY <1>11 DEF EvalOperands, Go
  <2>2. ctl.e.op \in Operands
    BY <1>11 DEF EvalOperands
  <2>3. OperandsOK(ctl.e, ctl.env, <<>>, V, J, chains)
    <3>1. Len(ctl.e.kids) \in Nat
      <4>1. Len(ctl.e.kids) \in OperandCount(ctl.e.op)
        BY <1>2, <2>2, OperandParts
      <4> QED BY <2>2, <4>1 DEF OperandCount, Operands
    <3>2. <<>> \in Seq(V) /\ Len(<<>>) <= Len(ctl.e.kids)
      BY <3>1
    <3> QED BY <1>2, <2>2, <3>2 DEF OperandsOK
  <2> QED BY <1>2, <2>1, <2>3, GatherOK, WorldKept
<1> QED BY <1>4, <1>5, <1>6, <1>7, <1>8, <1>9, <1>10, <1>11

LEMMA OperandsKeep ==
  ASSUME NEW J, NEW S, ResolvedIn(J, S), NEW V, NEW chains, World(V, J, chains),
         NextOperand \/ CombineOperands \/ AccessRecord \/ IndexValue \/ CallFunction
  PROVE  HeapInv(J)'
<1>1. ctl.m = "operands"
  BY DEF NextOperand, CombineOperands, AccessRecord, IndexValue, CallFunction,
         Gathered, Gathering
<1>2. /\ OperandsOK(ctl.e, ctl.env, ctl.vs, V, J, chains) /\ EntriesIn(kont, V, J, chains)
      /\ dir \in Directories /\ ValuesOK(V, J, chains)
  BY <1>1 DEF World, CtlOK
<1>3. /\ At(ctl.e, ctl.env, J, chains) /\ ctl.e.op \in Operands
      /\ ctl.vs \in Seq(V) /\ Len(ctl.vs) <= Len(ctl.e.kids)
  BY <1>2 DEF OperandsOK
<1>4. /\ \A i \in DOMAIN ctl.e.kids : At(ctl.e.kids[i], ctl.env, J, chains)
      /\ DOMAIN ctl.e.kids = 1..Len(ctl.e.kids) /\ Len(ctl.e.kids) \in OperandCount(ctl.e.op)
  BY <1>3, OperandParts
<1>5. Len(ctl.e.kids) \in Nat /\ Len(ctl.vs) \in Nat
  <2>1. OperandCount(ctl.e.op) \subseteq Nat
    BY <1>3 DEF OperandCount, Operands
  <2> QED BY <1>3, <1>4, <2>1
<1>6. CASE NextOperand
  <2> DEFINE k == [k |-> "Operand", e |-> ctl.e, env |-> ctl.env, vs |-> ctl.vs]
             i == Len(ctl.vs) + 1
  <2>1. k.k = "Operand" /\ k.e = ctl.e /\ k.env = ctl.env /\ k.vs = ctl.vs
    OBVIOUS
  <2>2. /\ ctl' = Eval(ctl.e.kids[i], ctl.env) /\ kont' = Append(kont, k)
        /\ UNCHANGED <<frames, dir>> /\ Len(ctl.vs) # Len(ctl.e.kids)
    BY <1>1, <1>6 DEF NextOperand, Gathered, Gathering, Go, Push
  <2> HIDE DEF k
  <2>3. Len(ctl.vs) < Len(ctl.e.kids)
    BY <1>3, <1>5, <2>2
  <2>4. i \in DOMAIN ctl.e.kids
    BY <1>4, <1>5, <2>3
  <2> HIDE DEF i
  <2>5. At(ctl.e.kids[i], ctl.env, J, chains)
    BY <1>4, <2>4
  <2>6. EntryOK(k, V, J, chains)
    BY <1>2, <2>1, <2>3 DEF EntryOK, ContKinds
  <2>7. EntriesIn(kont', V, J, chains) /\ CtlOK(ctl', V, J, chains)
    BY <1>2, <2>2, <2>5, <2>6, EntriesPushed, EvalOK
  <2> QED BY <1>2, <2>2, <2>7, WorldKept
<1>7. CASE CombineOperands
  <2>1. /\ Len(ctl.vs) = Len(ctl.e.kids)
        /\ ctl.e.op \in {"List", "Interpolation", "Binary", "Unary"}
        /\ ctl' = Outcome(Combine(ctl.e.op, ctl.e, ctl.vs)) /\ kont' = kont
        /\ UNCHANGED <<frames, dir>>
    BY <1>7 DEF CombineOperands, Gathered, Go
  <2> DEFINE v == Combine(ctl.e.op, ctl.e, ctl.vs)
  <2>2. v = Failed \/ ValueIn(v, V, J, chains)
    BY <1>2, <2>1, CombineIn
  <2> HIDE DEF v
  <2>3. ctl' = Outcome(v)
    BY <2>1 DEF v
  <2> QED BY <2>1, <2>2, <2>3, WorldOutcome
<1>8. CASE AccessRecord
  <2>1. CASE ctl.vs[1].k = "block"
    BY <1>8, <2>1, AccessedWorld DEF AccessRecord
  <2>2. CASE ctl.vs[1].k # "block"
    <3>1. ctl' = Err /\ kont' = kont /\ UNCHANGED <<frames, dir>>
      BY <1>8, <2>2 DEF AccessRecord, Go
    <3> QED BY <1>2, <3>1, NothingOK, WorldKept
  <2> QED BY <2>1, <2>2
<1>9. CASE IndexValue
  <2>1. CASE ctl.vs[1].k = "block" /\ ctl.vs[2].k = "string"
    BY <1>9, <2>1, AccessedWorld DEF IndexValue
  <2>2. CASE ~(ctl.vs[1].k = "block" /\ ctl.vs[2].k = "string")
    <3> DEFINE listed == IsList(ctl.vs[1]) /\ IsNumber(ctl.vs[2])
    <3>1. /\ kont' = kont /\ UNCHANGED <<frames, dir>>
          /\ ctl' = IF listed THEN Outcome(IndexList(ctl.vs[1].xs, ctl.vs[2].n)) ELSE Err
      BY <1>9, <2>2 DEF IndexValue, Go
    <3>2. CASE listed
      <4>1. Len(ctl.vs) = 2
        <5>1. ctl.e.op = "Index" /\ Len(ctl.vs) = Len(ctl.e.kids)
          BY <1>9 DEF IndexValue, Gathered
        <5> QED BY <1>4, <5>1 DEF OperandCount
      <4>2. ctl.vs[1] \in V /\ ctl.vs[2] \in V
        <5>1. \A i \in 1..2 : ctl.vs[i] \in V
          BY <1>3, <4>1, ItemsIn
        <5> QED BY <5>1
      <4>3. ctl.vs[1].xs \in Seq(V) /\ ctl.vs[2].n \in Int
        BY <1>2, <3>2, <4>2 DEF ValuesOK, ValueIn, IsList, IsNumber
      <4> DEFINE v == IndexList(ctl.vs[1].xs, ctl.vs[2].n)
      <4>4. v = Failed \/ v \in V
        BY <4>3, IndexIn
      <4>5. ctl' = Outcome(v)
        BY <3>1, <3>2
      <4> HIDE DEF v
      <4>6. v = Failed \/ ValueIn(v, V, J, chains)
        BY <1>2, <4>4 DEF ValuesOK
      <4> QED BY <3>1, <4>5, <4>6, WorldOutcome
    <3>3. CASE ~listed
      BY <1>2, <3>1, <3>3, NothingOK, WorldKept
    <3> QED BY <3>2, <3>3
  <2> QED BY <2>1, <2>2
<1>10. CASE CallFunction
  <2>1. /\ ctl' = Apply(Head(ctl.vs), Tail(ctl.vs)) /\ kont' = kont /\ UNCHANGED <<frames, dir>>
        /\ ctl.e.op = "Call" /\ Len(ctl.vs) = Len(ctl.e.kids)
    BY <1>10 DEF CallFunction, Gathered, Go, TailCall
  <2>2. Len(ctl.vs) # 0
    BY <1>4, <2>1 DEF OperandCount
  <2>3. Head(ctl.vs) \in V /\ Tail(ctl.vs) \in Seq(V)
    <3>1. \A q \in Seq(V) : Len(q) # 0 => Head(q) \in V /\ Tail(q) \in Seq(V)
      OBVIOUS
    <3> QED BY <1>3, <2>2, <3>1
  <2> QED BY <1>2, <2>1, <2>3, ApplyOK, WorldKept
<1> QED BY <1>6, <1>7, <1>8, <1>9, <1>10

LEMMA ApplyingKeeps ==
  ASSUME NEW J, NEW S, ResolvedIn(J, S), NEW V, NEW chains, World(V, J, chains),
         ApplyNative \/ ApplyFails \/ ApplyPure \/ ApplyHigherOrder \/ ImportFails
  PROVE  HeapInv(J)'
<1>1. ctl.m = "apply"
  BY DEF ApplyNative, ApplyFails, ApplyPure, ApplyHigherOrder, ImportFails, Applying,
         ApplyingForeign
<1>2. /\ ctl.fn \in V /\ ctl.args \in Seq(V) /\ EntriesIn(kont, V, J, chains)
      /\ dir \in Directories /\ ValuesOK(V, J, chains) /\ HeapOK(frames, V, J, chains)
  BY <1>1 DEF World, CtlOK
<1>3. CASE ApplyNative
  <2> DEFINE new == CallFrame(ctl.fn, ctl.args)
             scopes == Inner(1..Len(ctl.args), chains[ctl.fn.env])
  <2>1. /\ ctl.fn.k = "function" /\ Len(ctl.args) = ctl.fn.arity /\ Build(new)
        /\ ctl' = Eval(ctl.fn.body, NewEnv) /\ kont' = kont /\ UNCHANGED dir
    BY <1>3 DEF ApplyNative, Applying, Go
  <2>2. /\ ctl.fn.env \in DOMAIN chains
        /\ <<ctl.fn.body, Inner(1..ctl.fn.arity, chains[ctl.fn.env])>> \in J
    BY <1>2, <2>1 DEF ValuesOK, ValueIn
  <2>3. /\ NewFrameOK(new, V, J, chains) /\ DOMAIN new.cells = 1..Len(ctl.args)
        /\ new.parent = ctl.fn.env
    <3>1. NewFrameOK(new, V, J, chains)
      BY ONLY <1>2, <2>2, CalledFrame
    <3>2. DOMAIN new.cells = 1..Len(ctl.args) /\ new.parent = ctl.fn.env
      BY ONLY <1>2, CalledFrameIs
    <3> QED BY <3>1, <3>2
  <2>4. <<ctl.fn.body, scopes>> \in J
    BY <2>1, <2>2
  <2>5. At(ctl.fn.body, NewEnv, J, Longer(chains, NewEnv, scopes))
    BY <1>2, <2>4, NewScopes DEF NewEnv
  <2> HIDE DEF new
  <2>6. CtlOK(ctl', V, J, Longer(chains, NewEnv, scopes))
    BY <2>1, <2>5, EvalOK
  <2>7. scopes = Inner(DOMAIN new.cells, chains[new.parent])
    BY <2>3
  <2> HIDE DEF scopes
  <2> QED BY <1>2, <2>1, <2>3, <2>6, <2>7, WorldBuilt
<1>4. CASE ApplyFails \/ ImportFails
  <2>1. ctl' = Err /\ kont' = kont /\ UNCHANGED <<frames, dir>>
    BY <1>4 DEF ApplyFails, ImportFails, Go
  <2> QED BY <1>2, <2>1, NothingOK, WorldKept
<1>5. CASE ApplyPure
  <2> DEFINE v == ListFunction(ctl.fn.name, ctl.args, NewList)
  <2>1. CASE Len(ctl.args) = PureListArity[ctl.fn.name]
    <3>1. /\ ctl.fn.name \in DOMAIN PureListArity /\ ctl' = Outcome(v) /\ kont' = kont
          /\ UNCHANGED <<frames, dir>>
      BY <1>5, <2>1 DEF ApplyPure, ApplyingForeign, Go
    <3>2. v = Failed \/ ValueIn(v, V, J, chains)
      BY <1>2, <2>1, <3>1, ListFunctionIn
    <3> HIDE DEF v
    <3> QED BY <3>1, <3>2, WorldOutcome
  <2>2. CASE Len(ctl.args) # PureListArity[ctl.fn.name]
    <3>1. ctl' = Err /\ kont' = kont /\ UNCHANGED <<frames, dir>>
      BY <1>5, <2>2 DEF ApplyPure, Go
    <3> QED BY <1>2, <3>1, NothingOK, WorldKept
  <2> QED BY <2>1, <2>2
<1>6. CASE ApplyHigherOrder
  <2> DEFINE how == ctl.fn.name
             args == ctl.args
             acc == IF how = "reduce" THEN args[2] ELSE <<>>
             good == /\ Len(args) = (IF how = "reduce" THEN 3 ELSE 2)
                     /\ IsList(args[1])
  <2>1. /\ how \in Callbacks /\ kont' = kont /\ UNCHANGED <<frames, dir>>
        /\ ctl' = IF good THEN Each(how, Last(args), args[1].xs, acc) ELSE Err
    BY <1>6 DEF ApplyHigherOrder, ApplyingForeign, Go, Callbacks
  <2>2. CASE good
    <3>1. args \in Seq(V) /\ Len(args) \in {2, 3} /\ (how = "reduce" => Len(args) = 3)
      BY <1>2, <2>2
    <3> HIDE DEF args, how
    <3>2. args[1] \in V /\ args[2] \in V /\ Last(args) \in V
      <4>1. Last(args) = args[Len(args)]
        BY DEF Last
      <4> QED BY <3>1, <4>1
    <3>3. args[1].xs \in Seq(V)
      BY <1>2, <2>2, <3>2 DEF ValuesOK, ValueIn, IsList
    <3>4. AccOK(how, acc, V)
      BY <2>1, <3>2 DEF AccOK
    <3> HIDE DEF acc
    <3>5. CtlOK(ctl', V, J, chains)
      BY <2>1, <2>2, <3>2, <3>3, <3>4, EachOK
    <3> QED BY <1>2, <2>1, <3>5, WorldKept
  <2>3. CASE ~good
    BY <1>2, <2>1, <2>3, NothingOK, WorldKept
  <2> QED BY <2>2, <2>3
<1> QED BY <1>3, <1>4, <1>5, <1>6

LEMMA LoopsKeep ==
  ASSUME NEW J, NEW S, ResolvedIn(J, S), FileStatements \subseteq S,
         NEW V, NEW chains, World(V, J, chains), EachItem \/ ImportFile \/ EagerDefinition
  PROVE  HeapInv(J)'
<1>1. /\ EntriesIn(kont, V, J, chains) /\ dir \in Directories /\ ValuesOK(V, J, chains)
      /\ HeapOK(frames, V, J, chains) /\ CtlOK(ctl, V, J, chains)
  BY DEF World
<1>2. CASE EachItem
  <2>1. /\ ctl.m = "each" /\ ctl.fn \in V /\ ctl.todo \in Seq(V)
        /\ AccOK(ctl.how, ctl.acc, V) /\ UNCHANGED <<frames, dir>>
    BY <1>1, <1>2 DEF EachItem, CtlOK
  <2>2. CASE ctl.todo = <<>>
    <3> DEFINE v == IF ctl.how = "reduce" THEN ctl.acc ELSE List(ctl.acc, NewList)
    <3>1. ctl' = Ret(v) /\ kont' = kont
      BY <1>2, <2>2 DEF EachItem, Go
    <3>2. ValueIn(v, V, J, chains)
      BY <1>1, <2>1, ListIn DEF AccOK, ValuesOK
    <3> HIDE DEF v
    <3> QED BY <2>1, <3>1, <3>2, WorldReturns
  <2>3. CASE ctl.todo # <<>>
    <3> DEFINE k == [k |-> "Each", how |-> ctl.how, fn |-> ctl.fn, acc |-> ctl.acc,
                     item |-> Head(ctl.todo), todo |-> Tail(ctl.todo)]
               args == IF ctl.how = "reduce" THEN <<ctl.acc, Head(ctl.todo)>>
                       ELSE <<Head(ctl.todo)>>
    <3>1. /\ k.k = "Each" /\ k.how = ctl.how /\ k.fn = ctl.fn /\ k.acc = ctl.acc
          /\ k.item = Head(ctl.todo) /\ k.todo = Tail(ctl.todo)
      OBVIOUS
    <3>2. ctl' = Apply(ctl.fn, args) /\ kont' = Append(kont, k)
      BY <1>2, <2>3 DEF EachItem, Go, Push
    <3> HIDE DEF k
    <3>3. Head(ctl.todo) \in V /\ Tail(ctl.todo) \in Seq(V)
      BY <2>1, <2>3
    <3>4. args \in Seq(V)
      <4>1. \A x \in V, y \in V : <<x>> \in Seq(V) /\ <<x, y>> \in Seq(V)
        OBVIOUS
      <4>2. ctl.how = "reduce" => ctl.acc \in V
        BY <2>1 DEF AccOK
      <4> QED BY <3>3, <4>1, <4>2
    <3> HIDE DEF args
    <3>5. EntryOK(k, V, J, chains)
      BY <2>1, <3>1, <3>3 DEF EntryOK, ContKinds
    <3>6. EntriesIn(kont', V, J, chains) /\ CtlOK(ctl', V, J, chains)
      BY <1>1, <2>1, <3>2, <3>4, <3>5, EntriesPushed, ApplyOK
    <3> QED BY <1>1, <2>1, <3>6, WorldKept
  <2> QED BY <2>2, <2>3
<1>3. CASE ImportFile
  <2> DEFINE file == Locate[<<dir, ctl.args[1].s>>]
             k == [k |-> "Import", file |-> file, prev |-> dir]
             new == MakeFrame(Files[file].defs, RootEnv, <<>>)
             scopes == Inner(DOMAIN Files[file].defs, <<RootScope>>)
  <2>1. k.k = "Import" /\ k.prev = dir
    OBVIOUS
  <2>2. /\ Build(new) /\ ctl' = Definitions(NewEnv, 1, Files[file].body)
        /\ kont' = Append(kont, k) /\ dir' = DirOf[file]
    BY <1>3 DEF ImportFile, Go, Push
  <2>3. file \in DOMAIN Files
    BY <1>3, FilesAssumption DEF ImportFile, Importable
  <2> HIDE DEF k, file
  <2>4. /\ \A i \in DOMAIN Files[file].defs : <<Files[file].defs[i], scopes>> \in J
        /\ <<Files[file].body, scopes>> \in J
    <3>1. StatementParts(Files[file]) \subseteq J
      BY <2>3 DEF FileStatements, ResolvedIn
    <3> QED BY <3>1, StatementScopes
  <2>5. RootEnv \in DOMAIN chains /\ chains[RootEnv] = <<RootScope>>
    BY <1>1 DEF HeapOK
  <2>6. /\ NewFrameOK(new, V, J, chains) /\ DOMAIN new.cells = DOMAIN Files[file].defs
        /\ new.parent = RootEnv
    <3>1. \A i \in DOMAIN Files[file].defs :
            <<Files[file].defs[i], Inner(DOMAIN Files[file].defs, chains[RootEnv])>> \in J
      BY <2>4, <2>5
    <3>2. DOMAIN <<>> \subseteq DOMAIN Files[file].defs
      OBVIOUS
    <3>3. NewFrameOK(new, V, J, chains)
      BY ONLY <2>5, <3>1, <3>2, MadeFrame
    <3> QED BY <3>3, MadeFrameIs
  <2>7. At(Files[file].body, NewEnv, J, Longer(chains, NewEnv, scopes))
    BY <1>1, <2>4, NewScopes DEF NewEnv
  <2> HIDE DEF new
  <2>8. CtlOK(ctl', V, J, Longer(chains, NewEnv, scopes))
    BY <2>2, <2>7, DefinitionsOK
  <2>9. scopes = Inner(DOMAIN new.cells, chains[new.parent])
    BY <2>5, <2>6
  <2> HIDE DEF scopes
  <2>10. EntryOK(k, V, J, chains)
    BY <1>1, <2>1 DEF EntryOK, ContKinds
  <2>11. EntriesIn(kont', V, J, chains) /\ dir' \in Directories
    BY <1>1, <2>2, <2>3, <2>10, EntriesPushed DEF Directories
  <2> QED BY <2>2, <2>6, <2>8, <2>9, <2>11, WorldBuilt
<1>4. CASE EagerDefinition
  <2>1. At(ctl.body, ctl.f, J, chains) /\ UNCHANGED dir
    BY <1>1, <1>4 DEF EagerDefinition, CtlOK
  <2>2. CASE ctl.next \in DOMAIN frames[ctl.f].cells
    <3> DEFINE k == [k |-> "Eager", f |-> ctl.f, next |-> ctl.next, body |-> ctl.body]
    <3>1. k.k = "Eager" /\ k.f = ctl.f /\ k.body = ctl.body
      OBVIOUS
    <3>2. ForceSlot(ctl.f, ctl.next, Append(kont, k))
      BY <1>4, <2>2 DEF EagerDefinition, Push
    <3> HIDE DEF k
    <3>3. EntryOK(k, V, J, chains)
      BY <2>1, <3>1 DEF EntryOK, ContKinds
    <3>4. EntriesIn(Append(kont, k), V, J, chains)
      BY <1>1, <3>3, EntriesPushed
    <3> QED BY <2>1, <3>2, <3>4, ForcedWorld
  <2>3. CASE ctl.next \notin DOMAIN frames[ctl.f].cells
    <3>1. ctl' = Eval(ctl.body, ctl.f) /\ kont' = kont /\ UNCHANGED frames
      BY <1>4, <2>3 DEF EagerDefinition, Go
    <3> QED BY <1>1, <2>1, <3>1, EvalOK, WorldKept
  <2> QED BY <2>2, <2>3
<1> QED BY <1>2, <1>3, <1>4

-----------------------------------------------------------------------------
(* A value or an Err comes back to the entry on top of the stack.          *)
LEMMA TopOK ==
  ASSUME NEW J, NEW V, NEW chains, World(V, J, chains), kont # <<>>
  PROVE  EntriesIn(Below, V, J, chains) /\ EntryOK(Top, V, J, chains)
BY EntriesPopped DEF World, Top, Below

LEMMA CollectIn ==
  ASSUME NEW V, NEW how, NEW acc, AccOK(how, acc, V), NEW item \in V, NEW v \in V
  PROVE  AccOK(how, Collect(how, acc, item, v), V)
<1>1. CASE how = "map"
  <2>1. Collect(how, acc, item, v) = Append(acc, v)
    BY <1>1 DEF Collect
  <2>2. acc \in Seq(V)
    BY <1>1 DEF AccOK
  <2>3. Append(acc, v) \in Seq(V)
    BY <2>2
  <2> QED BY <1>1, <2>1, <2>3 DEF AccOK, Callbacks
<1>2. CASE how = "filter"
  <2>1. Collect(how, acc, item, v) = IF v.b THEN Append(acc, item) ELSE acc
    BY <1>2 DEF Collect
  <2>2. acc \in Seq(V)
    BY <1>2 DEF AccOK
  <2>3. Append(acc, item) \in Seq(V)
    BY <2>2
  <2> QED BY <1>2, <2>1, <2>2, <2>3 DEF AccOK, Callbacks
<1>3. CASE how = "reduce"
  <2>1. Collect(how, acc, item, v) = v
    BY <1>3 DEF Collect
  <2> QED BY <1>3, <2>1 DEF AccOK, Callbacks
<1> QED BY <1>1, <1>2, <1>3 DEF AccOK, Callbacks

LEMMA ForcedCell ==
  ASSUME NEW J, NEW V, NEW chains, World(V, J, chains), IInv, kont # <<>>, Top.k = "Force",
         NEW c, CellOK(c, chains[Top.f], V, J), SetCell(Top.f, Top.s, c)
  PROVE  HeapOK(frames', V, J, chains)
<1>1. <<Top.f, Top.s>> \in ExistingCells
  <2>1. StackOK(kont, ExistingCells, dir)
    BY DEF IInv
  <2> QED BY <2>1, StackPopped DEF Top
<1> DEFINE f == Top.f
           s == Top.s
<1>2. IsCell(f, s)
  BY <1>1 DEF ExistingCells
<1> HIDE DEF f, s
<1>3. HeapOK(frames', V, J, chains)
  <2>1. HeapOK(frames, V, J, chains)
    BY DEF World
  <2>2. CellOK(c, chains[f], V, J) /\ SetCell(f, s, c)
    BY DEF f, s
  <2> QED BY <1>2, <2>1, <2>2, HeapChanged
<1> QED BY <1>3

LEMMA ReturningKeeps ==
  ASSUME NEW J, NEW S, ResolvedIn(J, S), NEW V, NEW chains, World(V, J, chains), IInv,
         ReturnCondition \/ ReturnLogical \/ ReturnRight \/ ReturnOperand \/ ReturnEach
         \/ ReturnEager \/ ReturnImport \/ ReturnForce \/ PrintValue \/ ReturnField
  PROVE  HeapInv(J)'
<1>1. ctl.m = "ret"
  BY DEF ReturnCondition, ReturnLogical, ReturnRight, ReturnOperand, ReturnEach, ReturnEager,
         ReturnImport, ReturnForce, PrintValue, ReturnField
<1>2. /\ ctl.v \in V /\ EntriesIn(kont, V, J, chains) /\ dir \in Directories
      /\ ValuesOK(V, J, chains) /\ HeapOK(frames, V, J, chains) /\ CtlOK(ctl, V, J, chains)
  BY <1>1 DEF World, CtlOK
<1>3. kont # <<>> => EntriesIn(Below, V, J, chains) /\ EntryOK(Top, V, J, chains)
  BY TopOK
<1>4. CASE ReturnCondition
  <2> DEFINE e == IF IsTruthy(ctl.v) THEN Top.cons ELSE Top.alt
  <2>1. /\ ctl' = Eval(e, Top.env) /\ kont' = Below /\ UNCHANGED <<frames, dir>>
        /\ kont # <<>> /\ Top.k = "If"
    BY <1>4 DEF ReturnCondition, Go, TopIs
  <2>2. At(e, Top.env, J, chains)
    BY <1>3, <2>1 DEF EntryOK
  <2> HIDE DEF e
  <2> QED BY <1>2, <1>3, <2>1, <2>2, EvalOK, WorldKept
<1>5. CASE ReturnLogical
  <2> DEFINE k == [k |-> "Right"]
  <2>1. kont # <<>> /\ Top.k = "Logical" /\ UNCHANGED <<frames, dir>>
    BY <1>5 DEF ReturnLogical, TopIs
  <2>2. CASE IsTruthy(ctl.v) = (Top.o = "Or")
    <3>1. ctl' = ctl /\ kont' = Below
      BY <1>5, <2>2 DEF ReturnLogical, Go
    <3> QED BY <1>2, <1>3, <2>1, <3>1, WorldKept
  <2>3. CASE ~(IsTruthy(ctl.v) = (Top.o = "Or"))
    <3>1. k.k = "Right"
      OBVIOUS
    <3>2. ctl' = Eval(Top.r, Top.env) /\ kont' = Append(Below, k)
      BY <1>5, <2>3 DEF ReturnLogical, Go
    <3> HIDE DEF k
    <3>3. EntryOK(k, V, J, chains)
      BY <3>1 DEF EntryOK, ContKinds
    <3>4. At(Top.r, Top.env, J, chains)
      BY <1>3, <2>1 DEF EntryOK
    <3>5. EntriesIn(kont', V, J, chains) /\ CtlOK(ctl', V, J, chains)
      BY <1>3, <2>1, <3>2, <3>3, <3>4, EntriesPushed, EvalOK
    <3> QED BY <1>2, <2>1, <3>5, WorldKept
  <2> QED BY <2>2, <2>3
<1>6. CASE ReturnRight
  <2>1. ctl' = ctl /\ kont' = Below /\ UNCHANGED <<frames, dir>> /\ kont # <<>>
    BY <1>6 DEF ReturnRight, Go, TopIs
  <2> QED BY <1>2, <1>3, <2>1, WorldKept
<1>7. CASE ReturnOperand
  <2>1. kont # <<>> /\ Top.k = "Operand" /\ UNCHANGED <<frames, dir>> /\ kont' = Below
    BY <1>7 DEF ReturnOperand, TopIs, Go
  <2>2. CASE Top.e.op = "Interpolation" /\ ~CanInterpolate(ctl.v)
    <3>1. ctl' = Err
      BY <1>7, <2>2 DEF ReturnOperand, Go
    <3> QED BY <1>2, <1>3, <2>1, <3>1, NothingOK, WorldKept
  <2>3. CASE ~(Top.e.op = "Interpolation" /\ ~CanInterpolate(ctl.v))
    <3> DEFINE e == Top.e
               vs == Top.vs
    <3>1. ctl' = Gather(e, Top.env, Append(vs, ctl.v))
      BY <1>7, <2>3 DEF ReturnOperand, Go
    <3>2. OperandsOK(e, Top.env, vs, V, J, chains) /\ Len(vs) < Len(e.kids)
      BY <1>3, <2>1 DEF EntryOK
    <3> HIDE DEF e, vs
    <3>3. Len(e.kids) \in Nat
      <4>1. At(e, Top.env, J, chains) /\ e.op \in Operands
        BY <3>2 DEF OperandsOK
      <4>2. Len(e.kids) \in OperandCount(e.op)
        BY <4>1, OperandParts
      <4> QED BY <4>1, <4>2 DEF OperandCount, Operands
    <3>4. OperandsOK(e, Top.env, Append(vs, ctl.v), V, J, chains)
      <4>1. vs \in Seq(V)
        BY <3>2 DEF OperandsOK
      <4>2. Append(vs, ctl.v) \in Seq(V) /\ Len(Append(vs, ctl.v)) = Len(vs) + 1
            /\ Len(vs) \in Nat
        BY <1>2, <4>1
      <4>3. Len(Append(vs, ctl.v)) <= Len(e.kids)
        BY <3>2, <3>3, <4>2
      <4> QED BY <3>2, <4>2, <4>3 DEF OperandsOK
    <3>5. CtlOK(ctl', V, J, chains)
      BY <3>1, <3>4, GatherOK
    <3> QED BY <1>2, <1>3, <2>1, <3>5, WorldKept
  <2> QED BY <2>2, <2>3
<1>8. CASE ReturnEach
  <2>1. kont # <<>> /\ Top.k = "Each" /\ UNCHANGED <<frames, dir>> /\ kont' = Below
    BY <1>8 DEF ReturnEach, TopIs, Go
  <2>2. CASE Top.how = "filter" /\ ctl.v.k # "bool"
    <3>1. ctl' = Err
      BY <1>8, <2>2 DEF ReturnEach, Go
    <3> QED BY <1>2, <1>3, <2>1, <3>1, NothingOK, WorldKept
  <2>3. CASE ~(Top.how = "filter" /\ ctl.v.k # "bool")
    <3> DEFINE acc == Collect(Top.how, Top.acc, Top.item, ctl.v)
    <3>1. ctl' = Each(Top.how, Top.fn, Top.todo, acc)
      BY <1>8, <2>3 DEF ReturnEach, Go
    <3>2. Top.fn \in V /\ Top.item \in V /\ Top.todo \in Seq(V) /\ AccOK(Top.how, Top.acc, V)
      BY <1>3, <2>1 DEF EntryOK
    <3>3. AccOK(Top.how, acc, V)
      BY <1>2, <3>2, CollectIn
    <3> HIDE DEF acc
    <3>4. CtlOK(ctl', V, J, chains)
      BY <3>1, <3>2, <3>3, EachOK
    <3> QED BY <1>2, <1>3, <2>1, <3>4, WorldKept
  <2> QED BY <2>2, <2>3
<1>9. CASE ReturnEager
  <2>1. /\ ctl' = Definitions(Top.f, Top.next + 1, Top.body) /\ kont' = Below
        /\ UNCHANGED <<frames, dir>> /\ kont # <<>> /\ Top.k = "Eager"
    BY <1>9 DEF ReturnEager, Go, TopIs
  <2>2. At(Top.body, Top.f, J, chains)
    BY <1>3, <2>1 DEF EntryOK
  <2> QED BY <1>2, <1>3, <2>1, <2>2, DefinitionsOK, WorldKept
<1>10. CASE ReturnImport
  <2>1. /\ ctl' = ctl /\ kont' = Below /\ UNCHANGED frames /\ dir' = Top.prev
        /\ kont # <<>> /\ Top.k = "Import"
    BY <1>10 DEF ReturnImport, Go, TopIs
  <2>2. Top.prev \in Directories
    BY <1>3, <2>1 DEF EntryOK
  <2> QED BY <1>2, <1>3, <2>1, <2>2, WorldKept
<1>11. CASE ReturnForce
  <2> DEFINE c == Done(ctl.v)
  <2>1. /\ ctl' = ctl /\ kont' = Below /\ UNCHANGED dir /\ SetCell(Top.f, Top.s, c)
        /\ kont # <<>> /\ Top.k = "Force"
    BY <1>11 DEF ReturnForce, Go, TopIs, SetCell
  <2>2. c.st = "Done" /\ c.v = ctl.v
    BY DEF Done
  <2> HIDE DEF c
  <2>3. CellOK(c, chains[Top.f], V, J)
    BY <1>2, <2>2 DEF CellOK, CellStates
  <2>4. HeapOK(frames', V, J, chains)
    BY <2>1, <2>3, ForcedCell
  <2>5. dir' \in Directories /\ EntriesIn(kont', V, J, chains) /\ CtlOK(ctl', V, J, chains)
    BY <1>2, <1>3, <2>1
  <2> QED BY <1>2, <2>4, <2>5, WorldAfter
<1>12. CASE PrintValue \/ ReturnField
  <2>1. ctl' = Show(ctl.v) /\ kont' = kont /\ UNCHANGED <<frames, dir>>
    BY <1>12 DEF PrintValue, ReturnField, Go
  <2> QED BY <1>2, <2>1, RetOK, WorldKept
<1> QED BY <1>4, <1>5, <1>6, <1>7, <1>8, <1>9, <1>10, <1>11, <1>12

LEMMA UnwindingKeeps ==
  ASSUME NEW J, NEW S, ResolvedIn(J, S), NEW V, NEW chains, World(V, J, chains), IInv,
         UnwindForce \/ UnwindImport \/ UnwindOther \/ CatchField \/ PrintDiagnostic
  PROVE  HeapInv(J)'
<1>1. /\ EntriesIn(kont, V, J, chains) /\ dir \in Directories
      /\ ValuesOK(V, J, chains) /\ HeapOK(frames, V, J, chains)
  BY DEF World
<1>2. kont # <<>> => EntriesIn(Below, V, J, chains) /\ EntryOK(Top, V, J, chains)
  BY TopOK
<1>3. CASE UnwindForce
  <2> DEFINE c == Suspended(Top.e)
  <2>1. /\ ctl' = Err /\ kont' = Below /\ UNCHANGED dir /\ SetCell(Top.f, Top.s, c)
        /\ kont # <<>> /\ Top.k = "Force"
    BY <1>3 DEF UnwindForce, Go, TopIs, SetCell
  <2>2. c.st = "Lazy" /\ c.e = Top.e
    BY DEF Suspended
  <2>3. At(Top.e, Top.f, J, chains)
    BY <1>2, <2>1 DEF EntryOK
  <2> HIDE DEF c
  <2>4. CellOK(c, chains[Top.f], V, J)
    BY <2>2, <2>3 DEF CellOK, CellStates, At
  <2>5. HeapOK(frames', V, J, chains)
    BY <2>1, <2>4, ForcedCell
  <2>6. dir' \in Directories /\ EntriesIn(kont', V, J, chains) /\ CtlOK(ctl', V, J, chains)
    BY <1>1, <1>2, <2>1, NothingOK
  <2> QED BY <1>1, <2>5, <2>6, WorldAfter
<1>4. CASE UnwindImport
  <2>1. /\ ctl' = Err /\ kont' = Below /\ UNCHANGED frames /\ dir' = Top.prev
        /\ kont # <<>> /\ Top.k = "Import"
    BY <1>4 DEF UnwindImport, Go, TopIs
  <2>2. Top.prev \in Directories
    BY <1>2, <2>1 DEF EntryOK
  <2> QED BY <1>2, <2>1, <2>2, NothingOK, WorldKept
<1>5. CASE UnwindOther
  <2>1. ctl' = Err /\ kont' = Below /\ UNCHANGED <<frames, dir>> /\ kont # <<>>
    BY <1>5 DEF UnwindOther, Go, Failing
  <2> QED BY <1>1, <1>2, <2>1, NothingOK, WorldKept
<1>6. CASE CatchField
  <2>1. /\ ctl' = ShowFields(Top.f, Tail(Top.todo), Append(Top.done, <<Head(Top.todo), ErrorText>>))
        /\ kont' = Below /\ UNCHANGED <<frames, dir>> /\ kont # <<>>
    BY <1>6 DEF CatchField, FieldShown, Go, Failing
  <2> QED BY <1>1, <1>2, <2>1, FieldsOK, WorldKept
<1>7. CASE PrintDiagnostic
  <2>1. ctl' = Exit(ErrorText) /\ kont' = kont /\ UNCHANGED <<frames, dir>>
    BY <1>7 DEF PrintDiagnostic, Go
  <2> QED BY <1>1, <2>1, NothingOK, WorldKept
<1> QED BY <1>3, <1>4, <1>5, <1>6, <1>7

LEMMA DisplayKeeps ==
  ASSUME NEW J, NEW S, ResolvedIn(J, S), NEW V, NEW chains, World(V, J, chains), IInv,
         ShowValue \/ ShowNextItem \/ ShowNextField \/ AppendShown \/ ExitShown
  PROVE  HeapInv(J)'
<1>1. /\ EntriesIn(kont, V, J, chains) /\ dir \in Directories /\ CtlOK(ctl, V, J, chains)
      /\ ValuesOK(V, J, chains) /\ HeapOK(frames, V, J, chains)
  BY DEF World
<1>2. kont # <<>> => EntriesIn(Below, V, J, chains) /\ EntryOK(Top, V, J, chains)
  BY TopOK
<1>3. CASE ShowValue
  <2> DEFINE items  == ShowItems(ctl.v.xs, <<>>)
             fields == ShowFields(ctl.v.frame, SortedFields(ctl.v.frame), <<>>)
             scalar == Shown(ctl.v)
             callable == Shown(FunctionText)
  <2>1. ctl.v \in V /\ kont' = kont /\ UNCHANGED <<frames, dir>>
    BY <1>1, <1>3 DEF ShowValue, Go, CtlOK
  <2>2. ctl' = CASE ctl.v.k = "list"  -> items
                 [] ctl.v.k = "block" -> fields
                 [] IsCallable(ctl.v) -> callable
                 [] OTHER             -> scalar
    BY <1>3, Zenon DEF ShowValue, Go
  <2>3. ctl.v.k = "list" => CtlOK(items, V, J, chains)
    <3>1. ctl.v.k = "list" => ctl.v.xs \in Seq(V)
      BY <1>1, <2>1 DEF ValuesOK, ValueIn
    <3> QED BY <3>1, ItemsOK
  <2>4. CtlOK(fields, V, J, chains)
    BY FieldsOK
  <2>5. CtlOK(callable, V, J, chains) /\ CtlOK(scalar, V, J, chains)
    BY NothingOK
  <2> HIDE DEF items, fields, callable, scalar
  <2>6. ctl' = fields \/ ctl' = callable \/ ctl' = scalar \/ (ctl' = items /\ ctl.v.k = "list")
    BY <2>2 DEF IsCallable
  <2>7. CtlOK(ctl', V, J, chains)
    BY <2>3, <2>4, <2>5, <2>6
  <2> QED BY <1>1, <2>1, <2>7, WorldKept
<1>4. CASE ShowNextItem
  <2>1. ctl.todo \in Seq(V) /\ UNCHANGED <<frames, dir>>
    BY <1>1, <1>4 DEF ShowNextItem, CtlOK
  <2>2. CASE ctl.todo = <<>>
    <3>1. ctl' = Shown([k |-> "list", xs |-> ctl.done]) /\ kont' = kont
      BY <1>4, <2>2 DEF ShowNextItem, Go
    <3> QED BY <1>1, <2>1, <3>1, NothingOK, WorldKept
  <2>3. CASE ctl.todo # <<>>
    <3> DEFINE k == [k |-> "Item", todo |-> Tail(ctl.todo), done |-> ctl.done]
    <3>1. k.k = "Item" /\ k.todo = Tail(ctl.todo)
      OBVIOUS
    <3>2. ctl' = Show(Head(ctl.todo)) /\ kont' = Append(kont, k)
      BY <1>4, <2>3 DEF ShowNextItem, Go, Push
    <3> HIDE DEF k
    <3>3. Head(ctl.todo) \in V /\ Tail(ctl.todo) \in Seq(V)
      BY <2>1, <2>3
    <3>4. EntryOK(k, V, J, chains)
      BY <3>1, <3>3 DEF EntryOK, ContKinds
    <3>5. EntriesIn(kont', V, J, chains) /\ CtlOK(ctl', V, J, chains)
      BY <1>1, <3>2, <3>3, <3>4, EntriesPushed, RetOK
    <3> QED BY <1>1, <2>1, <3>5, WorldKept
  <2> QED BY <2>2, <2>3
<1>5. CASE ShowNextField
  <2>1. UNCHANGED dir
    BY <1>5 DEF ShowNextField
  <2>2. CASE ctl.todo = <<>>
    <3>1. ctl' = Shown([k |-> "block", fs |-> ctl.done]) /\ kont' = kont /\ UNCHANGED frames
      BY <1>5, <2>2 DEF ShowNextField, Go
    <3> QED BY <1>1, <2>1, <3>1, NothingOK, WorldKept
  <2>3. CASE ctl.todo # <<>>
    <3> DEFINE k == [k |-> "Field", f |-> ctl.f, todo |-> ctl.todo, done |-> ctl.done]
    <3>1. k.k = "Field"
      OBVIOUS
    <3>2. ForceSlot(ctl.f, SlotOf(ctl.f, Head(ctl.todo)), Append(kont, k))
      BY <1>5, <2>3 DEF ShowNextField, Push
    <3> HIDE DEF k
    <3>3. EntryOK(k, V, J, chains)
      BY <3>1 DEF EntryOK, ContKinds
    <3>4. EntriesIn(Append(kont, k), V, J, chains)
      BY <1>1, <3>3, EntriesPushed
    <3> QED BY <2>1, <3>2, <3>4, ForcedWorld
  <2> QED BY <2>2, <2>3
<1>6. CASE AppendShown
  <2>1. kont # <<>> /\ UNCHANGED <<frames, dir>>
    BY <1>6 DEF AppendShown
  <2>2. CASE Top.k = "Field"
    <3>1. /\ ctl' = ShowFields(Top.f, Tail(Top.todo), Append(Top.done, <<Head(Top.todo), ctl.t>>))
          /\ kont' = Below
      BY <1>6, <2>2 DEF AppendShown, FieldShown, Go
    <3> QED BY <1>1, <1>2, <2>1, <3>1, FieldsOK, WorldKept
  <2>3. CASE Top.k # "Field"
    <3>1. ctl' = ShowItems(Top.todo, Append(Top.done, ctl.t)) /\ kont' = Below
      BY <1>6, <2>3 DEF AppendShown, Go
    <3>2. Top.k = "Item"
      <4>1. ctl.m = "shown"
        BY <1>6 DEF AppendShown
      <4>2. AllDisplay(kont)
        BY <4>1 DEF IInv, ModeOK, DisplayModes
      <4> QED BY <2>1, <2>3, <4>2, OnDisplay DEF Display
    <3>3. Top.todo \in Seq(V)
      BY <1>2, <2>1, <3>2 DEF EntryOK
    <3> QED BY <1>1, <1>2, <2>1, <3>1, <3>3, ItemsOK, WorldKept
  <2> QED BY <2>2, <2>3
<1>7. CASE ExitShown
  <2>1. ctl' = Exit(ctl.t) /\ kont' = kont /\ UNCHANGED <<frames, dir>>
    BY <1>7 DEF ExitShown, Go
  <2> QED BY <1>1, <2>1, NothingOK, WorldKept
<1> QED BY <1>3, <1>4, <1>5, <1>6, <1>7

(* Every step keeps the heap.                                              *)
LEMMA StepKeeps ==
  ASSUME NEW J, NEW S, ResolvedIn(J, S), FileStatements \subseteq S,
         IInv, HeapInv(J), [Next]_vars
  PROVE  HeapInv(J)'
<1> PICK V, chains : World(V, J, chains)
  BY DEF HeapInv
<1>1. /\ EntriesIn(kont, V, J, chains) /\ dir \in Directories /\ CtlOK(ctl, V, J, chains)
  BY DEF World
<1>2. CASE Step
  BY <1>2, EvaluatingKeeps, OperandsKeep, ApplyingKeeps, LoopsKeep, ReturningKeeps,
     UnwindingKeeps, DisplayKeeps DEF Step
<1>3. CASE Overflow \/ CutOff
  <2>1. /\ ctl' = Abort \/ ctl' = Cut
        /\ kont' = kont /\ UNCHANGED <<frames, dir>>
    BY <1>3 DEF Overflow, CutOff, Go
  <2> QED BY <1>1, <2>1, NothingOK, WorldKept
<1>4. CASE UNCHANGED vars
  <2>1. UNCHANGED <<frames, ctl, kont, dir>>
    BY <1>4 DEF vars
  <2> QED BY <1>1, <2>1, WorldKept
<1> QED BY <1>2, <1>3, <1>4 DEF Next

-----------------------------------------------------------------------------
(* The root environment.                                                   *)
RootValues ==
  {Number(n) : n \in Int} \cup {Record(f) : f \in 2..4}
    \cup {Foreign(ListNames[i]) : i \in 1..10} \cup {Foreign("import")}
RootChains == [f \in 1..4 |-> <<DOMAIN RootFrames[f].cells>>]

LEMMA RootValuesOK == ASSUME NEW J PROVE ValuesOK(RootValues, J, RootChains)
<1>1. \A n \in Int : Number(n) \in RootValues
  BY DEF RootValues
<1>2. ASSUME NEW v \in RootValues PROVE ValueIn(v, RootValues, J, RootChains)
  <2>1. CASE v \in {Number(n) : n \in Int}
    BY <2>1, NumberIn
  <2>2. CASE v \in {Record(f) : f \in 2..4}
    <3>1. PICK f \in 2..4 : v = Record(f)
      BY <2>2
    <3>2. v.k = "block" /\ v.frame = f
      BY <3>1 DEF Record
    <3>3. DOMAIN RootChains = 1..4
      BY DEF RootChains
    <3> QED BY <3>2, <3>3 DEF ValueIn
  <2>3. CASE v \in {Foreign(ListNames[i]) : i \in 1..10} \cup {Foreign("import")}
    <3>1. v.k = "foreign"
      BY <2>3 DEF Foreign
    <3> QED BY <3>1 DEF ValueIn
  <2> QED BY <2>1, <2>2, <2>3 DEF RootValues
<1> QED BY <1>1, <1>2 DEF ValuesOK

LEMMA RootFramesAre ==
  /\ IsSequence(RootFrames) /\ Len(RootFrames) = 4 /\ DOMAIN RootFrames = 1..4
  /\ \A f \in 1..4 : /\ DOMAIN RootFrames[f] = {"parent", "names", "cells"}
                     /\ RootFrames[f].parent = 0
                     /\ DOMAIN RootFrames[f].names \subseteq DOMAIN RootFrames[f].cells
                     /\ \A s \in DOMAIN RootFrames[f].cells :
                          /\ RootFrames[f].cells[s].st = "Done"
                          /\ RootFrames[f].cells[s].v \in RootValues
  /\ DOMAIN RootFrames[RootEnv].cells = RootScope
<1> DEFINE modules == <<Done(Record(2)), Done(Record(3)), Done(Record(4)),
                        Done(Foreign("import"))>>
           builtins == [i \in DOMAIN ListNames |-> Done(Foreign(ListNames[i]))]
           A == Frame(0, <<>>, modules)
           B == Frame(0, ListNames, builtins)
           C == Frame(0, <<>>, <<>>)
<1>1. RootFrames = <<A, B, C, C>>
  BY DEF RootFrames
<1>2. DOMAIN A = {"parent", "names", "cells"} /\ A.parent = 0 /\ A.names = <<>> /\ A.cells = modules
  BY FrameIs
<1>3. DOMAIN B = {"parent", "names", "cells"} /\ B.parent = 0 /\ B.names = ListNames /\ B.cells = builtins
  BY FrameIs
<1>4. DOMAIN C = {"parent", "names", "cells"} /\ C.parent = 0 /\ C.names = <<>> /\ C.cells = <<>>
  BY FrameIs
<1>5. \A x : Done(x).st = "Done" /\ Done(x).v = x
  BY DEF Done
<1>6. DOMAIN ListNames = 1..10
  BY DEF ListNames
<1>7. DOMAIN builtins = 1..10 /\ \A i \in 1..10 : builtins[i] = Done(Foreign(ListNames[i]))
  BY <1>6
<1>8. /\ DOMAIN modules = 1..4 /\ modules[1] = Done(Record(2)) /\ modules[2] = Done(Record(3))
      /\ modules[3] = Done(Record(4)) /\ modules[4] = Done(Foreign("import"))
  OBVIOUS
<1> HIDE DEF modules, builtins
<1>9. \A s \in DOMAIN modules : modules[s].st = "Done" /\ modules[s].v \in RootValues
  <2>1. \A s \in 1..4 : s = 1 \/ s = 2 \/ s = 3 \/ s = 4
    OBVIOUS
  <2>2. Record(2) \in RootValues /\ Record(3) \in RootValues /\ Record(4) \in RootValues
        /\ Foreign("import") \in RootValues
    BY DEF RootValues
  <2> QED BY <1>5, <1>8, <2>1, <2>2
<1>10. \A s \in DOMAIN builtins : builtins[s].st = "Done" /\ builtins[s].v \in RootValues
  BY <1>5, <1>7 DEF RootValues
<1>11. DOMAIN <<>> = {}
  OBVIOUS
<1> HIDE DEF A, B, C
<1>12. /\ IsSequence(RootFrames) /\ Len(RootFrames) = 4 /\ DOMAIN RootFrames = 1..4
       /\ RootFrames[1] = A /\ RootFrames[2] = B /\ RootFrames[3] = C /\ RootFrames[4] = C
  <2> DEFINE q == <<A, B, C, C>>
  <2>1. /\ q \in Seq({A, B, C}) /\ Len(q) = 4 /\ DOMAIN q = 1..4
        /\ q[1] = A /\ q[2] = B /\ q[3] = C /\ q[4] = C
    OBVIOUS
  <2> HIDE DEF q
  <2>2. IsSequence(q)
    BY <2>1, AnySequence
  <2>3. RootFrames = q
    BY <1>1 DEF q
  <2> QED BY <2>1, <2>2, <2>3
<1>13. \A f \in 1..4 : RootFrames[f] = A \/ RootFrames[f] = B \/ RootFrames[f] = C
  <2>1. \A f \in 1..4 : f = 1 \/ f = 2 \/ f = 3 \/ f = 4
    OBVIOUS
  <2> QED BY <1>12, <2>1
<1>14. DOMAIN RootFrames[RootEnv].cells = RootScope
  BY <1>2, <1>8, <1>12 DEF RootEnv, RootScope
<1>15. ASSUME NEW fr, fr = A \/ fr = B \/ fr = C
       PROVE  /\ DOMAIN fr = {"parent", "names", "cells"} /\ fr.parent = 0
              /\ DOMAIN fr.names \subseteq DOMAIN fr.cells
              /\ \A s \in DOMAIN fr.cells : fr.cells[s].st = "Done" /\ fr.cells[s].v \in RootValues
  <2>1. CASE fr = A
    BY <1>2, <1>9, <1>11, <2>1
  <2>2. CASE fr = B
    BY <1>3, <1>6, <1>7, <1>10, <2>2
  <2>3. CASE fr = C
    BY <1>4, <1>11, <2>3
  <2> QED BY <1>15, <2>1, <2>2, <2>3
<1> QED BY <1>12, <1>13, <1>14, <1>15

LEMMA RootHeapOK == ASSUME NEW J PROVE HeapOK(RootFrames, RootValues, J, RootChains)
<1>1. DOMAIN RootChains = 1..4 /\ \A f \in 1..4 : RootChains[f] = <<DOMAIN RootFrames[f].cells>>
  BY DEF RootChains
<1>2. RootEnv \in DOMAIN RootChains /\ RootChains[RootEnv] = <<RootScope>>
  BY <1>1, RootFramesAre DEF RootEnv
<1>3. ASSUME NEW f \in 1..4 PROVE FrameOK(RootFrames[f], f, RootValues, J, RootChains)
  <2> DEFINE fr == RootFrames[f]
  <2>1. /\ DOMAIN fr = {"parent", "names", "cells"} /\ fr.parent = 0
        /\ DOMAIN fr.names \subseteq DOMAIN fr.cells
        /\ \A s \in DOMAIN fr.cells : fr.cells[s].st = "Done" /\ fr.cells[s].v \in RootValues
    BY RootFramesAre
  <2>2. RootChains[f] = <<DOMAIN fr.cells>>
    BY <1>1
  <2> HIDE DEF fr
  <2>3. IsSequence(RootChains[f])
    <3>1. ASSUME NEW x PROVE <<x>> \in Seq({x})
      OBVIOUS
    <3> QED BY <2>2, <3>1, AnySequence
  <2>4. \A s \in DOMAIN fr.cells : CellOK(fr.cells[s], RootChains[f], RootValues, J)
    BY <2>1 DEF CellOK, CellStates
  <2>5. 0 \in 0..(f - 1)
    OBVIOUS
  <2>6. FrameOK(fr, f, RootValues, J, RootChains)
    BY <2>1, <2>2, <2>3, <2>4, <2>5 DEF FrameOK
  <2> QED BY <2>6 DEF fr
<1> QED BY <1>1, <1>2, <1>3, RootFramesAre DEF HeapOK

LEMMA NoEntries ==
  ASSUME NEW J, NEW V, NEW chains
  PROVE  EntriesIn(<<>>, V, J, chains)
<1> DEFINE q == <<>>
<1>1. q \in Seq({}) /\ DOMAIN q = {}
  OBVIOUS
<1> HIDE DEF q
<1>2. EntriesIn(q, V, J, chains)
  BY <1>1, AnySequence DEF EntriesIn
<1> QED BY <1>2 DEF q

(* The frame of a statement, built on a heap.                              *)
LEMMA StatementFrame ==
  ASSUME NEW J, NEW V, NEW chains, NEW fs, HeapOK(fs, V, J, chains),
         NEW stmt, StatementParts(stmt) \subseteq J
  PROVE  /\ NewFrameOK(MakeFrame(stmt.defs, RootEnv, <<>>), V, J, chains)
         /\ Inner(DOMAIN stmt.defs, <<RootScope>>)
              = Inner(DOMAIN MakeFrame(stmt.defs, RootEnv, <<>>).cells,
                      chains[MakeFrame(stmt.defs, RootEnv, <<>>).parent])
         /\ At(stmt.body, Len(fs) + 1, J,
               Longer(chains, Len(fs) + 1, Inner(DOMAIN stmt.defs, <<RootScope>>)))
<1> DEFINE scopes == Inner(DOMAIN stmt.defs, <<RootScope>>)
           new == MakeFrame(stmt.defs, RootEnv, <<>>)
<1>1. RootEnv \in DOMAIN chains /\ chains[RootEnv] = <<RootScope>>
  BY DEF HeapOK
<1>2. (\A i \in DOMAIN stmt.defs : <<stmt.defs[i], scopes>> \in J) /\ <<stmt.body, scopes>> \in J
  BY StatementScopes
<1>3. \A i \in DOMAIN stmt.defs :
        <<stmt.defs[i], Inner(DOMAIN stmt.defs, chains[RootEnv])>> \in J
  BY <1>1, <1>2
<1>4. DOMAIN <<>> \subseteq DOMAIN stmt.defs
  OBVIOUS
<1>5. NewFrameOK(new, V, J, chains)
  BY ONLY <1>1, <1>3, <1>4, MadeFrame
<1>6. DOMAIN new.cells = DOMAIN stmt.defs /\ new.parent = RootEnv
  BY MadeFrameIs
<1> HIDE DEF new
<1>7. At(stmt.body, Len(fs) + 1, J, Longer(chains, Len(fs) + 1, scopes))
  BY <1>2, NewScopes
<1>8. scopes = Inner(DOMAIN new.cells, chains[new.parent])
  BY <1>1, <1>6
<1> HIDE DEF scopes
<1>9. /\ NewFrameOK(new, V, J, chains) /\ scopes = Inner(DOMAIN new.cells, chains[new.parent])
      /\ At(stmt.body, Len(fs) + 1, J, Longer(chains, Len(fs) + 1, scopes))
  BY <1>5, <1>7, <1>8
<1> QED BY <1>9 DEF new, scopes

LEMMA InitHeap ==
  ASSUME NEW J, NEW S, ResolvedIn(J, S), Programs \subseteq S, Init
  PROVE  HeapInv(J)
<1> DEFINE new == MakeFrame(prog.defs, RootEnv, <<>>)
           scopes == Inner(DOMAIN prog.defs, <<RootScope>>)
           n == Len(RootFrames) + 1
           longer == Longer(RootChains, n, scopes)
<1>1. /\ frames = Append(RootFrames, new) /\ ctl = Eval(prog.body, n) /\ kont = <<>>
      /\ dir = MainDir /\ StatementParts(prog) \subseteq J
  BY DEF Init, ResolvedIn
<1>2. HeapOK(RootFrames, RootValues, J, RootChains) /\ ValuesOK(RootValues, J, RootChains)
  BY RootHeapOK, RootValuesOK
<1>3. /\ NewFrameOK(new, RootValues, J, RootChains)
      /\ scopes = Inner(DOMAIN new.cells, RootChains[new.parent])
      /\ At(prog.body, n, J, longer)
  BY ONLY <1>1, <1>2, StatementFrame
<1> HIDE DEF new, scopes
<1>4. HeapOK(frames, RootValues, J, longer)
  BY ONLY <1>1, <1>2, <1>3, HeapBuilt
<1>5. Grown(RootValues, RootChains, RootValues, longer)
  BY ONLY <1>2, LongerIs
<1> HIDE DEF longer, n
<1>6. ValuesOK(RootValues, J, longer)
  BY <1>2, <1>5, ValuesGrown
<1>7. CtlOK(ctl, RootValues, J, longer)
  BY <1>1, <1>3, EvalOK
<1>8. EntriesIn(kont, RootValues, J, longer) /\ dir \in Directories
  BY <1>1, NoEntries DEF Directories
<1>9. World(RootValues, J, longer)
  BY <1>4, <1>6, <1>7, <1>8 DEF World
<1> QED BY <1>9 DEF HeapInv

-----------------------------------------------------------------------------
(* Going up the parents of an environment goes out through its scopes.     *)
LEMMA Least ==
  ASSUME NEW S \in SUBSET Nat, S # {}
  PROVE  \E m \in S : \A k \in S : m <= k
<1>1. PICK m \in S : \A k \in S : ~ (<<k, m>> \in OpToRel(<, Nat))
  BY NatLessThanWellFounded, WFMin
<1>2. \A k \in S : ~ (k < m)
  BY <1>1 DEF OpToRel
<1>3. QED
  BY <1>2

IsUp(g, env, n) == g = [d \in 0..n |-> IF d = 0 THEN env ELSE frames[g[d - 1]].parent]

LEMMA UpExists ==
  ASSUME NEW env, NEW n \in Nat
  PROVE  \E g : IsUp(g, env, n)
<1> DEFINE S == {m \in Nat : ~\E g : IsUp(g, env, m)}
<1> SUFFICES ASSUME S # {} PROVE FALSE
  OBVIOUS
<1>1. PICK m \in S : \A k \in S : m <= k
  <2>1. S \in SUBSET Nat
    OBVIOUS
  <2> HIDE DEF S
  <2> QED BY <2>1, Least
<1>2. m \in Nat /\ ~\E g : IsUp(g, env, m)
  OBVIOUS
<1>3. CASE m = 0
  <2> DEFINE g == [d \in 0..0 |-> env]
  <2>1. g = [d \in 0..0 |-> IF d = 0 THEN env ELSE frames[g[d - 1]].parent]
    OBVIOUS
  <2> HIDE DEF g
  <2> QED BY <1>2, <1>3, <2>1 DEF IsUp
<1>4. CASE m # 0
  <2>1. m - 1 \in Nat /\ m - 1 < m
    BY <1>2, <1>4
  <2>2. m - 1 \notin S
    BY <1>1, <2>1
  <2>3. PICK g : IsUp(g, env, m - 1)
    BY <2>1, <2>2
  <2> DEFINE h == [d \in 0..m |-> IF d = m THEN frames[g[m - 1]].parent ELSE g[d]]
  <2>4. /\ DOMAIN h = 0..m /\ h[m] = frames[g[m - 1]].parent
        /\ \A d \in 0..(m - 1) : h[d] = g[d]
    BY <1>2
  <2>5. \A d \in 0..(m - 1) : g[d] = IF d = 0 THEN env ELSE frames[g[d - 1]].parent
    BY <2>3 DEF IsUp
  <2>6. ASSUME NEW d \in 0..m
        PROVE  h[d] = IF d = 0 THEN env ELSE frames[h[d - 1]].parent
    <3> HIDE DEF h
    <3>1. CASE d = m
      BY <1>2, <1>4, <2>1, <2>4, <3>1
    <3>2. CASE d # m
      <4>1. d \in 0..(m - 1) /\ (d # 0 => d - 1 \in 0..(m - 1))
        BY <1>2, <3>2
      <4> QED BY <2>4, <2>5, <4>1
    <3> QED BY <3>1, <3>2
  <2>7. h = [d \in 0..m |-> h[d]]
    OBVIOUS
  <2> HIDE DEF h
  <2>8. h = [d \in 0..m |-> IF d = 0 THEN env ELSE frames[h[d - 1]].parent]
    BY <2>6, <2>7
  <2> QED BY <1>2, <2>8 DEF IsUp
<1> QED BY <1>3, <1>4

LEMMA ParentIs ==
  ASSUME NEW env, NEW n \in Nat
  PROVE  \E g : /\ ParentAt(env, n) = g[n]
                /\ \A d \in 0..n : g[d] = IF d = 0 THEN env ELSE frames[g[d - 1]].parent
<1> DEFINE up[d \in 0..n] == IF d = 0 THEN env ELSE frames[up[d - 1]].parent
<1>1. ParentAt(env, n) = up[n]
  BY DEF ParentAt
<1>2. up = CHOOSE g : IsUp(g, env, n)
  BY DEF IsUp
<1> HIDE DEF up
<1>3. IsUp(up, env, n)
  BY <1>2, UpExists
<1>4. \A d \in 0..n : up[d] = IF d = 0 THEN env ELSE frames[up[d - 1]].parent
  BY <1>3 DEF IsUp
<1> QED BY <1>1, <1>4

LEMMA OuterScopes ==
  ASSUME NEW J, NEW V, NEW chains, HeapOK(frames, V, J, chains), NEW f \in DOMAIN chains
  PROVE  /\ Len(chains[f]) \in Nat /\ Len(chains[f]) # 0
         /\ chains[f][1] = DOMAIN frames[f].cells
         /\ Len(chains[f]) > 1 =>
              /\ frames[f].parent \in DOMAIN chains
              /\ Len(chains[frames[f].parent]) = Len(chains[f]) - 1
              /\ \A i \in 1..(Len(chains[f]) - 1) : chains[frames[f].parent][i] = chains[f][i + 1]
<1> DEFINE fr == frames[f]
           p == frames[f].parent
           chain == chains[f]
<1>1. /\ p \in 0..(f - 1) /\ f \in DOMAIN frames
      /\ p = 0 => chain = <<DOMAIN fr.cells>>
      /\ p # 0 => chain = Inner(DOMAIN fr.cells, chains[p])
  BY DEF HeapOK, FrameOK
<1>2. DOMAIN chains = 1..Len(frames) /\ Len(frames) \in Nat
  BY SequenceIs DEF HeapOK
<1>3. CASE p = 0
  <2>1. ASSUME NEW x PROVE Len(<<x>>) = 1 /\ <<x>>[1] = x
    OBVIOUS
  <2>2. Len(chain) = 1 /\ chain[1] = DOMAIN fr.cells
    BY <1>1, <1>3, <2>1
  <2> HIDE DEF chain, fr, p
  <2>3. Len(chain) \in Nat /\ Len(chain) # 0 /\ ~(Len(chain) > 1)
    BY <2>2
  <2> QED BY <2>2, <2>3 DEF chain, fr, p
<1>4. CASE p # 0
  <2>1. p \in DOMAIN chains
    BY <1>1, <1>2, <1>4
  <2>2. IsSequence(chains[p])
    BY <2>1 DEF HeapOK, FrameOK
  <2>3. /\ Len(chain) = Len(chains[p]) + 1 /\ chain[1] = DOMAIN fr.cells
        /\ \A i \in DOMAIN chains[p] : chain[i + 1] = chains[p][i]
    BY <1>1, <1>4, <2>2, InnerScopes
  <2>4. DOMAIN chains[p] = 1..Len(chains[p]) /\ Len(chains[p]) \in Nat
    BY <2>2, SequenceIs
  <2> HIDE DEF chain, fr, p
  <2>5. /\ Len(chain) \in Nat /\ Len(chain) # 0 /\ Len(chains[p]) = Len(chain) - 1
        /\ \A i \in 1..(Len(chain) - 1) : chains[p][i] = chain[i + 1]
    BY <2>3, <2>4
  <2> QED BY <2>1, <2>3, <2>5 DEF chain, fr, p
<1> QED BY <1>3, <1>4

(* f is d environments further out than env.                               *)
Further(f, d, env, chains) ==
  /\ f \in DOMAIN chains
  /\ Len(chains[f]) = Len(chains[env]) - d
  /\ \A i \in 1..(Len(chains[env]) - d) : chains[f][i] = chains[env][i + d]

LEMMA OneFurther ==
  ASSUME NEW J, NEW V, NEW chains, HeapOK(frames, V, J, chains), NEW env \in DOMAIN chains,
         NEW d \in Nat, d + 1 < Len(chains[env]), NEW f, Further(f, d, env, chains)
  PROVE  Further(frames[f].parent, d + 1, env, chains)
<1> DEFINE n == Len(chains[env])
           inner == chains[f]
           p == frames[f].parent
<1>1. n \in Nat /\ d + 1 < n
  BY OuterScopes
<1>2. /\ f \in DOMAIN chains /\ Len(inner) = n - d
      /\ \A i \in 1..(n - d) : inner[i] = chains[env][i + d]
  BY DEF Further
<1>3. Len(inner) > 1 => /\ p \in DOMAIN chains
                        /\ Len(chains[p]) = Len(inner) - 1
                        /\ \A i \in 1..(Len(inner) - 1) : chains[p][i] = inner[i + 1]
  <2>1. f \in DOMAIN chains
    BY <1>2
  <2> QED BY ONLY <2>1, HeapOK(frames, V, J, chains), OuterScopes
<1> HIDE DEF inner, n, p
<1>4. Len(inner) > 1 /\ Len(inner) - 1 = n - (d + 1)
  BY <1>1, <1>2
<1>5. p \in DOMAIN chains /\ Len(chains[p]) = n - (d + 1)
  BY <1>3, <1>4
<1>6. ASSUME NEW i \in 1..(n - (d + 1)) PROVE chains[p][i] = chains[env][i + (d + 1)]
  <2>1. chains[p][i] = inner[i + 1]
    BY <1>3, <1>4
  <2>2. i + 1 \in 1..(n - d) /\ (i + 1) + d = i + (d + 1)
    BY <1>1
  <2> QED BY <1>2, <2>1, <2>2
<1> QED BY <1>5, <1>6 DEF Further, n, p

LEMMA ParentScopes ==
  ASSUME NEW J, NEW V, NEW chains, HeapOK(frames, V, J, chains), NEW env \in DOMAIN chains,
         NEW n \in Nat, n < Len(chains[env])
  PROVE  /\ ParentAt(env, n) \in DOMAIN frames
         /\ DOMAIN frames[ParentAt(env, n)].cells = chains[env][n + 1]
<1> PICK up : /\ ParentAt(env, n) = up[n]
              /\ \A d \in 0..n : up[d] = IF d = 0 THEN env ELSE frames[up[d - 1]].parent
  BY ParentIs
<1> DEFINE S == {d \in 0..n : ~Further(up[d], d, env, chains)}
<1>0. Len(chains[env]) \in Nat
  BY OuterScopes
<1>1. S = {}
  <2> SUFFICES ASSUME S # {} PROVE FALSE
    OBVIOUS
  <2>1. PICK m \in S : \A k \in S : m <= k
    <3>1. S \in SUBSET Nat
      OBVIOUS
    <3> HIDE DEF S
    <3> QED BY <3>1, Least
  <2>2. m \in 0..n /\ m \in Nat /\ ~Further(up[m], m, env, chains)
    OBVIOUS
  <2>3. CASE m = 0
    <3>1. up[0] = env
      BY <2>2
    <3>2. Further(env, 0, env, chains)
      BY <1>0 DEF Further
    <3> QED BY <2>2, <2>3, <3>1, <3>2
  <2>4. CASE m # 0
    <3>1. m - 1 \in Nat /\ m - 1 \in 0..n /\ m - 1 < m /\ (m - 1) + 1 = m
          /\ m < Len(chains[env])
      BY <1>0, <2>2, <2>4
    <3>2. Further(up[m - 1], m - 1, env, chains)
      BY <2>1, <3>1
    <3> DEFINE k == m - 1
    <3>3. k \in Nat /\ k + 1 < Len(chains[env]) /\ Further(up[k], k, env, chains)
      BY <3>1, <3>2
    <3>4. up[m] = frames[up[k]].parent
      BY <2>2, <2>4
    <3> HIDE DEF k
    <3>5. Further(frames[up[k]].parent, k + 1, env, chains)
      BY <3>3, OneFurther
    <3>6. k + 1 = m
      BY <3>1 DEF k
    <3> QED BY <2>2, <3>4, <3>5, <3>6
  <2> QED BY <2>3, <2>4
<1>2. Further(up[n], n, env, chains)
  BY <1>1
<1>3. 1 \in 1..(Len(chains[env]) - n) /\ 1 + n = n + 1
  BY <1>0
<1>4. up[n] \in DOMAIN chains /\ chains[up[n]][1] = chains[env][n + 1]
  BY <1>2, <1>3 DEF Further
<1>5. chains[up[n]][1] = DOMAIN frames[up[n]].cells
  BY <1>4, OuterScopes
<1>6. up[n] \in DOMAIN frames
  BY <1>4 DEF HeapOK
<1> QED BY <1>4, <1>5, <1>6

LEMMA TypesOfHeap ==
  ASSUME NEW J, NEW S, ResolvedIn(J, S), HeapInv(J), lists \in Nat
  PROVE  TypeOK
<1> PICK V, chains : World(V, J, chains)
  BY DEF HeapInv
<1>1. /\ HeapOK(frames, V, J, chains) /\ CtlOK(ctl, V, J, chains)
      /\ EntriesIn(kont, V, J, chains) /\ dir \in Directories
  BY DEF World
<1>2. InScope
  <2> SUFFICES ASSUME Evaluating("Variable")
               PROVE  IsCell(ParentAt(ctl.env, ctl.e.depth), ctl.e.slot)
    BY DEF InScope
  <2>1. At(ctl.e, ctl.env, J, chains) /\ ctl.e.op = "Variable"
    BY <1>1 DEF Evaluating, CtlOK
  <2>2. /\ ctl.env \in DOMAIN chains /\ WellFormed(ctl.e, chains[ctl.env])
    BY <2>1, PartsAt
  <2>3. /\ ctl.e.depth \in Nat /\ ctl.e.depth < Len(chains[ctl.env])
        /\ ctl.e.slot \in chains[ctl.env][ctl.e.depth + 1]
    BY <2>1, <2>2 DEF WellFormed
  <2>4. /\ ParentAt(ctl.env, ctl.e.depth) \in DOMAIN frames
        /\ DOMAIN frames[ParentAt(ctl.env, ctl.e.depth)].cells = chains[ctl.env][ctl.e.depth + 1]
    BY <1>1, <2>2, <2>3, ParentScopes
  <2> QED BY <2>3, <2>4 DEF IsCell
<1>3. \A f \in DOMAIN frames :
        /\ frames[f].parent \in 0..(f - 1)
        /\ \A s \in DOMAIN frames[f].cells : Cell(f, s).st \in CellStates
  BY <1>1 DEF HeapOK, FrameOK, CellOK, Cell
<1>4. \A i \in DOMAIN kont : kont[i].k \in ContKinds
  BY <1>1 DEF EntriesIn, EntryOK
<1>5. ctl.m \in CtlModes
  BY <1>1 DEF CtlOK
<1> QED BY <1>1, <1>2, <1>3, <1>4, <1>5 DEF TypeOK, CtlModes, Directories

(* Every step numbers the list it makes, if it makes one.                  *)
LEMMA ListsNumbered ==
  ASSUME lists \in Nat, [Next]_vars
  PROVE  lists' \in Nat
<1>1. NewList \in Nat
  BY DEF NewList
<1>2. ASSUME EvalLiteral \/ EvalVariable \/ EvalFunction \/ EvalBlock \/ EvalImmediateBlock
             \/ EvalCondition \/ EvalLogical \/ EvalOperands
      PROVE  lists' = lists
  BY <1>2 DEF EvalLiteral, EvalVariable, EvalFunction, EvalBlock, EvalImmediateBlock,
              EvalCondition, EvalLogical, EvalOperands
<1>3. ASSUME NextOperand \/ CombineOperands \/ AccessRecord \/ IndexValue \/ CallFunction
      PROVE  lists' \in {lists, NewList}
  BY <1>3 DEF NextOperand, CombineOperands, AccessRecord, IndexValue, CallFunction
<1>4. ASSUME ApplyNative \/ ApplyFails \/ ApplyPure \/ ApplyHigherOrder \/ EachItem
             \/ ImportFails \/ ImportFile \/ EagerDefinition
      PROVE  lists' \in {lists, NewList}
  BY <1>4 DEF ApplyNative, ApplyFails, ApplyPure, ApplyHigherOrder, EachItem, ImportFails,
              ImportFile, EagerDefinition
<1>5. ASSUME ReturnCondition \/ ReturnLogical \/ ReturnRight \/ ReturnOperand \/ ReturnEach
             \/ ReturnEager \/ ReturnImport \/ ReturnForce \/ PrintValue \/ ReturnField
      PROVE  lists' = lists
  BY <1>5 DEF ReturnCondition, ReturnLogical, ReturnRight, ReturnOperand, ReturnEach,
              ReturnEager, ReturnImport, ReturnForce, PrintValue, ReturnField
<1>6. ASSUME UnwindForce \/ UnwindImport \/ UnwindOther \/ CatchField \/ PrintDiagnostic
             \/ ShowValue \/ ShowNextItem \/ ShowNextField \/ AppendShown \/ ExitShown
      PROVE  lists' = lists
  BY <1>6 DEF UnwindForce, UnwindImport, UnwindOther, CatchField, PrintDiagnostic, ShowValue,
              ShowNextItem, ShowNextField, AppendShown, ExitShown
<1>7. ASSUME Overflow \/ CutOff \/ UNCHANGED vars PROVE lists' = lists
  BY <1>7 DEF Overflow, CutOff, vars
<1> QED BY <1>1, <1>2, <1>3, <1>4, <1>5, <1>6, <1>7 DEF Next, Step

(* TypeOK (the type invariant of the runs): whatever programs and files    *)
(* parser and resolver let through, the evaluator never goes up past the   *)
(* root environment or takes a slot that is not there (the panics of       *)
(* interp.rs:53 and :326), every frame is younger than its parent, and     *)
(* CURRENT_DIR is a directory of the program.                              *)
THEOREM TypeCorrect ==
  ASSUME NEW J, ResolvedIn(J, Programs \cup FileStatements)
  PROVE  Spec => []TypeOK
<1> DEFINE S == Programs \cup FileStatements
<1>1. Programs \subseteq S /\ FileStatements \subseteq S /\ ResolvedIn(J, S)
  OBVIOUS
<1> HIDE DEF S
<1>2. Init => IInv /\ HeapInv(J)
  BY <1>1, InitHeap, InitIInv
<1>3. IInv /\ HeapInv(J) /\ [Next]_vars => IInv' /\ HeapInv(J)'
  BY <1>1, StepKeeps, StepCorrect DEF Correct
<1>4. Init => lists \in Nat
  BY DEF Init
<1>5. lists \in Nat /\ [Next]_vars => (lists \in Nat)'
  BY ListsNumbered
<1>6. HeapInv(J) /\ lists \in Nat => TypeOK
  BY <1>1, TypesOfHeap
<1> QED BY <1>2, <1>3, <1>4, <1>5, <1>6, PTL DEF Spec

-----------------------------------------------------------------------------
(* The driver.  Between two lines nothing is being evaluated: the stack is *)
(* empty and the newest frame is within the bounds.                        *)
AtRest  == ctl.m = "exit" => kont = <<>> /\ ~TooLarge
MainInv == IInv /\ AtRest

LEMMA ForcedGoesOn ==
  ASSUME NEW f, NEW s, NEW ks, ForceSlot(f, s, ks)
  PROVE  ctl'.m # "exit"
BY Modes DEF ForceSlot, Go

LEMMA AccessedGoesOn ==
  ASSUME NEW f, NEW name, AccessField(f, name, kont)
  PROVE  ctl'.m # "exit"
BY ForcedGoesOn, Modes DEF AccessField, Go

LEMMA StepGoesOn ==
  ASSUME Step, ctl'.m = "exit"
  PROVE  PrintDiagnostic \/ ExitShown
<1>1. ~(EvalLiteral \/ EvalVariable \/ EvalFunction \/ EvalBlock \/ EvalImmediateBlock
        \/ EvalCondition \/ EvalLogical \/ EvalOperands)
  BY ForcedGoesOn, Modes
  DEF EvalLiteral, EvalVariable, EvalFunction, EvalBlock, EvalImmediateBlock, EvalCondition,
      EvalLogical, EvalOperands, Go
<1>2. ~(NextOperand \/ CombineOperands \/ AccessRecord \/ IndexValue \/ CallFunction)
  <2>1. ~AccessRecord
    BY AccessedGoesOn, Modes DEF AccessRecord, Go
  <2>2. ~IndexValue
    <3> SUFFICES ASSUME IndexValue PROVE FALSE
      OBVIOUS
    <3>1. CASE ctl.vs[1].k = "block" /\ ctl.vs[2].k = "string"
      BY <3>1, AccessedGoesOn DEF IndexValue
    <3>2. CASE ~(ctl.vs[1].k = "block" /\ ctl.vs[2].k = "string")
      BY <3>2, Modes DEF IndexValue, Go
    <3> QED BY <3>1, <3>2
  <2> QED BY <2>1, <2>2, Modes DEF NextOperand, CombineOperands, CallFunction, Go
<1>3. ~(ApplyNative \/ ApplyFails \/ ApplyPure \/ ApplyHigherOrder \/ EachItem \/ ImportFails
        \/ ImportFile \/ EagerDefinition)
  BY ForcedGoesOn, Modes
  DEF ApplyNative, ApplyFails, ApplyPure, ApplyHigherOrder, EachItem, ImportFails, ImportFile,
      EagerDefinition, Go
<1>4. ~(ReturnCondition \/ ReturnLogical \/ ReturnRight \/ ReturnOperand \/ ReturnEach
        \/ ReturnEager \/ ReturnImport \/ ReturnForce \/ PrintValue \/ ReturnField)
  BY Modes
  DEF ReturnCondition, ReturnLogical, ReturnRight, ReturnOperand, ReturnEach, ReturnEager,
      ReturnImport, ReturnForce, PrintValue, ReturnField, Go
<1>5. ~(UnwindForce \/ UnwindImport \/ UnwindOther \/ CatchField)
  BY Modes DEF UnwindForce, UnwindImport, UnwindOther, CatchField, FieldShown, Go
<1>6. ~(ShowValue \/ ShowNextItem \/ ShowNextField \/ AppendShown)
  <2>1. ~ShowValue
    <3> SUFFICES ASSUME ShowValue PROVE FALSE
      OBVIOUS
    <3> DEFINE items  == ShowItems(ctl.v.xs, <<>>)
               fields == ShowFields(ctl.v.frame, SortedFields(ctl.v.frame), <<>>)
               scalar == Shown(ctl.v)
               callable == Shown(FunctionText)
    <3>1. ctl' = CASE ctl.v.k = "list"  -> items
                   [] ctl.v.k = "block" -> fields
                   [] IsCallable(ctl.v) -> callable
                   [] OTHER             -> scalar
      BY Zenon DEF ShowValue, Go
    <3>2. items.m # "exit" /\ fields.m # "exit" /\ scalar.m # "exit" /\ callable.m # "exit"
      BY Modes
    <3> HIDE DEF items, fields, scalar, callable
    <3> QED BY <3>1, <3>2 DEF IsCallable
  <2> QED BY <2>1, ForcedGoesOn, Modes
          DEF ShowNextItem, ShowNextField, AppendShown, FieldShown, Go
<1> QED BY <1>1, <1>2, <1>3, <1>4, <1>5, <1>6 DEF Step

LEMMA RestReached ==
  ASSUME AtRest, [Next]_vars
  PROVE  AtRest'
<1> SUFFICES ASSUME ctl'.m = "exit" PROVE (kont = <<>> /\ ~TooLarge)'
  BY DEF AtRest
<1>1. CASE UNCHANGED vars
  BY <1>1 DEF vars, AtRest, TooLarge, TooWide
<1>2. CASE ~TooLarge /\ Step
  <2>1. kont = <<>> /\ kont' = kont /\ UNCHANGED frames
    BY <1>2, StepGoesOn DEF PrintDiagnostic, ExitShown, Go
  <2> QED BY <1>2, <2>1 DEF TooLarge, TooWide
<1>3. CASE Overflow \/ CutOff
  BY <1>3, Modes DEF Overflow, CutOff, Go
<1> QED BY <1>1, <1>2, <1>3 DEF Next

LEMMA MainStepCorrect ==
  ASSUME MainInv, [MainNext]_allVars
  PROVE  MainInv' /\ [Bindings!Next]_(Bindings!vars)
<1>1. CASE [Next]_vars
  BY <1>1, StepCorrect, RestReached DEF MainInv, Correct
<1>2. CASE RefuseLine
  <2>1. /\ ctl.m = "exit" /\ ctl' = Exit(ErrorText) /\ kont' = <<>> /\ UNCHANGED <<frames, dir>>
        /\ kont = <<>> /\ ~TooLarge
    BY <1>2 DEF RefuseLine, AtPrompt, Go, MainInv, AtRest
  <2>2. Calm
    BY <2>1, Modes DEF Calm, FailModes, DisplayModes
  <2>3. AtRest'
    BY <2>1 DEF AtRest, TooLarge, TooWide
  <2> QED BY <2>2, <2>3, CalmStep DEF MainInv, Correct
<1>3. CASE EvaluateLine
  <2> DEFINE new == MakeFrame(prog'.defs, RootEnv, <<>>)
  <2>1. /\ ctl.m = "exit" /\ ctl' = Eval(prog'.body, NewEnv) /\ kont' = <<>> /\ UNCHANGED dir
        /\ kont = <<>> /\ ~TooLarge /\ Build(new)
    BY <1>3 DEF EvaluateLine, AtPrompt, Go, MainInv, AtRest
  <2>2. "cells" \in DOMAIN new /\ \A s \in DOMAIN new.cells : new.cells[s].st = "Lazy"
    BY SuspendedFrame
  <2> HIDE DEF new
  <2>3. Building
    BY <2>1, <2>2, Builds, Modes DEF FailModes, DisplayModes
  <2>4. AtRest'
    BY <2>1, Modes DEF AtRest
  <2> QED BY <2>1, <2>3, <2>4, BuildingStep DEF MainInv, Correct
<1> QED BY <1>1, <1>2, <1>3 DEF MainNext, KeepDefinitions, allVars

LEMMA ReplFrames ==
  ASSUME RunRepl
  PROVE  FramesOK /\ ~TooLarge /\ \A f, s : IsCell(f, s) => Cell(f, s).st = "Done"
<1>1. frames = RootFrames
  BY DEF RunRepl
<1>2. /\ IsSequence(frames) /\ Len(frames) = 4 /\ DOMAIN frames = 1..4
      /\ \A f \in 1..4 : "cells" \in DOMAIN frames[f]
      /\ \A f \in 1..4 : \A s \in DOMAIN frames[f].cells : frames[f].cells[s].st = "Done"
  BY <1>1, RootFramesAre
<1>3. \A f \in 1..4 : DOMAIN frames[f].cells \subseteq 1..10
  <2>1. DOMAIN ListNames = 1..10
    BY DEF ListNames
  <2>2. \A f \in 1..4 : f = 1 \/ f = 2 \/ f = 3 \/ f = 4
    OBVIOUS
  <2> QED BY <1>1, <2>1, <2>2 DEF RootFrames, Frame
<1>4. frames # <<>>
  BY <1>2
<1>5. 1..10 \subseteq 1..MaxCells
  BY LimitsAssumption
<1>6. FramesOK
  <2>1. Len(frames) <= MaxFrames + 1
    BY <1>2, LimitsAssumption
  <2> QED BY <1>2, <1>3, <1>4, <1>5, <2>1 DEF FramesOK, Cell, CellStates
<1>7. ~TooLarge
  <2>1. ~(Len(frames) > MaxFrames)
    BY <1>2, LimitsAssumption
  <2> QED BY <1>2, <1>3, <1>5, <2>1 DEF TooLarge, TooWide
<1> QED BY <1>2, <1>6, <1>7 DEF IsCell, Cell

LEMMA MainInitCorrect ==
  ASSUME MainInit
  PROVE  MainInv /\ Bindings!Init
<1>1. CASE RunSource
  <2>1. Init /\ ctl.m = "eval"
    BY <1>1, Modes DEF RunSource, Init
  <2> QED BY <2>1, InitIInv, InitBindings DEF MainInv, AtRest
<1>2. CASE RunRepl
  <2>1. kont = <<>> /\ dir = MainDir /\ ctl.m = "exit"
    BY <1>2, Modes DEF RunRepl
  <2>2. StackOK(kont, ExistingCells, dir) /\ ForcingIn(kont) = <<>>
    BY <2>1, EmptyStack
  <2>3. FramesOK /\ ~TooLarge /\ \A f, s : IsCell(f, s) => Cell(f, s).st = "Done"
    BY <1>2, ReplFrames
  <2>4. MainInv
    BY <2>1, <2>2, <2>3 DEF MainInv, IInv, AtRest, ModeOK, DisplayModes
  <2>5. \A c \in CellIds : CellState(c) \in {"Absent", "Lazy", "Done"}
    BY <2>3 DEF CellState
  <2>6. Bindings!Init
    BY <2>1, <2>2, <2>5 DEF Bindings!Init
  <2> QED BY <2>4, <2>6
<1> QED BY <1>1, <1>2 DEF MainInit

(* The driver implements LazyBindings too, a REPL session as a whole: the  *)
(* lines of a session build their frames in one heap, and a line that      *)
(* failed or was refused has left no binding marked (main.rs:195-232).     *)
THEOREM MainImplementsBindings == MainSpec => ImplementsLazyBindings
<1>1. MainInit => MainInv /\ Bindings!Init
  BY MainInitCorrect
<1>2. MainInv /\ [MainNext]_allVars => MainInv' /\ [Bindings!Next]_(Bindings!vars)
  BY MainStepCorrect
<1>3. MainInit /\ [][MainNext]_allVars => Bindings!Init /\ [][Bindings!Next]_(Bindings!vars)
  BY <1>1, <1>2, PTL
<1> QED BY <1>3, PTL DEF MainSpec, ImplementsLazyBindings, Bindings!Spec

(* Between the lines of a session, and during each of them, CURRENT_DIR is *)
(* the directory of the innermost running import: an import that failed in *)
(* one line does not change what the paths of the next name.               *)
THEOREM MainDirectoryCorrect == MainSpec => []DirectoryOfInnermostImport
<1>1. MainInit => MainInv
  BY MainInitCorrect
<1>2. MainInv /\ [MainNext]_allVars => MainInv'
  BY MainStepCorrect
<1>3. MainInv => DirectoryOfInnermostImport
  BY DEF MainInv, IInv, StackOK, DirsOK, DirectoryOfInnermostImport
<1> QED BY <1>1, <1>2, <1>3, PTL DEF MainSpec

(* In a session too a binding is marked exactly while one call of force    *)
(* evaluates it.                                                           *)
THEOREM MainBusyCorrect == MainSpec => []Bindings!BusyIffForcing
BY MainImplementsBindings, BindingsBusy, PTL DEF ImplementsLazyBindings

(* And what a binding holds once it is evaluated stays, over all lines.    *)
THEOREM MainEvaluatedOnceCorrect == MainSpec => Bindings!EvaluatedOnce
BY MainImplementsBindings, BindingsEvaluatedOnce, PTL DEF ImplementsLazyBindings

-----------------------------------------------------------------------------
(* What may be typed: lines whose definitions are of D and bodies of B,    *)
(* and the statements the resolver makes of them.                          *)
TypedIn(q, D, B) ==
  IsSequence(q) /\ \A i \in DOMAIN q : q[i].defs \in Seq(D) /\ q[i].body \in B
ResolvedLines(D, B) == {Resolved(defs, body) : defs \in Seq(D), body \in B} \ {Undefined}

LinesInv(D, B) ==
  /\ TypedIn(lines, D, B)
  /\ line # NoLine => line.defs \in Seq(D)
  /\ accumulated \in Seq(D)

LEMMA FirstTyped ==
  ASSUME NEW D, NEW B, NEW q, TypedIn(q, D, B), q # <<>>
  PROVE  Head(q).defs \in Seq(D) /\ Head(q).body \in B /\ TypedIn(Tail(q), D, B)
<1> DEFINE T == {q[i] : i \in DOMAIN q}
<1>1. q \in Seq(T) /\ DOMAIN q = 1..Len(q) /\ Len(q) \in Nat
  BY SequenceIs DEF TypedIn, IsSequence
<1>2. \A x \in T : x.defs \in Seq(D) /\ x.body \in B
  BY DEF TypedIn
<1> HIDE DEF T
<1>3. Head(q) \in T /\ Tail(q) \in Seq(T)
  BY <1>1
<1> DEFINE r == Tail(q)
<1>4. IsSequence(r) /\ \A i \in DOMAIN r : r[i] \in T
  <2>1. r \in Seq(T)
    BY <1>3
  <2> HIDE DEF r
  <2>2. DOMAIN r = 1..Len(r) /\ \A i \in 1..Len(r) : r[i] \in T
    BY <2>1
  <2> QED BY <2>1, <2>2, AnySequence
<1> QED BY <1>2, <1>3, <1>4 DEF TypedIn

LEMMA LinesKept ==
  ASSUME NEW D, NEW B, LinesInv(D, B), [MainNext]_allVars
  PROVE  LinesInv(D, B)'
<1>1. CASE UNCHANGED replVars
  BY <1>1 DEF replVars, LinesInv, TypedIn, IsSequence
<1>2. CASE RefuseLine \/ EvaluateLine
  <2>1. /\ lines # <<>> /\ lines' = Tail(lines) /\ accumulated' = accumulated
        /\ line' = line \/ line' = Head(lines)
    BY <1>2 DEF RefuseLine, EvaluateLine, AtPrompt
  <2>2. Head(lines).defs \in Seq(D) /\ TypedIn(Tail(lines), D, B)
    BY <2>1, FirstTyped DEF LinesInv
  <2> QED BY <2>1, <2>2 DEF LinesInv, TypedIn, IsSequence
<1>3. CASE KeepDefinitions
  <2>1. /\ line # NoLine /\ accumulated' = accumulated \o line.defs /\ line' = NoLine
        /\ lines' = lines
    BY <1>3 DEF KeepDefinitions
  <2>2. accumulated \in Seq(D) /\ line.defs \in Seq(D) /\ TypedIn(lines, D, B)
    BY <2>1 DEF LinesInv
  <2>3. accumulated' \in Seq(D)
    BY <2>1, <2>2
  <2> QED BY <2>1, <2>2, <2>3 DEF LinesInv, TypedIn, IsSequence
<1> QED BY <1>1, <1>2, <1>3 DEF MainNext, allVars

LEMMA MainHeapKept ==
  ASSUME NEW D, NEW B, NEW J, NEW S, ResolvedIn(J, S), FileStatements \subseteq S,
         ResolvedLines(D, B) \subseteq S, LinesInv(D, B), IInv, HeapInv(J), [MainNext]_allVars
  PROVE  HeapInv(J)'
<1>1. CASE [Next]_vars
  BY <1>1, StepKeeps
<1>2. CASE RefuseLine
  <2> PICK V, chains : World(V, J, chains)
    BY DEF HeapInv
  <2>1. ctl' = Exit(ErrorText) /\ kont' = <<>> /\ UNCHANGED <<frames, dir>>
    BY <1>2 DEF RefuseLine, Go
  <2>2. CtlOK(ctl', V, J, chains) /\ EntriesIn(kont', V, J, chains)
    BY <2>1, NothingOK, NoEntries
  <2>3. dir \in Directories
    BY DEF World
  <2> QED BY <2>1, <2>2, <2>3, WorldKept
<1>3. CASE EvaluateLine
  <2> PICK V, chains : World(V, J, chains)
    BY DEF HeapInv
  <2> DEFINE stmt == Resolved(accumulated \o Head(lines).defs, Head(lines).body)
             new == MakeFrame(stmt.defs, RootEnv, <<>>)
             scopes == Inner(DOMAIN stmt.defs, <<RootScope>>)
  <2>1. /\ stmt # Undefined /\ lines # <<>> /\ Build(new)
        /\ ctl' = Eval(stmt.body, NewEnv) /\ kont' = <<>> /\ UNCHANGED dir
    BY <1>3 DEF EvaluateLine, AtPrompt, Accepted, Combined, Go
  <2>2. StatementParts(stmt) \subseteq J
    <3>1. accumulated \in Seq(D) /\ Head(lines).defs \in Seq(D) /\ Head(lines).body \in B
      BY <2>1, FirstTyped DEF LinesInv
    <3>2. accumulated \o Head(lines).defs \in Seq(D)
      BY <3>1
    <3>3. stmt \in ResolvedLines(D, B)
      <4> DEFINE defs == accumulated \o Head(lines).defs
                 body == Head(lines).body
      <4>1. defs \in Seq(D) /\ body \in B /\ Resolved(defs, body) # Undefined
        BY <2>1, <3>1, <3>2
      <4> HIDE DEF defs, body
      <4>2. Resolved(defs, body) \in {Resolved(ds, b) : ds \in Seq(D), b \in B}
        BY <4>1
      <4>3. Resolved(defs, body) \in ResolvedLines(D, B)
        BY <4>1, <4>2 DEF ResolvedLines
      <4> QED BY <4>3 DEF defs, body
    <3> HIDE DEF stmt
    <3> QED BY <3>3 DEF ResolvedIn
  <2> HIDE DEF stmt
  <2>3. HeapOK(frames, V, J, chains) /\ dir \in Directories
    BY DEF World
  <2>4. /\ NewFrameOK(new, V, J, chains)
        /\ scopes = Inner(DOMAIN new.cells, chains[new.parent])
        /\ At(stmt.body, Len(frames) + 1, J, Longer(chains, Len(frames) + 1, scopes))
    BY ONLY <2>2, <2>3, StatementFrame
  <2> HIDE DEF new, scopes
  <2>5. CtlOK(ctl', V, J, Longer(chains, NewEnv, scopes))
    BY <2>1, <2>4, EvalOK DEF NewEnv
  <2>6. EntriesIn(kont', V, J, chains) /\ dir' \in Directories
    BY <2>1, <2>3, NoEntries
  <2> QED BY <2>1, <2>4, <2>5, <2>6, WorldBuilt
<1> QED BY <1>1, <1>2, <1>3 DEF MainNext, KeepDefinitions, allVars

LEMMA MainInitHeap ==
  ASSUME NEW D, NEW B, \A typed \in Sessions : TypedIn(typed, D, B),
         NEW J, NEW S, ResolvedIn(J, S), Programs \subseteq S, MainInit
  PROVE  HeapInv(J) /\ LinesInv(D, B)
<1>1. HeapInv(J)
  <2>1. CASE RunSource
    BY <2>1, InitHeap DEF RunSource
  <2>2. CASE RunRepl
    <3>1. frames = RootFrames /\ ctl = Exit(ErrorText) /\ kont = <<>> /\ dir = MainDir
      BY <2>2 DEF RunRepl
    <3>2. World(RootValues, J, RootChains)
      BY <3>1, RootValuesOK, RootHeapOK, NothingOK, NoEntries DEF World, Directories
    <3> QED BY <3>2 DEF HeapInv
  <2> QED BY <2>1, <2>2 DEF MainInit
<1>2. LinesInv(D, B)
  <2>1. /\ line = NoLine /\ accumulated = <<>> /\ lines = session
        /\ session = <<>> \/ session \in Sessions
    BY DEF MainInit, RunSource, RunRepl
  <2>2. accumulated \in Seq(D)
    BY <2>1
  <2>3. TypedIn(<<>>, D, B)
    <3> DEFINE q == <<>>
    <3>1. q \in Seq({}) /\ DOMAIN q = {}
      OBVIOUS
    <3> HIDE DEF q
    <3>2. TypedIn(q, D, B)
      BY <3>1, AnySequence DEF TypedIn
    <3> QED BY <3>2 DEF q
  <2> QED BY <2>1, <2>2, <2>3 DEF LinesInv
<1> QED BY <1>1, <1>2

(* TypeOK over the driver, for any program and any session: no line of a   *)
(* session, whatever the lines before it defined, failed at or were        *)
(* refused for, makes the evaluator go up past the root environment or     *)
(* take a slot that is not there (the panics of interp.rs:53 and :326).    *)
(* Assumed is what the resolver guarantees (resolver.rs:20-117): J has the *)
(* expressions of the programs, of the files and of whatever it makes of   *)
(* the lines, each in its scopes.                                          *)
THEOREM MainTypeCorrect ==
  ASSUME NEW D, NEW B, \A typed \in Sessions : TypedIn(typed, D, B),
         NEW J, ResolvedIn(J, Programs \cup FileStatements \cup ResolvedLines(D, B))
  PROVE  MainSpec => []TypeOK
<1> DEFINE S == Programs \cup FileStatements \cup ResolvedLines(D, B)
<1>1. /\ Programs \subseteq S /\ FileStatements \subseteq S /\ ResolvedLines(D, B) \subseteq S
      /\ ResolvedIn(J, S)
  OBVIOUS
<1> HIDE DEF S
<1>2. MainInit => MainInv /\ HeapInv(J) /\ LinesInv(D, B)
  BY <1>1, MainInitHeap, MainInitCorrect
<1>3. MainInv /\ HeapInv(J) /\ LinesInv(D, B) /\ [MainNext]_allVars
        => MainInv' /\ HeapInv(J)' /\ LinesInv(D, B)'
  BY <1>1, MainStepCorrect, MainHeapKept, LinesKept DEF MainInv
<1>4. MainInit => lists \in Nat
  BY DEF MainInit, RunSource, RunRepl, Init
<1>5. lists \in Nat /\ [MainNext]_allVars => (lists \in Nat)'
  BY ListsNumbered
  DEF MainNext, RefuseLine, EvaluateLine, KeepDefinitions, allVars, vars
<1>6. HeapInv(J) /\ lists \in Nat => TypeOK
  BY <1>1, TypesOfHeap
<1> QED BY <1>2, <1>3, <1>4, <1>5, <1>6, PTL DEF MainSpec
=============================================================================
