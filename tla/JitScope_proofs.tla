---------------------------- MODULE JitScope_proofs ----------------------------
(***************************************************************************)
(* The two tests that compare depths, top_level_func and distance_to_root, *)
(* are right wherever the counts they use agree with the resolver's, for   *)
(* paths, variables and types of any number.  So is what load_variable     *)
(* finds: the scope the resolver chose, the instance of a type the         *)
(* variable is used at, and something wherever the resolver found          *)
(* something.                                                              *)
(***************************************************************************)
EXTENDS JitScope, TLAPS, WellFoundedInduction

Kinds  == {"top", "block", "bare", "fn"}
Scopes == [kind : Kinds, frames : Seq(Nat), base : Nat, nesting : Nat]
Refs   == [pos : Nat, to : Nat, slot : Slots, ty : Types \cup {Module},
           form : {"use", "call", "member"}, quoted : BOOLEAN]

(* How the environment of a scope relates to its position: the three       *)
(* counts differ only by the blocks that one of them leaves out.           *)
Environment(p) ==
  /\ scopes[p].base \in 1..p
  /\ scopes[p].kind \in {"top", "fn"} =>
       scopes[p].base = p /\ Len(scopes[p].frames) = 0
  /\ ~Around(p, {"bare"}) => Len(scopes[p].frames) = p - scopes[p].base
  /\ ~Around(scopes[p].base, {"block", "bare"}) =>
       scopes[p].nesting = scopes[p].base - 1

(* A variable is met inside the path, and one of the top level outside     *)
(* ${ } has been recorded as a use at its type.                            *)
Met(r) ==
  /\ r.pos \in 1..Pos /\ r.to \in 0..r.pos
  /\ r.to = 1 /\ ~r.quoted => r.ty \in uses[r.slot]

PathInv ==
  /\ top \in Tops
  /\ scopes \in Seq(Scopes) /\ Pos \in Nat \ {0}
  /\ \A p \in 1..Pos : Environment(p)
  /\ quoted \in BOOLEAN

UseInv ==
  /\ refs \in Seq(Refs)
  /\ uses \in [Slots -> SUBSET (Types \cup {Module})]
  /\ \A i \in 1..Len(refs) : Met(refs[i])

CodeInv ==
  /\ \E S : compiled \in Seq(S)
  /\ phase = "walk" => compiled = <<>>
  /\ DirectCallsAreRightOutsideBlocks
  /\ ModulesAreRightOutsideFunctionsInBlocks

IInv == PathInv /\ UseInv /\ CodeInv

-----------------------------------------------------------------------------
(* Appending a scope keeps those already there.                            *)
LEMMA AppendKeeps ==
  ASSUME scopes \in Seq(Scopes), NEW s, scopes' = Append(scopes, s), s \in Scopes
  PROVE  /\ scopes' \in Seq(Scopes) /\ Pos' = Pos + 1 /\ scopes'[Pos + 1] = s
         /\ \A p \in 1..Pos : scopes'[p] = scopes[p]
  BY DEF Pos

(* The same for what is around an old position.                            *)
LEMMA AroundKept ==
  ASSUME scopes \in Seq(Scopes), NEW s \in Scopes, scopes' = Append(scopes, s),
         NEW p \in 1..Pos, NEW K
  PROVE  Around(p, K)' <=> Around(p, K)
<1>1. \A q \in 1..p : scopes'[q] = scopes[q]
  BY AppendKeeps DEF Pos
<1>. QED  BY <1>1 DEF Around

(* And for its environment.                                                *)
LEMMA EnvironmentKept ==
  ASSUME PathInv, NEW s \in Scopes, scopes' = Append(scopes, s), NEW p \in 1..Pos
  PROVE  Environment(p)'
<1>1. scopes'[p] = scopes[p] /\ Environment(p)
  BY AppendKeeps DEF PathInv
<1>2. scopes[p].base \in 1..Pos
  BY <1>1 DEF Environment, PathInv
<1>3. /\ Around(p, {"bare"})' <=> Around(p, {"bare"})
      /\ Around(scopes[p].base, {"block", "bare"})'
           <=> Around(scopes[p].base, {"block", "bare"})
  BY <1>1, <1>2, AroundKept DEF PathInv, Around
<1>. QED  BY <1>1, <1>3 DEF Environment

(* The environment of a scope that is entered, from the one around it.     *)
LEMMA Entered ==
  ASSUME PathInv, NEW s \in {BlockScope, BareScope, FunctionScope},
         scopes' = Append(scopes, s), NEW n, n = Pos + 1
  PROVE  s \in Scopes /\ Environment(n)'
<1> DEFINE h == scopes[Pos]
<1>1. h \in Scopes /\ Environment(Pos) /\ Pos \in Nat \ {0} /\ Here = h
  BY DEF PathInv, Pos, Here, Last
<1>2. s \in Scopes
  <2>1. h.frames \in Seq(Nat) /\ h.base \in Nat /\ h.nesting \in Nat
    BY <1>1 DEF Scopes
  <2>2. BlockScope \in Scopes
    BY <1>1, <2>1 DEF BlockScope, InnerScope, Scopes, Kinds
  <2>3. BareScope \in Scopes
    BY <1>1, <2>1 DEF BareScope, InnerScope, Scopes, Kinds
  <2>4. FunctionScope \in Scopes
    BY <1>1, <2>1 DEF FunctionScope, Scopes, Kinds
  <2> QED BY <2>2, <2>3, <2>4
<1>3. /\ scopes'[n] = s
      /\ \A q \in 1..Pos : scopes'[q] = scopes[q]
  BY <1>2, AppendKeeps DEF PathInv
<1>4. ASSUME NEW K, NEW p \in 1..Pos PROVE Around(p, K)' <=> Around(p, K)
  BY <1>2, AroundKept DEF PathInv
<1>5. ASSUME NEW K
      PROVE  Around(n, K)' <=> Around(Pos, K) \/ s.kind \in K
  <2>1. 1..n = (1..Pos) \cup {n}
    BY <1>1
  <2>2. (\E q \in 1..n : scopes'[q].kind \in K)
          <=> (\E q \in 1..Pos : scopes[q].kind \in K) \/ s.kind \in K
    BY <2>1, <1>3
  <2> QED BY <2>2 DEF Around
<1>6. CASE s \in {BlockScope, BareScope}
  <2>1. s.base = h.base /\ s.nesting = h.nesting /\ h.base \in 1..Pos
    BY <1>1, <1>6 DEF BlockScope, BareScope, InnerScope, Environment
  <2>2. s.kind \in {"block", "bare"}
    BY <1>6 DEF BlockScope, BareScope, InnerScope
  <2>3. s.kind # "bare" => Len(s.frames) = Len(h.frames) + 1
    BY <1>1, <1>6 DEF BlockScope, BareScope, InnerScope, Scopes
  <2>4. ~Around(n, {"bare"})' => ~Around(Pos, {"bare"}) /\ s.kind # "bare"
    BY <1>5
  <2>5. ~Around(Pos, {"bare"}) => Len(h.frames) = Pos - h.base
    BY <1>1 DEF Environment
  <2>6. ASSUME ~Around(n, {"bare"})' PROVE Len(s.frames) = n - s.base
    <3>1. Len(s.frames) = Len(h.frames) + 1 /\ Len(h.frames) = Pos - h.base
      BY <2>3, <2>4, <2>5, <2>6
    <3>2. h.base \in Nat /\ s.base = h.base /\ Pos \in Nat /\ n = Pos + 1
      BY <2>1, <1>1
    <3> HIDE DEF h
    <3> QED BY <3>1, <3>2
  <2>7. PICK b \in 1..Pos : b = s.base /\ b = h.base
    BY <2>1
  <2>8. s.base \in 1..n
    BY <2>1, <1>1
  <2>9. ASSUME ~Around(b, {"block", "bare"})' PROVE s.nesting = b - 1
    <3>1. ~Around(b, {"block", "bare"})
      BY <1>4, <2>9
    <3>2. h.nesting = h.base - 1
      BY <2>7, <3>1, <1>1 DEF Environment
    <3> QED BY <2>1, <2>7, <3>2
  <2> QED BY <1>2, <1>3, <2>2, <2>6, <2>7, <2>8, <2>9 DEF Environment
<1>7. CASE s = FunctionScope
  <2>1. s.base = n /\ s.nesting = h.nesting + 1 /\ Len(s.frames) = 0
    BY <1>1, <1>7 DEF FunctionScope
  <2>2. ASSUME ~Around(n, {"block", "bare"})'
        PROVE  s.nesting = n - 1
    <3>1. ~Around(Pos, {"block", "bare"})
      BY <2>2, <1>5
    <3>2. Pos \in 1..Pos /\ h.kind \in Kinds
      BY <1>1 DEF Scopes
    <3>3. h.kind \in {"top", "fn"}
      BY <3>1, <3>2 DEF Around, Kinds
    <3>4. h.base = Pos /\ h.nesting = Pos - 1
      BY <3>1, <3>3, <1>1 DEF Environment
    <3> QED BY <2>1, <3>4, <1>1
  <2>3. n \in 1..n /\ n - n = 0
    BY <1>1
  <2> QED BY <1>2, <1>3, <2>1, <2>2, <2>3 DEF Environment
<1> QED BY <1>6, <1>7

-----------------------------------------------------------------------------
(* The tests themselves, where the counts agree: top_level_func ...        *)
LEMMA DirectCallIsRight ==
  ASSUME PathInv, UseInv, NEW i \in 1..Len(refs), refs[i].form = "call",
         ~Around(refs[i].pos, {"block", "bare"})
  PROVE  /\ NamesTopLevelFunction(refs[i]) => ToTopLevelFunction(refs[i])
         /\ ToTopLevelFunction(refs[i]) /\ ~refs[i].quoted
              => NamesTopLevelFunction(refs[i])
<1> DEFINE r == refs[i]
           e == scopes[r.pos]
<1>1. r \in Refs /\ Met(r) /\ r.pos \in 1..Pos /\ Environment(r.pos)
  BY DEF UseInv, PathInv, Met
<1>2. e.kind \in {"top", "fn"}
  <2>1. e \in Scopes /\ r.pos \in 1..r.pos
    BY <1>1 DEF PathInv, Pos
  <2>2. e.kind \in Kinds
    BY <2>1 DEF Scopes
  <2>3. e.kind \notin {"block", "bare"}
    BY <2>1 DEF Around
  <2> QED BY <2>2, <2>3 DEF Kinds
<1>3. e.nesting = r.pos - 1
  BY <1>1, <1>2 DEF Environment
<1>4. Depth(r) = DepthToTopLevel(r.pos) <=> r.to = 1
  BY <1>1, <1>3 DEF Depth, DepthToTopLevel, Met, Refs, PathInv
<1>5. ToTopLevelFunction(r) /\ ~r.quoted => r.ty \in InstanceTypes(r.slot)
  BY <1>1 DEF Met, ToTopLevelFunction, InstanceTypes
<1> QED BY <1>4, <1>5 DEF NamesTopLevelFunction, ToTopLevelFunction

(* ... and distance_to_root.                                               *)
LEMMA ModuleIsRight ==
  ASSUME PathInv, UseInv, NEW i \in 1..Len(refs),
         ~Around(scopes[refs[i].pos].base, {"block"}), ~Around(refs[i].pos, {"bare"})
  PROVE  NamesModule(refs[i]) <=> ToModule(refs[i])
<1> DEFINE r == refs[i]
           e == scopes[r.pos]
<1>1. r \in Refs /\ Met(r) /\ r.pos \in 1..Pos /\ Environment(r.pos)
  BY DEF UseInv, PathInv, Met
<1>2. e.base \in 1..r.pos /\ Len(e.frames) = r.pos - e.base
  BY <1>1 DEF Environment
<1>3. ~Around(e.base, {"block", "bare"})
  BY <1>1, <1>2 DEF Around, Refs
<1>4. e.nesting = e.base - 1
  BY <1>1, <1>3 DEF Environment
<1>5. Depth(r) = DistanceToRoot(r.pos) <=> r.to = 0
  <2>1. r.pos \in Nat /\ r.to \in Nat
    BY <1>1 DEF Refs
  <2>2. DistanceToRoot(r.pos) = r.pos
    BY <1>2, <1>4, <2>1 DEF DistanceToRoot
  <2> QED BY <2>1, <2>2 DEF Depth
<1> QED BY <1>5 DEF NamesModule, ToModule

-----------------------------------------------------------------------------
(* The invariant holds at the start, and every step keeps it.              *)
LEMMA InitCorrect == Init => IInv
<1> SUFFICES ASSUME Init PROVE IInv
  OBVIOUS
<1>1. Main \in Scopes /\ Len(scopes) = 1 /\ scopes[1] = Main
  BY DEF Init, Main, Scopes, Kinds
<1>2. Environment(1)
  BY <1>1 DEF Environment, Main
<1>3. PathInv
  <2>1. scopes \in Seq(Scopes)
    BY <1>1 DEF Init
  <2>2. Pos = 1 /\ \A p \in 1..Pos : p = 1
    BY <1>1 DEF Pos
  <2>3. \A p \in 1..Pos : Environment(p)
    BY <1>2, <2>2
  <2>4. top \in Tops /\ quoted \in BOOLEAN
    BY DEF Init
  <2> QED BY <2>1, <2>2, <2>3, <2>4 DEF PathInv
<1>4. UseInv
  BY DEF Init, UseInv
<1>5. Done = {}
  BY DEF Init, Done
<1>6. CodeInv
  <2>1. compiled \in Seq({})
    BY DEF Init
  <2> QED BY <2>1, <1>5 DEF Init, CodeInv, DirectCallsAreRightOutsideBlocks,
                            ModulesAreRightOutsideFunctionsInBlocks
<1> QED BY <1>3, <1>4, <1>6 DEF IInv

(* Nothing is compiled during the walk, so nothing can be wrong.           *)
LEMMA WalkKeepsCode ==
  ASSUME CodeInv, Walking, phase' \in {"walk", "compile", "rejected"}
  PROVE  CodeInv'
<1>1. compiled' = <<>>
  BY DEF CodeInv, Walking
<1>2. Done' = {} /\ compiled' \in Seq({})
  BY <1>1 DEF Done
<1> QED BY <1>1, <1>2 DEF CodeInv, DirectCallsAreRightOutsideBlocks,
                          ModulesAreRightOutsideFunctionsInBlocks

(* Entering a scope: its environment is right, the others stay.            *)
LEMMA EnterKeeps ==
  ASSUME IInv, NEW s \in {BlockScope, BareScope, FunctionScope}, Walking,
         scopes' = Append(scopes, s), UNCHANGED <<quoted, refs, uses, caps, phase>>
  PROVE  IInv'
<1>a. PICK n : n = Pos + 1
  OBVIOUS
<1>1. s \in Scopes /\ Environment(n)'
  BY <1>a, Entered DEF IInv
<1>2. scopes' \in Seq(Scopes) /\ Pos' = n
  BY <1>a, <1>1, AppendKeeps DEF IInv, PathInv
<1>3. \A p \in 1..Pos : Environment(p)'
  BY <1>1, EnvironmentKept DEF IInv
<1>4. PathInv'
  <2>1. n \in Nat \ {0} /\ 1..n = (1..Pos) \cup {n}
    BY <1>a DEF IInv, PathInv
  <2>2. \A p \in 1..n : Environment(p)'
    BY <1>1, <1>3, <2>1
  <2> QED BY <1>2, <2>1, <2>2 DEF PathInv, IInv, Walking
<1>5. UseInv'
  <2>1. \A i \in 1..Len(refs) : Met(refs[i])'
    BY <1>a, <1>2 DEF IInv, UseInv, Met, PathInv, Refs
  <2> QED BY <2>1 DEF IInv, UseInv
<1>6. CodeInv'
  BY WalkKeepsCode DEF IInv, CodeInv, Walking
<1> QED BY <1>4, <1>5, <1>6 DEF IInv

(* Meeting a variable: what collect_uses_in records is what Met asks for.  *)
LEMMA ReferKeeps == IInv /\ Refer => IInv'
<1> SUFFICES ASSUME IInv, Refer PROVE IInv'
  OBVIOUS
<1>1. PICK r \in References :
        MaySayRef(r) /\ refs' = Append(refs, r) /\ Collect(r)
  BY DEF Refer
<1>2. r \in Refs /\ r.pos = Pos /\ r.to \in 0..Pos
  BY <1>1 DEF IInv, PathInv, References, Refs
<1>3. PathInv'
  BY DEF IInv, PathInv, Refer, Walking, Pos, Environment, Around
<1>4. /\ uses' \in [Slots -> SUBSET (Types \cup {Module})]
      /\ \A s \in Slots : uses[s] \subseteq uses'[s]
      /\ r.to = 1 /\ ~r.quoted => r.ty \in uses'[r.slot]
  BY <1>1, <1>2 DEF IInv, PathInv, UseInv, Collect, Depth, Refs
<1>5. UseInv'
  <2>1. /\ refs' \in Seq(Refs) /\ Len(refs') = Len(refs) + 1
        /\ refs'[Len(refs) + 1] = r
        /\ \A i \in 1..Len(refs) : refs'[i] = refs[i]
    BY <1>1, <1>2 DEF IInv, UseInv
  <2>a. Pos' = Pos /\ Pos \in Nat \ {0}
    BY DEF Refer, Pos, IInv, PathInv
  <2>2. Met(r)'
    BY <1>2, <1>4, <2>a DEF Met
  <2>3. ASSUME NEW i \in 1..Len(refs) PROVE Met(refs[i])'
    <3>1. PICK m \in Refs : m = refs[i]
      BY DEF IInv, UseInv
    <3>2. Met(m)
      BY <3>1 DEF IInv, UseInv
    <3>3. Met(m)'
      BY <3>2, <2>a, <1>4 DEF Met, Refs
    <3>4. refs'[i] = m
      BY <2>1, <3>1
    <3> QED BY <3>3, <3>4
  <2>4. \A i \in 1..Len(refs') : i \in 1..Len(refs) \/ i = Len(refs) + 1
    BY <2>1 DEF IInv, UseInv
  <2> QED BY <1>4, <2>1, <2>2, <2>3, <2>4 DEF UseInv
<1>6. CodeInv'
  BY WalkKeepsCode DEF IInv, Refer, Walking
<1> QED BY <1>3, <1>5, <1>6 DEF IInv

(* Compiling a variable adds code that meets both properties; the path and *)
(* the variables stay as they are.                                         *)
LEMMA CompileKeeps == IInv /\ CompileReference => IInv'
<1> SUFFICES ASSUME IInv, CompileReference PROVE IInv'
  OBVIOUS
<1>1. UNCHANGED <<top, scopes, quoted, refs, uses, caps>> /\ phase = "compile"
  BY DEF CompileReference
<1>2. PathInv' /\ UseInv'
  BY <1>1 DEF IInv, PathInv, UseInv, Pos, Environment, Around, Met
<1>3. PICK S : compiled \in Seq(S)
  BY DEF IInv, CodeInv
<1>4. PICK i : i \in 1..Len(refs) /\ compiled' = Append(compiled, Code(refs[i]))
  BY <1>3 DEF CompileReference, IInv, UseInv
<1> DEFINE c == Code(refs[i])
<1>5. compiled' \in Seq(S \cup {c}) /\ Done' = Done \cup {c}
  <2>1. compiled' \in Seq(S \cup {c})
    BY <1>3, <1>4
  <2>2. /\ DOMAIN compiled' = DOMAIN compiled \cup {Len(compiled) + 1}
        /\ compiled'[Len(compiled) + 1] = c
        /\ \A k \in DOMAIN compiled : compiled'[k] = compiled[k]
    BY <1>3, <1>4
  <2> QED BY <2>1, <2>2 DEF Done
<1>6. phase' # "walk"
  BY <1>1 DEF CompileReference
<1>7. /\ c.r = refs[i]
      /\ c.how = "stdlib" <=> refs[i].form = "member" /\ NamesModule(refs[i])
      /\ c.how # "refused" /\ refs[i].form = "call" =>
           (c.how = "direct" <=> NamesTopLevelFunction(refs[i]))
  BY DEF Code
<1>8. DirectCallsAreRightOutsideBlocks'
  <2>1. ASSUME ~Around(c.r.pos, {"block", "bare"}), c.r.form = "call", c.how # "refused"
        PROVE  /\ c.how = "direct" => ToTopLevelFunction(c.r)
               /\ ToTopLevelFunction(c.r) /\ ~c.r.quoted => c.how = "direct"
    BY <1>4, <1>7, <2>1, DirectCallIsRight DEF IInv
  <2>2. DirectCallsAreRightOutsideBlocks
    BY DEF IInv, CodeInv
  <2> QED BY <1>1, <1>5, <2>1, <2>2
          DEF DirectCallsAreRightOutsideBlocks, Around, ToTopLevelFunction
<1>9. ModulesAreRightOutsideFunctionsInBlocks'
  <2>1. ASSUME ~Around(scopes[c.r.pos].base, {"block"}), ~Around(c.r.pos, {"bare"}),
               c.r.form = "member"
        PROVE  c.how = "stdlib" <=> ToModule(c.r)
    BY <1>4, <1>7, <2>1, ModuleIsRight DEF IInv
  <2>2. ModulesAreRightOutsideFunctionsInBlocks
    BY DEF IInv, CodeInv
  <2> QED BY <1>1, <1>5, <2>1, <2>2
          DEF ModulesAreRightOutsideFunctionsInBlocks, Around, ToModule
<1> QED BY <1>2, <1>5, <1>6, <1>8, <1>9 DEF IInv, CodeInv

(* Every action of the walk and of code generation.                        *)
LEMMA StepCorrect == IInv /\ [Next]_vars => IInv'
<1> SUFFICES ASSUME IInv, [Next]_vars PROVE IInv'
  OBVIOUS
<1>1. CASE EnterBlock
  <2>1. PICK s \in {BlockScope, BareScope} : scopes' = Append(scopes, s)
    BY <1>1 DEF EnterBlock
  <2> QED BY <1>1, <2>1, EnterKeeps DEF EnterBlock
<1>2. CASE EnterFunction
  <2>1. CASE quoted
    <3>1. UNCHANGED <<top, scopes, quoted, refs, uses>> /\ phase' = "rejected"
      BY <1>2, <2>1 DEF EnterFunction, Walking
    <3>2. PathInv' /\ UseInv'
      BY <3>1 DEF IInv, PathInv, UseInv, Pos, Environment, Around, Met
    <3> QED BY <1>2, <3>1, <3>2, WalkKeepsCode DEF IInv, EnterFunction
  <2>2. CASE ~quoted
    BY <1>2, <2>2, EnterKeeps DEF EnterFunction
  <2> QED BY <2>1, <2>2
<1>3. CASE EnterInterpolation \/ EndWalk
  <2>1. /\ UNCHANGED <<top, scopes, refs, uses>>
        /\ phase' \in {"walk", "compile", "rejected"} /\ quoted' \in BOOLEAN /\ Walking
    BY <1>3 DEF EnterInterpolation, EndWalk, Walking, IInv, PathInv
  <2>2. PathInv' /\ UseInv'
    BY <2>1 DEF IInv, PathInv, UseInv, Pos, Environment, Around, Met
  <2> QED BY <2>1, <2>2, WalkKeepsCode DEF IInv
<1>4. CASE Refer
  BY <1>4, ReferKeeps
<1>5. CASE CompileReference
  BY <1>5, CompileKeeps
<1>6. CASE UNCHANGED vars
  BY <1>6 DEF vars, IInv, PathInv, UseInv, CodeInv, Pos, Environment, Around, Met,
              Done, DirectCallsAreRightOutsideBlocks, ToTopLevelFunction,
              ModulesAreRightOutsideFunctionsInBlocks, ToModule
<1> QED BY <1>1, <1>2, <1>3, <1>4, <1>5, <1>6 DEF Next

(* The counts of every scope on the path, and the code generated so far,   *)
(* are as IInv says in every state (jit.rs:1191, 1432, 2241).              *)
THEOREM InvariantCorrect == Spec => []IInv
<1> QED BY InitCorrect, StepCorrect, PTL DEF Spec

(* Outside blocks, a call is compiled as the direct call of a top-level    *)
(* function exactly if it names one (jit.rs:3656).                         *)
THEOREM DirectCallsCorrect == Spec => []DirectCallsAreRightOutsideBlocks
<1>1. IInv => DirectCallsAreRightOutsideBlocks
  BY DEF IInv, CodeInv
<1> QED BY <1>1, InvariantCorrect, PTL

(* In a function outside blocks, a member call is compiled as one of the   *)
(* library exactly if the resolver found a module (jit.rs:3044).           *)
THEOREM ModulesCorrect == Spec => []ModulesAreRightOutsideFunctionsInBlocks
<1>1. IInv => ModulesAreRightOutsideFunctionsInBlocks
  BY DEF IInv, CodeInv
<1> QED BY <1>1, InvariantCorrect, PTL

-----------------------------------------------------------------------------
(* What load_variable finds.  load is recursive along the closures a       *)
(* captured value is copied through: a claim about it is proved for the    *)
(* innermost position at which it could fail.                              *)

(* A set of numbers that is not empty has a least one.                     *)
LEMMA Least ==
  ASSUME NEW S \in SUBSET Nat, S # {}
  PROVE  \E m \in S : \A k \in S : m <= k
<1>1. PICK m \in S : \A k \in S : ~ (<<k, m>> \in OpToRel(<, Nat))
  BY NatLessThanWellFounded, WFMin
<1>2. \A k \in S : ~ (k < m)
  BY <1>1 DEF OpToRel
<1>3. QED
  BY <1>2

-----------------------------------------------------------------------------
(* load is the function its definition describes.                          *)
LoadTypes == Types \cup {Module}
CapturesTyped ==
  /\ DOMAIN caps = 1..MaxScopes /\ Pos <= MaxScopes
  /\ \A b \in 1..MaxScopes : \A k \in DOMAIN caps[b] : caps[b][k] \in LoadTypes

PlacesTo(n) == (1..n) \X (0..Pos) \X Slots \X LoadTypes
IsLoad(f, n) ==
  f = [at \in PlacesTo(n) |-> Find(f, at[1], at[2], at[3], at[4])]

(* It reads what it finds at positions further out only.                   *)
Agree(f, g, p, slot) ==
  \A q \in 1..(p - 1) : \A e \in 0..Pos : \A u \in LoadTypes :
    f[<<q, e, slot, u>>] = g[<<q, e, slot, u>>]

LEMMA FindLooksOutward ==
  ASSUME PathInv, CapturesTyped, NEW f, NEW g, NEW p \in 1..Pos, NEW d \in 0..Pos,
         NEW slot \in Slots, NEW ty \in LoadTypes, Agree(f, g, p, slot)
  PROVE  Find(f, p, d, slot, ty) = Find(g, p, d, slot, ty)
<1> DEFINE env  == scopes[p]
           n    == Len(env.frames)
           over == d - n
<1>1. /\ p \in Nat /\ Pos \in Nat /\ env.base \in 1..p /\ env \in Scopes /\ Environment(p)
      /\ env.base \in 1..MaxScopes
  <2>1. p \in Nat /\ Pos \in Nat /\ env \in Scopes /\ Environment(p)
    BY DEF PathInv, Pos
  <2>2. env.base \in 1..p /\ Pos <= MaxScopes /\ MaxScopes \in Nat
    BY <2>1, JitScopeAssumption DEF Environment, CapturesTyped
  <2> HIDE DEF env
  <2> QED BY <2>1, <2>2
<1>2. n \in Nat
  BY <1>1 DEF Scopes
<1> HIDE DEF env, n
<1>3. ASSUME ~(d < n), ~(d >= n /\ env.base = 1), ~(d = n /\ env.base # 1),
             <<over, slot>> \in DOMAIN caps[env.base]
      PROVE  f[<<env.base - 1, over - 1, slot, caps[env.base][<<over, slot>>]>>]
               = g[<<env.base - 1, over - 1, slot, caps[env.base][<<over, slot>>]>>]
  <2>1. env.base - 1 \in 1..(p - 1) /\ over - 1 \in 0..Pos
    BY <1>1, <1>2, <1>3
  <2>2. caps[env.base][<<over, slot>>] \in LoadTypes
    BY <1>1, <1>3 DEF CapturesTyped
  <2> QED BY <2>1, <2>2 DEF Agree
<1> QED BY <1>3 DEF Find, env, n

LEMMA LoadExists ==
  ASSUME PathInv, CapturesTyped, NEW n \in 0..Pos
  PROVE  \E f : IsLoad(f, n)
<1> DEFINE S == {m \in 0..Pos : ~\E f : IsLoad(f, m)}
<1> SUFFICES ASSUME S # {} PROVE FALSE
  OBVIOUS
<1>0. Pos \in Nat
  BY DEF PathInv
<1>1. PICK m \in S : \A k \in S : m <= k
  <2>1. S \in SUBSET Nat
    BY <1>0
  <2> QED BY <2>1, Least
<1>2. m \in 0..Pos /\ ~\E f : IsLoad(f, m)
  BY <1>1
<1>3. m # 0
  <2>1. 1..0 = {}
    OBVIOUS
  <2> DEFINE none == [at \in PlacesTo(0) |-> Missing]
  <2>2. PlacesTo(0) = {}
    BY <2>1 DEF PlacesTo
  <2>3. IsLoad(none, 0)
    BY <2>2 DEF IsLoad
  <2> QED BY <1>2, <2>3
<1>4. PICK f : IsLoad(f, m - 1)
  <2>1. m - 1 \in 0..Pos /\ ~(m <= m - 1)
    BY <1>0, <1>2, <1>3
  <2>2. m - 1 \notin S
    BY <1>1, <2>1
  <2> QED BY <2>1, <2>2
<1> DEFINE g == [at \in PlacesTo(m) |->
                   IF at[1] = m THEN Find(f, at[1], at[2], at[3], at[4]) ELSE f[at]]
<1>5. \A p \in 1..m : p \in 1..Pos /\ (p = m \/ p \in 1..(m - 1))
        /\ \A q \in 1..(p - 1) : q \in 1..m /\ q # m
  BY <1>0, <1>2
<1>6. ASSUME NEW p \in 1..m, NEW d \in 0..Pos, NEW slot \in Slots, NEW ty \in LoadTypes
      PROVE  g[<<p, d, slot, ty>>] = Find(g, p, d, slot, ty)
  <2>1. Agree(f, g, p, slot)
    BY <1>5 DEF PlacesTo, Agree
  <2>2. g[<<p, d, slot, ty>>]
          = IF p = m THEN Find(f, p, d, slot, ty) ELSE f[<<p, d, slot, ty>>]
    BY DEF PlacesTo
  <2> HIDE DEF g
  <2>3. Find(f, p, d, slot, ty) = Find(g, p, d, slot, ty)
    BY <1>5, <2>1, FindLooksOutward
  <2>4. p # m => f[<<p, d, slot, ty>>] = Find(f, p, d, slot, ty)
    BY <1>4, <1>5 DEF IsLoad, PlacesTo
  <2> QED BY <2>2, <2>3, <2>4
<1>7. IsLoad(g, m)
  <2>1. g = [at \in PlacesTo(m) |-> g[at]]
    OBVIOUS
  <2> HIDE DEF g
  <2>2. \A at \in PlacesTo(m) : g[at] = Find(g, at[1], at[2], at[3], at[4])
    BY <1>6 DEF PlacesTo
  <2> QED BY <2>1, <2>2 DEF IsLoad
<1> QED BY <1>2, <1>7

LEMMA LoadIs ==
  ASSUME PathInv, CapturesTyped
  PROVE  \A p \in 1..Pos : \A d \in 0..Pos : \A slot \in Slots : \A ty \in LoadTypes :
           load[<<p, d, slot, ty>>] = Find(load, p, d, slot, ty)
<1>1. \E f : IsLoad(f, Pos)
  BY LoadExists DEF PathInv
<1>2. load = CHOOSE f : IsLoad(f, Pos)
  BY DEF load, IsLoad, Places, PlacesTo, LoadTypes
<1>3. IsLoad(load, Pos)
  BY <1>1, <1>2
<1>4. load = [at \in PlacesTo(Pos) |-> Find(load, at[1], at[2], at[3], at[4])]
  BY <1>3 DEF IsLoad
<1> QED BY <1>4 DEF PlacesTo

-----------------------------------------------------------------------------
(* The block frames of an environment are the blocks of its function, and  *)
(* a function stands where the environment says.                           *)
Frames(p) ==
  /\ ToSet(scopes[p].frames) = {q \in (scopes[p].base + 1)..p : scopes[q].kind = "block"}
  /\ Len(scopes[p].frames) <= p - scopes[p].base
  /\ ~Around(p, {"bare"}) =>
       \A m \in 1..Len(scopes[p].frames) : scopes[p].frames[m] = scopes[p].base + m
  /\ scopes[p].base # 1 => scopes[scopes[p].base].kind = "fn"
  /\ scopes[p].nesting <= p - 1

(* A variable of the top level has one of its types, and the ${ } that the *)
(* path has entered stay around the variables that follow.                 *)
RefFits(i) ==
  /\ refs[i].to = 0 <=> refs[i].ty = Module
  /\ refs[i].to = 1 => refs[i].ty \in top[refs[i].slot].at
  /\ refs[i].quoted => quoted
  /\ \A j \in 1..i : refs[j].quoted => refs[i].quoted

(* A captured variable is known by the distance from the function to its   *)
(* binding, whichever of its occurrences is looked at; its type is that of *)
(* the first.                                                              *)
Key(p, r) == <<p - r.to, r.slot>>
Met1(p, k) == \E j \in 1..Len(refs) : Captures(p, refs[j]) /\ k = Key(p, refs[j])
FirstType(p, i) ==
  \E j \in 1..i :
    /\ Captures(p, refs[j]) /\ Key(p, refs[j]) = Key(p, refs[i])
    /\ Key(p, refs[i]) \in DOMAIN caps[p] /\ caps[p][Key(p, refs[i])] = refs[j].ty

CapturesOK ==
  /\ CapturesTyped
  /\ \A p \in 1..MaxScopes : \A k \in DOMAIN caps[p] : Met1(p, k)
  /\ \A p \in 1..MaxScopes : \A i \in 1..Len(refs) : Captures(p, refs[i]) => FirstType(p, i)

LoadInv ==
  /\ PathInv /\ UseInv
  /\ \A p \in 1..Pos : Frames(p)
  /\ \A i \in 1..Len(refs) : RefFits(i)
  /\ CapturesOK

(* One step of load at a position of the path, whose environment is that   *)
(* of the function at b and has n block frames.                            *)
Peeled(p, d, slot, ty, b, n) ==
  /\ b = scopes[p].base /\ n = Len(scopes[p].frames)
  /\ b # 1 => scopes[b].kind = "fn"
  /\ ~Around(p, {"bare"}) => n = p - b
  /\ \/ /\ d < n /\ load[<<p, d, slot, ty>>] = [to |-> scopes[p].frames[n - d], ty |-> ty]
        /\ scopes[p].frames[n - d] \in (b + 1)..p
        /\ ~Around(p, {"bare"}) => scopes[p].frames[n - d] = p - d
     \/ /\ d = n /\ b = 1 /\ ty \in InstanceTypes(slot)
        /\ load[<<p, d, slot, ty>>] = [to |-> 1, ty |-> ty]
     \/ d = n /\ b # 1 /\ load[<<p, d, slot, ty>>] = [to |-> b, ty |-> ty]
     \/ /\ d > n /\ b # 1 /\ <<d - n, slot>> \in DOMAIN caps[b]
        /\ load[<<p, d, slot, ty>>]
             = load[<<b - 1, d - n - 1, slot, caps[b][<<d - n, slot>>]>>]
        /\ caps[b][<<d - n, slot>>] \in LoadTypes
     \/ /\ load[<<p, d, slot, ty>>] = Missing
        /\ b = 1 => d > n \/ (d = n /\ ty \notin InstanceTypes(slot))
        /\ b # 1 => d > n /\ <<d - n, slot>> \notin DOMAIN caps[b]

LEMMA Peel ==
  ASSUME LoadInv, NEW p \in 1..Pos, NEW d \in 0..Pos, NEW slot \in Slots, NEW ty \in LoadTypes
  PROVE  \E b \in 1..p : \E n \in 0..(p - b) : Peeled(p, d, slot, ty, b, n)
<1> DEFINE env == scopes[p]
           b   == env.base
           n   == Len(env.frames)
<1>1. /\ p \in Nat /\ Pos \in Nat /\ env \in Scopes /\ Environment(p) /\ Frames(p)
      /\ CapturesTyped
  BY DEF LoadInv, PathInv, Pos, CapturesOK
<1>2. /\ b \in 1..p /\ n \in Nat /\ n <= p - b /\ (b # 1 => scopes[b].kind = "fn")
      /\ ~Around(p, {"bare"}) => n = p - b
      /\ b \in 1..MaxScopes
  <2>1. b \in 1..p /\ n \in Nat /\ n <= p - b /\ (b # 1 => scopes[b].kind = "fn")
        /\ (~Around(p, {"bare"}) => n = p - b)
    BY <1>1 DEF Environment, Frames, Scopes
  <2>2. Pos <= MaxScopes /\ MaxScopes \in Nat
    BY <1>1, JitScopeAssumption DEF CapturesTyped
  <2> HIDE DEF b, n
  <2> QED BY <1>1, <2>1, <2>2
<1>3. \A m \in 1..n : env.frames[m] \in (b + 1)..p
  <2>1. \A m \in 1..n : env.frames[m] \in ToSet(env.frames)
    BY <1>1 DEF ToSet, Scopes
  <2> QED BY <1>1, <2>1 DEF Frames
<1>4. ~Around(p, {"bare"}) => \A m \in 1..n : env.frames[m] = b + m
  BY <1>1 DEF Frames
<1>5. load[<<p, d, slot, ty>>] = Find(load, p, d, slot, ty)
  BY <1>1, LoadIs DEF LoadInv
<1>6. /\ d < n => load[<<p, d, slot, ty>>] = [to |-> env.frames[n - d], ty |-> ty]
      /\ d = n /\ b = 1 /\ ty \in InstanceTypes(slot) =>
           load[<<p, d, slot, ty>>] = [to |-> 1, ty |-> ty]
      /\ d = n /\ b # 1 => load[<<p, d, slot, ty>>] = [to |-> b, ty |-> ty]
      /\ d > n /\ b # 1 /\ <<d - n, slot>> \in DOMAIN caps[b] =>
           load[<<p, d, slot, ty>>]
             = load[<<b - 1, d - n - 1, slot, caps[b][<<d - n, slot>>]>>]
      /\ d >= n /\ b = 1 /\ (d # n \/ ty \notin InstanceTypes(slot)) =>
           load[<<p, d, slot, ty>>] = Missing
      /\ d > n /\ b # 1 /\ <<d - n, slot>> \notin DOMAIN caps[b] =>
           load[<<p, d, slot, ty>>] = Missing
  <2>1. b \in Int /\ n \in Int /\ d \in Int
    BY <1>2
  <2>2. load[<<p, d, slot, ty>>]
          = CASE d < n -> [to |-> env.frames[n - d], ty |-> ty]
              [] d >= n /\ b = 1 -> IF d = n /\ ty \in InstanceTypes(slot)
                                   THEN [to |-> 1, ty |-> ty] ELSE Missing
              [] d = n /\ b # 1 -> [to |-> b, ty |-> ty]
              [] OTHER -> IF <<d - n, slot>> \in DOMAIN caps[b]
                          THEN load[<<b - 1, d - n - 1, slot, caps[b][<<d - n, slot>>]>>]
                          ELSE Missing
    BY <1>5 DEF Find
  <2> HIDE DEF b, n
  <2> QED BY <2>1, <2>2
<1>7. <<d - n, slot>> \in DOMAIN caps[b] => caps[b][<<d - n, slot>>] \in LoadTypes
  BY <1>1, <1>2 DEF CapturesTyped
<1>8. d < n => n - d \in 1..n /\ (n = p - b => b + (n - d) = p - d)
  <2>1. n \in Nat /\ d \in Nat /\ b \in Nat /\ p \in Nat
    BY <1>1, <1>2
  <2> HIDE DEF b, n
  <2> QED BY <2>1
<1> HIDE DEF b, n
<1>9. d < n \/ d = n \/ d > n
  BY <1>2
<1>10. n \in 0..(p - b)
  BY <1>1, <1>2
<1>11. CASE d < n
  <2>1. env.frames[n - d] \in (b + 1)..p /\ (~Around(p, {"bare"}) => env.frames[n - d] = p - d)
    BY <1>2, <1>3, <1>4, <1>8, <1>11
  <2> QED BY <1>2, <1>6, <1>10, <1>11, <2>1 DEF b, n, Peeled
<1>12. CASE ~(d < n)
  <2>1. \/ d = n /\ b = 1 /\ ty \in InstanceTypes(slot)
             /\ load[<<p, d, slot, ty>>] = [to |-> 1, ty |-> ty]
        \/ d = n /\ b # 1 /\ load[<<p, d, slot, ty>>] = [to |-> b, ty |-> ty]
        \/ /\ d > n /\ b # 1 /\ <<d - n, slot>> \in DOMAIN caps[b]
           /\ load[<<p, d, slot, ty>>]
                = load[<<b - 1, d - n - 1, slot, caps[b][<<d - n, slot>>]>>]
           /\ caps[b][<<d - n, slot>>] \in LoadTypes
        \/ /\ load[<<p, d, slot, ty>>] = Missing
           /\ b = 1 => d > n \/ (d = n /\ ty \notin InstanceTypes(slot))
           /\ b # 1 => d > n /\ <<d - n, slot>> \notin DOMAIN caps[b]
    <3>1. CASE b = 1
      BY <1>2, <1>6, <1>9, <1>12, <3>1
    <3>2. CASE b # 1
      BY <1>2, <1>6, <1>7, <1>9, <1>12, <3>2
    <3> QED BY <3>1, <3>2
  <2> QED BY <1>2, <1>10, <2>1 DEF b, n, Peeled
<1> QED BY <1>11, <1>12

(* Whatever is found is at the distance that was asked for.                *)
LEMMA FoundAtItsDepth ==
  ASSUME LoadInv
  PROVE  \A p \in 1..Pos : ~Around(p, {"bare"}) =>
           \A d \in 0..Pos : \A slot \in Slots : \A ty \in LoadTypes :
             load[<<p, d, slot, ty>>] = Missing \/ load[<<p, d, slot, ty>>].to = p - d
<1> DEFINE Right(p) == \A d \in 0..Pos : \A slot \in Slots : \A ty \in LoadTypes :
                         load[<<p, d, slot, ty>>] = Missing \/ load[<<p, d, slot, ty>>].to = p - d
           S == {p \in 1..Pos : ~Around(p, {"bare"}) /\ ~Right(p)}
<1>1. SUFFICES ASSUME S # {} PROVE FALSE
  OBVIOUS
<1>2. Pos \in Nat
  BY DEF LoadInv, PathInv
<1>3. PICK p \in S : \A q \in S : p <= q
  <2>1. S \in SUBSET Nat
    BY <1>2
  <2> HIDE DEF S
  <2> QED BY <1>1, <2>1, Least
<1>4. p \in 1..Pos /\ ~Around(p, {"bare"}) /\ ~Right(p)
  BY <1>3
<1>5. \A q \in 1..(p - 1) : Right(q) /\ q \in 1..Pos
  <2> SUFFICES ASSUME NEW q \in 1..(p - 1) PROVE Right(q) /\ q \in 1..Pos
    OBVIOUS
  <2>1. q \in 1..Pos /\ ~(p <= q)
    BY <1>2, <1>4
  <2>2. ~Around(q, {"bare"})
    BY <1>2, <1>4 DEF Around
  <2> QED BY <1>3, <2>1, <2>2
<1> HIDE DEF S
<1>6. PICK d \in 0..Pos, slot \in Slots, ty \in LoadTypes :
        load[<<p, d, slot, ty>>] # Missing /\ load[<<p, d, slot, ty>>].to # p - d
  BY <1>4
<1> HIDE DEF Right
<1> DEFINE found == load[<<p, d, slot, ty>>]
<1>7. PICK b \in 1..p : \E n \in 0..(p - b) : Peeled(p, d, slot, ty, b, n)
  BY <1>4, Peel
<1>12. PICK n \in 0..(p - b) : Peeled(p, d, slot, ty, b, n)
  BY <1>7
<1>13. ~Around(p, {"bare"}) /\ found # Missing
  BY <1>4, <1>6
<1>8. /\ n = p - b
      /\ \/ d < n /\ found.to = p - d
         \/ d = n /\ found.to = b
         \/ d = n /\ b = 1 /\ found.to = 1
         \/ /\ d > n /\ b # 1 /\ caps[b][<<d - n, slot>>] \in LoadTypes
            /\ found = load[<<b - 1, d - n - 1, slot, caps[b][<<d - n, slot>>]>>]
  <2>1. found = load[<<p, d, slot, ty>>]
    OBVIOUS
  <2> HIDE DEF found
  <2>2. n = p - b
    BY <1>12, <1>13 DEF Peeled
  <2>3. \/ d < n /\ found.to = p - d
        \/ d = n /\ found.to = b
        \/ d = n /\ b = 1 /\ found.to = 1
        \/ /\ d > n /\ b # 1 /\ caps[b][<<d - n, slot>>] \in LoadTypes
           /\ found = load[<<b - 1, d - n - 1, slot, caps[b][<<d - n, slot>>]>>]
    BY <1>12, <1>13, <2>1 DEF Peeled
  <2> QED BY <2>2, <2>3
<1>9. p \in Nat /\ b \in Nat /\ n \in Nat /\ d \in Nat
  BY <1>2, <1>4
<1>10. CASE /\ d > n /\ b # 1 /\ caps[b][<<d - n, slot>>] \in LoadTypes
            /\ found = load[<<b - 1, d - n - 1, slot, caps[b][<<d - n, slot>>]>>]
  <2>1. b - 1 \in 1..(p - 1) /\ d - n - 1 \in 0..Pos /\ (b - 1) - (d - n - 1) = p - d
    BY <1>2, <1>8, <1>9, <1>10
  <2>2. Right(b - 1)
    BY <1>5, <2>1
  <2> HIDE DEF found
  <2>3. found = Missing \/ found.to = (b - 1) - (d - n - 1)
    BY <1>10, <2>1, <2>2 DEF Right
  <2> QED BY <1>6, <2>1, <2>3 DEF found
<1>11. d = n => b = p - d
  BY <1>8, <1>9
<1> QED BY <1>6, <1>8, <1>10, <1>11

-----------------------------------------------------------------------------
(* What a capture says of the variable it was taken from.                  *)
LEMMA CaptureOf ==
  ASSUME LoadInv, NEW b \in 1..MaxScopes, NEW k \in DOMAIN caps[b]
  PROVE  \E i \in 1..Len(refs) : \E j \in 1..Len(refs) :
           /\ Captures(b, refs[i]) /\ k = Key(b, refs[i])
           /\ j <= i /\ Captures(b, refs[j]) /\ Key(b, refs[j]) = k /\ caps[b][k] = refs[j].ty
           /\ refs[j].slot = k[2] /\ b - refs[j].to = k[1]
<1>1. PICK i \in 1..Len(refs) : Captures(b, refs[i]) /\ k = Key(b, refs[i])
  BY DEF LoadInv, CapturesOK, Met1
<1>2. PICK j \in 1..i : /\ Captures(b, refs[j]) /\ Key(b, refs[j]) = Key(b, refs[i])
                        /\ caps[b][Key(b, refs[i])] = refs[j].ty
  BY <1>1 DEF LoadInv, CapturesOK, FirstType
<1>3. Len(refs) \in Nat
  BY DEF LoadInv, UseInv
<1>4. j \in 1..Len(refs) /\ j <= i
  BY <1>3
<1>5. refs[j].slot = k[2] /\ b - refs[j].to = k[1]
  BY <1>1, <1>2 DEF Key
<1> QED BY <1>1, <1>2, <1>4, <1>5

(* A type the variable i of the top level is read at: its own or that of   *)
(* an earlier variable.                                                    *)
Earlier(i, ty) ==
  ty = refs[i].ty
    \/ \E k \in 1..(i - 1) : refs[k].ty = ty /\ UsesTheCaptureOf(refs[i], refs[k])

(* Where a variable is met.                                                *)
LEMMA PlaceOf ==
  ASSUME LoadInv, NEW i \in 1..Len(refs)
  PROVE  /\ Pos \in Nat /\ refs[i].pos \in 1..Pos /\ refs[i].pos \in Nat
         /\ refs[i].to \in Nat /\ refs[i].to <= refs[i].pos
         /\ refs[i].slot \in Slots /\ refs[i].ty \in LoadTypes
<1>1. PICK r : r = refs[i]
  OBVIOUS
<1>2. r \in Refs /\ Met(r) /\ Pos \in Nat
  BY <1>1 DEF LoadInv, PathInv, UseInv
<1>3. /\ r.pos \in 1..Pos /\ r.pos \in Nat /\ r.to \in Nat /\ r.to <= r.pos
      /\ r.slot \in Slots /\ r.ty \in LoadTypes
  BY <1>2 DEF Refs, Met, LoadTypes
<1> QED BY <1>1, <1>2, <1>3

(* A function captures what is met inside it and bound outside.            *)
LEMMA Captured ==
  ASSUME LoadInv, NEW i \in 1..Len(refs), NEW b \in 1..refs[i].pos,
         scopes[b].kind = "fn", refs[i].to < b, refs[i].to # 0, ~refs[i].quoted
  PROVE  Captures(b, refs[i])
<1>1. refs[i] \in Refs /\ Met(refs[i]) /\ RefFits(i)
  BY DEF LoadInv, UseInv
<1> DEFINE r == refs[i]
<1>2. r.pos \in Nat /\ r.to \in Nat /\ r.to <= r.pos /\ r.ty # Module
  BY <1>1 DEF Refs, Met, RefFits
<1> HIDE DEF r
<1>3. r.pos - r.to >= (r.pos - b) + 1 /\ b <= r.pos
  BY <1>2 DEF r
<1> QED BY <1>2, <1>3 DEF Captures, Depth, Layers, r

LEMMA EarlierCapture ==
  ASSUME LoadInv, NEW i \in 1..Len(refs), refs[i].to = 1, NEW b \in 2..refs[i].pos,
         scopes[b].kind = "fn", NEW k \in DOMAIN caps[b], b - 1 <= k[1], k[2] = refs[i].slot
  PROVE  k[1] = b - 1 /\ Earlier(i, caps[b][k])
<1> DEFINE r == refs[i]
<1>0. /\ r \in Refs /\ Met(r) /\ r.pos \in Nat /\ b \in Nat /\ Pos <= MaxScopes /\ Pos \in Nat
      /\ Len(refs) \in Nat
  <2>1. r \in Refs /\ Met(r) /\ Len(refs) \in Nat
    BY DEF LoadInv, UseInv
  <2>2. Pos <= MaxScopes /\ Pos \in Nat
    BY DEF LoadInv, PathInv, CapturesOK, CapturesTyped
  <2>3. r.pos \in Nat
    BY <2>1 DEF Refs
  <2> HIDE DEF r
  <2>4. b \in Nat
    BY <2>3 DEF r
  <2> QED BY <2>1, <2>2, <2>3, <2>4
<1>1. b \in 1..MaxScopes /\ b # 1 /\ 1 < b /\ b \in 1..r.pos
  <2>1. r.pos <= Pos /\ MaxScopes \in Nat
    BY <1>0, JitScopeAssumption DEF Met
  <2> QED BY <1>0, <2>1
<1>2. PICK l \in 1..Len(refs), j \in 1..Len(refs) :
           /\ Captures(b, refs[j]) /\ Key(b, refs[j]) = k /\ caps[b][k] = refs[j].ty
           /\ refs[j].slot = k[2] /\ b - refs[j].to = k[1]
  BY <1>1, CaptureOf
<1>3. refs[j] \in Refs /\ RefFits(j) /\ refs[j].to \in Nat /\ refs[j].to # 0 /\ ~refs[j].quoted
  <2>1. refs[j] \in Refs /\ RefFits(j)
    BY DEF LoadInv, UseInv
  <2>2. refs[j].ty # Module /\ ~refs[j].quoted
    BY <1>2 DEF Captures
  <2> QED BY <2>1, <2>2 DEF Refs, RefFits
<1>4. refs[j].to = 1 /\ k[1] = b - 1
  BY <1>0, <1>2, <1>3
<1>5. CASE r.quoted
  <2>1. ~(i \in 1..j)
    BY <1>3, <1>5 DEF RefFits
  <2>2. j \in 1..(i - 1)
    BY <1>0, <2>1
  <2>3. UsesTheCaptureOf(r, refs[j])
    BY <1>1, <1>2, <1>4 DEF UsesTheCaptureOf
  <2> QED BY <1>2, <1>4, <2>2, <2>3 DEF Earlier
<1>6. CASE ~r.quoted
  <2>1. Captures(b, r)
    BY <1>1, <1>6, Captured
  <2>2. Key(b, r) = k
    BY <1>2, <1>4 DEF Key
  <2>3. PICK m \in 1..i : /\ Captures(b, refs[m]) /\ Key(b, refs[m]) = Key(b, r)
                          /\ caps[b][Key(b, r)] = refs[m].ty
    BY <1>1, <2>1 DEF LoadInv, CapturesOK, FirstType
  <2>4. refs[m].slot = r.slot /\ refs[m].to = 1
    <3>1. b - refs[m].to = b - 1 /\ refs[m].slot = r.slot
      BY <2>3 DEF Key
    <3>2. refs[m] \in Refs
      BY <1>0 DEF LoadInv, UseInv
    <3>3. refs[m].to \in Nat
      BY <3>2 DEF Refs
    <3> QED BY <1>0, <3>1, <3>3
  <2>5. m = i \/ m \in 1..(i - 1)
    BY <1>0
  <2>6. UsesTheCaptureOf(r, refs[m])
    BY <1>1, <2>3, <2>4 DEF UsesTheCaptureOf
  <2> QED BY <1>4, <2>2, <2>3, <2>5, <2>6 DEF Earlier
<1> QED BY <1>5, <1>6

(* A binding of the top level is read at a type that the variable, or an   *)
(* earlier one, has.                                                       *)
LEMMA ReadAtAnEarlierType ==
  ASSUME LoadInv, NEW i \in 1..Len(refs), refs[i].to = 1
  PROVE  \A p \in 1..refs[i].pos : \A ty \in LoadTypes :
           LET found == load[<<p, p - 1, refs[i].slot, ty>>]
           IN  Earlier(i, ty) /\ found.to = 1 => Earlier(i, found.ty)
<1> DEFINE r == refs[i]
           Right(p) == \A ty \in LoadTypes :
                         Earlier(i, ty) /\ load[<<p, p - 1, r.slot, ty>>].to = 1
                           => Earlier(i, load[<<p, p - 1, r.slot, ty>>].ty)
           S == {p \in 1..r.pos : ~Right(p)}
<1>1. SUFFICES ASSUME S # {} PROVE FALSE
  OBVIOUS
<1>2. Pos \in Nat /\ r.pos \in 1..Pos /\ r.slot \in Slots
  BY PlaceOf
<1>3. PICK p \in S : \A q \in S : p <= q
  <2>1. S \in SUBSET Nat
    BY <1>2
  <2> HIDE DEF S
  <2> QED BY <1>1, <2>1, Least
<1>4. p \in 1..r.pos /\ ~Right(p) /\ p \in 1..Pos /\ p - 1 \in 0..Pos
  BY <1>2, <1>3
<1>5. \A q \in 1..(p - 1) : Right(q)
  <2> SUFFICES ASSUME NEW q \in 1..(p - 1) PROVE Right(q)
    OBVIOUS
  <2>1. q \in 1..r.pos /\ ~(p <= q)
    BY <1>2, <1>4
  <2> QED BY <1>3, <2>1
<1>6. PICK ty \in LoadTypes : /\ Earlier(i, ty) /\ load[<<p, p - 1, r.slot, ty>>].to = 1
                              /\ ~Earlier(i, load[<<p, p - 1, r.slot, ty>>].ty)
  BY <1>4
<1> HIDE DEF S, Right
<1> DEFINE found == load[<<p, p - 1, r.slot, ty>>]
           d == p - 1
<1>7. PICK b \in 1..p : \E n \in 0..(p - b) : Peeled(p, d, r.slot, ty, b, n)
  BY <1>2, <1>4, Peel
<1>8. PICK n \in 0..(p - b) : Peeled(p, d, r.slot, ty, b, n)
  BY <1>7
<1>9. found # Missing /\ found.to = 1 /\ found.ty # ty
  BY <1>6 DEF Missing
<1>10. /\ d > n /\ b # 1 /\ scopes[b].kind = "fn" /\ <<d - n, r.slot>> \in DOMAIN caps[b]
       /\ found = load[<<b - 1, d - n - 1, r.slot, caps[b][<<d - n, r.slot>>]>>]
       /\ caps[b][<<d - n, r.slot>>] \in LoadTypes
  <2>1. ASSUME d < n, found = [to |-> scopes[p].frames[n - d], ty |-> ty] PROVE FALSE
    BY <1>9, <2>1
  <2>2. found # [to |-> 1, ty |-> ty] /\ found # [to |-> b, ty |-> ty]
    BY <1>9
  <2> QED BY <1>8, <1>9, <2>1, <2>2 DEF Peeled
<1> DEFINE k == <<d - n, r.slot>>
<1>11. /\ p \in Nat /\ b \in Nat /\ n \in Nat /\ b \in 2..r.pos /\ b - 1 <= d - n
       /\ k[1] = d - n /\ k[2] = r.slot
  BY <1>2, <1>4, <1>10
<1>12. d - n = b - 1 /\ Earlier(i, caps[b][k])
  <2> HIDE DEF d
  <2>1. k \in DOMAIN caps[b] /\ b - 1 <= k[1] /\ k[2] = r.slot
    BY <1>10, <1>11
  <2> HIDE DEF k
  <2>2. k[1] = b - 1 /\ Earlier(i, caps[b][k])
    BY <1>10, <1>11, <2>1, EarlierCapture
  <2> QED BY <1>11, <2>2
<1>13. b - 1 \in 1..(p - 1) /\ d - n - 1 = (b - 1) - 1
  BY <1>11, <1>12, <1>10
<1>14. Right(b - 1)
  BY <1>5, <1>13
<1>15. found = load[<<b - 1, (b - 1) - 1, r.slot, caps[b][k]>>] /\ caps[b][k] \in LoadTypes
  BY <1>10, <1>13
<1> HIDE DEF found, k
<1>16. Earlier(i, found.ty)
  BY <1>9, <1>12, <1>14, <1>15 DEF Right
<1> QED BY <1>6, <1>16 DEF found

(* Outside ${ } and blocks without definitions, what is bound is found.    *)
LEMMA InstanceOfAUse ==
  ASSUME LoadInv, NEW i \in 1..Len(refs), refs[i].to = 1, ~refs[i].quoted
  PROVE  refs[i].ty \in InstanceTypes(refs[i].slot)
<1>1. Met(refs[i]) /\ RefFits(i)
  BY DEF LoadInv, UseInv
<1> QED BY <1>1 DEF Met, RefFits, InstanceTypes

LEMMA FoundWhereBound ==
  ASSUME LoadInv, NEW i \in 1..Len(refs), refs[i].to # 0, ~refs[i].quoted,
         ~Around(refs[i].pos, {"bare"})
  PROVE  \A p \in refs[i].to..refs[i].pos : \A ty \in LoadTypes :
           (refs[i].to = 1 => ty \in InstanceTypes(refs[i].slot))
             => load[<<p, p - refs[i].to, refs[i].slot, ty>>] # Missing
<1> DEFINE r == refs[i]
           Right(p) == \A ty \in LoadTypes :
                         (r.to = 1 => ty \in InstanceTypes(r.slot))
                           => load[<<p, p - r.to, r.slot, ty>>] # Missing
           S == {p \in r.to..r.pos : ~Right(p)}
<1>1. SUFFICES ASSUME S # {} PROVE FALSE
  OBVIOUS
<1>2. Pos \in Nat /\ r.pos \in 1..Pos /\ r.slot \in Slots /\ r.to \in Nat /\ r.to # 0
  BY PlaceOf
<1>3. PICK p \in S : \A q \in S : p <= q
  <2>1. S \in SUBSET Nat
    BY <1>2
  <2> HIDE DEF S
  <2> QED BY <1>1, <2>1, Least
<1>4. p \in r.to..r.pos /\ ~Right(p) /\ p \in 1..Pos /\ p - r.to \in 0..Pos /\ p \in Nat
  BY <1>2, <1>3
<1>5. \A q \in r.to..(p - 1) : Right(q)
  <2> SUFFICES ASSUME NEW q \in r.to..(p - 1) PROVE Right(q)
    OBVIOUS
  <2>1. q \in r.to..r.pos /\ ~(p <= q)
    BY <1>2, <1>4
  <2> QED BY <1>3, <2>1
<1>6. PICK ty \in LoadTypes : /\ r.to = 1 => ty \in InstanceTypes(r.slot)
                              /\ load[<<p, p - r.to, r.slot, ty>>] = Missing
  BY <1>4
<1> HIDE DEF S, Right
<1> DEFINE found == load[<<p, p - r.to, r.slot, ty>>]
           d == p - r.to
<1>7. PICK b \in 1..p : \E n \in 0..(p - b) : Peeled(p, d, r.slot, ty, b, n)
  BY <1>2, <1>4, Peel
<1>8. PICK n \in 0..(p - b) : Peeled(p, d, r.slot, ty, b, n)
  BY <1>7
<1>9. ~Around(p, {"bare"})
  BY <1>2, <1>4 DEF Around
<1>10. /\ b \in Nat /\ b # 0 /\ b <= p /\ n = p - b /\ n \in Nat
       /\ b # 1 => scopes[b].kind = "fn"
  <2>1. n = p - b /\ (b # 1 => scopes[b].kind = "fn")
    BY <1>8, <1>9 DEF Peeled
  <2> QED BY <1>4, <2>1
<1>11. found = load[<<p, d, r.slot, ty>>] /\ found = Missing /\ found.to = 0
  BY <1>6 DEF Missing
<1>a. d = p - r.to /\ d \in Nat
  BY <1>2, <1>4
<1> HIDE DEF found, d
<1>12. /\ b # 1 => d > n
       /\ b # 1 /\ <<d - n, r.slot>> \in DOMAIN caps[b] =>
            /\ found = load[<<b - 1, d - n - 1, r.slot, caps[b][<<d - n, r.slot>>]>>]
            /\ caps[b][<<d - n, r.slot>>] \in LoadTypes
       /\ b = 1 => d > n \/ (d = n /\ ty \notin InstanceTypes(r.slot))
  <2>1. \/ /\ d < n /\ found.to \in (b + 1)..p
        \/ d = n /\ b = 1 /\ found.to = 1
        \/ d = n /\ b # 1 /\ found.to = b
        \/ /\ d > n /\ b # 1 /\ found = load[<<b - 1, d - n - 1, r.slot, caps[b][<<d - n, r.slot>>]>>]
           /\ caps[b][<<d - n, r.slot>>] \in LoadTypes
        \/ /\ b = 1 => d > n \/ (d = n /\ ty \notin InstanceTypes(r.slot))
           /\ b # 1 => d > n /\ <<d - n, r.slot>> \notin DOMAIN caps[b]
    BY <1>8, <1>11 DEF Peeled
  <2>2. ~(0 \in (b + 1)..p) /\ ~(b = 0)
    BY <1>4, <1>10
  <2>3. \/ /\ d > n /\ b # 1 /\ found = load[<<b - 1, d - n - 1, r.slot, caps[b][<<d - n, r.slot>>]>>]
           /\ caps[b][<<d - n, r.slot>>] \in LoadTypes
        \/ /\ b = 1 => d > n \/ (d = n /\ ty \notin InstanceTypes(r.slot))
           /\ b # 1 => d > n /\ <<d - n, r.slot>> \notin DOMAIN caps[b]
    BY <1>11, <2>1, <2>2
  <2> QED BY <2>3
<1>13. b # 1 /\ d > n
  <2>1. ASSUME b = 1 PROVE FALSE
    <3>1. n = p - 1 /\ (d = n => r.to = 1) /\ ~(d > n)
      BY <1>2, <1>4, <1>10, <1>a, <2>1
    <3>2. ty \notin InstanceTypes(r.slot) /\ d = n
      BY <1>12, <2>1, <3>1
    <3> QED BY <1>6, <1>12, <2>1, <3>1, <3>2
  <2> QED BY <1>12, <2>1
<1>14. /\ d - n = b - r.to /\ r.to < b /\ b \in 1..r.pos /\ b - 1 \in r.to..(p - 1)
       /\ d - n - 1 = (b - 1) - r.to
  <2>1. PICK to \in Nat : to = r.to /\ to <= p /\ to # 0
    BY <1>2, <1>4
  <2>2. d = p - to /\ d > p - b /\ b # 1 /\ n = p - b /\ b <= p
    BY <1>10, <1>13, <1>a, <2>1
  <2>a. PICK m \in Nat, e \in Nat : m = n /\ e = d
    BY <1>10, <1>a
  <2>b. p \in Nat /\ b \in Nat
    BY <1>4, <1>10
  <2>c. e = p - to /\ e > m /\ m = p - b
    BY <1>13, <2>2, <2>a
  <2>d. e - m = b - to /\ to < b /\ b - 1 \in to..(p - 1) /\ e - m - 1 = (b - 1) - to
    BY <2>1, <2>2, <2>b, <2>c
  <2>3. d - n = b - to /\ to < b /\ b - 1 \in to..(p - 1) /\ d - n - 1 = (b - 1) - to
    BY <2>a, <2>d
  <2>4. b \in 1..r.pos
    BY <1>2, <1>4, <1>10
  <2> QED BY <2>1, <2>3, <2>4
<1> DEFINE k == <<d - n, r.slot>>
<1>15. Captures(b, r) /\ k = Key(b, r) /\ b \in 1..MaxScopes
  <2>1. Captures(b, r)
    BY <1>2, <1>10, <1>13, <1>14, Captured
  <2>2. Pos <= MaxScopes /\ MaxScopes \in Nat
    BY JitScopeAssumption DEF LoadInv, CapturesOK, CapturesTyped
  <2> QED BY <1>2, <1>14, <2>1, <2>2 DEF Key
<1>16. k \in DOMAIN caps[b]
  BY <1>15 DEF LoadInv, CapturesOK, FirstType
<1>17. found = load[<<b - 1, d - n - 1, r.slot, caps[b][k]>>] /\ caps[b][k] \in LoadTypes
  BY <1>12, <1>13, <1>16
<1>18. r.to = 1 => caps[b][k] \in InstanceTypes(r.slot)
  <2>1. PICK l \in 1..Len(refs), j \in 1..Len(refs) :
             /\ Captures(b, refs[j]) /\ Key(b, refs[j]) = k /\ caps[b][k] = refs[j].ty
    BY <1>15, <1>16, CaptureOf
  <2>2. refs[j] \in Refs /\ ~refs[j].quoted
    BY <2>1 DEF LoadInv, UseInv, Captures
  <2>3. refs[j].slot = r.slot /\ b - refs[j].to = b - r.to
    BY <1>14, <2>1 DEF Key
  <2>4. refs[j].to = r.to
    <3>1. refs[j].to \in Nat
      BY <2>2 DEF Refs
    <3> QED BY <1>2, <1>10, <2>3, <3>1
  <2> QED BY <2>1, <2>2, <2>3, <2>4, InstanceOfAUse
<1>19. Right(b - 1)
  BY <1>5, <1>14
<1> HIDE DEF found, k
<1>20. found = load[<<b - 1, (b - 1) - r.to, r.slot, caps[b][k]>>]
  BY <1>14, <1>17
<1>21. found # Missing
  BY <1>17, <1>18, <1>19, <1>20 DEF Right
<1> QED BY <1>11, <1>21
-----------------------------------------------------------------------------
(* What makes the results right: with the counts of IInv, what the passes  *)
(* have collected, and that references are compiled in the order they were *)
(* met, each once.                                                         *)
InOrder ==
  /\ Len(compiled) <= Len(refs)
  /\ \A i \in 1..Len(compiled) : compiled[i].r = refs[i]

CodeLoads ==
  /\ LoadsTheResolvedBinding /\ RefusesOnlyQuotedOrModules
  /\ LoadsTheInstanceOfAnEarlierUse

LoadsInv ==
  /\ IInv /\ LoadInv
  /\ uses \in [Slots -> SUBSET Types]
  /\ phase \in {"walk", "compile", "rejected"}
  /\ InOrder /\ CodeLoads

LEMMA LoadsInit == Init => LoadsInv
<1> SUFFICES ASSUME Init PROVE LoadsInv
  OBVIOUS
<1>1. IInv
  BY InitCorrect
<1>2. /\ scopes = <<Main>> /\ Pos = 1 /\ scopes[1] = Main /\ refs = <<>> /\ compiled = <<>>
      /\ caps = [p \in 1..MaxScopes |-> NoCaptures]
  BY DEF Init, Pos
<1>3. \A p \in 1..Pos : Frames(p)
  <2>1. Frames(1)
    <3>1. 2..1 = {} /\ 1..0 = {}
      OBVIOUS
    <3>2. ToSet(scopes[1].frames) = {} /\ Len(scopes[1].frames) = 0
      BY <1>2 DEF Main, ToSet
    <3> QED BY <1>2, <3>1, <3>2 DEF Frames, Main
  <2> QED BY <1>2, <2>1
<1>4. CapturesOK
  <2>1. Pos <= MaxScopes /\ DOMAIN caps = 1..MaxScopes /\ Len(refs) = 0
    BY <1>2, JitScopeAssumption
  <2>2. \A p \in 1..MaxScopes : DOMAIN caps[p] = {}
    BY <1>2 DEF NoCaptures
  <2>3. 1..0 = {}
    OBVIOUS
  <2> QED BY <2>1, <2>2, <2>3 DEF CapturesOK, CapturesTyped
<1>5. LoadInv
  <2>1. Len(refs) = 0 /\ 1..0 = {}
    BY <1>2
  <2> QED BY <1>1, <1>3, <1>4, <2>1 DEF LoadInv, IInv
<1>6. InOrder /\ CodeLoads
  <2>1. Done = {} /\ DOMAIN compiled = {} /\ Len(compiled) = 0 /\ Len(refs) = 0 /\ 1..0 = {}
    BY <1>2 DEF Done
  <2> QED BY <2>1 DEF InOrder, CodeLoads, LoadsTheResolvedBinding,
                    RefusesOnlyQuotedOrModules, LoadsTheInstanceOfAnEarlierUse
<1>7. uses \in [Slots -> SUBSET Types] /\ phase \in {"walk", "compile", "rejected"}
  BY DEF Init
<1> QED BY <1>1, <1>5, <1>6, <1>7 DEF LoadsInv

(* While the path is walked there is no code.                              *)
LEMMA NoCodeYet ==
  ASSUME LoadsInv, Walking, Len(refs)' \in Nat
  PROVE  InOrder' /\ CodeLoads'
<1>1. compiled' = <<>>
  BY DEF LoadsInv, IInv, CodeInv, Walking
<1>2. Done' = {} /\ DOMAIN compiled' = {} /\ Len(compiled') = 0 /\ 1..0 = {}
  BY <1>1 DEF Done
<1> QED BY <1>2 DEF InOrder, CodeLoads, LoadsTheResolvedBinding,
                  RefusesOnlyQuotedOrModules, LoadsTheInstanceOfAnEarlierUse

-----------------------------------------------------------------------------
(* Entering a scope.                                                       *)
LEMMA FramesKept ==
  ASSUME PathInv, NEW s \in Scopes, scopes' = Append(scopes, s), NEW p \in 1..Pos, Frames(p)
  PROVE  Frames(p)'
<1>1. /\ scopes'[p] = scopes[p] /\ Environment(p)
      /\ \A q \in 1..Pos : scopes'[q] = scopes[q]
  BY AppendKeeps DEF PathInv
<1>2. scopes[p].base \in 1..Pos /\ \A q \in (scopes[p].base + 1)..p : q \in 1..Pos
  BY <1>1 DEF Environment, PathInv
<1>3. {q \in (scopes[p].base + 1)..p : scopes[q].kind = "block"}
        = {q \in (scopes[p].base + 1)..p : scopes'[q].kind = "block"}
  BY <1>1, <1>2
<1>4. Around(p, {"bare"})' <=> Around(p, {"bare"})
  BY AroundKept DEF PathInv
<1> QED BY <1>1, <1>2, <1>3, <1>4 DEF Frames

LEMMA FramesEntered ==
  ASSUME PathInv, NEW s \in {BlockScope, BareScope, FunctionScope},
         scopes' = Append(scopes, s), NEW n, n = Pos + 1, Frames(Pos)
  PROVE  Frames(n)'
<1> DEFINE h == scopes[Pos]
<1>1. h \in Scopes /\ Environment(Pos) /\ Pos \in Nat \ {0} /\ Here = h
  BY DEF PathInv, Pos, Here, Last
<1>2. s \in Scopes /\ Environment(n)'
  BY Entered
<1>3. scopes'[n] = s /\ \A q \in 1..Pos : scopes'[q] = scopes[q]
  BY <1>2, AppendKeeps DEF PathInv
<1>4. CASE s = FunctionScope
  <2>1. s.base = n /\ s.frames = <<>> /\ s.nesting = h.nesting + 1 /\ s.kind = "fn"
    BY <1>1, <1>4 DEF FunctionScope
  <2>2. (n + 1)..n = {} /\ n - n = 0 /\ 1..0 = {} /\ n \in Nat
    BY <1>1
  <2>3. ToSet(s.frames) = {} /\ Len(s.frames) = 0
    BY <2>1 DEF ToSet
  <2>4. s.nesting <= n - 1
    <3>1. h.nesting \in Nat /\ h.nesting <= Pos - 1
      BY <1>1 DEF Frames, Scopes
    <3> HIDE DEF h
    <3> QED BY <1>1, <2>1, <3>1
  <2>5. {q \in (n + 1)..n : scopes'[q].kind = "block"} = {}
    BY <2>2
  <2>6. \A m \in 1..Len(s.frames) : s.frames[m] = n + m
    BY <2>2, <2>3
  <2>7. scopes'[n].base = n /\ scopes'[n].kind = "fn" /\ scopes'[n] = s
    BY <1>3, <2>1
  <2> QED BY <2>2, <2>3, <2>4, <2>5, <2>6, <2>7 DEF Frames
<1>5. CASE s \in {BlockScope, BareScope}
  <2>1. PICK b \in 1..Pos : b = h.base /\ b = s.base
    BY <1>1, <1>5 DEF BlockScope, BareScope, InnerScope, Environment
  <2>2. /\ s.nesting = h.nesting /\ h.nesting \in Nat /\ h.nesting <= Pos - 1
        /\ h.frames \in Seq(Nat) /\ Len(h.frames) \in Nat
    BY <1>1, <1>5 DEF BlockScope, BareScope, InnerScope, Frames, Scopes
  <2>3. b # 1 => scopes'[b].kind = "fn"
    BY <1>3, <2>1 DEF Frames
  <2>4. /\ ToSet(h.frames) = {q \in (b + 1)..Pos : scopes[q].kind = "block"}
        /\ Len(h.frames) <= Pos - b
        /\ ~Around(Pos, {"bare"}) =>
             /\ Len(h.frames) = Pos - b
             /\ \A m \in 1..Len(h.frames) : h.frames[m] = b + m
    BY <1>1, <2>1 DEF Frames, Environment
  <2>5. ~Around(n, {"bare"})' => ~Around(Pos, {"bare"}) /\ s.kind # "bare"
    <3>1. \A q \in 1..Pos : q \in 1..n
      BY <1>1
    <3>2. n \in 1..n
      BY <1>1
    <3> QED BY <1>3, <3>1, <3>2 DEF Around
  <2>6. {q \in (b + 1)..n : scopes'[q].kind = "block"}
          = {q \in (b + 1)..Pos : scopes[q].kind = "block"}
              \cup (IF s.kind = "block" THEN {n} ELSE {})
    <3>1. (b + 1)..n = ((b + 1)..Pos) \cup {n} /\ \A q \in (b + 1)..Pos : q \in 1..Pos
      BY <1>1, <2>1
    <3> QED BY <1>3, <3>1
  <2> HIDE DEF h
  <2>7. CASE s = BareScope
    <3>1. s.frames = h.frames /\ s.kind = "bare"
      BY <1>1, <2>7 DEF BareScope, InnerScope
    <3>2. Len(h.frames) <= n - b /\ s.nesting <= n - 1
      BY <1>1, <2>1, <2>2, <2>4
    <3>3. ToSet(s.frames) = {q \in (b + 1)..n : scopes'[q].kind = "block"}
      BY <2>4, <2>6, <3>1
    <3>4. ~Around(n, {"bare"})' => FALSE
      BY <2>5, <3>1
    <3> QED BY <1>3, <2>1, <2>3, <3>1, <3>2, <3>3, <3>4 DEF Frames
  <2>8. CASE s = BlockScope
    <3>1. s.frames = Append(h.frames, n) /\ s.kind = "block"
      BY <1>1, <2>8 DEF BlockScope, InnerScope
    <3>2. n \in Nat
      BY <1>1
    <3>3. /\ Len(s.frames) = Len(h.frames) + 1
          /\ \A m \in 1..Len(h.frames) : s.frames[m] = h.frames[m]
          /\ s.frames[Len(h.frames) + 1] = n
      BY <2>2, <3>1, <3>2
    <3>4. ToSet(s.frames) = ToSet(h.frames) \cup {n}
      <4>1. DOMAIN s.frames = DOMAIN h.frames \cup {Len(h.frames) + 1}
        BY <2>2, <3>1
      <4>2. /\ \A m \in DOMAIN h.frames : s.frames[m] = h.frames[m]
            /\ DOMAIN h.frames = 1..Len(h.frames)
        <5>1. DOMAIN h.frames = 1..Len(h.frames)
          BY <2>2
        <5> QED BY <3>3, <5>1
      <4>3. {s.frames[m] : m \in DOMAIN s.frames}
              = {h.frames[m] : m \in DOMAIN h.frames} \cup {s.frames[Len(h.frames) + 1]}
        BY <4>1, <4>2
      <4> QED BY <3>3, <4>3 DEF ToSet
    <3>5. PICK l \in Nat : l = Len(h.frames)
      BY <2>2
    <3>6. Len(s.frames) <= n - b /\ s.nesting <= n - 1
      BY <1>1, <2>1, <2>2, <2>4, <3>3, <3>5, SMTT(30)
    <3>7. ~Around(n, {"bare"})' => \A m \in 1..Len(s.frames) : s.frames[m] = b + m
      <4>1. \A m \in 1..(l + 1) : m \in 1..l \/ m = l + 1
        BY <3>5
      <4>2. l = Pos - b => n = b + (l + 1)
        BY <1>1, <2>1
      <4> QED BY <2>4, <2>5, <3>3, <3>5, <4>1, <4>2
    <3>8. ToSet(s.frames) = {q \in (b + 1)..n : scopes'[q].kind = "block"}
      BY <2>4, <2>6, <3>1, <3>4
    <3> QED BY <1>3, <2>1, <2>3, <3>6, <3>7, <3>8 DEF Frames
  <2> QED BY <1>5, <2>7, <2>8
<1> QED BY <1>4, <1>5

LEMMA EnterLoads ==
  ASSUME LoadsInv, IInv', NEW s \in {BlockScope, BareScope, FunctionScope}, Walking,
         Pos < MaxScopes,
         scopes' = Append(scopes, s), UNCHANGED <<quoted, refs, uses, caps, phase>>
  PROVE  LoadsInv'
<1>1. PICK n : n = Pos + 1
  OBVIOUS
<1>2. s \in Scopes /\ Pos \in Nat \ {0} /\ PathInv /\ LoadInv /\ top' = top
  BY <1>1, Entered DEF LoadsInv, IInv, PathInv, Walking
<1>3. Pos' = n /\ 1..n = (1..Pos) \cup {n} /\ n <= MaxScopes /\ Pos \in 1..Pos
  BY <1>1, <1>2, AppendKeeps, JitScopeAssumption DEF PathInv
<1>4. \A p \in 1..Pos' : Frames(p)'
  <2>1. \A p \in 1..Pos : Frames(p)'
    BY <1>2, FramesKept DEF LoadInv
  <2>2. Frames(n)'
    BY <1>1, <1>2, <1>3, FramesEntered DEF LoadInv
  <2> QED BY <1>3, <2>1, <2>2
<1>5. \A i \in 1..Len(refs) : RefFits(i)'
  BY <1>2 DEF RefFits, LoadInv
<1>6. CapturesOK'
  <2>1. \A p \in 1..MaxScopes : \A i \in 1..Len(refs) :
          Captures(p, refs[i])' <=> Captures(p, refs[i])
    <3> SUFFICES ASSUME NEW p \in 1..MaxScopes, NEW i \in 1..Len(refs)
                 PROVE  Captures(p, refs[i])' <=> Captures(p, refs[i])
      OBVIOUS
    <3>1. refs[i].pos <= Pos /\ refs[i].pos \in Nat
      BY <1>2, PlaceOf
    <3>2. p <= refs[i].pos => scopes'[p] = scopes[p]
      <4>1. p <= refs[i].pos => p \in 1..Pos
        BY <1>2, <3>1
      <4> QED BY <1>2, <4>1, AppendKeeps DEF PathInv
    <3> QED BY <3>2 DEF Captures, Depth, Layers
  <2>2. CapturesTyped'
    BY <1>2, <1>3 DEF LoadInv, CapturesOK, CapturesTyped
  <2>3. \A p \in 1..MaxScopes : \A k \in DOMAIN caps[p] : Met1(p, k)'
    BY <1>2, <2>1 DEF LoadInv, CapturesOK, Met1, Key
  <2>4. \A p \in 1..MaxScopes : \A i \in 1..Len(refs) :
          Captures(p, refs[i])' => FirstType(p, i)'
    <3> SUFFICES ASSUME NEW p \in 1..MaxScopes, NEW i \in 1..Len(refs), Captures(p, refs[i])'
                 PROVE  FirstType(p, i)'
      OBVIOUS
    <3>1. FirstType(p, i)
      BY <1>2, <2>1 DEF LoadInv, CapturesOK
    <3>2. PICK j \in 1..i :
            /\ Captures(p, refs[j]) /\ Key(p, refs[j]) = Key(p, refs[i])
            /\ Key(p, refs[i]) \in DOMAIN caps[p] /\ caps[p][Key(p, refs[i])] = refs[j].ty
      BY <3>1 DEF FirstType
    <3>3. j \in 1..Len(refs)
      BY DEF LoadsInv, IInv, UseInv
    <3>4. Captures(p, refs[j])'
      BY <2>1, <3>2, <3>3
    <3> QED BY <3>2, <3>4 DEF FirstType, Key
  <2> QED BY <2>2, <2>3, <2>4 DEF CapturesOK
<1>7. LoadInv'
  BY <1>4, <1>5, <1>6 DEF LoadInv, IInv
<1>8. InOrder' /\ CodeLoads'
  BY NoCodeYet DEF LoadsInv, IInv, UseInv
<1> QED BY <1>7, <1>8 DEF LoadsInv
-----------------------------------------------------------------------------
(* Meeting a variable: a function that captures it now had its type before *)
(* or takes it.                                                            *)
LEMMA CollectAdds ==
  ASSUME LoadsInv, NEW r \in References, MaySayRef(r), Collect(r), NEW p \in 1..MaxScopes
  PROVE  /\ \A k \in DOMAIN caps[p] : k \in DOMAIN caps'[p] /\ caps'[p][k] = caps[p][k]
         /\ \A k \in DOMAIN caps'[p] : k \in DOMAIN caps[p] \/ (Captures(p, r) /\ k = Key(p, r))
         /\ Captures(p, r) => Key(p, r) \in DOMAIN caps'[p]
         /\ Captures(p, r) /\ Key(p, r) \notin DOMAIN caps[p] => caps'[p][Key(p, r)] = r.ty
<1>1. r.pos = Pos /\ r.to \in 0..Pos /\ Pos \in Nat /\ DOMAIN caps = 1..MaxScopes
  BY DEF LoadsInv, LoadInv, PathInv, CapturesOK, CapturesTyped, References
<1>2. Captures(p, r) => p <= Pos /\ <<Depth(r) - Layers(p, r), r.slot>> = Key(p, r)
  BY <1>1 DEF Captures, Depth, Layers, Key
<1>3. caps'[p] = IF Captures(p, r) THEN OrInsert(caps[p], Key(p, r), r.ty) ELSE caps[p]
  BY <1>1, <1>2 DEF Collect
<1> QED BY <1>3 DEF OrInsert
LEMMA ReferLoads ==
  ASSUME LoadsInv, IInv', Refer
  PROVE  LoadsInv'
<1>1. PICK r \in References : MaySayRef(r) /\ refs' = Append(refs, r) /\ Collect(r)
  BY DEF Refer
<1>2. /\ PathInv /\ LoadInv /\ Pos \in Nat \ {0} /\ Len(refs) \in Nat /\ refs \in Seq(Refs)
      /\ CapturesOK
  BY DEF LoadsInv, IInv, PathInv, LoadInv, UseInv
<1>3. UNCHANGED <<top, scopes, quoted, phase, compiled, Pos>> /\ Walking
  BY DEF Refer, Walking, Pos
<1>4. r.pos = Pos /\ r.quoted = quoted /\ r.slot \in Slots /\ r.ty \in LoadTypes /\ r.to \in Nat
  BY <1>1, <1>2 DEF References, LoadTypes
<1>5. PICK n : n = Len(refs) + 1
  OBVIOUS
<1>6. /\ n \in Nat /\ Len(refs') = n /\ refs'[n] = r
      /\ \A i \in 1..Len(refs) : refs'[i] = refs[i]
      /\ 1..n = (1..Len(refs)) \cup {n} /\ n \notin 1..Len(refs)
  <2>1. r \in Refs
    BY <1>1, <1>2 DEF References, Refs, PathInv
  <2>2. Len(refs') = n /\ refs'[n] = r /\ \A i \in 1..Len(refs) : refs'[i] = refs[i]
    BY <1>1, <1>2, <1>5, <2>1
  <2> QED BY <1>2, <1>5, <2>2
<1>7. (r.to = 0 <=> r.ty = Module) /\ (r.to = 1 => r.ty \in top[r.slot].at)
      /\ (r.to # 0 => r.ty \in Types)
  <2>1. top[r.slot].at \subseteq Types
    BY <1>2, <1>4, JitScopeAssumption DEF PathInv
  <2>2. CASE r.to = 0
    BY <1>1, <2>2 DEF MaySayRef
  <2>3. CASE r.to = 1
    <3>1. r.ty \in top[r.slot].at
      BY <1>1, <2>3 DEF MaySayRef
    <3> QED BY <2>1, <2>3, <3>1, JitScopeAssumption
  <2>4. CASE r.to # 0 /\ r.to # 1
    <3>1. r.ty \in Types
      BY <1>1, <2>4 DEF MaySayRef
    <3> QED BY <2>4, <3>1, JitScopeAssumption
  <2> QED BY <2>2, <2>3, <2>4
<1>8. \A p \in 1..Pos' : Frames(p)'
  BY <1>2, <1>3 DEF LoadInv, Frames, Around
<1>9. \A i \in 1..Len(refs') : RefFits(i)'
  <2>1. \A i \in 1..Len(refs) : RefFits(i)'
    <3> SUFFICES ASSUME NEW i \in 1..Len(refs) PROVE RefFits(i)'
      OBVIOUS
    <3>1. RefFits(i) /\ refs'[i] = refs[i]
      BY <1>2, <1>6 DEF LoadInv
    <3>2. \A j \in 1..i : refs'[j] = refs[j]
      BY <1>2, <1>6
    <3> QED BY <1>3, <3>1, <3>2 DEF RefFits
  <2>2. RefFits(n)'
    <3>1. \A j \in 1..n : refs'[j].quoted => quoted
      BY <1>2, <1>4, <1>6 DEF LoadInv, RefFits
    <3> QED BY <1>3, <1>4, <1>6, <1>7, <3>1 DEF RefFits
  <2> QED BY <1>6, <2>1, <2>2
<1>10. uses' \in [Slots -> SUBSET Types]
  <2>1. Depth(r) = Pos - 1 => r.to = 1
    BY <1>2, <1>4 DEF Depth
  <2> QED BY <1>1, <1>4, <1>7, <2>1 DEF Collect, LoadsInv
<1>11. ASSUME NEW p \in 1..MaxScopes
       PROVE  /\ \A j \in 1..Len(refs) :
                   /\ Captures(p, refs[j])' <=> Captures(p, refs[j])
                   /\ Key(p, refs'[j]) = Key(p, refs[j])
              /\ Captures(p, refs[n])' <=> Captures(p, r)
  BY <1>3, <1>6 DEF Captures, Depth, Layers
<1>12. CapturesOK'
  <2>1. ASSUME NEW p \in 1..MaxScopes, NEW k \in DOMAIN caps'[p]
        PROVE  Met1(p, k)' /\ caps'[p][k] \in LoadTypes
    <3>1. CASE k \in DOMAIN caps[p]
      <4>1. PICK j \in 1..Len(refs) : Captures(p, refs[j]) /\ k = Key(p, refs[j])
        BY <1>2, <3>1 DEF CapturesOK, Met1
      <4>2. j \in 1..Len(refs') /\ Captures(p, refs[j])' /\ k = Key(p, refs'[j])
        BY <1>6, <1>11, <4>1
      <4>3. caps'[p][k] = caps[p][k] /\ caps[p][k] \in LoadTypes
        BY <1>1, <1>2, <3>1, CollectAdds DEF CapturesOK, CapturesTyped
      <4> QED BY <4>2, <4>3 DEF Met1, Key
    <3>2. CASE k \notin DOMAIN caps[p]
      <4>1. Captures(p, r) /\ k = Key(p, r) /\ caps'[p][k] = r.ty
        BY <1>1, <3>2, CollectAdds
      <4>2. n \in 1..Len(refs') /\ Captures(p, refs[n])' /\ k = Key(p, refs'[n])
        BY <1>6, <1>11, <4>1
      <4> QED BY <1>4, <4>1, <4>2 DEF Met1, Key
    <3> QED BY <3>1, <3>2
  <2>2. ASSUME NEW p \in 1..MaxScopes, NEW i \in 1..Len(refs), Captures(p, refs[i])
        PROVE  \E j \in 1..i :
                 /\ Captures(p, refs[j]) /\ Key(p, refs[j]) = Key(p, refs[i])
                 /\ Key(p, refs[i]) \in DOMAIN caps'[p] /\ caps'[p][Key(p, refs[i])] = refs[j].ty
    <3>1. PICK j \in 1..i :
            /\ Captures(p, refs[j]) /\ Key(p, refs[j]) = Key(p, refs[i])
            /\ Key(p, refs[i]) \in DOMAIN caps[p] /\ caps[p][Key(p, refs[i])] = refs[j].ty
      BY <1>2, <2>2 DEF CapturesOK, FirstType
    <3>2. /\ Key(p, refs[i]) \in DOMAIN caps'[p]
          /\ caps'[p][Key(p, refs[i])] = caps[p][Key(p, refs[i])]
      BY <1>1, <3>1, CollectAdds
    <3> QED BY <3>1, <3>2
  <2>3. ASSUME NEW p \in 1..MaxScopes, NEW i \in 1..n, NEW j \in 1..n, j <= i,
               Captures(p, refs[j])', Key(p, refs'[j]) = Key(p, refs'[i]),
               Key(p, refs'[i]) \in DOMAIN caps'[p],
               caps'[p][Key(p, refs'[i])] = refs'[j].ty
        PROVE  FirstType(p, i)'
    <3>1. j \in 1..i
      BY <2>3
    <3> QED BY <2>3, <3>1 DEF FirstType, Key
  <2>4. ASSUME NEW p \in 1..MaxScopes, NEW i \in 1..Len(refs), Captures(p, refs[i])'
        PROVE  FirstType(p, i)'
    <3>1. PICK j \in 1..i :
                 /\ Captures(p, refs[j]) /\ Key(p, refs[j]) = Key(p, refs[i])
                 /\ Key(p, refs[i]) \in DOMAIN caps'[p] /\ caps'[p][Key(p, refs[i])] = refs[j].ty
      BY <1>11, <2>2, <2>4
    <3>2. j \in 1..Len(refs) /\ j \in 1..n /\ i \in 1..n /\ j <= i
      BY <1>2, <1>6
    <3>3. refs'[j] = refs[j] /\ refs'[i] = refs[i] /\ Captures(p, refs[j])'
      BY <1>6, <1>11, <3>1, <3>2
    <3>4. /\ Key(p, refs'[j]) = Key(p, refs'[i]) /\ Key(p, refs'[i]) \in DOMAIN caps'[p]
          /\ caps'[p][Key(p, refs'[i])] = refs'[j].ty
      BY <3>1, <3>3
    <3> QED BY <2>3, <3>2, <3>3, <3>4
  <2>5. ASSUME NEW p \in 1..MaxScopes, Captures(p, refs[n])'
        PROVE  FirstType(p, n)'
    <3>1. Captures(p, r) /\ Key(p, r) \in DOMAIN caps'[p]
      BY <1>1, <1>11, <2>5, CollectAdds
    <3>2. CASE Key(p, r) \notin DOMAIN caps[p]
      <4>1. caps'[p][Key(p, r)] = r.ty /\ n \in 1..n
        BY <1>1, <1>6, <3>1, <3>2, CollectAdds
      <4> QED BY <1>6, <2>3, <2>5, <3>1, <4>1
    <3>3. CASE Key(p, r) \in DOMAIN caps[p]
      <4>1. PICK l \in 1..Len(refs) : Captures(p, refs[l]) /\ Key(p, r) = Key(p, refs[l])
        BY <1>2, <3>3 DEF CapturesOK, Met1
      <4>2. PICK j \in 1..l :
                 /\ Captures(p, refs[j]) /\ Key(p, refs[j]) = Key(p, refs[l])
                 /\ Key(p, refs[l]) \in DOMAIN caps'[p] /\ caps'[p][Key(p, refs[l])] = refs[j].ty
        BY <2>2, <4>1
      <4>3. j \in 1..Len(refs) /\ j \in 1..n /\ n \in 1..n /\ j <= n
        BY <1>2, <1>5, <1>6
      <4>4. refs'[j] = refs[j] /\ Captures(p, refs[j])'
        BY <1>6, <1>11, <4>2, <4>3
      <4>5. /\ Key(p, refs'[j]) = Key(p, refs'[n]) /\ Key(p, refs'[n]) \in DOMAIN caps'[p]
            /\ caps'[p][Key(p, refs'[n])] = refs'[j].ty
        BY <1>6, <4>1, <4>2, <4>4
      <4> QED BY <2>3, <4>3, <4>4, <4>5
    <3> QED BY <3>2, <3>3
  <2>6. CapturesTyped'
    BY <1>1, <1>2, <1>3, <2>1 DEF CapturesOK, CapturesTyped, Collect
  <2>7. \A p \in 1..MaxScopes : \A k \in DOMAIN caps'[p] : Met1(p, k)'
    BY <2>1
  <2>8. \A p \in 1..MaxScopes : \A i \in 1..Len(refs') :
          Captures(p, refs[i])' => FirstType(p, i)'
    BY <1>6, <2>4, <2>5
  <2> QED BY <2>6, <2>7, <2>8 DEF CapturesOK
<1>13. LoadInv'
  BY <1>8, <1>9, <1>12 DEF LoadInv, IInv
<1>14. InOrder' /\ CodeLoads'
  BY <1>3, <1>6, NoCodeYet
<1> QED BY <1>3, <1>10, <1>13, <1>14 DEF LoadsInv
-----------------------------------------------------------------------------
(* Compiling a variable.                                                   *)
LEMMA CodeIsRight ==
  ASSUME LoadInv, NEW i \in 1..Len(refs), NEW c, c = Code(refs[i])
  PROVE  /\ c.r = refs[i]
         /\ ~Around(refs[i].pos, {"bare"}) /\ c.how \in {"load", "direct"} => c.to = refs[i].to
         /\ c.how = "refused" =>
              refs[i].quoted \/ ToModule(refs[i]) \/ Around(refs[i].pos, {"bare"})
         /\ c.how = "load" /\ refs[i].to = 1 /\ c.to = 1 => Earlier(i, c.ty)
<1>1. PICK r : r = refs[i]
  OBVIOUS
<1>2. /\ Pos \in Nat /\ r.pos \in 1..Pos /\ r.to \in Nat /\ r.to <= r.pos
      /\ r.slot \in Slots /\ r.ty \in LoadTypes
  BY <1>1, PlaceOf
<1>3. PICK found : found = load[<<r.pos, r.pos - r.to, r.slot, r.ty>>]
  OBVIOUS
<1>4. /\ c.r = r
      /\ c.how \in {"load", "direct"} => found # Missing /\ c.to = found.to /\ c.ty = found.ty
      /\ c.how = "refused" => found = Missing
  BY <1>1, <1>3 DEF Code, Load, Depth
<1>5. r.pos - r.to \in 0..Pos /\ r.pos - (r.pos - r.to) = r.to
  BY <1>2
<1>6. ~Around(r.pos, {"bare"}) => found = Missing \/ found.to = r.to
  <2>1. ~Around(r.pos, {"bare"}) => found = Missing \/ found.to = r.pos - (r.pos - r.to)
    BY <1>2, <1>3, <1>5, FoundAtItsDepth
  <2> QED BY <1>5, <2>1
<1>7. ~r.quoted /\ r.to # 0 /\ ~Around(r.pos, {"bare"}) => found # Missing
  <2> SUFFICES ASSUME ~r.quoted, r.to # 0, ~Around(r.pos, {"bare"}) PROVE found # Missing
    OBVIOUS
  <2>1. r.to = 1 => r.ty \in InstanceTypes(r.slot)
    BY <1>1, InstanceOfAUse
  <2>2. r.pos \in r.to..r.pos
    BY <1>2
  <2> QED BY <1>1, <1>2, <1>3, <2>1, <2>2, FoundWhereBound
<1>8. r.to = 1 /\ found.to = 1 => Earlier(i, found.ty)
  <2> SUFFICES ASSUME r.to = 1, found.to = 1 PROVE Earlier(i, found.ty)
    OBVIOUS
  <2>1. Earlier(i, r.ty) /\ r.pos \in 1..r.pos
    BY <1>1, <1>2 DEF Earlier
  <2> QED BY <1>1, <1>2, <1>3, <2>1, ReadAtAnEarlierType
<1> QED BY <1>1, <1>4, <1>6, <1>7, <1>8 DEF ToModule

(* A step that enters no scope and meets no variable.                      *)
LEMMA SamePath ==
  ASSUME LoadInv, UNCHANGED <<top, scopes, refs, caps>>, PathInv', UseInv', quoted => quoted'
  PROVE  LoadInv'
<1>1. CapturesOK'
  BY DEF LoadInv, CapturesOK, CapturesTyped, Met1, FirstType, Captures, Depth, Layers, Key, Pos
<1>2. \A p \in 1..Pos : Frames(p)'
  BY DEF LoadInv, Frames, Around
<1>3. \A i \in 1..Len(refs) : RefFits(i)'
  BY DEF LoadInv, RefFits
<1> QED BY <1>1, <1>2, <1>3 DEF LoadInv, Pos

LEMMA CompileLoads ==
  ASSUME LoadsInv, IInv', CompileReference
  PROVE  LoadsInv'
<1>1. /\ UNCHANGED <<top, scopes, quoted, refs, uses, caps>>
      /\ phase' \in {"walk", "compile", "rejected"}
  BY DEF CompileReference, LoadsInv
<1>2. LoadInv'
  BY <1>1, SamePath DEF LoadsInv, IInv
<1>3. PICK S : compiled \in Seq(S)
  BY DEF LoadsInv, IInv, CodeInv
<1>4. PICK n : n = Len(compiled) + 1
  OBVIOUS
<1>5. PICK c : c = Code(refs[n])
  OBVIOUS
<1>6. /\ n \in 1..Len(refs) /\ compiled' = Append(compiled, c) /\ Len(compiled) \in Nat
      /\ Len(refs) \in Nat
  BY <1>3, <1>4, <1>5 DEF CompileReference, LoadsInv, IInv, UseInv
<1>7. /\ Len(compiled') = n /\ compiled'[n] = c /\ DOMAIN compiled' = 1..n
      /\ \A i \in DOMAIN compiled : compiled'[i] = compiled[i]
      /\ DOMAIN compiled = 1..Len(compiled) /\ 1..n = (1..Len(compiled)) \cup {n}
  <2>1. compiled \in Seq(S \cup {c})
    BY <1>3
  <2> QED BY <1>4, <1>6, <2>1
<1>8. /\ c.r = refs[n]
      /\ ~Around(refs[n].pos, {"bare"}) /\ c.how \in {"load", "direct"} => c.to = refs[n].to
      /\ c.how = "refused" =>
           refs[n].quoted \/ ToModule(refs[n]) \/ Around(refs[n].pos, {"bare"})
      /\ c.how = "load" /\ refs[n].to = 1 /\ c.to = 1 => Earlier(n, c.ty)
  BY <1>5, <1>6, CodeIsRight DEF LoadsInv
<1>9. Done' = Done \cup {c}
  BY <1>7 DEF Done
<1>10. InOrder'
  BY <1>1, <1>6, <1>7, <1>8 DEF InOrder, LoadsInv
<1>11. LoadsTheResolvedBinding' /\ RefusesOnlyQuotedOrModules'
  BY <1>1, <1>8, <1>9 DEF LoadsInv, CodeLoads, LoadsTheResolvedBinding,
                          RefusesOnlyQuotedOrModules, Around, ToModule
<1>12. LoadsTheInstanceOfAnEarlierUse'
  <2>1. ASSUME NEW i \in 1..n, compiled'[i].how = "load", compiled'[i].r.to = 1,
               compiled'[i].to = 1
        PROVE  \/ compiled'[i].ty = compiled'[i].r.ty
               \/ \E k \in 1..(i - 1) :
                    /\ refs[k].ty = compiled'[i].ty
                    /\ UsesTheCaptureOf(compiled'[i].r, refs[k])
    <3>1. CASE i = n
      BY <1>7, <1>8, <2>1, <3>1 DEF Earlier
    <3>2. CASE i # n
      <4>1. i \in DOMAIN compiled /\ compiled'[i] = compiled[i]
        BY <1>7, <3>2
      <4> QED BY <2>1, <4>1 DEF LoadsInv, CodeLoads, LoadsTheInstanceOfAnEarlierUse
    <3> QED BY <3>1, <3>2
  <2> QED BY <1>1, <1>7, <2>1
          DEF LoadsTheInstanceOfAnEarlierUse, UsesTheCaptureOf, Captures, Depth, Layers
<1> QED BY <1>1, <1>2, <1>10, <1>11, <1>12 DEF LoadsInv, CodeLoads

-----------------------------------------------------------------------------
LEMMA LoadsStep == LoadsInv /\ [Next]_vars => LoadsInv'
<1> SUFFICES ASSUME LoadsInv, [Next]_vars PROVE LoadsInv'
  OBVIOUS
<1>0. IInv'
  BY StepCorrect DEF LoadsInv
<1>1. CASE EnterBlock
  <2>1. PICK s \in {BlockScope, BareScope} : scopes' = Append(scopes, s)
    BY <1>1 DEF EnterBlock
  <2> QED BY <1>0, <1>1, <2>1, EnterLoads DEF EnterBlock
<1>2. CASE EnterFunction /\ ~quoted
  BY <1>0, <1>2, EnterLoads DEF EnterFunction
<1>3. CASE (EnterFunction /\ quoted) \/ EnterInterpolation \/ EndWalk
  <2>1. /\ UNCHANGED <<top, scopes, refs, uses, caps>> /\ Walking
        /\ phase' \in {"walk", "compile", "rejected"} /\ (quoted => quoted')
    BY <1>3 DEF EnterFunction, EnterInterpolation, EndWalk, Walking, LoadsInv
  <2>2. LoadInv'
    BY <1>0, <2>1, SamePath DEF LoadsInv, IInv
  <2>3. InOrder' /\ CodeLoads'
    BY <2>1, NoCodeYet DEF LoadsInv, IInv, UseInv
  <2> QED BY <1>0, <2>1, <2>2, <2>3 DEF LoadsInv
<1>4. CASE Refer
  BY <1>0, <1>4, ReferLoads
<1>5. CASE CompileReference
  BY <1>0, <1>5, CompileLoads
<1>6. CASE UNCHANGED vars
  <2>1. UNCHANGED <<top, scopes, quoted, refs, uses, caps, compiled, phase>>
    BY <1>6 DEF vars
  <2>2. LoadInv'
    BY <1>0, <2>1, SamePath DEF LoadsInv, IInv
  <2>3. InOrder' /\ CodeLoads'
    BY <2>1 DEF LoadsInv, InOrder, CodeLoads, LoadsTheResolvedBinding, Done, Around,
                RefusesOnlyQuotedOrModules, ToModule, LoadsTheInstanceOfAnEarlierUse,
                UsesTheCaptureOf, Captures, Depth, Layers
  <2> QED BY <1>0, <2>1, <2>2, <2>3 DEF LoadsInv
<1> QED BY <1>1, <1>2, <1>3, <1>4, <1>5, <1>6 DEF Next

(* In every state the captures are as the uses met so far require, and the *)
(* code generated from them is right (jit.rs:1296, 2673).                  *)
THEOREM LoadsCorrect == Spec => []LoadsInv
<1> QED BY LoadsInit, LoadsStep, PTL DEF Spec

(* The block frames, the captures and the closures they are copied from,   *)
(* each counted for itself, add up to the resolver's depth wherever no     *)
(* block without definitions is around the variable (jit.rs:2673).         *)
THEOREM ResolvedBindingCorrect == Spec => []LoadsTheResolvedBinding
<1>1. LoadsInv => LoadsTheResolvedBinding
  BY DEF LoadsInv, CodeLoads
<1> QED BY <1>1, LoadsCorrect, PTL

(* No variable is refused but inside ${ } or a block without definitions,  *)
(* or if it is a module: each function on the way to the binding has a     *)
(* capture of it (jit.rs:2767).                                            *)
THEOREM RefusalsCorrect == Spec => []RefusesOnlyQuotedOrModules
<1>1. LoadsInv => RefusesOnlyQuotedOrModules
  BY DEF LoadsInv, CodeLoads
<1> QED BY <1>1, LoadsCorrect, PTL

(* A top-level binding is read from the instance of the type it is used at *)
(* or of an earlier use that a common function captured (jit.rs:1349).     *)
THEOREM InstancesCorrect == Spec => []LoadsTheInstanceOfAnEarlierUse
<1>1. LoadsInv => LoadsTheInstanceOfAnEarlierUse
  BY DEF LoadsInv, CodeLoads
<1> QED BY <1>1, LoadsCorrect, PTL

(* The frames, bases and nesting of every environment are as the passes    *)
(* of jit.rs keep them (jit.rs:1191, 2241), among the other types.         *)
THEOREM TypeCorrect == Spec => []TypeOK
<1>1. LoadsInv => TypeOK
  <2> SUFFICES ASSUME LoadsInv PROVE TypeOK
    OBVIOUS
  <2>1. Pos \in 1..MaxScopes
    BY JitScopeAssumption DEF LoadsInv, LoadInv, PathInv, CapturesOK, CapturesTyped
  <2>2. ASSUME NEW p \in 1..Pos
        PROVE  /\ scopes[p].kind \in {"top", "block", "bare", "fn"}
               /\ scopes[p].base \in 1..p /\ scopes[p].nesting \in 0..(p - 1)
               /\ ToSet(scopes[p].frames) =
                    {q \in (scopes[p].base + 1)..p : scopes[q].kind = "block"}
    <3>1. scopes[p] \in Scopes /\ Environment(p) /\ Frames(p)
      BY DEF LoadsInv, LoadInv, PathInv, Pos
    <3>2. scopes[p].nesting \in Nat /\ scopes[p].nesting <= p - 1
      BY <3>1 DEF Scopes, Frames
    <3>3. scopes[p].nesting \in 0..(p - 1)
      BY <3>2
    <3> QED BY <3>1, <3>3 DEF Scopes, Kinds, Environment, Frames
  <2>3. \A i \in DOMAIN refs : refs[i].pos \in 1..Pos /\ refs[i].to \in 0..refs[i].pos
    BY DEF LoadsInv, IInv, UseInv, Met
  <2> QED BY <2>1, <2>2, <2>3 DEF TypeOK, LoadsInv, LoadInv, PathInv, InOrder
<1> QED BY <1>1, LoadsCorrect, PTL
===============================================================================
