------------------------------- MODULE Worklist -------------------------------
(***************************************************************************)
(* Pass 1 of compile_program (jit.rs): which instances of the top-level    *)
(* functions are compiled.  A queue of <<slot, type>> pairs is processed   *)
(* breadth first, and a pair that the body of an instance uses is queued   *)
(* unless it has been before.                                              *)
(*                                                                         *)
(* What a definition is, its type and the pairs a walk of an expression    *)
(* meets are parameters here; JitInstances defines them, and adds the      *)
(* checks that refuse a program and the literals found on the way.         *)
(***************************************************************************)
EXTENDS Typed, Naturals, FiniteSets, SequencesExt

CONSTANTS
  DefinitionsOf(_),   (* the slots of a statement's definitions            *)
  IsLiteral(_, _),    (* whether one of them is a function literal         *)
  TypeOf(_, _),       (* its type                                          *)
  MetAtTop(_, _),     (* the pairs met in the main body and the values     *)
  MetIn(_, _, _)      (* the pairs met in the body of an instance          *)

VARIABLES
  stage,        (* "check", "seed", "work", then "code", "main" and "run"  *)
                (* (JitGen, JitRun), or how it ended                       *)
  asked,        (* visited: the pairs that were queued                     *)
  worklist,
  instances     (* top_level_instances: the pairs compiled, in order       *)

queueVars == <<stage, asked, worklist, instances>>

IsFunctionDef(slot) == IsLiteral(prog, slot)
FunctionSlots  == {s \in DefinitionsOf(prog) : IsFunctionDef(s)}
ValueSlots     == DefinitionsOf(prog) \ FunctionSlots
DefType(slot)  == TypeOf(inferer, slot)

OfFunctions(pairs)  == {u \in pairs : u[1] \in FunctionSlots}
AtTheirTypes(slots) == {<<s, DefType(s)>> : s \in slots}

(* The uses of the main body and of the values; the functions without one; *)
(* the uses of an instance.                                                *)
Seeds        == OfFunctions(MetAtTop(prog, inferer))
Unused       == {s \in FunctionSlots : \A u \in Seeds : u[1] # s}
UsedBy(inst) == OfFunctions(MetIn(prog, inferer, inst))

BySlot(pairs) == \A i, j \in DOMAIN pairs : i < j => pairs[i][1] < pairs[j][1]

-----------------------------------------------------------------------------
QueueInit == stage = "check" /\ asked = {} /\ worklist = <<>> /\ instances = <<>>

Register ==
  /\ stage = "check"
  /\ \E order \in SetToSeqs(AtTheirTypes(ValueSlots)) :
       BySlot(order) /\ instances' = order
  /\ stage' = "seed"
  /\ UNCHANGED <<asked, worklist>>

(* The seeds in the order of a HashMap, then each function without a use,  *)
(* at the type of its definition.                                          *)
Seed ==
  /\ stage = "seed"
  /\ \E order \in SetToSeqs(Seeds), rest \in SetToSeqs(AtTheirTypes(Unused)) :
       BySlot(rest) /\ worklist' = order \o rest
  /\ asked' = Seeds \cup AtTheirTypes(Unused)
  /\ stage' = "work"
  /\ UNCHANGED instances

(* Seeded fault: an instance is queued only for a definition without one.  *)
NewSlotUses(inst) == {u \in UsedBy(inst) : \A a \in asked : a[1] # u[1]}
NewUses(inst)     == UsedBy(inst) \ asked

Compile ==
  /\ stage = "work" /\ worklist # <<>>
  /\ \E order \in SetToSeqs(NewUses(Head(worklist))) : worklist' = Tail(worklist) \o order
  /\ asked' = asked \cup NewUses(Head(worklist))
  /\ instances' = Append(instances, Head(worklist))
  /\ UNCHANGED stage

Finish ==
  /\ stage = "work" /\ worklist = <<>>
  /\ stage' = "code"
  /\ UNCHANGED <<asked, worklist, instances>>

GoTo(how) ==
  /\ stage' = how
  /\ UNCHANGED <<asked, worklist, instances>>

-----------------------------------------------------------------------------
(* The queue on its own, for the proofs: programs and the walks of their   *)
(* expressions are finite.  While types are inferred anything may happen   *)
(* to the program, afterwards nothing does; any pass may stop, and those   *)
(* that follow leave the queue alone.                                      *)
Later == {"code", "main", "run", "ran", "panicked"}

FiniteProgram ==
  /\ IsFiniteSet(DefinitionsOf(prog))
  /\ IsFiniteSet(MetAtTop(prog, inferer))
  /\ \A inst : IsFiniteSet(MetIn(prog, inferer, inst))

QueueNext ==
  \/ stage = "check" /\ UNCHANGED queueVars
  \/ /\ \/ FiniteProgram /\ Register
        \/ Seed \/ Compile \/ Finish
        \/ GoTo("refused") \/ GoTo("cut")
        \/ stage \in Later /\ \E how \in Later : GoTo(how)
     /\ UNCHANGED <<prog, inferer>>

QueueSpec == QueueInit /\ [][QueueNext]_<<prog, inferer, queueVars>>

-----------------------------------------------------------------------------
(* When the worklist is empty the instances are exactly those the program  *)
(* needs, each once and whatever the order of the hash maps: the ones main *)
(* and the values use, the unused functions, and what these use in turn    *)
(* (ROADMAP.md:77).                                                        *)
First    == Seeds \cup AtTheirTypes(Unused)
Compiled == {i \in DOMAIN instances : instances[i][1] \in FunctionSlots}
AllOfThem == {instances[i] : i \in Compiled}

CompilesExactlyWhatIsUsed ==
  stage \in Later =>
    /\ First \subseteq AllOfThem
    /\ \A i \in Compiled :
         /\ UsedBy(instances[i]) \subseteq AllOfThem
         /\ \A j \in Compiled : instances[i] = instances[j] => i = j
         /\ \/ instances[i] \in First
            \/ \E j \in Compiled : j < i /\ instances[i] \in UsedBy(instances[j])

(* No smaller set of instances would do (jit.rs:1056): one that has the    *)
(* first ones and what its members use has them all.                       *)
NothingIsSuperfluous ==
  stage \in Later =>
    \A S \in SUBSET AllOfThem :
      First \subseteq S /\ (\A inst \in S : UsedBy(inst) \subseteq S) => S = AllOfThem
=============================================================================
