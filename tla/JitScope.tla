------------------------------- MODULE JitScope -------------------------------
(***************************************************************************)
(* How the JIT finds what a variable refers to.  The resolver gives every  *)
(* variable a depth, counted in scopes of any kind; the passes of jit.rs   *)
(* count scopes again, each in its own way: collect_uses_in and            *)
(* collect_captures count functions and blocks, discover counts functions, *)
(* and code generation peels the block frames of the innermost function.   *)
(*                                                                         *)
(* The model follows one path of nested scopes down from the top level,    *)
(* lets some variables occur on it, and then compiles them.  Names and     *)
(* everything else an expression holds are left out.                       *)
(***************************************************************************)
EXTENDS Naturals, Sequences, SequencesExt, TLC

CONSTANTS
  NumSlots,     (* bindings in each scope; the first slots of the root     *)
                (* scope are the modules List, String and Number           *)
  FunTypes,     (* monomorphic function types                              *)
  Tops,         (* the top levels to try: slot -> [lit, at]                *)
  MaxScopes,    (* bound: scopes nested in each other, the top level too   *)
  MaxRefs       (* bound: variables on the path                            *)

Slots   == 0..(NumSlots - 1)
Plain   == "record"
Module  == "module"
Types   == FunTypes \cup {Plain}

(* A top-level binding is a function literal or not, and has the types in  *)
(* `at': several when it is polymorphic.                                   *)
ASSUME JitScopeAssumption ==
  /\ NumSlots \in 1..3 /\ MaxScopes \in Nat \ {0} /\ MaxRefs \in Nat
  /\ Module \notin Types
  /\ Tops \subseteq [Slots -> [lit : BOOLEAN, at : SUBSET Types]]

VARIABLES
  top,          (* the top-level bindings                                  *)
  scopes,       (* the path; each scope with the environment code is       *)
                (* generated in: the positions of block_frames, of the     *)
                (* innermost function, and discover's nesting              *)
  quoted,       (* the path has entered an embedded ${ }                   *)
  refs,         (* the variables met: [pos, to, slot, ty, form, quoted]    *)
  uses,         (* slot -> the types collect_uses_in has found             *)
  caps,         (* position of a function -> its captures, as a function   *)
                (* from <<depth, slot>> to a type                          *)
  compiled,     (* what the code of each variable does, in order           *)
  phase         (* "walk", "compile" or "rejected"                         *)

vars == <<top, scopes, quoted, refs, uses, caps, compiled, phase>>

Main == [kind |-> "top", frames |-> <<>>, base |-> 1, nesting |-> 0]
Pos  == Len(scopes)
Here == Last(scopes)
NoCaptures == [k \in {} |-> Plain]

Init ==
  /\ top \in Tops
  /\ scopes   = <<Main>>
  /\ quoted   = FALSE
  /\ refs     = <<>>
  /\ uses     = [s \in Slots |-> {}]
  /\ caps     = [p \in 1..MaxScopes |-> NoCaptures]
  /\ compiled = <<>>
  /\ phase    = "walk"

-----------------------------------------------------------------------------
(* The walk.                                                               *)
Walking == phase = "walk" /\ UNCHANGED <<top, compiled>>

(* Block and ImmediateBlock push a block frame.  An ImmediateBlock without *)
(* definitions pushes none, but is a scope to the resolver and to the      *)
(* passes that collect.                                                    *)
InnerScope(kind, frames) ==
  [kind |-> kind, frames |-> frames, base |-> Here.base, nesting |-> Here.nesting]
BlockScope == InnerScope("block", Append(Here.frames, Pos + 1))
BareScope  == InnerScope("bare", Here.frames)

EnterBlock ==
  /\ Walking /\ Pos < MaxScopes
  /\ \E s \in {BlockScope, BareScope} : scopes' = Append(scopes, s)
  /\ UNCHANGED <<quoted, refs, uses, caps, phase>>

(* Seeded fault: the frames of the enclosing function are kept.            *)
FunctionScopeInFrames ==
  [kind |-> "fn", frames |-> Here.frames, base |-> Pos + 1,
   nesting |-> Here.nesting + 1]

(* discover declares a function literal and descends with nesting + 1; the *)
(* code of its body starts without block frames.  No pass looks into ${ }, *)
(* so the literals there have no FuncInfo when they are compiled.          *)
FunctionScope ==
  [kind |-> "fn", frames |-> <<>>, base |-> Pos + 1, nesting |-> Here.nesting + 1]
EnterFunction ==
  /\ Walking /\ Pos < MaxScopes
  /\ IF quoted THEN phase' = "rejected" /\ UNCHANGED scopes
     ELSE scopes' = Append(scopes, FunctionScope) /\ UNCHANGED phase
  /\ UNCHANGED <<quoted, refs, uses, caps>>

EnterInterpolation ==
  /\ Walking /\ ~quoted
  /\ quoted' = TRUE
  /\ UNCHANGED <<scopes, refs, uses, caps, phase>>

(* The variables that can occur here: the modules, at position 0, called   *)
(* through a member; a binding of the top level at a type it has; a        *)
(* binding of any other scope, always at the same type.                    *)
MaySayRef(r) ==
  /\ r.pos = Pos /\ r.quoted = quoted
  /\ r.to # 0 => scopes[r.to].kind # "bare"
  /\ CASE r.to = 0 -> r.ty = Module
       [] r.to = 1 -> r.ty \in top[r.slot].at
       [] OTHER    -> r.ty \in Types /\ \A i \in DOMAIN refs :
                        refs[i].to = r.to /\ refs[i].slot = r.slot => refs[i].ty = r.ty
  /\ r.form = "member" <=> r.ty \in {Plain, Module}

References ==
  [pos : {Pos}, to : 0..Pos, slot : Slots, ty : Types \cup {Module},
   form : {"use", "call", "member"}, quoted : {quoted}]

(* The resolver: scopes between the occurrence and the binding.            *)
Depth(r) == r.pos - r.to

(* Seeded fault: only functions count as layers.                           *)
FunctionLayers(p, r) == scopes[r.pos].nesting - scopes[p].nesting

(* collect_captures from the function at p: the scopes entered since.      *)
Layers(p, r) == r.pos - p

Captures(p, r) ==
  /\ p <= r.pos /\ scopes[p].kind = "fn"
  /\ Depth(r) >= Layers(p, r) + 1
  /\ r.ty # Module /\ ~r.quoted

(* Seeded fault: a later type takes the place of the first.                *)
CollectLast(r) ==
  /\ uses' = [uses EXCEPT ![r.slot] =
                IF Depth(r) = Pos - 1 /\ ~r.quoted THEN @ \cup {r.ty} ELSE @]
  /\ caps' = [p \in DOMAIN caps |->
                IF p <= Pos /\ Captures(p, r)
                THEN (<<Depth(r) - Layers(p, r), r.slot>> :> r.ty) @@ caps[p]
                ELSE caps[p]]

(* The first type found for a captured variable is kept (or_insert).       *)
OrInsert(f, k, v) ==
  IF k \in DOMAIN f THEN f
  ELSE [x \in DOMAIN f \cup {k} |-> IF x = k THEN v ELSE f[x]]

Collect(r) ==
  /\ uses' = [uses EXCEPT ![r.slot] =
                IF Depth(r) = Pos - 1 /\ ~r.quoted THEN @ \cup {r.ty} ELSE @]
  /\ caps' = [p \in DOMAIN caps |->
                IF p <= Pos /\ Captures(p, r)
                THEN OrInsert(caps[p], <<Depth(r) - Layers(p, r), r.slot>>, r.ty)
                ELSE caps[p]]

Refer ==
  /\ Walking /\ Len(refs) < MaxRefs
  /\ \E r \in References :
       /\ MaySayRef(r)
       /\ refs' = Append(refs, r)
       /\ Collect(r)
  /\ UNCHANGED <<scopes, quoted, phase>>

-----------------------------------------------------------------------------
(* Instances of the top-level bindings: a value has the one of its type, a *)
(* function those it is used at, or that of its definition if it is not    *)
(* used; a polymorphic function that is never used is refused.             *)
InstanceTypes(s) ==
  IF top[s].lit /\ uses[s] # {} THEN uses[s] ELSE top[s].at
UnusedPolymorphic(s) == top[s].lit /\ uses[s] = {} /\ \E t, u \in top[s].at : t # u

EndWalk ==
  /\ Walking
  /\ phase' = IF \E s \in Slots : UnusedPolymorphic(s) THEN "rejected" ELSE "compile"
  /\ UNCHANGED <<scopes, quoted, refs, uses, caps>>

(* load_variable in the environment of the scope at position p: peel the   *)
(* block frames, then a top-level instance, a parameter, or a capture,     *)
(* which is what the same function finds one scope further out, where the  *)
(* closure is made.  The result is the position it ends at and the type    *)
(* that selects an instance there.                                         *)
Missing == [to |-> 0, ty |-> Plain]
Find(outer, p, d, slot, ty) ==
  LET env  == scopes[p]
      n    == Len(env.frames)
      over == d - n
  IN  CASE d < n -> [to |-> env.frames[n - d], ty |-> ty]
        [] d >= n /\ env.base = 1 ->
             IF d = n /\ ty \in InstanceTypes(slot)
             THEN [to |-> 1, ty |-> ty] ELSE Missing
        [] d = n /\ env.base # 1 -> [to |-> env.base, ty |-> ty]
        [] OTHER ->
             IF <<over, slot>> \in DOMAIN caps[env.base]
             THEN outer[<<env.base - 1, over - 1, slot, caps[env.base][<<over, slot>>]>>]
             ELSE Missing

Places == (1..Pos) \X (0..Pos) \X Slots \X (Types \cup {Module})
load[at \in Places] == Find(load, at[1], at[2], at[3], at[4])
Load(depth, slot, pos, ty) == load[<<pos, depth, slot, ty>>]

(* top_level_func: does the variable name a top-level function?            *)
(* Seeded fault: the target is one scope further out.                      *)
DepthOfParent(p) == scopes[p].nesting + 1

DepthToTopLevel(p) == scopes[p].nesting
NamesTopLevelFunction(r) ==
  /\ Depth(r) = DepthToTopLevel(r.pos)
  /\ top[r.slot].lit /\ r.ty \in InstanceTypes(r.slot)

(* try_compile_stdlib_call: does the variable name a module?               *)
(* Seeded fault: the block frames are not counted.                         *)
DistanceOfFunction(p) == scopes[p].nesting + 1

DistanceToRoot(p) == Len(scopes[p].frames) + scopes[p].nesting + 1
NamesModule(r) == Depth(r) = DistanceToRoot(r.pos)

(* A member call of a module calls a runtime function; a call of a         *)
(* top-level function calls its code, with the loaded closure; everything  *)
(* else uses the loaded value.                                             *)
Code(r) ==
  LET found == Load(Depth(r), r.slot, r.pos, r.ty)
  IN  IF r.form = "member" /\ NamesModule(r)
      THEN [how |-> "stdlib", r |-> r, to |-> 0, ty |-> r.ty]
      ELSE [how |-> IF found = Missing THEN "refused"
                    ELSE IF r.form = "call" /\ NamesTopLevelFunction(r) THEN "direct"
                    ELSE "load",
            r |-> r, to |-> found.to, ty |-> found.ty]

CompileReference ==
  /\ phase = "compile" /\ Len(compiled) < Len(refs)
  /\ LET c == Code(refs[Len(compiled) + 1])
     IN  /\ compiled' = Append(compiled, c)
         /\ phase' = IF c.how = "refused" THEN "rejected" ELSE phase
  /\ UNCHANGED <<top, scopes, quoted, refs, uses, caps>>

Next ==
  EnterBlock \/ EnterFunction \/ EnterInterpolation \/ Refer \/ EndWalk
  \/ CompileReference

Spec == Init /\ [][Next]_vars

-----------------------------------------------------------------------------
TypeOK ==
  /\ top \in Tops
  /\ Pos \in 1..MaxScopes
  /\ \A p \in 1..Pos :
       /\ scopes[p].kind \in {"top", "block", "bare", "fn"}
       /\ scopes[p].base \in 1..p /\ scopes[p].nesting \in 0..(p - 1)
       /\ ToSet(scopes[p].frames) =
            {q \in (scopes[p].base + 1)..p : scopes[q].kind = "block"}
  /\ quoted \in BOOLEAN
  /\ \A i \in DOMAIN refs : refs[i].pos \in 1..Pos /\ refs[i].to \in 0..refs[i].pos
  /\ uses \in [Slots -> SUBSET Types]
  /\ Len(compiled) <= Len(refs)
  /\ phase \in {"walk", "compile", "rejected"}

Done == {compiled[i] : i \in DOMAIN compiled}
Around(p, kinds) == \E q \in 1..p : scopes[q].kind \in kinds

(* The modules are at position 0, a top-level function is a literal there. *)
ToModule(r) == r.to = 0
ToTopLevelFunction(r) == r.to = 1 /\ top[r.slot].lit

(* Whatever is loaded comes from the scope the resolver chose: the block   *)
(* frames, the captures and the closures they are copied from, each        *)
(* counted for itself, add up to the resolver's depth (jit.rs:2673),       *)
(* unless a block without definitions is around the variable.              *)
LoadsTheResolvedBinding ==
  \A c \in Done : ~Around(c.r.pos, {"bare"}) /\ c.how \in {"load", "direct"} =>
    c.to = c.r.to

(* Wherever no block is around the call, top_level_func answers for        *)
(* top-level functions only (jit.rs:3656), and for all of them that are    *)
(* called outside ${ }.                                                    *)
DirectCallsAreRightOutsideBlocks ==
  \A c \in Done :
    ~Around(c.r.pos, {"block", "bare"}) /\ c.r.form = "call" /\ c.how # "refused" =>
      /\ c.how = "direct" => ToTopLevelFunction(c.r)
      /\ ToTopLevelFunction(c.r) /\ ~c.r.quoted => c.how = "direct"

(* Exactly the calls of modules are compiled as such (jit.rs:3044), the    *)
(* blocks of the innermost function included, unless that function is      *)
(* inside a block or a block without definitions is around the call.       *)
ModulesAreRightOutsideFunctionsInBlocks ==
  \A c \in Done :
    /\ ~Around(scopes[c.r.pos].base, {"block"}) /\ ~Around(c.r.pos, {"bare"})
    /\ c.r.form = "member"
    => (c.how = "stdlib" <=> ToModule(c.r))

(* A variable is refused only inside ${ } or a block without definitions,  *)
(* or when it is a module (jit.rs:2767).                                   *)
RefusesOnlyQuotedOrModules ==
  \A c \in Done : c.how = "refused" =>
    c.r.quoted \/ ToModule(c.r) \/ Around(c.r.pos, {"bare"})

(* A binding of the top level is read from the instance of the type it is  *)
(* used at, or, in a function, of the type of an earlier use of the same   *)
(* binding there: captures keep the first type met (jit.rs:1349).          *)
UsesTheCaptureOf(r, q) ==
  /\ q.to = r.to /\ q.slot = r.slot
  /\ \E p \in 2..r.pos : Captures(p, q)

LoadsTheInstanceOfAnEarlierUse ==
  \A i \in DOMAIN compiled :
    LET c == compiled[i] IN
      c.how = "load" /\ c.r.to = 1 /\ c.to = 1 =>
        \/ c.ty = c.r.ty
        \/ \E k \in 1..(i - 1) : refs[k].ty = c.ty /\ UsesTheCaptureOf(c.r, refs[k])

(* What is said of the same code without an exception: top_level_func      *)
(* answers only if the variable names a top-level function (jit.rs:3653).  *)
DirectCallsNameTopLevelFunctions ==
  \A c \in Done : c.how = "direct" => ToTopLevelFunction(c.r)
=============================================================================
