------------------------------ MODULE TypeCheck ------------------------------
(***************************************************************************)
(* The type checker (typeck.rs) on a resolved statement.  The inferer is a *)
(* record that every operation takes and returns:                          *)
(*   next    the next type variable          subst   the substitution      *)
(*   warned  a mismatch was reported         nodes   path -> recorded type *)
(* A path names an expression as its address does in the code: the first   *)
(* element is the definition it is in (0: the body), the others the child  *)
(* taken at each level.  An environment is a sequence of frames of schemes,*)
(* the root frame first.                                                   *)
(*                                                                         *)
(* `early' is not in the code: the variables that were generalized while   *)
(* an enclosing or sibling binding still depended on them.                 *)
(***************************************************************************)
EXTENDS Typed, Types, Syntax

CONSTANTS
  Programs,     (* the statements a run may check                          *)
  FirstVar      (* INFERER_VAR_START                                       *)

ASSUME FirstVarAssumption == FirstVar \in Nat

VARIABLES
  env,          (* the environment of the statement's definitions          *)
  at,           (* the definition to infer next; 0 before the first        *)
  result        (* program_type, once everything is inferred               *)

typeVars == <<prog, inferer, env, at, result>>

Inferred(ty, st) == [ty |-> ty, st |-> st]
Resolve(ty, st)  == Apply(ty, st.subst)
Warn(st)         == [st EXCEPT !.warned = TRUE]

-----------------------------------------------------------------------------
(* Fresh variables, instances and generalization.                          *)
Fresh(st, n) == [i \in 1..n |-> Var(st.next + i - 1)]
(* Seeded fault: one variable too few is used up.                          *)
UsedButOne(st, n) == [st EXCEPT !.next = IF n > 1 THEN @ + n - 1 ELSE @ + n]
Used(st, n)       == [st EXCEPT !.next = @ + n]

Instantiate(sch, st) ==
  LET number(v) == st.next + Cardinality({w \in sch.vars : w < v})
  IN  Inferred(Apply(sch.ty, [v \in sch.vars |-> Var(number(v))]),
               Used(st, Cardinality(sch.vars)))

(* The other bindings in scope while definition i of the innermost frame   *)
(* is generalized.                                                         *)
Others(e, i) ==
  UNION {{e[f][j] : j \in DOMAIN e[f] \ (IF f = Len(e) THEN {i} ELSE {})} : f \in DOMAIN e}

(* Seeded fault: the enclosing frames are left out.                        *)
VarsOfSiblings(e, i) ==
  UNION {SchemeVars(Last(e)[j]) : j \in DOMAIN Last(e) \ {i}}

(* outer_vars_excluding: the variables as they stand in the schemes, not   *)
(* what the substitution has made of them.                                 *)
OuterVars(e, i) == UNION {SchemeVars(sch) : sch \in Others(e, i)}

(* The variables that bindings with these variables really depend on.      *)
DependedOn(vars, st) == UNION {FreeVars(Resolve(Var(v), st)) : v \in vars}

Generalize(outer, ty, st) ==
  LET resolved == Resolve(ty, st)
  IN  Scheme(FreeVars(resolved) \ outer, resolved)

-----------------------------------------------------------------------------
(* Unification.  A failure keeps what was bound before it.                 *)
Unified(s)  == [ok |-> TRUE, subst |-> s]
Mismatch(s) == [ok |-> FALSE, subst |-> s]

(* Seeded fault: an occurs check that does not see through the             *)
(* substitution.                                                           *)
BindShallow(v, ty, s) ==
  LET resolved == Apply(ty, s)
  IN  CASE resolved = Var(v) -> Unified(s)
        [] resolved # Var(v) /\ Occurs(v, ty) -> Mismatch(s)
        [] OTHER -> Unified((v :> resolved) @@ s)

(* An unbound variable meets a type.                                       *)
Bind(v, ty, s) ==
  LET resolved == Apply(ty, s)
  IN  CASE resolved = Var(v) -> Unified(s)
        [] resolved # Var(v) /\ Occurs(v, resolved) -> Mismatch(s)
        [] OTHER -> Unified((v :> resolved) @@ s)

RECURSIVE UnifyInner(_, _, _), UnifySeq(_, _, _), UnifyFields(_, _, _, _),
          UnifyPositions(_, _, _, _)

UnifyVar(v, ty, s) == IF v \in DOMAIN s THEN UnifyInner(s[v], ty, s) ELSE Bind(v, ty, s)

(* Arguments and result: each pair is resolved when its turn comes; u is   *)
(* how it went so far.                                                     *)
UnifySeq(as, bs, u) ==
  IF as = <<>> \/ ~u.ok THEN u
  ELSE UnifySeq(Tail(as), Tail(bs),
                UnifyInner(Apply(Head(as), u.subst), Apply(Head(bs), u.subst), u.subst))

(* Seeded fault: fields are paired by position.                            *)
UnifyPositions(a, b, i, u) ==
  IF i > Len(b.names) \/ ~u.ok THEN u
  ELSE UnifyPositions(a, b, i + 1, UnifyInner(FieldType(a, i), FieldType(b, i), u.subst))

(* Fields from the i-th of b on, by name; the last of a repeated one in a. *)
UnifyFields(a, b, i, u) ==
  IF i > Len(b.names) \/ ~u.ok THEN u
  ELSE LET same == FieldsNamed(a, b.names[i])
           k == CHOOSE k \in same : \A j \in same : j <= k
       IN  UnifyFields(a, b, i + 1,
             IF same = {} THEN Mismatch(u.subst)
             ELSE UnifyInner(FieldType(a, k), FieldType(b, i), u.subst))

UnifyInner(a, b, s) ==
  CASE a.t = "any" \/ b.t = "any" -> Unified(s)
    [] a.t = "var" /\ b.t # "any" -> UnifyVar(a.v, b, s)
    [] a.t \notin {"var", "any"} /\ b.t = "var" -> UnifyVar(b.v, a, s)
    [] a.t = b.t /\ a.t \in Basic -> Unified(s)
    [] a.t = b.t /\ a.t = "fn" ->
         IF Len(a.args) # Len(b.args) THEN Mismatch(s)
         ELSE UnifySeq(Append(a.args, a.ret), Append(b.args, b.ret), Unified(s))
    [] a.t = b.t /\ a.t = "list" -> UnifyInner(a.elem, b.elem, s)
    [] a.t = b.t /\ a.t \in {"record", "module"} ->
         IF Len(a.names) # Len(b.names) THEN Mismatch(s)
         ELSE UnifyFields(a, b, 1, Unified(s))
    [] OTHER -> Mismatch(s)

(* unify: a mismatch is a warning, and checking goes on.                   *)
After(u, st)    == [st EXCEPT !.subst = u.subst, !.warned = @ \/ ~u.ok]
Unify(a, b, st) == After(UnifyInner(Resolve(a, st), Resolve(b, st), st.subst), st)

UnifyBoth(l, lt, r, rt, st) == Unify(r, rt, Unify(l, lt, st))

InferBinop(o, l, r, st) ==
  LET operand == IF o \in {"And", "Or"} THEN BoolType ELSE NumberType
      both    == UnifyBoth(l, operand, r, operand, st)
  IN  CASE o \in {"Eq", "Ne"} -> Inferred(BoolType, Unify(l, r, st))
        [] o \in {"Add", "Sub", "Mul"} -> Inferred(NumberType, both)
        [] OTHER -> Inferred(BoolType, both)

-----------------------------------------------------------------------------
(* Inference.  What an inference returned is passed on: to be resolved, to *)
(* be unified with a type on its right or left, or with others.            *)
Resolved(ty, st) == Inferred(Resolve(ty, st), st)
Is(r, ty)        == Unify(r.ty, ty, r.st)
Meets(ty, r)     == Unify(ty, r.ty, r.st)

NoneYet(st) == [tys |-> <<>>, st |-> st]
Followed(all, r) == [tys |-> Append(all.tys, r.ty), st |-> r.st]

RECURSIVE Infer(_, _, _, _), InferAll(_, _, _, _, _), InferList(_, _, _, _, _, _),
          InferParts(_, _, _, _, _), InferBinds(_, _, _, _)

(* Definition i of the innermost frame, whose slot has met its body.       *)
GeneralizeBind(i, e, st) ==
  LET outer == OuterVars(e, i)
      gen   == Generalize(outer, Last(e)[i].ty, st)
  IN  [env |-> [e EXCEPT ![Len(e)][i] = gen],
       st  |-> [st EXCEPT !.early = @ \cup (gen.vars \cap DependedOn(outer, st))]]

InferBind(def, i, path, b) ==
  GeneralizeBind(i, b.env, Meets(Last(b.env)[i].ty, Infer(def, path, b.env, b.st)))

InferBinds(defs, i, path, b) ==
  IF i > Len(defs) THEN b
  ELSE InferBinds(defs, i + 1, path, InferBind(defs[i], i, Append(path, i), b))

(* A frame with a fresh variable for each of n definitions or parameters.  *)
Slots(st, n) == [i \in 1..n |-> Mono(Fresh(st, n)[i])]

Opened(e, st, n) == [env |-> Append(e, Slots(st, n)), st |-> Used(st, n)]

(* The expressions from the i-th on.                                       *)
InferAll(es, i, path, e, all) ==
  IF i > Len(es) THEN all
  ELSE InferAll(es, i + 1, path, e, Followed(all, Infer(es[i], Append(path, i), e, all.st)))

InferList(es, i, elem, path, e, st) ==
  IF i > Len(es) THEN Resolved(ListType(elem), st)
  ELSE InferList(es, i + 1, elem, path, e, Meets(elem, Infer(es[i], Append(path, i), e, st)))

(* What is embedded in a string: an unresolved type becomes a string.      *)
Embedded(part) ==
  CASE part.ty.t \in Basic \cup {"any"} -> part.st
    [] part.ty.t = "var" -> Is(part, StringType)
    [] OTHER -> Warn(part.st)
EmbeddedAs(part) == Embedded(Resolved(part.ty, part.st))

InferParts(es, i, path, e, st) ==
  IF i > Len(es) THEN st
  ELSE InferParts(es, i + 1, path, e, EmbeddedAs(Infer(es[i], Append(path, i), e, st)))

InferVariable(x, e, st) ==
  LET f == Len(e) - x.depth
      inst == Instantiate(e[f][x.slot], st)
  IN  IF f \in DOMAIN e /\ x.slot \in DOMAIN e[f]
      THEN Inferred(Resolve(inst.ty, st), inst.st)
      ELSE Inferred(AnyType, st)

FunctionOf(params, body) ==
  Inferred(Fn([i \in DOMAIN params |-> Resolve(params[i], body.st)],
              Resolve(body.ty, body.st)), body.st)
InferFunction(x, path, e, st) ==
  FunctionOf(Fresh(st, x.arity),
             Infer(x.body, Append(path, 1), Append(e, Slots(st, x.arity)), Used(st, x.arity)))

RecordOf(names, b) ==
  Inferred(RecordType(names, [i \in DOMAIN names |-> Resolve(Last(b.env)[i].ty, b.st)]), b.st)
InferBlock(x, path, e, st) ==
  RecordOf(x.names, InferBinds(x.defs, 1, path, Opened(e, st, Len(x.defs))))

BodyUnder(x, path, b) == Infer(x.body, Append(path, 0), b.env, b.st)
InferImmediate(x, path, e, st) ==
  BodyUnder(x, path, InferBinds(x.defs, 1, path, Opened(e, st, Len(x.defs))))

Alike(both) == Resolved(both.tys[1], Unify(both.tys[1], both.tys[2], both.st))
InferIf(x, path, e, st) ==
  Alike(InferAll(<<x.cond, x.cons, x.alt>>, 2, path, e,
                 NoneYet(Is(Infer(x.cond, Append(path, 1), e, st), BoolType))))

Applied(all) ==
  LET ret == Fresh(all.st, 1)[1]
  IN  Resolved(ret, Unify(Head(all.tys), Fn(Tail(all.tys), ret), Used(all.st, 1)))
InferCall(x, path, e, st) == Applied(InferAll(x.kids, 1, path, e, NoneYet(st)))

(* A field of a type that is not known yet is anything.                    *)
FieldOf(name, obj) ==
  LET same == FieldsNamed(obj.ty, name)
      k    == CHOOSE k \in same : \A j \in same : k <= j
  IN  CASE obj.ty.t \in {"any", "var"} -> Inferred(AnyType, obj.st)
        [] obj.ty.t = "record" /\ same # {} -> Inferred(obj.ty.tys[k], obj.st)
        [] obj.ty.t = "module" /\ same # {} -> Instantiate(obj.ty.schemes[k], obj.st)
        [] OTHER -> Inferred(AnyType, Warn(obj.st))
FieldOfResolved(name, obj) == FieldOf(name, Resolved(obj.ty, obj.st))
InferAccess(x, path, e, st) ==
  FieldOfResolved(x.name, Infer(x.kids[1], Append(path, 1), e, st))

(* Something unknown that is indexed is a list.                            *)
Indexed(arr, i) ==
  LET elem == Fresh(i.st, 1)[1]
  IN  CASE arr.t = "any"  -> Inferred(AnyType, i.st)
        [] arr.t = "var"  ->
             Resolved(elem, UnifyBoth(arr, ListType(elem), i.ty, NumberType, Used(i.st, 1)))
        [] arr.t = "list" -> Resolved(arr.elem, Is(i, NumberType))
        [] OTHER          -> Inferred(AnyType, Warn(i.st))
InferWithin(x, path, e, arr) ==
  Indexed(arr.ty, Infer(x.kids[2], Append(path, 2), e, arr.st))
InferIndexOf(x, path, e, l) == InferWithin(x, path, e, Resolved(l.ty, l.st))
InferIndex(x, path, e, st) ==
  InferIndexOf(x, path, e, Infer(x.kids[1], Append(path, 1), e, st))

InferUnary(x, path, e, st) ==
  LET ty == IF x.o = "Neg" THEN NumberType ELSE BoolType
  IN  Inferred(ty, Is(Infer(x.kids[1], Append(path, 1), e, st), ty))

Combined(o, both) == InferBinop(o, both.tys[1], both.tys[2], both.st)
InferPair(o, l, r, path, e, st) == Combined(o, InferAll(<<l, r>>, 1, path, e, NoneYet(st)))

LiteralType(v) ==
  CASE v.k = "number" -> NumberType [] v.k = "string" -> StringType
    [] v.k = "bool"   -> BoolType   [] v.k = "null"   -> NullType

InferInner(x, path, e, st) ==
  CASE x.op = "Literal"  -> Inferred(LiteralType(x.v), st)
    [] x.op = "Interpolation" -> Inferred(StringType, InferParts(x.kids, 1, path, e, st))
    [] x.op = "Variable" -> InferVariable(x, e, st)
    [] x.op = "List" ->
         InferList(x.kids, 1, Fresh(st, 1)[1], path, e, Used(st, 1))
    [] x.op = "Function" -> InferFunction(x, path, e, st)
    [] x.op = "Block"    -> InferBlock(x, path, e, st)
    [] x.op = "ImmediateBlock" -> InferImmediate(x, path, e, st)
    [] x.op = "If"       -> InferIf(x, path, e, st)
    [] x.op \in {"And", "Or"} -> InferPair(x.op, x.l, x.r, path, e, st)
    [] x.op = "Binary"   -> InferPair(x.o, x.kids[1], x.kids[2], path, e, st)
    [] x.op = "Unary"    -> InferUnary(x, path, e, st)
    [] x.op = "Call"     -> InferCall(x, path, e, st)
    [] x.op = "Access"   -> InferAccess(x, path, e, st)
    [] x.op = "Index"    -> InferIndex(x, path, e, st)

Recorded(path, r) == Inferred(r.ty, [r.st EXCEPT !.nodes = (path :> r.ty) @@ @])
Infer(x, path, e, st) == Recorded(path, InferInner(x, path, e, st))

-----------------------------------------------------------------------------
(* check: the definitions of the statement in order, then its body.        *)
TypeInit ==
  /\ prog \in Programs
  /\ inferer = [next |-> FirstVar, subst |-> <<>>, warned |-> FALSE,
                nodes |-> <<>>, early |-> {}]
  /\ env    = <<[i \in DOMAIN RootTypes |-> Mono(RootTypes[i])]>>
  /\ at     = 0
  /\ result = NullType

EnterStatement ==
  /\ at = 0
  /\ env' = Append(env, Slots(inferer, Len(prog.defs)))
  /\ inferer' = Used(inferer, Len(prog.defs))
  /\ at' = 1
  /\ UNCHANGED <<prog, result>>

InferDefinition ==
  /\ at \in DOMAIN prog.defs
  /\ \E b \in {InferBind(prog.defs[at], at, <<at>>, [env |-> env, st |-> inferer])} :
       env' = b.env /\ inferer' = b.st
  /\ at' = at + 1
  /\ UNCHANGED <<prog, result>>

(* The recorded types are resolved with the final substitution.            *)
InferBody ==
  /\ at = Len(prog.defs) + 1
  /\ \E b \in {Infer(prog.body, <<0>>, env, inferer)} :
       /\ inferer' = [b.st EXCEPT !.nodes = [p \in DOMAIN @ |-> Resolve(@[p], b.st)]]
       /\ result'  = Resolve(b.ty, b.st)
  /\ env' = Front(env)
  /\ at'  = at + 1
  /\ UNCHANGED prog

Checked  == at = Len(prog.defs) + 2
TypeNext == EnterStatement \/ InferDefinition \/ InferBody

-----------------------------------------------------------------------------
(* Every variable in the environment, in a recorded type or in the         *)
(* substitution has been handed out.                                       *)
TypeOK ==
  LET handedOut == FirstVar..(inferer.next - 1)
  IN  /\ inferer.warned \in BOOLEAN
      /\ at \in 0..(Len(prog.defs) + 2)
      /\ DOMAIN inferer.subst \subseteq handedOut
      /\ \A v \in DOMAIN inferer.subst : FreeVars(inferer.subst[v]) \subseteq handedOut
      /\ \A p \in DOMAIN inferer.nodes : FreeVars(inferer.nodes[p]) \subseteq handedOut
      /\ \A f \in 2..Len(env) : \A i \in DOMAIN env[f] : SchemeVars(env[f][i]) \subseteq handedOut
=============================================================================
