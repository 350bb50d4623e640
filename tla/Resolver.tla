------------------------------ MODULE Resolver ------------------------------
(***************************************************************************)
(* Name resolution (resolver.rs).  Surface syntax is Syntax with names: a  *)
(* variable has a `name' and no coordinates, a function its `params', an   *)
(* immediate block its `names'; definitions are <<name, expression>>.      *)
(***************************************************************************)
EXTENDS Syntax, Naturals, Sequences, SequencesExt, FiniteSetsExt

Name(n)              == [op |-> "Variable", name |-> n]
Lambda(params, body) == [op |-> "Function", params |-> params, body |-> body]
Nested(names, defs, body) ==
  [op |-> "ImmediateBlock", names |-> names, defs |-> defs, body |-> body]

(* Seeded fault: a name given twice keeps its first slot.                  *)
ScopeOfFirst(names) ==
  [n \in ToSet(names) |-> Min({s \in DOMAIN names : names[s] = n})]

(* A scope: name -> slot; the last of a repeated name wins.                *)
ScopeOf(names) == [n \in ToSet(names) |-> Max({s \in DOMAIN names : names[s] = n})]

(* The innermost scope that has the name; scopes are innermost first.      *)
Lookup(name, scopes) ==
  LET having == {d \in DOMAIN scopes : name \in DOMAIN scopes[d]}
  IN  IF having = {} THEN Undefined ELSE Variable(Min(having) - 1, scopes[Min(having)][name])

RECURSIVE Resolve(_, _), AnyUndefined(_)
Resolve(e, scopes) ==
  LET Each(es, ss) == [i \in DOMAIN es |-> Resolve(es[i], ss)]
      In(names)    == <<ScopeOf(names)>> \o scopes
  IN CASE e.op = "Variable" -> Lookup(e.name, scopes)
       [] e.op = "Function" -> Function(Len(e.params), Resolve(e.body, In(e.params)))
       [] e.op = "Block"    -> Block(e.names, Each(e.defs, In(e.names)))
       [] e.op = "ImmediateBlock" ->
            ImmediateBlock(Each(e.defs, In(e.names)), Resolve(e.body, In(e.names)))
       [] e.op = "If" -> If(Resolve(e.cond, scopes), Resolve(e.cons, scopes),
                            Resolve(e.alt, scopes))
       [] e.op \in {"And", "Or"} ->
            [e EXCEPT !.l = Resolve(@, scopes), !.r = Resolve(@, scopes)]
       [] e.op \in Operands -> [e EXCEPT !.kids = Each(@, scopes)]
       [] OTHER -> e

(* The resolver stops at the first name it does not find.                  *)
AnyUndefined(e) ==
  LET OneOf(es) == \E i \in DOMAIN es : AnyUndefined(es[i])
  IN CASE e.op = "Undefined" -> TRUE
       [] e.op = "Function"  -> AnyUndefined(e.body)
       [] e.op = "Block"     -> OneOf(e.defs)
       [] e.op = "ImmediateBlock" -> OneOf(e.defs) \/ AnyUndefined(e.body)
       [] e.op = "If"        -> OneOf(<<e.cond, e.cons, e.alt>>)
       [] e.op \in {"And", "Or"} -> AnyUndefined(e.l) \/ AnyUndefined(e.r)
       [] e.op \in Operands  -> OneOf(e.kids)
       [] OTHER -> FALSE

(* interp.rs, ROOT_NAMES.                                                  *)
RootNames == <<"List", "String", "Number", "import">>

(* resolve: a statement of named definitions, or Undefined.                *)
ResolveStatement(defs, body) ==
  LET names  == [i \in DOMAIN defs |-> defs[i][1]]
      scopes == <<ScopeOf(names), ScopeOf(RootNames)>>
      stmt   == Statement([i \in DOMAIN defs |-> Resolve(defs[i][2], scopes)],
                          Resolve(body, scopes))
  IN  IF AnyUndefined(stmt.body) \/ \E i \in DOMAIN defs : AnyUndefined(stmt.defs[i])
      THEN Undefined ELSE stmt
=============================================================================
