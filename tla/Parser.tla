------------------------------- MODULE Parser -------------------------------
(***************************************************************************)
(* The grammar (parser.rs) as ordered choice over the tokens.  A parser    *)
(* takes the position i of the next token and returns what it built, `e',  *)
(* and the position behind it, `n', or NoParse.                            *)
(***************************************************************************)
EXTENDS Resolver

NoParse     == [e |-> <<>>, n |-> 0]
Parsed(e, n) == [e |-> e, n |-> n]
Is(ts, i, kinds) == i \in DOMAIN ts /\ ts[i].t \in kinds

(* The first alternative that succeeds.                                    *)
FirstOf(results) ==
  LET ok == {k \in DOMAIN results : results[k].n # 0}
  IN  IF ok = {} THEN NoParse ELSE results[Min(ok)]

(* Binary operators, tightest level first, all left associative.           *)
Levels ==
  <<("*" :> "Mul" @@ "/" :> "Div" @@ "%" :> "Mod"),
    ("+" :> "Add" @@ "-" :> "Sub"),
    ("!=" :> "Ne" @@ ">=" :> "Ge" @@ "<=" :> "Le" @@ "==" :> "Eq" @@ ">" :> "Gt" @@ "<" :> "Lt"),
    ("&&" :> "And"),
    ("||" :> "Or")>>
Lowest == Len(Levels)
Operation(o, l, r) ==
  CASE o = "And" -> And(l, r) [] o = "Or" -> Or(l, r) [] OTHER -> Binary(o, l, r)
Signs == "-" :> "Neg" @@ "!" :> "Not"

-----------------------------------------------------------------------------
Key(ts, i)   == IF Is(ts, i, {"Ident", "Str"}) THEN Parsed(ts[i].v, i + 1) ELSE NoParse
Ident(ts, i) == IF Is(ts, i, {"Ident"}) THEN Parsed(ts[i].v, i + 1) ELSE NoParse
Var(ts, i)   == IF Is(ts, i, {"Ident"}) THEN Parsed(Name(ts[i].v), i + 1) ELSE NoParse
LiteralAt(ts, i) ==
  IF Is(ts, i, {"Num", "Str", "null", "true", "false"})
  THEN Parsed(Literal([t |-> ts[i].t, v |-> ts[i].v]), i + 1) ELSE NoParse

(* An item of a block or a statement: a definition or a body.              *)
Definition(name, e) == [name |-> name, e |-> e]
Body(e)             == [e |-> e]
IsDefinition(item)  == "name" \in DOMAIN item
Definitions(items)  == LET defs == SelectSeq(items, IsDefinition)
                       IN  [i \in DOMAIN defs |-> <<defs[i].name, defs[i].e>>]
Bodies(items)       == SelectSeq(items, LAMBDA item : ~IsDefinition(item))

(* Seeded fault: the first body wins.                                      *)
FirstBody(items) == Bodies(items)[1].e
LastBody(items)  == Last(Bodies(items)).e

(* { ... }: the last body wins, and without one it is a record.            *)
Braces(items) ==
  LET defs   == Definitions(items)
      names  == [i \in DOMAIN defs |-> defs[i][1]]
      values == [i \in DOMAIN defs |-> defs[i][2]]
  IN  IF Bodies(items) = <<>> THEN Block(names, values)
      ELSE Nested(names, values, LastBody(items))

(* lit (${ e } lit)*: literals and expressions alternate.                  *)
Part(token) == Literal([t |-> "Str", v |-> token.v])

(* What a postfix operator adds to the expression before it.               *)
Apply(e, op) ==
  CASE op.op = "Access" -> Access(e, op.name)
    [] op.op = "Call"   -> Call(e, op.args)
    [] op.op = "Index"  -> Index(e, op.idx)

RECURSIVE Level(_, _, _), Chain(_, _, _), Prefixed(_, _), Postfix(_, _),
          Atom(_, _), Items(_, _, _), ItemsFrom(_, _, _, _),
          Fragments(_, _, _)

Expression(ts, i) == Level(Lowest, ts, i)

(* Turns what a parser built into a node.                                  *)
As(result, Node(_)) == IF result.n = 0 THEN NoParse ELSE Parsed(Node(result.e), result.n)

(* What stands behind a given token, or before one.                        *)
Behind(token, ts, i) == IF Is(ts, i, {token}) THEN Expression(ts, i + 1) ELSE NoParse
Before(token, ts, inner) ==
  IF Is(ts, inner.n, {token}) THEN Parsed(inner.e, inner.n + 1) ELSE NoParse

Item(ts, i) ==
  FirstOf(<<As(Behind(":", ts, Key(ts, i).n), LAMBDA e : Definition(Key(ts, i).e, e)),
            As(Expression(ts, i), Body)>>)

One(kind, ts, i) ==
  CASE kind = "ident" -> Ident(ts, i) [] kind = "expr" -> Expression(ts, i)
    [] kind = "item"  -> Item(ts, i)

Listed(first, rest) ==
  IF rest.e = <<>> THEN Parsed(<<first.e>>, first.n) ELSE Parsed(<<first.e>> \o rest.e, rest.n)

(* item (, item)*, or nothing; a comma that no item follows is not taken.  *)
Items(kind, ts, i) == ItemsFrom(kind, ts, i, One(kind, ts, i))
ItemsFrom(kind, ts, i, first) ==
  CASE first.n = 0 -> Parsed(<<>>, i)
    [] first.n # 0 /\ Is(ts, first.n, {","}) ->
         Listed(first, Items(kind, ts, first.n + 1))
    [] OTHER -> Parsed(<<first.e>>, first.n)

Enclosed(open, kind, close, ts, i) ==
  IF Is(ts, i, {open}) THEN Before(close, ts, Items(kind, ts, i + 1)) ELSE NoParse
EnclosedOne(open, close, ts, i) == Before(close, ts, Behind(open, ts, i))

IfAt(ts, i) ==
  LET cond == Behind("if", ts, i)
      cons == Behind("then", ts, cond.n)
  IN  As(Behind("else", ts, cons.n), LAMBDA alt : If(cond.e, cons.e, alt))

FunctionAt(ts, i) ==
  LET params == Enclosed("(", "ident", ")", ts, i)
  IN  As(Behind("=>", ts, params.n), LAMBDA body : Lambda(params.e, body))

(* The parts behind those in `parts'.                                      *)
Fragments(parts, ts, i) ==
  LET e == Before("InterpClose", ts, Behind("InterpOpen", ts, i))
  IN  IF Is(ts, e.n, {"StrLit"})
      THEN Fragments(parts \o <<e.e, Part(ts[e.n])>>, ts, e.n + 1)
      ELSE Parsed(parts, i)
InterpolationAt(ts, i) ==
  LET parts == Fragments(<<Part(ts[i + 1])>>, ts, i + 2)
  IN  IF Is(ts, i, {"StrBegin"}) /\ Is(ts, i + 1, {"StrLit"}) /\ Is(ts, parts.n, {"StrEnd"})
      THEN Parsed(Interpolation(parts.e), parts.n + 1) ELSE NoParse

Atom(ts, i) ==
  FirstOf(<<LiteralAt(ts, i), InterpolationAt(ts, i), IfAt(ts, i), FunctionAt(ts, i),
            As(Enclosed("[", "expr", "]", ts, i), ListOf),
            As(Enclosed("{", "item", "}", ts, i), Braces),
            Var(ts, i), EnclosedOne("(", ")", ts, i)>>)

PostfixOp(ts, i) ==
  LET Dot     == IF Is(ts, i, {"."}) /\ Is(ts, i + 1, {"Ident"})
                 THEN Parsed([op |-> "Access", name |-> ts[i + 1].v], i + 2) ELSE NoParse
      Bracket == IF Is(ts, i, {"["}) /\ Is(ts, i + 1, {"Str"}) /\ Is(ts, i + 2, {"]"})
                 THEN Parsed([op |-> "Access", name |-> ts[i + 1].v], i + 3) ELSE NoParse
  IN  FirstOf(<<Dot,
                As(Enclosed("(", "expr", ")", ts, i), LAMBDA es : [op |-> "Call", args |-> es]),
                Bracket,
                As(EnclosedOne("[", "]", ts, i), LAMBDA e : [op |-> "Index", idx |-> e])>>)

(* The postfix operators behind `base'.                                    *)
Postfix(base, ts) ==
  LET op == PostfixOp(ts, base.n)
  IN  IF base.n = 0 \/ op.n = 0 THEN base
      ELSE Postfix(Parsed(Apply(base.e, op.e), op.n), ts)

(* Seeded fault: a sign belongs to the atom behind it.                     *)
SignedAtom(ts, i) ==
  IF Is(ts, i, DOMAIN Signs)
  THEN Postfix(As(Atom(ts, i + 1), LAMBDA e : Unary(Signs[ts[i].t], e)), ts)
  ELSE Postfix(Atom(ts, i), ts)

Prefixed(ts, i) ==
  IF Is(ts, i, DOMAIN Signs)
  THEN As(Prefixed(ts, i + 1), LAMBDA e : Unary(Signs[ts[i].t], e))
  ELSE Postfix(Atom(ts, i), ts)

Level(k, ts, i) ==
  IF k = 0 THEN Prefixed(ts, i) ELSE Chain(k, ts, Level(k - 1, ts, i))

(* The operators of level k behind `left'.                                 *)
Chain(k, ts, left) ==
  LET right == Level(k - 1, ts, left.n + 1)
  IN  IF left.n = 0 \/ ~Is(ts, left.n, DOMAIN Levels[k]) \/ right.n = 0 THEN left
      ELSE Chain(k, ts, Parsed(Operation(Levels[k][ts[left.n].t], left.e, right.e), right.n))

(* The statement made of some items.                                       *)
StatementOf(items) ==
  Statement(Definitions(items), IF Bodies(items) = <<>> THEN Literal([t |-> "null", v |-> <<>>])
                                ELSE Bodies(items)[1].e)

(* Seeded fault: what follows the last item is not looked at.              *)
WholeButTheRest(ts, all) ==
  IF Len(Bodies(all.e)) > 1 THEN NoParse ELSE Parsed(StatementOf(all.e), all.n)

(* A whole source: at most one body, null without one.                     *)
Whole(ts, all) ==
  IF all.n # Len(ts) + 1 \/ Len(Bodies(all.e)) > 1 THEN NoParse
  ELSE Parsed(StatementOf(all.e), all.n)

ParseTokens(ts) == Whole(ts, Items("item", ts, 1))
=============================================================================
