------------------------------ MODULE MCReader ------------------------------
(***************************************************************************)
(* Sources for Reader: short texts made of every combination of pieces, on *)
(* their own and inside an interpolation, and the printed forms of a set   *)
(* of trees.                                                               *)
(***************************************************************************)
EXTENDS Reader

Pieces ==
  {<<Quote>>, <<"$", "{">>, <<"{">>, <<"}">>, <<")">>, <<"(">>, <<"x">>,
   <<"/", "/">>, <<"/", "*">>, <<"*", "/">>, <<"\n">>, <<Backslash>>, <<Wide, Cont>>, <<"=">>}
Inside == <<Quote, "$", "{">>

Glued(pieces) == FlattenSeq(pieces)
Upto(n) == UNION {[1 .. k -> Pieces] : k \in 0 .. n}
ShortTexts == {Glued(s) : s \in Upto(3)}
NestedTexts == {Inside \o Glued(s) \o tail : s \in Upto(3), tail \in {<<>>, <<"}", Quote>>}}
EscapeTexts ==
  {<<Quote, Backslash, "u">> \o code \o <<Quote>> :
     code \in UNION {[1 .. k -> {"0", "d", "8", "+", "x"}] : k \in 3 .. 4}}
  \cup {<<Quote, Backslash, "u">> \o Glued(s) \o <<Quote, Quote>> :
          s \in UNION {[1 .. k -> {<<"0">>, <<Wide, Cont>>, <<Quote>>}] : k \in 2 .. 4}}

(* Tokens that can follow each other in a source the grammar takes.        *)
Lexemes ==
  {<<"x">>, <<"8">>, <<"(">>, <<")">>, <<"{">>, <<"}">>, <<",">>, <<":">>, <<"=", ">">>,
   <<"-">>, <<"[">>, <<"]">>, <<Quote, "y", Quote>>, <<".">>, <<" ", "if", " ">>}

-----------------------------------------------------------------------------
(* Printing.  A piece is a token, a whole string without interpolation, or *)
(* the part of a string between two expressions.                           *)
Lit(t, v) == Literal([t |-> t, v |-> v])
Eight     == Lit("Num", <<"8">>)
StrOf(v)  == Lit("Str", v)
X == Name(<<"x">>)
Y == Name(<<"if", "x">>)

Quoted(c) == IF c \in {Quote, Backslash, "$"} THEN <<Backslash, c>>
             ELSE IF c = "\n" THEN <<Backslash, "n">>
             ELSE IF c = Wide THEN <<Wide, Cont>> ELSE <<c>>
Written(v) == Glued([i \in DOMAIN v |-> Quoted(v[i])])
IsWord(v)  == v[1] \in Letters
KeyText(v) == IF IsWord(v) THEN v ELSE <<Quote>> \o Written(v) \o <<Quote>>

OpText(o) ==
  LET k == CHOOSE k \in DOMAIN Levels : \E t \in DOMAIN Levels[k] : Levels[k][t] = o
      t == CHOOSE t \in DOMAIN Levels[k] : Levels[k][t] = o
  IN  IF t \in Symbols THEN <<t>> ELSE Bytes(CHOOSE pair \in Pairs : pair[1] = t)
LevelOf(e) ==
  CASE e.op \in {"And", "Or"} ->
         CHOOSE k \in DOMAIN Levels : \E t \in DOMAIN Levels[k] : Levels[k][t] = e.op
    [] e.op = "Binary" ->
         CHOOSE k \in DOMAIN Levels : \E t \in DOMAIN Levels[k] : Levels[k][t] = e.o
    [] e.op = "Unary" -> 0
    [] e.op \in {"If", "Function"} -> Lowest + 1
    [] OTHER -> -1

RECURSIVE Show(_), Joined(_, _)
Tight(e, level) ==
  IF LevelOf(e) > level THEN <<<<"(">>>> \o Show(e) \o <<<<")">>>> ELSE Show(e)
Joined(pss, sep) ==
  IF pss = <<>> THEN <<>> ELSE IF Len(pss) = 1 THEN pss[1]
  ELSE pss[1] \o <<sep>> \o Joined(Tail(pss), sep)
ShowAll(es) == Joined([i \in DOMAIN es |-> Show(es[i])], <<",">>)
Bound(names, defs) ==
  [i \in DOMAIN defs |-> <<KeyText(names[i]), <<":">>>> \o Show(defs[i])]
Show(e) ==
  CASE e.op = "Literal" ->
         <<CASE e.v.t = "Str" -> <<Quote>> \o Written(e.v.v) \o <<Quote>>
             [] e.v.t = "Num" -> e.v.v
             [] OTHER -> <<e.v.t>>>>
    [] e.op = "Variable" -> <<e.name>>
    [] e.op = "Function" ->
         <<<<"(">>>> \o Joined([i \in DOMAIN e.params |-> <<e.params[i]>>], <<",">>)
           \o <<<<")">>, <<"=", ">">>>> \o Show(e.body)
    [] e.op = "Block" ->
         <<<<"{">>>> \o Joined(Bound(e.names, e.defs), <<",">>) \o <<<<"}">>>>
    [] e.op = "ImmediateBlock" ->
         <<<<"{">>>> \o Joined(Append(Bound(e.names, e.defs), Show(e.body)), <<",">>)
           \o <<<<"}">>>>
    [] e.op = "If" -> <<<<"if">>>> \o Show(e.cond) \o <<<<"then">>>> \o Show(e.cons)
                        \o <<<<"else">>>> \o Show(e.alt)
    [] e.op \in {"And", "Or"} ->
         Tight(e.l, LevelOf(e)) \o <<OpText(e.op)>> \o Tight(e.r, LevelOf(e) - 1)
    [] e.op = "Binary" ->
         Tight(e.kids[1], LevelOf(e)) \o <<OpText(e.o)>> \o Tight(e.kids[2], LevelOf(e) - 1)
    [] e.op = "Unary" -> <<IF e.o = "Neg" THEN <<"-">> ELSE <<"!">>>> \o Tight(e.kids[1], 0)
    [] e.op = "List" -> <<<<"[">>>> \o ShowAll(e.kids) \o <<<<"]">>>>
    [] e.op = "Call" -> Tight(e.kids[1], -1) \o <<<<"(">>>> \o ShowAll(Tail(e.kids)) \o <<<<")">>>>
    [] e.op = "Access" -> Tight(e.kids[1], -1)
           \o (IF IsWord(e.name) THEN <<<<".">>, e.name>>
               ELSE <<<<"[">>, KeyText(e.name), <<"]">>>>)
    [] e.op = "Index" ->
         Tight(e.kids[1], -1) \o <<<<"[">>>>
           \o (IF e.kids[2].op = "Literal" THEN <<<<"(">>>> \o Show(e.kids[2]) \o <<<<")">>>>
               ELSE Show(e.kids[2]))
           \o <<<<"]">>>>
    [] e.op = "Interpolation" ->
         LET parts == [i \in DOMAIN e.kids |->
                         IF i % 2 = 0 THEN Show(e.kids[i])
                         ELSE <<(IF i = 1 THEN <<Quote>> ELSE <<"}">>) \o Written(e.kids[i].v.v)
                                  \o (IF i = Len(e.kids) THEN <<Quote>> ELSE <<"$", "{">>)>>]
         IN  FlattenSeq(parts)

(* Layouts: what stands between two tokens.                                *)
WordEnds == Letters \cup Digits
Separated(a, b, layout) ==
  IF layout = <<>> THEN IF Last(a) \in WordEnds /\ b[1] \in WordEnds THEN <<" ">> ELSE <<>>
  ELSE layout
PrintedWith(pieces, layout) ==
  Glued([i \in DOMAIN pieces |->
           IF i = 1 THEN pieces[1] ELSE Separated(pieces[i - 1], pieces[i], layout) \o pieces[i]])
Layouts ==
  {<<>>, <<"/", "/", Quote, "$", "{", "\n">>, <<" ", "/", "*", "}", Quote, "*", "*", "/">>}

-----------------------------------------------------------------------------
Leaves == {X, Eight, StrOf(<<"}", "$", "{", Quote, "\n", Wide>>), Lit("null", <<>>)}
Interpolated(es) ==
  Interpolation(Glued([i \in DOMAIN es |-> <<StrOf(<<"$", "a">>), es[i]>>]) \o <<StrOf(<<>>)>>)
Grown(a, b) ==
  {Operation(o, a, b) : o \in {"Mul", "Sub", "Le", "And", "Or"}}
  \cup {Unary("Neg", a), If(a, b, a), Lambda(<<<<"x">>, <<"y">>>>, a), Lambda(<<>>, b),
        ListOf(<<a, b>>), ListOf(<<>>), Call(a, <<b>>), Call(a, <<>>), Access(a, <<"x">>), Access(a, <<"-">>),
        Index(a, b), Block(<<<<"x">>, <<"-">>>>, <<a, b>>), Block(<<>>, <<>>),
        Nested(<<<<"x">>>>, <<a>>, b), Interpolated(<<a>>), Interpolated(<<a, b>>)}
Small  == Leaves \cup Grown(X, Eight)
Second == {X, Operation("Sub", X, Eight), Lambda(<<<<"x">>>>, Y), Interpolated(<<X>>)}
Trees  ==
  UNION {Grown(a, b) : a \in Small, b \in Second}
  \cup UNION {Grown(b, a) : a \in Small, b \in Second}
Meant  == {Statement(<<>>, e) : e \in Trees}
          \cup {Statement(<<<<<<"x">>, e>>, <<<<"y">>, Y>>>>, Lit("null", <<>>)) : e \in Small}
PiecesOf(stmt) ==
  Joined([i \in DOMAIN stmt.defs |->
            <<stmt.defs[i][1], <<":">>>> \o Show(stmt.defs[i][2])]
         \o (IF stmt.defs = <<>> THEN <<Show(stmt.body)>> ELSE <<>>), <<",">>)

Printed ==
  LET pieces == [s \in Meant |-> PiecesOf(s)]
  IN  {[tree |-> s, text |-> PrintedWith(pieces[s], l)] : s \in Meant, l \in Layouts}
PrintedTexts == {p.text : p \in Printed}

ShortSources ==
  {before \o Glued(s) \o after :
     before \in {<<>>, <<"{">>}, after \in {<<>>, <<"}">>},
     s \in UNION {[1 .. k -> Lexemes] : k \in 1 .. 3}}

(* Blocks with several bodies, at several places, of one and more words.   *)
BlockItems ==
  {<<"x">>, <<"x", ":", "8">>, <<"{", "x", ",", "8", "}">>, <<"[", "x", ",", "x", "]">>,
   <<"{", "x", ":", "x", ",", "8", "}", "(", "8", ",", "x", ")">>,
   <<Quote, "$", "{", "{", "x", ",", "8", "}", "}", Quote>>}
BlockSources ==
  {<<"{">> \o Glued([i \in DOMAIN s |-> (IF i = 1 THEN <<>> ELSE <<",">>) \o s[i]]) \o <<"}">> :
     s \in UNION {[1 .. k -> BlockItems] : k \in 2 .. 3}}
MCTexts ==
  UNION {ShortTexts, NestedTexts, EscapeTexts, PrintedTexts, ShortSources, BlockSources}

-----------------------------------------------------------------------------
(* What a tree is printed as, with as few parentheses as its operators     *)
(* allow and any layout between the tokens, reads as that tree.            *)
ReadsAsItsTree ==
  stage \in {"done", "refused", "panicked"} /\ text \in PrintedTexts =>
    stage = "done" /\ [tree |-> tree, text |-> text] \in Printed

(* A source that is accepted keeps all its words: none is left out of the  *)
(* tree or counted twice by an alternative that was tried in vain.  What   *)
(* is thrown away are the bodies of a block before its last one, with all  *)
(* that is nested in them, and no other word (parser.rs:133-138).          *)
RECURSIVE Words(_)
SumOf(es) == FoldSeq(LAMBDA e, n : Words(e) + n, 0, es)
Words(e) ==
  CASE e.op = "Literal" -> IF e.v.t = "null" THEN 0 ELSE 1
    [] e.op = "Variable" -> 1
    [] e.op = "Function" -> Len(e.params) + Words(e.body)
    [] e.op = "Block" -> Len(e.names) + SumOf(e.defs)
    [] e.op = "ImmediateBlock" -> Len(e.names) + SumOf(e.defs) + Words(e.body)
    [] e.op = "If" -> Words(e.cond) + Words(e.cons) + Words(e.alt)
    [] e.op \in {"And", "Or"} -> Words(e.l) + Words(e.r)
    [] e.op = "Access" -> 1 + Words(e.kids[1])
    [] OTHER -> SumOf(e.kids)
WordTokens ==
  {i \in DOMAIN tokens : tokens[i].t \in {"Ident", "Num", "Str", "StrLit", "true", "false"}}
Kinds(kinds)  == {i \in DOMAIN tokens : tokens[i].t \in kinds}
Openings(i)   == {j \in Kinds({"(", "[", "{", "InterpOpen"}) : j < i}
Closings(i)   == {j \in Kinds({")", "]", "}", "InterpClose"}) : j < i}
Nesting(i)    == Cardinality(Openings(i)) - Cardinality(Closings(i))
Around(i)     == Max({0} \cup {j \in Openings(i) : Nesting(j) < Nesting(i)})
ItemStarts    == {i \in DOMAIN tokens : Around(i) \in Kinds({"{"}) /\ i - 1 \in Kinds({"{", ","})}
BodyStarts    == {i \in ItemStarts : i + 1 \notin Kinds({":"})}
Following(i, starts) == {j \in starts : j > i /\ Around(j) = Around(i)}
ReplacedWords ==
  LET replaced == {i \in BodyStarts : Following(i, BodyStarts) # {}}
  IN  {w \in WordTokens : \E i \in replaced : i <= w /\ w < Min(Following(i, ItemStarts))}
NoWordIsLost ==
  stage = "done" =>
    Cardinality(WordTokens \ ReplacedWords)
      = Len(tree.defs) + SumOf([i \in DOMAIN tree.defs |-> tree.defs[i][2]]) + Words(tree.body)
=============================================================================
