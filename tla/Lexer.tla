------------------------------- MODULE Lexer -------------------------------
(***************************************************************************)
(* The lexer (lexer.rs).  A text is a sequence of bytes; a character of    *)
(* two bytes is one of Wide followed by Cont.  A keyword is a byte of its  *)
(* own that letters and digits may extend to a longer word; numbers are    *)
(* runs of digits.  lex_top and lex_string call each other: `stack' holds  *)
(* their activations, the running one last.                                *)
(***************************************************************************)
EXTENDS Integers, SequencesExt

CONSTANT Texts                                          \* the sources to lex

VARIABLES
  text,      (* the source                                                 *)
  pos,       (* the next byte                                              *)
  tokens,    (* the tokens of the running lex_top                          *)
  errors,    (* the spans of the errors                                    *)
  stack,     (* activations of lex_top and lex_string                      *)
  stage      (* "lex", "parse", "done", "refused" or "panicked"            *)

lexVars == <<text, pos, tokens, errors, stack, stage>>

Blank    == {" ", "\n"}
Keywords == {"if", "then", "else", "null", "true", "false"}
Digits   == {"0", "1", "8"}
Hex      == Digits \cup {"a", "d"}
Letters  == Keywords \cup {"a", "d", "n", "t", "u", "x", "y"}
Symbols  == {"(", ")", "{", "}", "[", "]", ",", ":", ".", "+", "-", "*", "/", "%", "<", ">", "!"}
Pairs    == {<<"=>", "=", ">">>, <<"==", "=", "=">>, <<"!=", "!", "=">>, <<">=", ">", "=">>,
             <<"<=", "<", "=">>, <<"&&", "&", "&">>, <<"||", "|", "|">>}
Wide     == "e-acute"
Cont     == "continuation"
Quote    == "\""
Backslash == "\\"

(* A Rust str is UTF-8: Cont stands behind every Wide and nowhere else.    *)
WellFormed(t) ==
  /\ t \in Seq(STRING)
  /\ \A i \in 1 .. Len(t) :
       /\ t[i] = Cont => i > 1 /\ t[i - 1] = Wide
       /\ t[i] = Wide => i < Len(t) /\ t[i + 1] = Cont
ASSUME TextsAssumption == \A t \in Texts : WellFormed(t)

(* What the byte after a backslash stands for.                             *)
Escapes == [c \in {"n", "t", "/", "$", Quote, Backslash} |->
              CASE c = "n" -> "\n" [] c = "t" -> "\t" [] OTHER -> c]

Opening == {"{", "(", "["}
Closing == {"}", ")", "]"}

-----------------------------------------------------------------------------
End         == Len(text) + 1
At(p, s)    == p + Len(s) <= End /\ \A i \in 1 .. Len(s) : text[p + i - 1] = s[i]
Boundary(p) == p \in DOMAIN text => text[p] # Cont
Width(p)    == IF At(p + 1, <<Cont>>) THEN 2 ELSE 1

(* The first position from p on where s stands, or End.                    *)
Find(p, s)  == CHOOSE q \in p .. End :
                 (q = End \/ At(q, s)) /\ \A r \in p .. (q - 1) : ~At(r, s)
(* The first position from p on that is not in S.                          *)
RunEnd(p, S) == CHOOSE q \in p .. End :
                 (q = End \/ text[q] \notin S) /\ \A r \in p .. (q - 1) : text[r] \in S

Token(t, v, from, to) == [t |-> t, v |-> v, from |-> from, to |-> to]
Mark(t, from, to)     == Token(t, <<>>, from, to)
NoToken               == Mark("none", 0, 0)

(* One token of logos: the longest at p.                                   *)
Word(p) == LET to == RunEnd(p, Letters \cup Digits)
               w  == SubSeq(text, p, to - 1)
           IN  IF Len(w) = 1 /\ w[1] \in Keywords THEN Mark(w[1], p, to)
               ELSE Token("Ident", w, p, to)
Numeral(p) == LET to == RunEnd(p, Digits)
              IN  Token("Num", SubSeq(text, p, to - 1), p, to)
Bytes(pair) == <<pair[2], pair[3]>>
PairsAt(p)  == {pair \in Pairs : At(p, Bytes(pair))}
LogosToken(p) ==
  CASE text[p] \in Letters -> Word(p)
    [] text[p] \in Digits  -> Numeral(p)
    [] PairsAt(p) # {}     -> Mark((CHOOSE pair \in PairsAt(p) : TRUE)[1], p, p + 2)
    [] PairsAt(p) = {} /\ text[p] \in Symbols -> Mark(text[p], p, p + 1)
    [] OTHER -> NoToken

-----------------------------------------------------------------------------
LexTop(inside, depth) == [fn |-> "lex_top", inside |-> inside, depth |-> depth]
LexString(start, from) ==
  [fn |-> "lex_string", start |-> start, lit |-> <<>>, litStart |-> from,
   buf |-> <<>>, hasInterp |-> FALSE, saved |-> <<>>]

Running == Last(stack)
Callers == Front(stack)
Lexing  == stage = "lex" /\ Boundary(pos)
InTop   == Lexing /\ Running.fn = "lex_top" /\ pos < End
InStr   == Lexing /\ Running.fn = "lex_string"

Advance(p) == pos' = p /\ UNCHANGED <<text, stage>>
Push(toks) == tokens' = tokens \o toks /\ UNCHANGED errors
Fail(from, to) == errors' = Append(errors, <<from, to>>) /\ UNCHANGED tokens

(* lex_top, in the order of its tests.                                     *)
SkipBlank ==
  /\ InTop /\ text[pos] \in Blank
  /\ Advance(pos + 1) /\ UNCHANGED <<tokens, errors, stack>>

(* Seeded fault: a comment that ends the source is not consumed.           *)
SkipCommentLine ==
  /\ InTop /\ At(pos, <<"/", "/">>)
  /\ LET nl == Find(pos, <<"\n">>) IN Advance(IF nl = End THEN pos ELSE nl + 1)
  /\ UNCHANGED <<tokens, errors, stack>>

SkipComment ==
  /\ InTop /\ At(pos, <<"/", "/">>)
  /\ LET nl == Find(pos, <<"\n">>) IN Advance(IF nl = End THEN End ELSE nl + 1)
  /\ UNCHANGED <<tokens, errors, stack>>

BlockComment ==
  /\ InTop /\ At(pos, <<"/", "*">>)
  /\ LET close == Find(pos + 2, <<"*", "/">>)
     IN  IF close # End
         THEN Advance(close + 2) /\ UNCHANGED <<tokens, errors>>
         ELSE Advance(End) /\ Fail(pos, End)
  /\ UNCHANGED stack

OpenString ==
  /\ InTop /\ text[pos] = Quote
  /\ stack' = Append(stack, LexString(pos, pos + 1))
  /\ Advance(pos + 1) /\ UNCHANGED <<tokens, errors>>

AtToken ==
  InTop /\ text[pos] \notin Blank \cup {Quote}
    /\ ~At(pos, <<"/", "/">>) /\ ~At(pos, <<"/", "*">>)
Closes  == Running.inside /\ text[pos] = "}" /\ Running.depth = 0

(* Seeded fault: the next fragment starts where the last one did.          *)
ResumedEarlier(found, p) ==
  Append(Front(Callers), [Last(Callers) EXCEPT !.buf = @ \o found, !.saved = <<>>])

(* Back in lex_string: what lex_top found goes behind the fragments so     *)
(* far, and the tokens from before come back.                              *)
Resumed(found, p) ==
  Append(Front(Callers),
         [Last(Callers) EXCEPT !.buf = @ \o found, !.litStart = p, !.saved = <<>>])
ReturnFromTop(found, p) ==
  IF Callers = <<>>
  THEN /\ stack' = <<>> /\ tokens' = found
       /\ stage' = IF errors = <<>> THEN "parse" ELSE "refused"
  ELSE /\ stack' = Resumed(found, p) /\ tokens' = Last(Callers).saved
       /\ UNCHANGED stage

CloseInterp ==
  /\ AtToken /\ Closes
  /\ ReturnFromTop(Append(tokens, Mark("InterpClose", pos, pos + 1)), pos + 1)
  /\ pos' = pos + 1 /\ UNCHANGED <<text, errors>>

EndOfInput ==
  /\ Lexing /\ Running.fn = "lex_top" /\ pos = End
  /\ ReturnFromTop(tokens, pos)
  /\ UNCHANGED <<text, pos, errors>>

(* Seeded fault: only braces count.                                        *)
BraceDepthAfter(t) ==
  CASE t = "{" -> Running.depth + 1 [] t = "}" -> Running.depth - 1
    [] OTHER -> Running.depth

DepthAfter(t) ==
  CASE t \in Opening -> Running.depth + 1 [] t \in Closing -> Running.depth - 1
    [] OTHER -> Running.depth
OneToken ==
  LET found == LogosToken(pos) IN
  /\ AtToken /\ ~Closes /\ found # NoToken
  /\ stack' = Append(Callers, LexTop(Running.inside, DepthAfter(found.t)))
  /\ Push(<<found>>) /\ Advance(found.to)

BadCharacter ==
  /\ AtToken /\ ~Closes /\ LogosToken(pos) = NoToken
  /\ Fail(pos, pos + Width(pos)) /\ Advance(pos + Width(pos))
  /\ UNCHANGED stack

-----------------------------------------------------------------------------
(* lex_string, in the order of its tests.  After an error it returns and   *)
(* lex_top goes on where the error was.                                    *)
GiveUp(from, to) ==
  Fail(from, to) /\ stack' = Callers /\ Advance(pos)

Unterminated == InStr /\ pos = End /\ GiveUp(Running.start, End)

Fragment(to) == Token("StrLit", Running.lit, Running.litStart, to)

CloseString ==
  /\ InStr /\ At(pos, <<Quote>>)
  /\ LET s == Running
     IN  Push(IF s.hasInterp
              THEN <<Mark("StrBegin", s.start, s.start + 1)>> \o s.buf
                     \o <<Fragment(pos), Mark("StrEnd", pos, pos + 1)>>
              ELSE <<Token("Str", s.lit, s.start, pos + 1)>>)
  /\ stack' = Callers /\ Advance(pos + 1)

AddToLiteral(c, p) ==
  /\ stack' = Append(Callers, [Running EXCEPT !.lit = Append(@, c)])
  /\ Advance(p) /\ UNCHANGED <<tokens, errors>>

Escape ==
  /\ InStr /\ At(pos, <<Backslash>>) /\ pos + 1 < End
  /\ text[pos + 1] \in DOMAIN Escapes
  /\ AddToLiteral(Escapes[text[pos + 1]], pos + 2)

BadEscape ==
  /\ InStr /\ At(pos, <<Backslash>>)
  /\ IF pos + 1 = End THEN GiveUp(pos, End)
     ELSE text[pos + 1] \notin DOMAIN Escapes \cup {"u"} /\ GiveUp(pos, pos + 2)

(* \u: four bytes, whatever they are.  from_str_radix allows a sign; a     *)
(* surrogate is no char.                                                   *)
AtUnicode == InStr /\ At(pos, <<Backslash, "u">>)
Code      == SubSeq(text, pos + 2, pos + 5)
IsCode    ==
  /\ Code[1] \in Hex \cup {"+"} /\ \A i \in 2 .. 4 : Code[i] \in Hex
  /\ ~(Code[1] = "d" /\ Code[2] \notin {"0", "1"})
UnicodeEscape ==
  /\ AtUnicode
  /\ IF pos + 6 > End THEN GiveUp(pos, End)
     ELSE /\ Boundary(pos + 6)
          /\ IF IsCode THEN AddToLiteral(Code, pos + 6) ELSE GiveUp(pos, pos + 6)

OpenInterp ==
  /\ InStr /\ At(pos, <<"$", "{">>)
  /\ stack' = Append(Append(Callers,
         [Running EXCEPT !.hasInterp = TRUE, !.lit = <<>>, !.saved = tokens,
            !.buf = @ \o <<Fragment(pos), Mark("InterpOpen", pos, pos + 2)>>]),
         LexTop(TRUE, 0))
  /\ tokens' = <<>>
  /\ Advance(pos + 2) /\ UNCHANGED errors

AtPlainCharacter ==
  InStr /\ pos < End /\ text[pos] \notin {Quote, Backslash} /\ ~At(pos, <<"$", "{">>)
StringByte      == AtPlainCharacter /\ AddToLiteral(text[pos], pos + 1)  \* seeded fault
StringCharacter == AtPlainCharacter /\ AddToLiteral(text[pos], pos + Width(pos))

(* Slicing the source anywhere but at a character's first byte.            *)
SliceInsideACharacter ==
  /\ stage = "lex"
  /\ ~Boundary(pos) \/ (AtUnicode /\ pos + 6 < End /\ ~Boundary(pos + 6))
  /\ stage' = "panicked"
  /\ UNCHANGED <<text, pos, tokens, errors, stack>>

-----------------------------------------------------------------------------
LexInit ==
  /\ text \in Texts /\ pos = 1 /\ tokens = <<>> /\ errors = <<>>
  /\ stack = <<LexTop(FALSE, 0)>> /\ stage = "lex"

LexNext ==
  \/ SkipBlank \/ SkipComment \/ BlockComment \/ OpenString \/ CloseInterp
  \/ EndOfInput \/ OneToken \/ BadCharacter
  \/ Unterminated \/ CloseString \/ Escape \/ BadEscape \/ UnicodeEscape
  \/ OpenInterp \/ StringCharacter \/ SliceInsideACharacter

LexSpec == LexInit /\ [][LexNext]_lexVars /\ WF_lexVars(LexNext)

-----------------------------------------------------------------------------
(* What is still to do: bytes to take and activations to end, two to one   *)
(* since an activation begins with a byte at least.                        *)
Left == 2 * (End - pos) + Len(stack)

(* Every step takes a byte, or, at the end or after an error, ends an      *)
(* activation: there is no text, however wrong, that the lexer stays at    *)
(* (lexer.rs:259, :279-284).                                               *)
LexingAdvances ==
  [][stage = "lex" /\ stage' # "panicked" => Left' \in Nat /\ Left' < Left]_lexVars

Lexed == stage \in {"parse", "done"}

(* Layout: blanks and comments.  A blank or a comment from a up to b ...   *)
IsGap(a, b) ==
  \/ b = a + 1 /\ text[a] \in Blank
  \/ /\ At(a, <<"/", "/">>) /\ (text[b - 1] = "\n" \/ b = End)
     /\ \A i \in a .. b - 2 : text[i] # "\n"
  \/ /\ At(a, <<"/", "*">>) /\ a + 4 <= b /\ At(b - 2, <<"*", "/">>)
     /\ \A i \in a + 2 .. b - 3 : ~At(i, <<"*", "/">>)

(* ... and any number of them, one behind the other, from a up to b.       *)
IsLayout(a, b) ==
  a <= b /\ \E cuts \in SUBSET (a .. b) :
    /\ {a, b} \subseteq cuts
    /\ \A to \in cuts \ {a} : \E from \in cuts : from < to /\ IsGap(from, to)

(* A token behind another that ends at from.                               *)
Follows(token, from) ==
  /\ IsLayout(from, token.from)
  /\ token.t \in {"StrLit", "InterpOpen", "StrEnd"} => from = token.from
  /\ token.t = "StrLit" => Len(token.v) <= token.to - token.from
EndOf(toks, from) == IF toks = <<>> THEN from ELSE Last(toks).to

(* Tokens from from on, one behind the other; and with layout behind them  *)
(* up to to.                                                               *)
Chained(toks, from) ==
  \A i \in 1 .. Len(toks) : Follows(toks[i], IF i = 1 THEN from ELSE toks[i - 1].to)
Cover(toks, from, to) == Chained(toks, from) /\ IsLayout(EndOf(toks, from), to)

(* The tokens stand in the order of the text and leave out nothing but     *)
(* layout, and none of that inside a string, however deep strings and      *)
(* interpolations nest and whatever the lexer had put aside meanwhile      *)
(* (lexer.rs:374-382).                                                     *)
TokensCoverTheText == Lexed => Cover(tokens, 1, End)

(* How many more tokens of up than of down there are from i to j.          *)
Occurring(toks, kinds, i, j) == Cardinality({k \in i .. j : toks[k].t \in kinds})
Balance(toks, up, down, i, j) == Occurring(toks, up, i, j) - Occurring(toks, down, i, j)

InString(toks, i) == Balance(toks, {"StrBegin"}, {"StrEnd"}, 1, i)
InInterp(toks, i) == Balance(toks, {"InterpOpen"}, {"InterpClose"}, 1, i)
Net(toks, i, j)   == Balance(toks, Opening, Closing, i, j)

(* Fragments and the end of an interpolation stand directly in a string,   *)
(* every other token directly in an interpolation or outside strings.      *)
InPlace(toks, i) ==
  InString(toks, i) - InInterp(toks, i) =
    IF toks[i].t \in {"StrBegin", "StrLit", "InterpClose"} THEN 1 ELSE 0
(* j ends the interpolation that i opens.                                  *)
Matches(toks, i, j) ==
  /\ i < j /\ toks[i].t = "InterpOpen" /\ toks[j].t = "InterpClose"
  /\ InInterp(toks, i) = InInterp(toks, j) + 1
  /\ \A k \in i .. j - 1 : InInterp(toks, k) >= InInterp(toks, i)

(* Strings and interpolations nest, and the brace that ends an             *)
(* interpolation is none that a bracket inside it opened                   *)
(* (lexer.rs:194-197).                                                     *)
StringsNest ==
  Lexed =>
    /\ InString(tokens, Len(tokens)) = 0 /\ InInterp(tokens, Len(tokens)) = 0
    /\ \A i \in 1 .. Len(tokens) : InPlace(tokens, i)
    /\ \A i, j \in 1 .. Len(tokens) : Matches(tokens, i, j) => Net(tokens, i, j) = 0

(* The only place where the lexer dies is a \u escape whose four bytes end *)
(* within a character (lexer.rs:335): every other slice of the source is   *)
(* at a character's first byte.                                            *)
OnlyAnEscapeIsCut ==
  stage = "panicked" =>
    /\ Running.fn = "lex_string" /\ text[pos] = Backslash /\ text[pos + 1] = "u"
    /\ \E p \in pos + 2 .. pos + 5 : text[p] = Wide
=============================================================================
