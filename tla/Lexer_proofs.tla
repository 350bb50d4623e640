---------------------------- MODULE Lexer_proofs ----------------------------
(***************************************************************************)
(* Proofs about Lexer for any set of well-formed texts, of any length.     *)
(***************************************************************************)
EXTENDS Lexer, FiniteSetTheorems, SequenceTheorems, WellFoundedInduction, TLAPS

(* A set of numbers that is not empty has a least one.                     *)
LEMMA Least ==
  ASSUME NEW S \in SUBSET Nat, S # {}
  PROVE  \E m \in S : \A k \in S : m <= k
<1>1. PICK m \in S : \A k \in S : ~ (<<k, m>> \in OpToRel(<, Nat))
  BY NatLessThanWellFounded, WFMin
<1>2. \A k \in S : ~ (k < m)
  BY <1>1 DEF OpToRel
<1>3. QED
  BY <1>2

(* What every reachable state of the lexer satisfies about the source: it  *)
(* is well formed, and reading goes on at a character's first byte.        *)
Position ==
  /\ text \in Texts
  /\ stage = "lex" => pos \in 1 .. End /\ Boundary(pos)

LEMMA TextFacts ==
  ASSUME Position
  PROVE  /\ text \in Seq(STRING) /\ Len(text) \in Nat /\ End \in Nat
         /\ DOMAIN text = 1 .. Len(text) /\ End = Len(text) + 1
         /\ \A i \in 1 .. Len(text) : text[i] = Cont => i > 1 /\ text[i - 1] = Wide
         /\ \A i \in 1 .. Len(text) : text[i] = Wide => i < Len(text) /\ text[i + 1] = Cont
BY TextsAssumption DEF Position, WellFormed, End

(* Behind a character of one byte, and behind both bytes of one of two,    *)
(* another character starts or the text is over.                           *)
LEMMA Next1 ==
  ASSUME Position, NEW p \in 1 .. Len(text), text[p] # Wide
  PROVE  p + 1 \in 1 .. End /\ Boundary(p + 1)
BY TextFacts DEF Boundary

LEMMA Next2 ==
  ASSUME Position, NEW p \in 1 .. Len(text) - 1, text[p + 1] # Wide
  PROVE  p + 2 \in 1 .. End /\ Boundary(p + 2)
BY TextFacts DEF Boundary

LEMMA NextWidth ==
  ASSUME Position, NEW p \in 1 .. Len(text)
  PROVE  p + Width(p) \in 1 .. End /\ Boundary(p + Width(p))
<1>1. CASE text[p] = Wide
  <2>1. p < Len(text) /\ text[p + 1] = Cont
    BY <1>1, TextFacts
  <2>2. At(p + 1, <<Cont>>)
    BY <2>1, TextFacts DEF At
  <2>3. text[p + 1] # Wide
    BY <2>1 DEF Cont, Wide
  <2>4. QED
    BY <2>1, <2>2, <2>3, Next2, TextFacts DEF Width
<1>2. CASE text[p] # Wide
  <2>1. ~ At(p + 1, <<Cont>>)
    BY <1>2, TextFacts DEF At
  <2>2. QED
    BY <1>2, <2>1, Next1 DEF Width
<1>3. QED
  BY <1>1, <1>2

(* A text of one or of two bytes stands at p.                              *)
LEMMA AtFacts ==
  ASSUME Position, NEW p \in 1 .. End, NEW c, NEW d
  PROVE  /\ At(p, <<c>>) => p \in 1 .. Len(text) /\ text[p] = c
         /\ At(p, <<c, d>>) => p \in 1 .. Len(text) - 1 /\ text[p] = c /\ text[p + 1] = d
<1>1. Len(<<c>>) = 1 /\ <<c>>[1] = c /\ Len(<<c, d>>) = 2 /\ <<c, d>>[1] = c /\ <<c, d>>[2] = d
  OBVIOUS
<1>2. ASSUME At(p, <<c>>) PROVE p \in 1 .. Len(text) /\ text[p] = c
  <2>1. text[p + 1 - 1] = c /\ p + 1 <= End
    BY <1>1, <1>2 DEF At
  <2>2. QED
    BY <2>1, TextFacts
<1>3. ASSUME At(p, <<c, d>>)
      PROVE  p \in 1 .. Len(text) - 1 /\ text[p] = c /\ text[p + 1] = d
  <2>1. text[p + 1 - 1] = c /\ text[p + 2 - 1] = d /\ p + 2 <= End
    BY <1>1, <1>3 DEF At
  <2>2. QED
    BY <2>1, TextFacts
<1>4. QED
  BY <1>2, <1>3

(* What Find and RunEnd return.                                            *)
LEMMA FindFacts ==
  ASSUME Position, NEW p \in 1 .. End, NEW s
  PROVE  /\ Find(p, s) \in p .. End
         /\ Find(p, s) = End \/ At(Find(p, s), s)
         /\ \A r \in p .. (Find(p, s) - 1) : ~ At(r, s)
<1> DEFINE S == {q \in p .. End : q = End \/ At(q, s)}
<1>1. S \in SUBSET Nat /\ End \in S
  BY TextFacts
<1>2. PICK m \in S : \A k \in S : m <= k
  BY <1>1, Least
<1>3. \A r \in p .. (m - 1) : ~ At(r, s)
  BY <1>2, TextFacts
<1>4. \E q \in p .. End : (q = End \/ At(q, s)) /\ \A r \in p .. (q - 1) : ~ At(r, s)
  BY <1>2, <1>3
<1>5. QED
  BY <1>4 DEF Find

LEMMA RunEndFacts ==
  ASSUME Position, NEW p \in 1 .. Len(text), NEW S, text[p] \in S, Wide \notin S
  PROVE  RunEnd(p, S) \in 1 .. End /\ p < RunEnd(p, S) /\ Boundary(RunEnd(p, S))
<1> DEFINE T == {q \in p .. End : q = End \/ text[q] \notin S}
<1>1. T \in SUBSET Nat /\ End \in T
  BY TextFacts
<1>2. PICK m \in T : \A k \in T : m <= k
  BY <1>1, Least
<1>3. \A r \in p .. (m - 1) : text[r] \in S
  BY <1>2, TextFacts
<1>4. \E q \in p .. End :
        (q = End \/ text[q] \notin S) /\ \A r \in p .. (q - 1) : text[r] \in S
  BY <1>2, <1>3
<1>5. PICK q \in p .. End :
        /\ q = RunEnd(p, S)
        /\ q = End \/ text[q] \notin S
        /\ \A r \in p .. (q - 1) : text[r] \in S
  BY <1>4 DEF RunEnd
<1>6. q \in 1 .. End /\ p < q
  BY <1>5, TextFacts
<1>7. CASE q = End
  BY <1>5, <1>6, <1>7, TextFacts DEF Boundary
<1>8. CASE q # End
  <2>1. text[q] \notin S /\ q # p
    BY <1>5, <1>8
  <2>2. text[q - 1] \in S
    BY <1>5, <2>1, TextFacts
  <2>3. text[q] # Cont
    BY <1>6, <1>8, <2>2, TextFacts
  <2>4. QED
    BY <1>5, <1>6, <2>3 DEF Boundary
<1>9. QED
  BY <1>7, <1>8

(* A token of logos ends where a character does.                           *)
LEMMA TokenFacts ==
  ASSUME Position, NEW p \in 1 .. Len(text), LogosToken(p) # NoToken
  PROVE  LogosToken(p).to \in 1 .. End /\ p < LogosToken(p).to /\ Boundary(LogosToken(p).to)
<1> USE DEF Token, Mark
<1>0. /\ text[p] \in Digits => text[p] \notin Letters
      /\ text[p] \in Letters \cup Digits =>
           text[p] \notin Symbols /\ PairsAt(p) = {}
  <2>1. \A pair \in PairsAt(p) : text[p] \in {"=", "!", ">", "<", "&", "|"}
    <3> SUFFICES ASSUME NEW pair \in PairsAt(p)
                 PROVE  text[p] \in {"=", "!", ">", "<", "&", "|"}
      OBVIOUS
    <3>1. PICK c \in {"=", "!", ">", "<", "&", "|"}, d \in {"=", ">", "&", "|"} :
            Bytes(pair) = <<c, d>>
      BY DEF Pairs, PairsAt, Bytes
    <3>2. p \in 1 .. End
      BY TextFacts
    <3>3. QED
      BY <3>1, <3>2, AtFacts DEF PairsAt
  <2>2. /\ Letters \cap Digits = {}
        /\ (Letters \cup Digits) \cap (Symbols \cup {"=", "!", ">", "<", "&", "|"}) = {}
    BY DEF Letters, Digits, Symbols, Keywords
  <2>3. QED
    BY <2>1, <2>2
<1>1. CASE text[p] \in Letters
  <2>1. Wide \notin Letters \cup Digits
    BY DEF Wide, Letters, Digits, Keywords
  <2>2. LogosToken(p) = Word(p)
    BY <1>0, <1>1 DEF LogosToken
  <2>3. Word(p).to = RunEnd(p, Letters \cup Digits)
    BY DEF Word
  <2>4. QED
    BY <1>1, <2>1, <2>2, <2>3, RunEndFacts
<1>2. CASE text[p] \notin Letters /\ text[p] \in Digits
  <2>1. Wide \notin Digits
    BY DEF Wide, Digits
  <2>2. LogosToken(p) = Numeral(p)
    BY <1>0, <1>2 DEF LogosToken
  <2>3. Numeral(p).to = RunEnd(p, Digits)
    BY DEF Numeral
  <2>4. QED
    BY <1>2, <2>1, <2>2, <2>3, RunEndFacts
<1>3. CASE /\ text[p] \notin Letters /\ text[p] \notin Digits
           /\ PairsAt(p) # {}
  <2>1. PICK pair \in Pairs : At(p, Bytes(pair))
    BY <1>3 DEF PairsAt
  <2>2. Len(Bytes(pair)) = 2 /\ Bytes(pair)[2] # Wide
    BY DEF Pairs, Wide, Bytes
  <2>3. p + 2 <= End /\ text[p + 2 - 1] = Bytes(pair)[2]
    BY <2>1, <2>2 DEF At
  <2>4. p \in 1 .. Len(text) - 1 /\ text[p + 1] # Wide
    BY <2>2, <2>3, TextFacts
  <2>5. LogosToken(p).to = p + 2
    BY <1>3 DEF LogosToken
  <2>6. QED
    BY <2>4, <2>5, Next2
<1>4. CASE /\ text[p] \notin Letters /\ text[p] \notin Digits
           /\ PairsAt(p) = {}
  <2>1. text[p] \in Symbols
    BY <1>4 DEF LogosToken
  <2>2. LogosToken(p).to = p + 1
    BY <1>4, <2>1 DEF LogosToken
  <2>3. text[p] # Wide
    BY <2>1 DEF Symbols, Wide
  <2>4. QED
    BY <2>2, <2>3, Next1
<1>5. QED
  BY <1>1, <1>2, <1>3, <1>4

-----------------------------------------------------------------------------
(* Position is inductive, and while it holds no step but the slice of a \u *)
(* escape can be one of SliceInsideACharacter.                             *)
CutInv == Position /\ OnlyAnEscapeIsCut

LEMMA InitCutInv == LexInit => CutInv
<1> SUFFICES ASSUME LexInit PROVE CutInv
  OBVIOUS
<1>1. text \in Seq(STRING) /\ WellFormed(text)
  BY TextsAssumption DEF LexInit, WellFormed
<1>2. End \in Nat /\ End >= 1
  BY <1>1 DEF End
<1>3. Boundary(1)
  BY <1>1 DEF Boundary, WellFormed
<1>4. QED
  BY <1>2, <1>3 DEF LexInit, CutInv, Position, OnlyAnEscapeIsCut

(* A step that moves on to a character's first byte keeps the invariant.   *)
LEMMA MoveCutInv ==
  ASSUME CutInv, stage = "lex", text' = text, stage' # "panicked",
         pos' \in 1 .. End, Boundary(pos')
  PROVE  CutInv'
<1>1. Position'
  BY DEF CutInv, Position, Boundary, End
<1>2. OnlyAnEscapeIsCut'
  BY DEF OnlyAnEscapeIsCut
<1>3. QED
  BY <1>1, <1>2 DEF CutInv

LEMMA StepCutInv == CutInv /\ [LexNext]_lexVars => CutInv'
<1> SUFFICES ASSUME CutInv, [LexNext]_lexVars PROVE CutInv'
  OBVIOUS
<1> USE DEF InTop, InStr, Lexing
<1>1. Position
  BY DEF CutInv
<1>2. Lexing => pos \in 1 .. End
  BY <1>1 DEF Position
<1>3. Lexing /\ pos < End => pos \in 1 .. Len(text)
  BY <1>1, TextFacts DEF Position
<1>4. CASE SkipBlank
  <2>1. text[pos] # Wide /\ pos \in 1 .. Len(text)
    BY <1>3, <1>4 DEF SkipBlank, Blank, Wide
  <2>2. QED
    BY <1>1, <1>4, <2>1, Next1, MoveCutInv DEF SkipBlank, Advance
<1>5. CASE SkipComment
  <2>1. PICK nl : nl = Find(pos, <<"\n">>) /\ pos' = IF nl = End THEN End ELSE nl + 1
    BY <1>5 DEF SkipComment, Advance
  <2>2. nl \in pos .. End /\ (nl = End \/ At(nl, <<"\n">>))
    BY <1>1, <1>2, <1>5, <2>1, FindFacts DEF SkipComment
  <2>3. CASE nl = End
    BY <1>1, <1>5, <2>1, <2>3, TextFacts, MoveCutInv DEF SkipComment, Advance, Boundary
  <2>4. CASE nl # End
    <3>1. nl \in 1 .. Len(text) /\ text[nl] = "\n"
      BY <1>1, <1>3, <1>5, <2>2, <2>4, TextFacts DEF At, SkipComment
    <3>2. text[nl] # Wide
      BY <3>1 DEF Wide
    <3>3. QED
      BY <1>1, <1>5, <2>1, <2>4, <3>1, <3>2, Next1, MoveCutInv DEF SkipComment, Advance
  <2>5. QED
    BY <2>3, <2>4
<1>6. CASE BlockComment
  <2>1. pos + 2 \in 1 .. End
    BY <1>1, <1>3, <1>6, TextFacts DEF BlockComment, At
  <2>2. PICK close :
          /\ close = Find(pos + 2, <<"*", "/">>)
          /\ pos' = IF close # End THEN close + 2 ELSE End
    BY <1>6 DEF BlockComment, Advance
  <2>3. close \in pos + 2 .. End /\ (close = End \/ At(close, <<"*", "/">>))
    BY <1>1, <2>1, <2>2, FindFacts
  <2>4. stage' = stage /\ text' = text
    BY <1>6 DEF BlockComment, Advance
  <2>5. CASE close = End
    BY <1>1, <1>6, <2>2, <2>4, <2>5, TextFacts, MoveCutInv DEF BlockComment, Boundary
  <2>6. CASE close # End
    <3>1. close \in 1 .. Len(text) - 1 /\ text[close + 1] = "/"
      BY <1>1, <1>2, <1>6, <2>3, <2>6, TextFacts DEF At, BlockComment
    <3>2. text[close + 1] # Wide
      BY <3>1 DEF Wide
    <3>3. QED
      BY <1>1, <1>6, <2>2, <2>4, <2>6, <3>1, <3>2, Next2, MoveCutInv DEF BlockComment
  <2>7. QED
    BY <2>5, <2>6
<1>7. CASE OpenString
  <2>1. text[pos] # Wide /\ pos \in 1 .. Len(text)
    BY <1>3, <1>7 DEF OpenString, Quote, Wide
  <2>2. QED
    BY <1>1, <1>7, <2>1, Next1, MoveCutInv DEF OpenString, Advance
<1>8. CASE CloseInterp
  <2>1. text[pos] # Wide /\ pos \in 1 .. Len(text)
    BY <1>3, <1>8 DEF CloseInterp, AtToken, Closes, Wide
  <2>2. stage' # "panicked"
    BY <1>8 DEF CloseInterp, AtToken, ReturnFromTop
  <2>3. QED
    BY <1>1, <1>8, <2>1, <2>2, Next1, MoveCutInv DEF CloseInterp, AtToken
<1>9. CASE EndOfInput
  <2>1. stage' # "panicked"
    BY <1>9 DEF EndOfInput, ReturnFromTop
  <2>2. QED
    BY <1>1, <1>2, <1>9, <2>1, MoveCutInv DEF EndOfInput, Boundary
<1>10. CASE OneToken
  <2>1. pos \in 1 .. Len(text) /\ LogosToken(pos) # NoToken
    BY <1>3, <1>10 DEF OneToken, AtToken
  <2>2. pos' = LogosToken(pos).to
    BY <1>10 DEF OneToken, Advance
  <2>3. QED
    BY <1>1, <1>10, <2>1, <2>2, TokenFacts, MoveCutInv DEF OneToken, AtToken, Advance
<1>11. CASE BadCharacter
  <2>1. pos \in 1 .. Len(text)
    BY <1>3, <1>11 DEF BadCharacter, AtToken
  <2>2. QED
    BY <1>1, <1>11, <2>1, NextWidth, MoveCutInv DEF BadCharacter, AtToken, Advance
<1>12. CASE \E from, to : InStr /\ GiveUp(from, to)
  BY <1>1, <1>2, <1>12, MoveCutInv DEF GiveUp, Advance
<1>13. Unterminated \/ BadEscape => \E from, to : InStr /\ GiveUp(from, to)
  BY DEF Unterminated, BadEscape
<1>14. CASE CloseString
  <2>1. text[pos] # Wide /\ pos \in 1 .. Len(text)
    BY <1>1, <1>2, <1>14, AtFacts DEF CloseString, Quote, Wide
  <2>2. QED
    BY <1>1, <1>14, <2>1, Next1, MoveCutInv DEF CloseString, Advance
<1>15. CASE Escape
  <2>1. pos \in 1 .. Len(text) - 1 /\ text[pos + 1] \in DOMAIN Escapes
    BY <1>1, <1>2, <1>15, TextFacts DEF Escape
  <2>2. text[pos + 1] # Wide
    BY <2>1 DEF Escapes, Quote, Backslash, Wide
  <2>3. QED
    BY <1>1, <1>15, <2>1, <2>2, Next2, MoveCutInv DEF Escape, AddToLiteral, Advance
<1>16. CASE UnicodeEscape
  <2>1. CASE GiveUp(pos, End) \/ GiveUp(pos, pos + 6)
    BY <1>12, <1>16, <2>1 DEF UnicodeEscape, AtUnicode
  <2>2. CASE ~ (pos + 6 > End) /\ Boundary(pos + 6) /\ AddToLiteral(Code, pos + 6)
    <3>1. pos + 6 \in 1 .. End
      BY <1>1, <1>2, <1>16, <2>2, TextFacts DEF UnicodeEscape, AtUnicode
    <3>2. QED
      BY <1>16, <2>2, <3>1, MoveCutInv DEF UnicodeEscape, AtUnicode, AddToLiteral, Advance
  <2>3. QED
    BY <1>16, <2>1, <2>2 DEF UnicodeEscape
<1>17. CASE OpenInterp
  <2>1. pos \in 1 .. Len(text) - 1 /\ text[pos + 1] = "{"
    BY <1>1, <1>2, <1>17, AtFacts DEF OpenInterp
  <2>2. text[pos + 1] # Wide
    BY <2>1 DEF Wide
  <2>3. QED
    BY <1>1, <1>17, <2>1, <2>2, Next2, MoveCutInv DEF OpenInterp, Advance
<1>18. CASE StringCharacter
  <2>1. pos \in 1 .. Len(text)
    BY <1>3, <1>18 DEF StringCharacter, AtPlainCharacter
  <2>2. QED
    BY <1>1, <1>18, <2>1, NextWidth, MoveCutInv
    DEF StringCharacter, AtPlainCharacter, AddToLiteral, Advance
<1>19. CASE SliceInsideACharacter
  <2>1. AtUnicode /\ pos + 6 < End /\ ~ Boundary(pos + 6)
    BY <1>1, <1>19 DEF SliceInsideACharacter, Position
  <2>2. pos + 6 \in 1 .. Len(text) /\ text[pos + 6] = Cont
    BY <1>1, <1>2, <2>1, TextFacts DEF AtUnicode, Boundary
  <2>3. text[pos + 5] = Wide
    BY <1>1, <1>2, <2>1, <2>2, TextFacts DEF AtUnicode
  <2>4. text[pos] = Backslash /\ text[pos + 1] = "u"
    BY <1>1, <1>2, <2>1, AtFacts DEF AtUnicode
  <2>5. Running.fn = "lex_string"
    BY <2>1 DEF AtUnicode
  <2>6. OnlyAnEscapeIsCut'
    BY <1>1, <1>2, <1>19, <2>1, <2>3, <2>4, <2>5, TextFacts
    DEF SliceInsideACharacter, OnlyAnEscapeIsCut, Running, AtUnicode
  <2>7. QED
    BY <1>1, <1>19, <2>6 DEF SliceInsideACharacter, CutInv, Position
<1>20. CASE UNCHANGED lexVars
  BY <1>20 DEF lexVars, CutInv, Position, OnlyAnEscapeIsCut, Boundary, End, Running
<1>21. QED
  BY <1>4, <1>5, <1>6, <1>7, <1>8, <1>9, <1>10, <1>11, <1>12, <1>13, <1>14, <1>15,
     <1>16, <1>17, <1>18, <1>19, <1>20 DEF LexNext

(* Every slice the lexer takes of any source is at a character's first     *)
(* byte, except the four bytes of a \u escape (lexer.rs:335): the lexer    *)
(* dies of nothing else.                                                   *)
THEOREM OnlyEscapesAreCut == LexSpec => []OnlyAnEscapeIsCut
<1>1. CutInv => OnlyAnEscapeIsCut
  BY DEF CutInv
<1>2. QED
  BY <1>1, InitCutInv, StepCutInv, PTL DEF LexSpec

-----------------------------------------------------------------------------
(* Layout, and tokens one behind the other.                                *)
LEMMA LayoutNone == ASSUME NEW a \in Nat PROVE IsLayout(a, a)
<1> DEFINE cuts == {a}
<1>1. cuts \in SUBSET (a .. a) /\ {a, a} \subseteq cuts
  OBVIOUS
<1>2. \A to \in cuts \ {a} : \E from \in cuts : from < to /\ IsGap(from, to)
  OBVIOUS
<1> HIDE DEF cuts
<1>3. QED
  BY <1>1, <1>2 DEF IsLayout

LEMMA LayoutMore ==
  ASSUME NEW a \in Nat, NEW b \in Nat, NEW c \in Nat, IsLayout(a, b), b < c, IsGap(b, c)
  PROVE  IsLayout(a, c)
<1>1. PICK cuts \in SUBSET (a .. b) :
        /\ {a, b} \subseteq cuts
        /\ \A to \in cuts \ {a} : \E from \in cuts : from < to /\ IsGap(from, to)
  BY DEF IsLayout
<1>2. a <= b
  BY DEF IsLayout
<1> DEFINE more == cuts \cup {c}
<1>3. more \in SUBSET (a .. c) /\ {a, c} \subseteq more
  BY <1>1, <1>2
<1>4. ASSUME NEW to \in more \ {a} PROVE \E from \in more : from < to /\ IsGap(from, to)
  <2>1. CASE to = c
    BY <1>1, <2>1
  <2>2. CASE to # c
    BY <1>1, <1>4, <2>2
  <2>3. QED
    BY <2>1, <2>2
<1>5. \A to \in more \ {a} : \E from \in more : from < to /\ IsGap(from, to)
  BY <1>4
<1>6. a <= c
  BY <1>2
<1> HIDE DEF more
<1>7. QED
  BY <1>3, <1>5, <1>6 DEF IsLayout

(* The value of a literal is made of characters and, for a \u escape, of   *)
(* the four bytes of its code.                                             *)
Chars    == STRING \cup {Escapes[c] : c \in DOMAIN Escapes} \cup Seq(STRING)
OneOfLogos == {"Ident", "Num"} \cup Keywords \cup Symbols \cup {pair[1] : pair \in Pairs}
OfStrings  == {"Str", "StrBegin", "StrLit", "StrEnd", "InterpOpen", "InterpClose"}
TokenSet == [t : OneOfLogos \cup OfStrings, v : Seq(Chars), from : Nat, to : Nat]
Tops     == [fn : {"lex_top"}, inside : BOOLEAN, depth : Int]
Strings  == [fn : {"lex_string"}, start : Nat, lit : Seq(Chars), litStart : Nat,
             buf : Seq(TokenSet), hasInterp : BOOLEAN, saved : Seq(TokenSet)]

LEMMA EndOfType ==
  ASSUME NEW toks \in Seq(TokenSet), NEW from \in Nat
  PROVE  EndOf(toks, from) \in Nat
<1>1. CASE toks = <<>>
  BY <1>1 DEF EndOf
<1>2. CASE toks # <<>>
  <2>1. Len(toks) \in 1 .. Len(toks)
    BY <1>2
  <2>2. toks[Len(toks)] \in TokenSet
    BY <2>1
  <2>3. QED
    BY <1>2, <2>2 DEF EndOf, Last, TokenSet
<1>3. QED
  BY <1>1, <1>2

LEMMA ChainedNone == ASSUME NEW from PROVE Chained(<<>>, from) /\ EndOf(<<>>, from) = from
BY DEF Chained, EndOf

LEMMA ChainedAppend ==
  ASSUME NEW toks \in Seq(TokenSet), NEW from \in Nat, NEW token \in TokenSet,
         Chained(toks, from), Follows(token, EndOf(toks, from))
  PROVE  /\ Append(toks, token) \in Seq(TokenSet)
         /\ Chained(Append(toks, token), from)
         /\ EndOf(Append(toks, token), from) = token.to
<1> DEFINE more == Append(toks, token)
<1>1. PICK n \in Nat : n = Len(toks)
  OBVIOUS
<1>2. /\ more \in Seq(TokenSet) /\ Len(more) = n + 1 /\ more[n + 1] = token
      /\ \A i \in 1 .. n : more[i] = toks[i]
      /\ more # <<>> /\ (toks = <<>> <=> n = 0)
  BY <1>1
<1> HIDE DEF more
<1>3. ASSUME NEW i \in 1 .. n + 1
      PROVE  Follows(more[i], IF i = 1 THEN from ELSE more[i - 1].to)
  <2>1. CASE i \in 1 .. n
    <3>1. i # 1 => i - 1 \in 1 .. n
      BY <1>1, <2>1
    <3>2. Follows(toks[i], IF i = 1 THEN from ELSE toks[i - 1].to)
      BY <1>1, <2>1 DEF Chained
    <3>3. QED
      BY <1>2, <2>1, <3>1, <3>2
  <2>2. CASE i = n + 1
    <3>1. EndOf(toks, from) = IF i = 1 THEN from ELSE more[i - 1].to
      BY <1>1, <1>2, <2>2 DEF EndOf, Last
    <3>2. QED
      BY <1>2, <2>2, <3>1
  <2>3. QED
    BY <1>1, <2>1, <2>2
<1>4. EndOf(more, from) = token.to
  BY <1>2 DEF EndOf, Last
<1>5. QED
  BY <1>2, <1>3, <1>4 DEF Chained, more

LEMMA ChainedConcat ==
  ASSUME NEW a \in Seq(TokenSet), NEW b \in Seq(TokenSet), NEW from \in Nat,
         Chained(a, from), Chained(b, EndOf(a, from))
  PROVE  /\ a \o b \in Seq(TokenSet)
         /\ Chained(a \o b, from)
         /\ EndOf(a \o b, from) = EndOf(b, EndOf(a, from))
<1> DEFINE c == a \o b
<1>1. PICK m \in Nat, n \in Nat : m = Len(a) /\ n = Len(b)
  OBVIOUS
<1>2. /\ c \in Seq(TokenSet) /\ Len(c) = m + n
      /\ \A i \in 1 .. m : c[i] = a[i]
      /\ \A i \in 1 .. n : c[m + i] = b[i]
      /\ (a = <<>> <=> m = 0) /\ (b = <<>> <=> n = 0) /\ (c = <<>> <=> m + n = 0)
  BY <1>1
<1> HIDE DEF c
<1>3. ASSUME NEW i \in 1 .. m + n
      PROVE  Follows(c[i], IF i = 1 THEN from ELSE c[i - 1].to)
  <2>1. CASE i \in 1 .. m
    <3>1. i # 1 => i - 1 \in 1 .. m
      BY <1>1, <2>1
    <3>2. Follows(a[i], IF i = 1 THEN from ELSE a[i - 1].to)
      BY <1>1, <2>1 DEF Chained
    <3>3. QED
      BY <1>2, <2>1, <3>1, <3>2
  <2>2. CASE i = m + 1
    <3>1. 1 \in 1 .. n /\ c[i] = b[1]
      BY <1>1, <1>2, <1>3, <2>2
    <3>2. Follows(b[1], EndOf(a, from))
      BY <1>1, <3>1 DEF Chained
    <3>3. EndOf(a, from) = IF i = 1 THEN from ELSE c[i - 1].to
      BY <1>1, <1>2, <2>2 DEF EndOf, Last
    <3>4. QED
      BY <3>1, <3>2, <3>3
  <2>3. CASE i > m + 1
    <3>1. PICK j \in 2 .. n : i = m + j
      <4>1. i - m \in 2 .. n /\ i = m + (i - m)
        BY <1>1, <1>3, <2>3
      <4>2. QED
        BY <4>1
    <3>2. j \in 1 .. n /\ j - 1 \in 1 .. n /\ m + (j - 1) = i - 1 /\ j # 1 /\ i # 1
      BY <1>1, <2>3, <3>1
    <3>3. c[i] = b[j] /\ c[i - 1] = b[j - 1]
      BY <1>2, <3>1, <3>2
    <3>4. Follows(b[j], b[j - 1].to)
      BY <1>1, <3>2 DEF Chained
    <3>5. QED
      BY <3>2, <3>3, <3>4
  <2>4. QED
    BY <1>1, <2>1, <2>2, <2>3
<1>4. EndOf(c, from) = EndOf(b, EndOf(a, from))
  BY <1>1, <1>2 DEF EndOf, Last
<1>5. QED
  BY <1>2, <1>3, <1>4 DEF Chained, c

(* What the lexer skips is layout.                                         *)
LEMMA AtIntro ==
  ASSUME Position, NEW p \in 1 .. Len(text), NEW c, text[p] = c
  PROVE  At(p, <<c>>)
<1>1. Len(<<c>>) = 1 /\ <<c>>[1] = c
  OBVIOUS
<1>2. QED
  BY <1>1, TextFacts DEF At

LEMMA CommentGap ==
  ASSUME Position, NEW p \in 1 .. End, At(p, <<"/", "/">>),
         NEW nl, nl = Find(p, <<"\n">>), NEW to, to = IF nl = End THEN End ELSE nl + 1
  PROVE  to \in Nat /\ p < to /\ IsGap(p, to)
<1>1. p \in 1 .. Len(text) - 1 /\ text[p] = "/"
  BY AtFacts
<1>2. /\ nl \in p .. End /\ (nl = End \/ At(nl, <<"\n">>))
      /\ \A r \in p .. (nl - 1) : ~ At(r, <<"\n">>)
  BY FindFacts
<1>3. nl # End => nl \in 1 .. Len(text) /\ text[nl] = "\n"
  <2>1. nl \in 1 .. End
    BY <1>1, <1>2, TextFacts
  <2>2. QED
    BY <1>2, <2>1, AtFacts
<1>4. to \in Nat /\ p < to /\ to <= End
  BY <1>1, <1>2, <1>3, TextFacts
<1>5. \A i \in p .. to - 2 : text[i] # "\n"
  <2> SUFFICES ASSUME NEW i \in p .. to - 2 PROVE text[i] # "\n"
    OBVIOUS
  <2>1. i \in 1 .. Len(text) /\ i \in p .. (nl - 1)
    BY <1>1, <1>2, <1>4, TextFacts
  <2>2. QED
    BY <1>2, <2>1, AtIntro
<1>6. text[to - 1] = "\n" \/ to = End
  BY <1>2, <1>3, TextFacts
<1>7. QED
  BY <1>4, <1>5, <1>6 DEF IsGap

LEMMA BlockGap ==
  ASSUME Position, NEW p \in 1 .. End, At(p, <<"/", "*">>),
         NEW close, close = Find(p + 2, <<"*", "/">>), close # End
  PROVE  close + 2 \in Nat /\ p < close + 2 /\ IsGap(p, close + 2)
<1>1. p \in 1 .. Len(text) - 1 /\ p + 2 \in 1 .. End
  <2>1. p \in 1 .. Len(text) - 1
    BY AtFacts
  <2>2. QED
    BY <2>1, TextFacts
<1>2. /\ close \in p + 2 .. End /\ At(close, <<"*", "/">>)
      /\ \A r \in p + 2 .. (close - 1) : ~ At(r, <<"*", "/">>)
  BY <1>1, FindFacts
<1>3. (close + 2) - 2 = close /\ (close + 2) - 3 = close - 1 /\ p + 4 <= close + 2
  BY <1>1, <1>2
<1>4. QED
  BY <1>1, <1>2, <1>3 DEF IsGap

(* Values of tokens are sequences.                                         *)
LEMMA TextChars == ASSUME Position PROVE text \in Seq(Chars)
<1>1. text \in Seq(STRING)
  BY TextFacts
<1>2. \A i \in 1 .. Len(text) : text[i] \in Chars
  BY <1>1 DEF Chars
<1>3. QED
  BY <1>1, <1>2

LEMMA MarkToken ==
  ASSUME NEW t \in OneOfLogos \cup OfStrings, NEW from \in Nat, NEW to \in Nat
  PROVE  Mark(t, from, to) \in TokenSet
BY DEF Mark, Token, TokenSet

(* A token of logos starts where it is looked for, and is none of those    *)
(* lex_string makes.                                                       *)
LEMMA LogosKinds == ASSUME NEW t \in OneOfLogos PROVE t \notin OfStrings
<1>1. CASE t \in {"Ident", "Num"} \cup Keywords \cup Symbols
  BY <1>1 DEF OfStrings, Keywords, Symbols
<1>2. CASE \E pair \in Pairs : t = pair[1]
  BY <1>2 DEF OfStrings, Pairs
<1>3. QED
  BY <1>1, <1>2 DEF OneOfLogos

LEMMA TokenShape ==
  ASSUME Position, NEW p \in 1 .. Len(text), LogosToken(p) # NoToken
  PROVE  /\ LogosToken(p) \in TokenSet
         /\ LogosToken(p).from = p
         /\ LogosToken(p).t \in OneOfLogos
<1>1. PICK found : found = LogosToken(p)
  OBVIOUS
<1>2. found.to \in 1 .. End /\ found.to \in Nat
  BY <1>1, TokenFacts, TextFacts
<1>3. p \in Nat /\ \A to \in 1 .. End : SubSeq(text, p, to - 1) \in Seq(Chars)
  BY TextFacts, TextChars
<1>4. CASE found = Word(p)
  <2>1. PICK to, w : /\ to = RunEnd(p, Letters \cup Digits) /\ w = SubSeq(text, p, to - 1)
                     /\ found = IF Len(w) = 1 /\ w[1] \in Keywords THEN Mark(w[1], p, to)
                                ELSE Token("Ident", w, p, to)
    BY <1>4 DEF Word
  <2>2. found.to = to
    BY <2>1 DEF Mark, Token
  <2>3. w \in Seq(Chars)
    BY <1>2, <1>3, <2>1, <2>2
  <2>4. CASE Len(w) = 1 /\ w[1] \in Keywords
    <3>1. w[1] \in OneOfLogos
      BY <2>4 DEF OneOfLogos
    <3>2. found = Mark(w[1], p, to)
      BY <2>1, <2>4
    <3>3. found \in TokenSet
      BY <1>2, <1>3, <2>2, <3>1, <3>2, MarkToken
    <3>4. found.from = p /\ found.t = w[1]
      BY <3>2 DEF Mark, Token
    <3>5. QED
      BY <1>1, <3>1, <3>3, <3>4
  <2>5. CASE ~ (Len(w) = 1 /\ w[1] \in Keywords)
    <3>1. found = Token("Ident", w, p, to)
      BY <2>1, <2>5
    <3>2. QED
      BY <1>1, <1>2, <1>3, <2>2, <2>3, <3>1 DEF Token, TokenSet, OneOfLogos
  <2>6. QED
    BY <2>4, <2>5
<1>5. CASE found = Numeral(p)
  <2>1. PICK to, w : w = SubSeq(text, p, to - 1) /\ found = Token("Num", w, p, to)
    BY <1>5 DEF Numeral
  <2>2. found.to = to
    BY <2>1 DEF Token
  <2>3. w \in Seq(Chars)
    BY <1>2, <1>3, <2>1, <2>2
  <2>4. QED
    BY <1>1, <1>2, <1>3, <2>1, <2>2, <2>3 DEF Token, TokenSet, OneOfLogos
<1>6. CASE PairsAt(p) # {} /\ found = Mark((CHOOSE pair \in PairsAt(p) : TRUE)[1], p, p + 2)
  <2>1. PICK pair \in Pairs : found = Mark(pair[1], p, p + 2)
    BY <1>6 DEF PairsAt
  <2>2. pair[1] \in OneOfLogos
    BY DEF OneOfLogos
  <2>3. QED
    BY <1>1, <1>3, <2>1, <2>2, MarkToken DEF Mark, Token
<1>7. CASE text[p] \in Symbols /\ found = Mark(text[p], p, p + 1)
  <2>1. text[p] \in OneOfLogos
    BY <1>7 DEF OneOfLogos
  <2>2. QED
    BY <1>1, <1>3, <1>7, <2>1, MarkToken DEF Mark, Token
<1>8. QED
  BY <1>1, <1>4, <1>5, <1>6, <1>7 DEF LogosToken

-----------------------------------------------------------------------------
(* Counting tokens.                                                        *)
LEMMA OccurringType ==
  ASSUME NEW toks, NEW kinds, NEW i \in Int, NEW j \in Int
  PROVE  /\ IsFiniteSet({k \in i .. j : toks[k].t \in kinds})
         /\ Occurring(toks, kinds, i, j) \in Nat
<1> DEFINE S == {k \in i .. j : toks[k].t \in kinds}
<1>1. IsFiniteSet(i .. j) /\ S \in SUBSET (i .. j)
  BY FS_Interval
<1>2. IsFiniteSet(S)
  BY <1>1, FS_Subset
<1>3. Cardinality(S) \in Nat
  BY <1>2, FS_CardinalityType
<1>4. QED
  BY <1>2, <1>3 DEF Occurring

LEMMA OccurringNone ==
  ASSUME NEW toks, NEW kinds, NEW i \in Int, NEW j \in Int, j < i
  PROVE  Occurring(toks, kinds, i, j) = 0
<1>1. {k \in i .. j : toks[k].t \in kinds} = {}
  OBVIOUS
<1>2. QED
  BY <1>1, FS_EmptySet DEF Occurring

LEMMA OccurringMore ==
  ASSUME NEW toks, NEW kinds, NEW i \in Int, NEW j \in Int, i <= j + 1
  PROVE  Occurring(toks, kinds, i, j + 1)
           = Occurring(toks, kinds, i, j) + (IF toks[j + 1].t \in kinds THEN 1 ELSE 0)
<1> DEFINE S == {k \in i .. j : toks[k].t \in kinds}
           T == {k \in i .. j + 1 : toks[k].t \in kinds}
<1>1. IsFiniteSet(S) /\ Cardinality(S) \in Nat
  BY OccurringType DEF Occurring
<1>2. j + 1 \notin S
  OBVIOUS
<1>3. CASE toks[j + 1].t \in kinds
  <2>1. T = S \cup {j + 1}
    BY <1>3
  <2> HIDE DEF S, T
  <2>2. Cardinality(T) = Cardinality(S) + 1
    BY <1>1, <1>2, <2>1, FS_AddElement
  <2>3. QED
    BY <1>3, <2>2 DEF Occurring, S, T
<1>4. CASE toks[j + 1].t \notin kinds
  <2>1. T = S
    BY <1>4
  <2>2. QED
    BY <1>1, <1>4, <2>1 DEF Occurring
<1>5. QED
  BY <1>3, <1>4

LEMMA OccurringSplit ==
  ASSUME NEW toks, NEW kinds, NEW i \in Int, NEW j \in Int, NEW l \in Int, i <= l + 1, l <= j
  PROVE  Occurring(toks, kinds, i, j)
           = Occurring(toks, kinds, i, l) + Occurring(toks, kinds, l + 1, j)
<1> DEFINE S == {k \in i .. l : toks[k].t \in kinds}
           T == {k \in l + 1 .. j : toks[k].t \in kinds}
           U == {k \in i .. j : toks[k].t \in kinds}
<1>1. IsFiniteSet(S) /\ IsFiniteSet(T) /\ Cardinality(S) \in Nat /\ Cardinality(T) \in Nat
  <2>1. IsFiniteSet(S) /\ Cardinality(S) \in Nat
    BY OccurringType DEF Occurring
  <2>2. l + 1 \in Int
    OBVIOUS
  <2>3. IsFiniteSet(T) /\ Cardinality(T) \in Nat
    BY <2>2, OccurringType DEF Occurring
  <2>4. QED
    BY <2>1, <2>3
<1>2. U = S \cup T /\ S \cap T = {}
  OBVIOUS
<1> HIDE DEF S, T, U
<1>3. Cardinality(U) = Cardinality(S) + Cardinality(T) - Cardinality({})
  BY <1>1, <1>2, FS_Union
<1>4. Cardinality(U) = Cardinality(S) + Cardinality(T)
  BY <1>1, <1>3, FS_EmptySet
<1>5. QED
  BY <1>4 DEF Occurring, S, T, U

(* The same tokens, further back by d.                                     *)
LEMMA OccurringShift ==
  ASSUME NEW a, NEW b, NEW kinds, NEW i \in Int, NEW j \in Int, NEW d \in Int,
         \A k \in i .. j : b[d + k].t = a[k].t
  PROVE  Occurring(b, kinds, d + i, d + j) = Occurring(a, kinds, i, j)
<1> DEFINE S == {k \in i .. j : a[k].t \in kinds}
           T == {k \in d + i .. d + j : b[k].t \in kinds}
           f == [k \in S |-> d + k]
<1>1. IsFiniteSet(S)
  BY OccurringType
<1>2. f \in [S -> T]
  OBVIOUS
<1>3. \A k \in S, l \in S : f[k] = f[l] => k = l
  OBVIOUS
<1>4. \A t \in T : \E k \in S : f[k] = t
  <2> SUFFICES ASSUME NEW t \in T PROVE \E k \in S : f[k] = t
    OBVIOUS
  <2>1. t - d \in i .. j /\ d + (t - d) = t
    OBVIOUS
  <2>2. t - d \in S
    BY <2>1
  <2>3. QED
    BY <2>1, <2>2
<1>5. f \in Bijection(S, T)
  BY <1>2, <1>3, <1>4 DEF Bijection, Injection, Surjection, IsInjective
<1> HIDE DEF S, T, f
<1>6. Cardinality(T) = Cardinality(S)
  BY <1>1, <1>5, FS_Bijection DEF ExistsBijection
<1>7. QED
  BY <1>6 DEF Occurring, S, T

LEMMA BalanceType ==
  ASSUME NEW toks, NEW up, NEW down, NEW i \in Int, NEW j \in Int
  PROVE  Balance(toks, up, down, i, j) \in Int
<1>1. Occurring(toks, up, i, j) \in Nat /\ Occurring(toks, down, i, j) \in Nat
  BY OccurringType
<1>2. QED
  BY <1>1 DEF Balance

LEMMA BalanceNone ==
  ASSUME NEW toks, NEW up, NEW down, NEW i \in Int, NEW j \in Int, j < i
  PROVE  Balance(toks, up, down, i, j) = 0
BY OccurringNone DEF Balance

LEMMA BalanceMore ==
  ASSUME NEW toks, NEW up, NEW down, NEW i \in Int, NEW j \in Int, i <= j + 1
  PROVE  Balance(toks, up, down, i, j + 1)
           = Balance(toks, up, down, i, j) + (IF toks[j + 1].t \in up THEN 1 ELSE 0)
               - (IF toks[j + 1].t \in down THEN 1 ELSE 0)
<1>1. PICK u \in Nat, d \in Nat :
        u = Occurring(toks, up, i, j) /\ d = Occurring(toks, down, i, j)
  BY OccurringType
<1>2. /\ Occurring(toks, up, i, j + 1) = u + (IF toks[j + 1].t \in up THEN 1 ELSE 0)
      /\ Occurring(toks, down, i, j + 1) = d + (IF toks[j + 1].t \in down THEN 1 ELSE 0)
  BY <1>1, OccurringMore
<1>3. QED
  BY <1>1, <1>2 DEF Balance

LEMMA BalanceOpened ==
  ASSUME NEW toks, NEW up, NEW down, NEW i \in Int, NEW j \in Int, i <= j + 1,
         toks[j + 1].t \in up, toks[j + 1].t \notin down
  PROVE  Balance(toks, up, down, i, j + 1) = Balance(toks, up, down, i, j) + 1
<1>1. PICK b \in Int : b = Balance(toks, up, down, i, j)
  BY BalanceType
<1>2. Balance(toks, up, down, i, j + 1)
        = b + (IF toks[j + 1].t \in up THEN 1 ELSE 0) - (IF toks[j + 1].t \in down THEN 1 ELSE 0)
  BY <1>1, BalanceMore
<1>3. QED
  BY <1>1, <1>2

LEMMA BalanceSplit ==
  ASSUME NEW toks, NEW up, NEW down, NEW i \in Int, NEW j \in Int, NEW l \in Int,
         i <= l + 1, l <= j
  PROVE  Balance(toks, up, down, i, j)
           = Balance(toks, up, down, i, l) + Balance(toks, up, down, l + 1, j)
<1>1. PICK u \in Nat, d \in Nat, u2 \in Nat, d2 \in Nat :
        /\ u = Occurring(toks, up, i, l) /\ d = Occurring(toks, down, i, l)
        /\ u2 = Occurring(toks, up, l + 1, j) /\ d2 = Occurring(toks, down, l + 1, j)
  <2>1. l + 1 \in Int
    OBVIOUS
  <2>2. /\ Occurring(toks, up, i, l) \in Nat /\ Occurring(toks, down, i, l) \in Nat
        /\ Occurring(toks, up, l + 1, j) \in Nat /\ Occurring(toks, down, l + 1, j) \in Nat
    BY <2>1, OccurringType
  <2>3. QED
    BY <2>2
<1>2. Occurring(toks, up, i, j) = u + u2 /\ Occurring(toks, down, i, j) = d + d2
  BY <1>1, OccurringSplit
<1>3. QED
  BY <1>1, <1>2 DEF Balance

LEMMA BalanceShift ==
  ASSUME NEW a, NEW b, NEW up, NEW down, NEW i \in Int, NEW j \in Int, NEW d \in Int,
         \A k \in i .. j : b[d + k].t = a[k].t
  PROVE  Balance(b, up, down, d + i, d + j) = Balance(a, up, down, i, j)
BY OccurringShift DEF Balance

LEMMA BalanceSame ==
  ASSUME NEW a, NEW b, NEW up, NEW down, NEW i \in Int, NEW j \in Int,
         \A k \in i .. j : b[k].t = a[k].t
  PROVE  Balance(b, up, down, i, j) = Balance(a, up, down, i, j)
<1>1. PICK d \in Int : d = 0
  OBVIOUS
<1>2. d + i = i /\ d + j = j /\ \A k \in i .. j : d + k = k
  BY <1>1
<1>3. \A k \in i .. j : b[d + k].t = a[k].t
  BY <1>2
<1>4. Balance(b, up, down, d + i, d + j) = Balance(a, up, down, i, j)
  BY <1>3, BalanceShift
<1>5. QED
  BY <1>2, <1>4

LEMMA ConcatFacts ==
  ASSUME NEW S, NEW a \in Seq(S), NEW b \in Seq(S)
  PROVE  /\ Len(a) \in Nat /\ Len(b) \in Nat
         /\ a \o b \in Seq(S) /\ Len(a \o b) = Len(a) + Len(b)
         /\ \A i \in 1 .. Len(a) : (a \o b)[i] = a[i]
         /\ \A i \in 1 .. Len(b) : (a \o b)[Len(a) + i] = b[i]
OBVIOUS

(* Tokens that nest, with strings and interpolations still open.           *)
Nest(toks, strings, interps) ==
  /\ InString(toks, Len(toks)) = strings /\ InInterp(toks, Len(toks)) = interps
  /\ \A i \in 1 .. Len(toks) : InPlace(toks, i) /\ InInterp(toks, i) >= 0
  /\ \A i, j \in 1 .. Len(toks) : Matches(toks, i, j) => Net(toks, i, j) = 0
NetOf(toks) == Net(toks, 1, Len(toks))

LEMMA NestNone == Nest(<<>>, 0, 0) /\ NetOf(<<>>) = 0
<1>1. Len(<<>>) = 0
  OBVIOUS
<1>2. QED
  BY <1>1, BalanceNone DEF Nest, NetOf, Net, InString, InInterp

(* Tokens behind others that leave every interpolation they open filled.   *)
LEMMA NestConcat ==
  ASSUME NEW a \in Seq(TokenSet), NEW b \in Seq(TokenSet), NEW s \in Nat,
         NEW s2 \in Int, NEW k2 \in Int, Nest(a, s, s), Nest(b, s2, k2)
  PROVE  Nest(a \o b, s + s2, s + k2) /\ NetOf(a \o b) = NetOf(a) + NetOf(b)
<1>0. PICK m \in Nat, n \in Nat : m = Len(a) /\ n = Len(b)
  BY ConcatFacts
<1>1. PICK c :
        /\ m = Len(a) /\ n = Len(b) /\ c = a \o b
        /\ c \in Seq(TokenSet) /\ Len(c) = m + n
        /\ \A i \in 1 .. m : c[i] = a[i]
        /\ \A i \in 1 .. n : c[m + i] = b[i]
  <2>1. /\ a \o b \in Seq(TokenSet) /\ Len(a \o b) = m + n
        /\ \A i \in 1 .. m : (a \o b)[i] = a[i]
        /\ \A i \in 1 .. n : (a \o b)[m + i] = b[i]
    BY <1>0, ConcatFacts
  <2>2. QED
    BY <1>0, <2>1
<1>2. ASSUME NEW up, NEW down, NEW i \in 1 .. m + n + 1, NEW j \in 0 .. m
      PROVE  Balance(c, up, down, i, j) = Balance(a, up, down, i, j)
  <2>1. \A k \in i .. j : c[k].t = a[k].t
    BY <1>1
  <2>2. QED
    BY <2>1, BalanceSame
<1>3. ASSUME NEW up, NEW down, NEW i \in 1 .. n + 1, NEW j \in 0 .. n
      PROVE  Balance(c, up, down, m + i, m + j) = Balance(b, up, down, i, j)
  <2>1. \A k \in i .. j : c[m + k].t = b[k].t
    BY <1>1
  <2>2. QED
    BY <2>1, BalanceShift
<1>4. ASSUME NEW up, NEW down, NEW i \in 1 .. m + 1, NEW j \in 0 .. n
      PROVE  Balance(c, up, down, i, m + j)
               = Balance(a, up, down, i, m) + Balance(b, up, down, 1, j)
  <2>1. Balance(c, up, down, i, m + j)
          = Balance(c, up, down, i, m) + Balance(c, up, down, m + 1, m + j)
    BY BalanceSplit
  <2>2. Balance(c, up, down, i, m) = Balance(a, up, down, i, m)
    BY <1>2
  <2>3. Balance(c, up, down, m + 1, m + j) = Balance(b, up, down, 1, j)
    BY <1>3
  <2>4. QED
    BY <2>1, <2>2, <2>3
<1>5. /\ \A i \in 0 .. m : InString(c, i) = InString(a, i) /\ InInterp(c, i) = InInterp(a, i)
      /\ \A i \in 0 .. n : InString(c, m + i) = s + InString(b, i)
                           /\ InInterp(c, m + i) = s + InInterp(b, i)
  <2>1. InString(a, m) = s /\ InInterp(a, m) = s
    BY <1>1 DEF Nest
  <2>2. ASSUME NEW i \in 0 .. m
        PROVE  InString(c, i) = InString(a, i) /\ InInterp(c, i) = InInterp(a, i)
    BY <1>2 DEF InString, InInterp
  <2>3. ASSUME NEW i \in 0 .. n
        PROVE  /\ InString(c, m + i) = s + InString(b, i)
               /\ InInterp(c, m + i) = s + InInterp(b, i)
    BY <1>4, <2>1 DEF InString, InInterp
  <2>4. QED
    BY <2>2, <2>3
<1>6. /\ \A i \in 0 .. m : InString(a, i) \in Int /\ InInterp(a, i) \in Int
      /\ \A i \in 0 .. n : InString(b, i) \in Int /\ InInterp(b, i) \in Int
  BY BalanceType DEF InString, InInterp
<1>7. \A i \in 1 .. m + n : i \in 1 .. m \/ (i - m \in 1 .. n /\ i = m + (i - m) /\ i > m)
  OBVIOUS
<1>8. ASSUME NEW i \in 1 .. m + n PROVE InPlace(c, i) /\ InInterp(c, i) >= 0
  <2>1. CASE i \in 1 .. m
    <3>1. InPlace(a, i) /\ InInterp(a, i) >= 0
      BY <1>1, <2>1 DEF Nest
    <3>2. QED
      BY <1>1, <1>5, <2>1, <3>1 DEF InPlace
  <2>2. CASE i > m
    <3>1. PICK l \in 1 .. n : i = m + l
      BY <1>7, <2>2
    <3>2. InPlace(b, l) /\ InInterp(b, l) >= 0
      BY <1>1, <3>1 DEF Nest
    <3>3. InString(b, l) \in Int /\ InInterp(b, l) \in Int /\ c[i] = b[l]
      BY <1>1, <1>6, <3>1, SMTT(30)
    <3>4. InString(c, i) = s + InString(b, l) /\ InInterp(c, i) = s + InInterp(b, l)
      BY <1>5, <3>1
    <3>5. InString(c, i) - InInterp(c, i) = InString(b, l) - InInterp(b, l)
      BY <3>3, <3>4
    <3>6. QED
      BY <3>2, <3>3, <3>4, <3>5 DEF InPlace
  <2>3. QED
    BY <1>7, <2>1, <2>2
<1>9. ASSUME NEW i \in 1 .. m + n, NEW j \in 1 .. m + n, Matches(c, i, j)
      PROVE  Net(c, i, j) = 0
  <2>1. /\ i < j /\ c[i].t = "InterpOpen" /\ c[j].t = "InterpClose"
        /\ InInterp(c, i) = InInterp(c, j) + 1
        /\ \A k \in i .. j - 1 : InInterp(c, k) >= InInterp(c, i)
    BY <1>9 DEF Matches
  <2>2. CASE j \in 1 .. m
    <3>1. i \in 1 .. m /\ \A k \in i .. j - 1 : k \in 1 .. m
      BY <2>1, <2>2
    <3>2. Matches(a, i, j)
      BY <1>1, <1>5, <2>1, <2>2, <3>1 DEF Matches
    <3>3. Net(a, i, j) = 0
      BY <1>1, <2>2, <3>1, <3>2 DEF Nest
    <3>4. QED
      BY <1>2, <2>2, <3>1, <3>3 DEF Net
  <2>3. CASE i \in 1 .. m /\ j > m
    <3>1. PICK l \in 1 .. n : j = m + l
      BY <1>7, <2>3
    <3>2. InInterp(b, l) \in Int /\ InInterp(b, l) >= 0
      BY <1>1, <1>6, <3>1 DEF Nest
    <3>3. InInterp(c, i) >= s + 1
      BY <1>5, <2>1, <3>1, <3>2
    <3>4. m \in i .. j - 1 /\ m \in 0 .. m
      BY <2>3
    <3>5. InInterp(c, m) = s
      BY <1>1, <1>5, <3>4 DEF Nest
    <3>6. InInterp(c, m) >= InInterp(c, i)
      BY <2>1, <3>4
    <3>7. InInterp(c, i) \in Int
      BY BalanceType DEF InInterp
    <3>8. QED
      BY <3>3, <3>5, <3>6, <3>7
  <2>4. CASE i > m
    <3>1. PICK h \in 1 .. n, l \in 1 .. n : i = m + h /\ j = m + l /\ h < l
      <4>1. i - m \in 1 .. n /\ j - m \in 1 .. n /\ i = m + (i - m) /\ j = m + (j - m) /\ i - m < j - m
        BY <2>1, <2>4
      <4>2. QED
        BY <4>1
    <3>2. \A k \in h .. l - 1 : InInterp(b, k) >= InInterp(b, h)
      <4> SUFFICES ASSUME NEW k \in h .. l - 1 PROVE InInterp(b, k) >= InInterp(b, h)
        OBVIOUS
      <4>1. m + k \in i .. j - 1 /\ k \in 0 .. n /\ h \in 0 .. n
        BY <3>1
      <4>2. InInterp(c, m + k) >= InInterp(c, m + h)
        BY <2>1, <3>1, <4>1
      <4>3. /\ InInterp(c, m + k) = s + InInterp(b, k) /\ InInterp(c, m + h) = s + InInterp(b, h)
            /\ InInterp(b, k) \in Int /\ InInterp(b, h) \in Int
        BY <1>5, <1>6, <4>1
      <4>4. QED
        BY <4>2, <4>3
    <3>3. InInterp(b, h) = InInterp(b, l) + 1
      <4>1. /\ InInterp(c, i) = s + InInterp(b, h) /\ InInterp(c, j) = s + InInterp(b, l)
            /\ InInterp(b, l) \in Int /\ InInterp(b, h) \in Int
        BY <1>5, <1>6, <3>1
      <4>2. QED
        BY <2>1, <4>1
    <3>4. Matches(b, h, l)
      BY <1>1, <2>1, <3>1, <3>2, <3>3 DEF Matches
    <3>5. Net(b, h, l) = 0
      BY <1>1, <3>1, <3>4 DEF Nest
    <3>6. QED
      BY <1>3, <3>1, <3>5 DEF Net
  <2>5. QED
    BY <2>2, <2>3, <2>4
<1>10. InString(c, m + n) = s + s2 /\ InInterp(c, m + n) = s + k2
  <2>1. InString(b, n) = s2 /\ InInterp(b, n) = k2 /\ n \in 0 .. n
    BY <1>1 DEF Nest
  <2>2. QED
    BY <1>5, <2>1
<1>11. Net(c, 1, m + n) = Net(a, 1, m) + Net(b, 1, n)
  BY <1>4 DEF Net
<1>12. QED
  BY <1>1, <1>8, <1>9, <1>10, <1>11 DEF Nest, NetOf


(* One more token, and what it changes.                                    *)
Step(token, up, down) == (IF token.t \in up THEN 1 ELSE 0) - (IF token.t \in down THEN 1 ELSE 0)

LEMMA StepFacts ==
  ASSUME NEW token
  PROVE  /\ Step(token, {"StrBegin"}, {"StrEnd"}) =
              IF token.t = "StrBegin" THEN 1 ELSE IF token.t = "StrEnd" THEN -1 ELSE 0
         /\ Step(token, {"InterpOpen"}, {"InterpClose"}) =
              IF token.t = "InterpOpen" THEN 1 ELSE IF token.t = "InterpClose" THEN -1 ELSE 0
         /\ Step(token, Opening, Closing) =
              IF token.t \in Opening THEN 1 ELSE IF token.t \in Closing THEN -1 ELSE 0
<1>1. Opening \cap Closing = {}
  BY DEF Opening, Closing
<1>2. QED
  BY <1>1 DEF Step

More(c, a, token, n) ==
  /\ a \in Seq(TokenSet) /\ token \in TokenSet /\ n = Len(a)
  /\ c \in Seq(TokenSet) /\ Len(c) = n + 1 /\ c[n + 1] = token
  /\ \A i \in 1 .. n : c[i] = a[i]

LEMMA AppendMore ==
  ASSUME NEW a \in Seq(TokenSet), NEW token \in TokenSet
  PROVE  More(Append(a, token), a, token, Len(a)) /\ Len(a) \in Nat
BY AppendProperties DEF More

LEMMA StepOfString ==
  ASSUME NEW token, token.t \in OfStrings
  PROVE  Step(token, Opening, Closing) = 0
<1>1. token.t \notin Opening /\ token.t \notin Closing
  BY DEF OfStrings, Opening, Closing
<1>2. QED
  BY <1>1, StepFacts

LEMMA BalanceBefore ==
  ASSUME NEW c, NEW a, NEW token, NEW n \in Nat, More(c, a, token, n), NEW up, NEW down,
         NEW i \in 1 .. n + 1, NEW j \in 0 .. n
  PROVE  Balance(c, up, down, i, j) = Balance(a, up, down, i, j)
<1>1. \A k \in i .. j : c[k].t = a[k].t
  BY DEF More
<1>2. QED
  BY <1>1, BalanceSame

LEMMA BalanceLast ==
  ASSUME NEW c, NEW a, NEW token, NEW n \in Nat, More(c, a, token, n), NEW up, NEW down,
         NEW i \in 1 .. n + 1
  PROVE  Balance(c, up, down, i, n + 1) = Balance(a, up, down, i, n) + Step(token, up, down)
<1>1. PICK b \in Int : b = Balance(c, up, down, i, n)
  BY BalanceType
<1>2. Balance(c, up, down, i, n + 1)
        = b + (IF c[n + 1].t \in up THEN 1 ELSE 0) - (IF c[n + 1].t \in down THEN 1 ELSE 0)
  BY <1>1, BalanceMore
<1>3. b = Balance(a, up, down, i, n)
  BY <1>1, BalanceBefore
<1>4. QED
  BY <1>2, <1>3 DEF Step, More

LEMMA NestAppend ==
  ASSUME NEW c, NEW a, NEW token, NEW n \in Nat, More(c, a, token, n),
         NEW s \in Nat, NEW k \in Nat, Nest(a, s, k),
         NEW s2 \in Nat, s2 = s + Step(token, {"StrBegin"}, {"StrEnd"}),
         NEW k2 \in Nat, k2 = k + Step(token, {"InterpOpen"}, {"InterpClose"}),
         s2 - k2 = IF token.t \in {"StrBegin", "StrLit", "InterpClose"} THEN 1 ELSE 0,
         \A i \in 1 .. n : Matches(c, i, n + 1) => Net(c, i, n + 1) = 0
  PROVE  /\ Nest(c, s2, k2)
         /\ NetOf(c) = NetOf(a) + Step(token, Opening, Closing)
<1>0. ASSUME NEW up, NEW down
      PROVE  Balance(c, up, down, 1, n + 1) = Balance(a, up, down, 1, n) + Step(token, up, down)
  <2>1. 1 \in 1 .. n + 1
    OBVIOUS
  <2>2. QED
    BY <2>1, BalanceLast
<1>1. /\ c \in Seq(TokenSet) /\ Len(c) = n + 1 /\ c[n + 1] = token
      /\ \A i \in 1 .. n : c[i] = a[i]
      /\ a \in Seq(TokenSet) /\ token \in TokenSet /\ n = Len(a)
  BY DEF More
<1>2. /\ \A i \in 0 .. n : InString(c, i) = InString(a, i) /\ InInterp(c, i) = InInterp(a, i)
      /\ \A i \in 1 .. n, j \in 1 .. n : Net(c, i, j) = Net(a, i, j)
  <2>1. 1 \in 1 .. n + 1 /\ \A i \in 1 .. n : i \in 1 .. n + 1 /\ i \in 0 .. n
    OBVIOUS
  <2>2. QED
    BY <2>1, BalanceBefore DEF InString, InInterp, Net
<1>3. InString(c, n + 1) = s2 /\ InInterp(c, n + 1) = k2
  <2>1. InString(a, n) = s /\ InInterp(a, n) = k
    BY <1>1 DEF Nest
  <2>2. /\ InString(c, n + 1) = InString(a, n) + Step(token, {"StrBegin"}, {"StrEnd"})
        /\ InInterp(c, n + 1) = InInterp(a, n) + Step(token, {"InterpOpen"}, {"InterpClose"})
    BY <1>0 DEF InString, InInterp
  <2>3. QED
    BY <2>1, <2>2
<1>4. NetOf(c) = NetOf(a) + Step(token, Opening, Closing)
  BY <1>0, <1>1 DEF NetOf, Net
<1>5. \A i \in 1 .. n + 1 : i \in 1 .. n \/ i = n + 1
  OBVIOUS
<1>6. ASSUME NEW i \in 1 .. n + 1 PROVE InPlace(c, i) /\ InInterp(c, i) >= 0
  <2>1. CASE i \in 1 .. n
    <3>1. InPlace(a, i) /\ InInterp(a, i) >= 0
      BY <1>1, <2>1 DEF Nest
    <3>2. QED
      BY <1>1, <1>2, <2>1, <3>1 DEF InPlace
  <2>2. CASE i = n + 1
    BY <1>1, <1>3, <2>2 DEF InPlace
  <2>3. QED
    BY <1>5, <2>1, <2>2
<1>7. ASSUME NEW i \in 1 .. n + 1, NEW j \in 1 .. n + 1, Matches(c, i, j)
      PROVE  Net(c, i, j) = 0
  <2>1. i < j
    BY <1>7 DEF Matches
  <2>2. CASE j \in 1 .. n
    <3>1. i \in 1 .. n /\ \A l \in i .. j - 1 : l \in 0 .. n
      BY <2>1, <2>2
    <3>2. Matches(a, i, j)
      BY <1>1, <1>2, <1>7, <2>2, <3>1 DEF Matches
    <3>3. Net(a, i, j) = 0
      BY <1>1, <2>2, <3>1, <3>2 DEF Nest
    <3>4. QED
      BY <1>2, <2>2, <3>1, <3>3
  <2>3. CASE j = n + 1
    BY <1>7, <2>1, <2>3
  <2>4. QED
    BY <1>5, <2>2, <2>3
<1>8. QED
  BY <1>1, <1>3, <1>4, <1>6, <1>7 DEF Nest

(* A token that ends no interpolation.                                     *)
LEMMA NestOther ==
  ASSUME NEW a \in Seq(TokenSet), NEW token \in TokenSet, token.t # "InterpClose",
         NEW s \in Nat, NEW k \in Nat, Nest(a, s, k),
         NEW s2 \in Nat, s2 = s + Step(token, {"StrBegin"}, {"StrEnd"}),
         NEW k2 \in Nat, k2 = k + Step(token, {"InterpOpen"}, {"InterpClose"}),
         s2 - k2 = IF token.t \in {"StrBegin", "StrLit", "InterpClose"} THEN 1 ELSE 0
  PROVE  /\ Nest(Append(a, token), s2, k2)
         /\ NetOf(Append(a, token)) = NetOf(a) + Step(token, Opening, Closing)
<1>1. PICK n \in Nat : n = Len(a) /\ More(Append(a, token), a, token, n)
  BY AppendMore
<1>2. PICK c : c = Append(a, token)
  OBVIOUS
<1>3. \A i \in 1 .. n : ~ Matches(c, i, n + 1)
  BY <1>1, <1>2 DEF Matches, More
<1>4. More(c, a, token, n) /\ \A i \in 1 .. n : Matches(c, i, n + 1) => Net(c, i, n + 1) = 0
  BY <1>1, <1>2, <1>3
<1>5. Nest(c, s2, k2) /\ NetOf(c) = NetOf(a) + Step(token, Opening, Closing)
  BY <1>4, NestAppend
<1>6. QED
  BY <1>2, <1>5

(* A string that waits for an interpolation's tokens.                      *)
Awaits(w) ==
  /\ Nest(w, 1, 1) /\ NetOf(w) = 0
  /\ Len(w) > 0 /\ InInterp(w, Len(w) - 1) = 0

(* They come, with the brace behind them: it is the one that ends the      *)
(* interpolation, and no other it opened.                                  *)
LEMMA NestInterp ==
  ASSUME NEW w \in Seq(TokenSet), Awaits(w), NEW a \in Seq(TokenSet), Nest(a, 0, 0), NetOf(a) = 0,
         NEW close \in TokenSet, close.t = "InterpClose"
  PROVE  /\ Nest(w \o Append(a, close), 1, 0) /\ NetOf(w \o Append(a, close)) = 0
<1>0. PICK m \in Nat, l \in Nat : m = Len(w) /\ l = Len(a)
  OBVIOUS
<1>1. PICK b :
        /\ b = w \o a /\ b \in Seq(TokenSet) /\ Len(b) = m + l
        /\ \A i \in 1 .. m : b[i] = w[i]
        /\ \A i \in 1 .. l : b[m + i] = a[i]
  <2>1. /\ w \o a \in Seq(TokenSet) /\ Len(w \o a) = m + l
        /\ \A i \in 1 .. m : (w \o a)[i] = w[i]
        /\ \A i \in 1 .. l : (w \o a)[m + i] = a[i]
    BY <1>0, ConcatFacts
  <2>2. QED
    BY <2>1
<1>2. Nest(b, 1, 1) /\ NetOf(b) = 0
  <2>1. Nest(w \o a, 1 + 0, 1 + 0) /\ NetOf(w \o a) = NetOf(w) + NetOf(a)
    <3>1. 1 \in Nat /\ 0 \in Int /\ Nest(w, 1, 1)
      BY DEF Awaits
    <3>2. QED
      BY <3>1, NestConcat
  <2>2. QED
    BY <1>1, <2>1 DEF Awaits
<1>3. Append(b, close) = w \o Append(a, close)
  <2>1. /\ Append(a, close) = a \o <<close>> /\ Append(b, close) = b \o <<close>>
        /\ <<close>> \in Seq(TokenSet)
    BY <1>1, AppendIsConcat
  <2>2. (w \o a) \o <<close>> = w \o (a \o <<close>>)
    BY <2>1, ConcatAssociative
  <2>3. QED
    BY <1>1, <2>1, <2>2
<1>4. PICK n \in Nat : n = m + l /\ m \in 1 .. n /\ m - 1 \in 0 .. n /\ m > 0 /\ n = Len(b)
                       /\ n \in 0 .. n /\ 1 \in 1 .. n + 1
  <2>1. m > 0
    BY <1>0 DEF Awaits
  <2>2. QED
    BY <1>1, <2>1
<1>5. PICK c : c = Append(b, close) /\ More(c, b, close, n)
  BY <1>1, <1>4, AppendMore
<1>6. c[n + 1] = close /\ \A i \in 1 .. n : c[i] = b[i]
  BY <1>5 DEF More
<1>7. /\ Step(close, Opening, Closing) = 0 /\ Step(close, {"InterpOpen"}, {"InterpClose"}) = -1
      /\ Step(close, {"StrBegin"}, {"StrEnd"}) = 0
  BY StepFacts DEF Opening, Closing
<1>8. /\ \A i \in 0 .. n : InInterp(c, i) = InInterp(b, i)
      /\ InInterp(c, n + 1) = InInterp(b, n) - 1
  <2>1. /\ \A j \in 0 .. n : InInterp(c, j) = InInterp(b, j)
        /\ InInterp(c, n + 1) = InInterp(b, n) + Step(close, {"InterpOpen"}, {"InterpClose"})
    BY <1>4, <1>5, BalanceBefore, BalanceLast DEF InInterp
  <2>2. InInterp(b, n) \in Int
    BY BalanceType DEF InInterp
  <2>3. QED
    BY <1>7, <2>1, <2>2
<1>9. \A i \in 1 .. n : Net(c, i, n + 1) = Net(b, i, n)
  <2> SUFFICES ASSUME NEW i \in 1 .. n PROVE Net(c, i, n + 1) = Net(b, i, n)
    OBVIOUS
  <2>1. i \in 1 .. n + 1
    OBVIOUS
  <2>2. Net(c, i, n + 1) = Net(b, i, n) + Step(close, Opening, Closing)
    BY <1>5, <2>1, BalanceLast DEF Net
  <2>3. Net(b, i, n) \in Int
    BY BalanceType DEF Net
  <2>4. QED
    BY <1>7, <2>2, <2>3
<1>10. /\ \A i \in 0 .. m : InInterp(b, i) = InInterp(w, i)
       /\ \A i \in 0 .. l : InInterp(b, m + i) = 1 + InInterp(a, i)
  <2>1. ASSUME NEW i \in 0 .. m PROVE InInterp(b, i) = InInterp(w, i)
    <3>1. \A j \in 1 .. i : b[j].t = w[j].t
      BY <1>1
    <3>2. QED
      BY <3>1, BalanceSame DEF InInterp
  <2>2. ASSUME NEW i \in 0 .. l PROVE InInterp(b, m + i) = 1 + InInterp(a, i)
    <3>1. InInterp(b, m + i)
            = InInterp(b, m) + Balance(b, {"InterpOpen"}, {"InterpClose"}, m + 1, m + i)
      BY BalanceSplit DEF InInterp
    <3>2. \A j \in 1 .. i : b[m + j].t = a[j].t
      BY <1>1
    <3>3. Balance(b, {"InterpOpen"}, {"InterpClose"}, m + 1, m + i) = InInterp(a, i)
      <4>1. PICK one \in Int : one = 1
        OBVIOUS
      <4>2. m \in Int /\ i \in Int /\ \A j \in one .. i : b[m + j].t = a[j].t
        BY <3>2, <4>1
      <4>3. Balance(b, {"InterpOpen"}, {"InterpClose"}, m + one, m + i)
              = Balance(a, {"InterpOpen"}, {"InterpClose"}, one, i)
        BY <4>2, BalanceShift
      <4>4. QED
        BY <4>1, <4>3 DEF InInterp
    <3>4. InInterp(b, m) = 1
      <4>1. m \in 0 .. m /\ InInterp(w, m) = 1
        BY <1>0 DEF Awaits, Nest
      <4>2. QED
        BY <2>1, <4>1
    <3>5. QED
      BY <3>1, <3>3, <3>4
  <2>3. QED
    BY <2>1, <2>2
<1>11. ASSUME NEW i \in 1 .. n, Matches(c, i, n + 1) PROVE Net(c, i, n + 1) = 0
  <2>1. /\ c[i].t = "InterpOpen" /\ InInterp(c, i) = InInterp(c, n + 1) + 1
        /\ \A j \in i .. (n + 1) - 1 : InInterp(c, j) >= InInterp(c, i)
    BY <1>11 DEF Matches
  <2>2. InInterp(b, n) = 1 /\ i \in 0 .. n
    BY <1>2, <1>4 DEF Nest
  <2>3. InInterp(b, i) = 1
    BY <1>8, <2>1, <2>2
  <2>4. i >= m
    <3> SUFFICES ASSUME i < m PROVE FALSE
      OBVIOUS
    <3>1. m - 1 \in i .. (n + 1) - 1 /\ m - 1 \in 0 .. m
      BY <1>4
    <3>2. InInterp(c, m - 1) = InInterp(w, m - 1)
      BY <1>4, <1>8, <1>10, <3>1
    <3>3. InInterp(w, m - 1) = 0
      BY <1>0 DEF Awaits
    <3>4. InInterp(c, m - 1) >= 1
      BY <1>8, <2>1, <2>2, <2>3, <3>1
    <3>5. QED
      BY <3>2, <3>3, <3>4
  <2>5. CASE i = m
    <3>1. Net(b, m, n) = Net(b, 1, n) - Net(b, 1, m - 1)
      <4>1. Net(b, 1, n) = Net(b, 1, m - 1) + Net(b, (m - 1) + 1, n)
        BY <1>4, BalanceSplit DEF Net
      <4>2. (m - 1) + 1 = m
        OBVIOUS
      <4>3. Net(b, m, n) \in Int /\ Net(b, 1, m - 1) \in Int
        BY BalanceType DEF Net
      <4>4. QED
        BY <4>1, <4>2, <4>3
    <3>2. Net(b, 1, n) = 0
      BY <1>2, <1>4 DEF NetOf
    <3>3. Net(b, 1, m - 1) = 0
      <4>1. Net(w, 1, m) = 0
        BY <1>0 DEF Awaits, NetOf
      <4>2. Net(b, 1, m) = 0
        <5>1. \A j \in 1 .. m : b[j].t = w[j].t
          BY <1>1
        <5>2. QED
          BY <4>1, <5>1, BalanceSame DEF Net
      <4>3. b[m].t = "InterpOpen"
        BY <1>4, <1>6, <2>1, <2>5
      <4>4. Net(b, 1, (m - 1) + 1) = Net(b, 1, m - 1)
        <5>1. PICK o \in Int : o = Net(b, 1, m - 1)
          BY BalanceType DEF Net
        <5>2. 1 <= (m - 1) + 1 /\ (m - 1) + 1 = m
          BY <1>4
        <5>3. PICK q \in Int, one \in Int : q = m - 1 /\ q + 1 = m /\ one = 1 /\ one <= q + 1
          BY <5>2
        <5>4. Net(b, one, q + 1) = Net(b, one, q) + (IF b[q + 1].t \in Opening THEN 1 ELSE 0)
                                      - (IF b[q + 1].t \in Closing THEN 1 ELSE 0)
          BY <5>3, BalanceMore DEF Net
        <5>5. b[q + 1].t \notin Opening /\ b[q + 1].t \notin Closing
          BY <4>3, <5>3 DEF Opening, Closing
        <5>6. Net(b, one, q) = o /\ Net(b, one, q + 1) = Net(b, 1, (m - 1) + 1)
          BY <5>1, <5>2, <5>3
        <5>7. QED
          BY <5>1, <5>4, <5>5, <5>6
      <4>5. QED
        BY <4>2, <4>4
    <3>4. QED
      BY <1>9, <2>5, <3>1, <3>2, <3>3
  <2>6. CASE i > m
    <3>1. PICK j \in 1 .. l : i = m + j
      <4>1. i - m \in 1 .. l /\ i = m + (i - m)
        BY <1>4, <2>6
      <4>2. QED
        BY <4>1
    <3>2. a[j].t = "InterpOpen"
      BY <1>1, <1>6, <2>1, <3>1
    <3>3. InInterp(a, j) >= 1
      <4>1. InInterp(a, j - 1) \in Int /\ InInterp(a, j - 1) >= 0
        <5>1. CASE j = 1
          <6>1. InInterp(a, 0) = 0
            BY BalanceNone DEF InInterp
          <6>2. QED
            BY <5>1, <6>1
        <5>2. CASE j > 1
          <6>1. j - 1 \in 1 .. Len(a)
            BY <1>0, <5>2
          <6>2. InInterp(a, j - 1) >= 0
            BY <6>1 DEF Nest
          <6>3. QED
            BY <6>2, BalanceType DEF InInterp
        <5>3. QED
          BY <5>1, <5>2
      <4>2. PICK o \in Int : o = InInterp(a, j - 1) /\ o >= 0
        BY <4>1
      <4>3. PICK q \in Int, one \in Int : q = j - 1 /\ q + 1 = j /\ one = 1 /\ one <= q + 1
        OBVIOUS
      <4> DEFINE up   == {"InterpOpen"}
                 down == {"InterpClose"}
      <4>4. a[q + 1].t \in up /\ a[q + 1].t \notin down
        BY <3>2, <4>3
      <4> HIDE DEF up, down
      <4>5. Balance(a, up, down, one, q + 1) = Balance(a, up, down, one, q) + 1
        BY <4>3, <4>4, BalanceOpened
      <4>6. InInterp(a, j) = o + 1
        BY <4>2, <4>3, <4>5 DEF InInterp, up, down
      <4>7. QED
        BY <4>2, <4>6
    <3>4. InInterp(b, i) = 1 + InInterp(a, j) /\ InInterp(a, j) \in Int
      BY <1>10, <3>1, BalanceType DEF InInterp
    <3>5. QED
      BY <2>3, <3>3, <3>4
  <2>7. QED
    BY <1>4, <2>4, <2>5, <2>6
<1>12. Nest(c, 1, 0) /\ NetOf(c) = NetOf(b) + Step(close, Opening, Closing)
  <2>1. 1 = 1 + Step(close, {"StrBegin"}, {"StrEnd"}) /\ 0 = 1 + Step(close, {"InterpOpen"}, {"InterpClose"})
    BY <1>7
  <2>2. 1 - 0 = IF close.t \in {"StrBegin", "StrLit", "InterpClose"} THEN 1 ELSE 0
    OBVIOUS
  <2>3. 1 \in Nat /\ 0 \in Nat
    OBVIOUS
  <2>4. QED
    BY <1>2, <1>5, <1>11, <2>1, <2>2, <2>3, NestAppend
<1>13. QED
  BY <1>2, <1>3, <1>5, <1>7, <1>12

-----------------------------------------------------------------------------
(* The activations take turns, lex_top at the bottom.                      *)
Alternate(ks) == \A i \in 1 .. Len(ks) - 1 : ks[i].fn # ks[i + 1].fn
ShapeInv ==
  /\ tokens \in Seq(TokenSet) /\ errors \in Seq(Int \X Int)
  /\ stack \in Seq(Tops \cup Strings)
  /\ Alternate(stack)
  /\ stage \in {"lex", "parse", "refused", "panicked"}
  /\ stage = "lex" => stack # <<>> /\ stack[1] \in Tops /\ ~ stack[1].inside

(* Where the tokens of activation i start, a lex_top; and the tokens of    *)
(* the lex_top below activation i, a lex_string.                           *)
Bottom(ks, i) == IF i = 1 THEN 1 ELSE EndOf(ks[i - 1].buf, ks[i - 1].start + 1)
Below(ks, toks, i) == IF i = Len(ks) THEN toks ELSE ks[i].saved

(* What a lex_top has found so far, and a lex_string.                      *)
Nests(toks, depth) == Nest(toks, 0, 0) /\ NetOf(toks) = depth
Written(s) == <<Mark("StrBegin", s.start, s.start + 1)>> \o s.buf

(* While there is no error, what the activations have found, one behind    *)
(* the other, covers the text up to p and nests; except that a string the  *)
(* text ends in is given up with its fragments.                            *)
StringCovered(ks, toks, p, i) ==
  /\ Cover(Below(ks, toks, i), Bottom(ks, i - 1), ks[i].start)
  /\ Nests(Below(ks, toks, i), ks[i - 1].depth)
  /\ i < Len(ks) =>
       Chained(ks[i].buf, ks[i].start + 1) /\ ks[i].lit = <<>> /\ Awaits(Written(ks[i]))
  /\ i = Len(ks) /\ p < End =>
       /\ Nest(Written(ks[i]), 1, 0) /\ NetOf(Written(ks[i])) = 0
       /\ Chained(ks[i].buf, ks[i].start + 1)
       /\ ks[i].litStart = EndOf(ks[i].buf, ks[i].start + 1)
       /\ ks[i].litStart + Len(ks[i].lit) <= p
Covered(ks, toks, p) ==
  /\ \A i \in 1 .. Len(ks) : ks[i].fn = "lex_string" => StringCovered(ks, toks, p, i)
  /\ ks[Len(ks)].fn = "lex_top" =>
       Cover(toks, Bottom(ks, Len(ks)), p) /\ Nests(toks, ks[Len(ks)].depth)
CoverInv ==
  /\ CutInv /\ ShapeInv
  /\ stage = "lex" /\ errors = <<>> => Covered(stack, tokens, pos)
  /\ stage = "parse" => Cover(tokens, 1, End) /\ Nest(tokens, 0, 0)

LEMMA CoveredSame ==
  ASSUME text' = text
  PROVE  /\ Covered(stack, tokens, pos)' <=> Covered(stack', tokens', pos')
         /\ Cover(tokens, 1, End)' <=> Cover(tokens', 1, End)
         /\ Nest(tokens, 0, 0)' <=> Nest(tokens', 0, 0)
BY DEF Covered, StringCovered, Below, Bottom, Cover, Chained, Follows, EndOf, Last,
       IsLayout, IsGap, At, End, Blank

LEMMA InitCoverInv == LexInit => CoverInv
<1> SUFFICES ASSUME LexInit PROVE CoverInv
  OBVIOUS
<1>1. stack = <<LexTop(FALSE, 0)>> /\ LexTop(FALSE, 0) \in Tops /\ LexTop(FALSE, 0).fn = "lex_top"
  BY DEF LexInit, LexTop, Tops
<1>2. ShapeInv
  BY <1>1 DEF ShapeInv, LexInit, LexTop, Alternate
<1>3. Cover(<<>>, 1, 1)
  BY LayoutNone, ChainedNone DEF Cover
<1>4. Covered(stack, tokens, pos)
  BY <1>1, <1>3, NestNone DEF Covered, Bottom, LexInit, LexTop, Nests
<1>5. QED
  BY <1>2, <1>4, InitCutInv DEF CoverInv, LexInit

LEMMA WrittenFacts ==
  ASSUME NEW s \in Strings
  PROVE  /\ Mark("StrBegin", s.start, s.start + 1) \in TokenSet
         /\ Mark("StrBegin", s.start, s.start + 1).t = "StrBegin"
         /\ Written(s) \in Seq(TokenSet)
<1>1. s.start \in Nat /\ s.start + 1 \in Nat /\ s.buf \in Seq(TokenSet)
  BY DEF Strings
<1>2. /\ Mark("StrBegin", s.start, s.start + 1) \in TokenSet
      /\ Mark("StrBegin", s.start, s.start + 1).t = "StrBegin"
  BY <1>1 DEF Mark, Token, TokenSet, OfStrings
<1>3. PICK begin \in TokenSet : begin = Mark("StrBegin", s.start, s.start + 1)
  BY <1>2
<1>4. <<begin>> \o s.buf \in Seq(TokenSet)
  BY <1>1
<1>5. QED
  BY <1>2, <1>3, <1>4 DEF Written

LEMMA ConcatTwo ==
  ASSUME NEW S, NEW a \in Seq(S), NEW x \in S, NEW y \in S
  PROVE  /\ <<x, y>> \in Seq(S)
         /\ Append(Append(a, x), y) = a \o <<x, y>>
<1>1. PICK c \in Seq(S) : c = Append(Append(a, x), y)
  <2>1. Append(a, x) \in Seq(S)
    BY AppendProperties
  <2>2. QED
    BY <2>1, AppendProperties
<1>2. PICK d \in Seq(S) : d = <<x, y>> /\ Len(d) = 2 /\ d[1] = x /\ d[2] = y
  <2>1. <<x, y>> \in Seq(S) /\ Len(<<x, y>>) = 2 /\ <<x, y>>[1] = x /\ <<x, y>>[2] = y
    OBVIOUS
  <2>2. QED
    BY <2>1
<1>3. PICK n \in Nat : n = Len(a)
  OBVIOUS
<1>4. /\ Len(c) = n + 2 /\ c[n + 1] = x /\ c[n + 2] = y
      /\ \A i \in 1 .. n : c[i] = a[i]
  <2>1. PICK b \in Seq(S) : /\ b = Append(a, x) /\ Len(b) = n + 1 /\ b[n + 1] = x
                            /\ \A i \in 1 .. n : b[i] = a[i]
    <3>1. /\ Append(a, x) \in Seq(S) /\ Len(Append(a, x)) = n + 1 /\ Append(a, x)[n + 1] = x
          /\ \A i \in 1 .. n : Append(a, x)[i] = a[i]
      BY <1>3, AppendProperties
    <3>2. QED
      BY <3>1
  <2>2. /\ Len(c) = Len(b) + 1 /\ c[Len(b) + 1] = y
        /\ \A i \in 1 .. Len(b) : c[i] = b[i]
    BY <1>1, <2>1, AppendProperties
  <2>3. n + 1 \in 1 .. Len(b) /\ \A i \in 1 .. n : i \in 1 .. Len(b)
    BY <2>1
  <2>4. QED
    BY <2>1, <2>2, <2>3
<1>5. /\ a \o d \in Seq(S) /\ Len(a \o d) = n + 2
      /\ \A i \in 1 .. n + 2 : (a \o d)[i] = IF i <= n THEN a[i] ELSE d[i - n]
  BY <1>2, <1>3, ConcatProperties
<1>6. ASSUME NEW i \in 1 .. n + 2 PROVE c[i] = (a \o d)[i]
  <2>1. i \in 1 .. n \/ i = n + 1 \/ i = n + 2
    OBVIOUS
  <2>2. QED
    BY <1>2, <1>4, <1>5, <2>1
<1>7. c = a \o d
  BY <1>4, <1>5, <1>6, SeqEqual
<1>8. QED
  BY <1>1, <1>2, <1>7

LEMMA TokensAssociative ==
  ASSUME NEW a \in Seq(TokenSet), NEW b \in Seq(TokenSet), NEW c \in Seq(TokenSet)
  PROVE  (a \o b) \o c = a \o (b \o c)
BY ConcatAssociative

LEMMA WrittenMore ==
  ASSUME NEW r \in Strings, NEW s \in Strings, NEW more \in Seq(TokenSet),
         s.start = r.start, s.buf = r.buf \o more
  PROVE  Written(s) = Written(r) \o more
<1>1. PICK begin \in TokenSet, buf \in Seq(TokenSet) :
        begin = Mark("StrBegin", r.start, r.start + 1) /\ buf = r.buf
  BY WrittenFacts DEF Strings
<1>2. PICK o : o = <<begin>> /\ o \in Seq(TokenSet)
  <2>1. <<begin>> \in Seq(TokenSet)
    BY <1>1
  <2>2. QED
    BY <2>1
<1>3. (o \o buf) \o more = o \o (buf \o more)
  BY <1>1, <1>2, TokensAssociative
<1>4. QED
  BY <1>1, <1>2, <1>3 DEF Written

(* A fragment behind it, with the end of the string or the start of        *)
(* another interpolation.                                                  *)
LEMMA NestFragment ==
  ASSUME NEW w \in Seq(TokenSet), Nest(w, 1, 0), NetOf(w) = 0,
         NEW frag \in TokenSet, frag.t = "StrLit",
         NEW last \in TokenSet, last.t \in {"StrEnd", "InterpOpen"}
  PROVE  /\ last.t = "StrEnd" => Nest(w \o <<frag, last>>, 0, 0) /\ NetOf(w \o <<frag, last>>) = 0
         /\ last.t = "InterpOpen" => Awaits(w \o <<frag, last>>)
<1>1. PICK zero \in Nat, one \in Nat : zero = 0 /\ one = 1
  OBVIOUS
<1>2. PICK v \in Seq(TokenSet) : v = Append(w, frag)
  BY AppendProperties
<1>3. PICK c : c = Append(v, last)
  OBVIOUS
<1>4. c = w \o <<frag, last>>
  BY <1>2, <1>3, ConcatTwo
<1>5. Nest(v, 1, 0) /\ NetOf(v) = 0
  <2>1. /\ one = one + Step(frag, {"StrBegin"}, {"StrEnd"})
        /\ zero = zero + Step(frag, {"InterpOpen"}, {"InterpClose"})
        /\ one - zero = IF frag.t \in {"StrBegin", "StrLit", "InterpClose"} THEN 1 ELSE 0
        /\ frag.t # "InterpClose"
    BY <1>1, StepFacts
  <2>2. Nest(w, one, zero) /\ Step(frag, Opening, Closing) = 0
    BY <1>1, StepOfString DEF OfStrings
  <2>3. Nest(Append(w, frag), one, zero)
        /\ NetOf(Append(w, frag)) = NetOf(w) + Step(frag, Opening, Closing)
    BY <2>1, <2>2, NestOther
  <2>4. QED
    BY <1>1, <1>2, <2>2, <2>3
<1>6. Nest(v, one, zero) /\ Step(last, Opening, Closing) = 0
  BY <1>1, <1>5, StepOfString DEF OfStrings
<1>7. CASE last.t = "StrEnd"
  <2>1. /\ zero = one + Step(last, {"StrBegin"}, {"StrEnd"})
        /\ zero = zero + Step(last, {"InterpOpen"}, {"InterpClose"})
        /\ zero - zero = IF last.t \in {"StrBegin", "StrLit", "InterpClose"} THEN 1 ELSE 0
        /\ last.t # "InterpClose"
    BY <1>1, <1>7, StepFacts
  <2>2. Nest(Append(v, last), zero, zero)
        /\ NetOf(Append(v, last)) = NetOf(v) + Step(last, Opening, Closing)
    BY <1>6, <2>1, NestOther
  <2>3. Nest(c, 0, 0) /\ NetOf(c) = 0
    BY <1>1, <1>3, <1>5, <1>6, <2>2
  <2>4. QED
    BY <1>4, <1>7, <2>3
<1>8. CASE last.t = "InterpOpen"
  <2>1. /\ one = one + Step(last, {"StrBegin"}, {"StrEnd"})
        /\ one = zero + Step(last, {"InterpOpen"}, {"InterpClose"})
        /\ one - one = IF last.t \in {"StrBegin", "StrLit", "InterpClose"} THEN 1 ELSE 0
        /\ last.t # "InterpClose"
    BY <1>1, <1>8, StepFacts
  <2>2. Nest(Append(v, last), one, one)
        /\ NetOf(Append(v, last)) = NetOf(v) + Step(last, Opening, Closing)
    BY <1>6, <2>1, NestOther
  <2>3. PICK n \in Nat : n = Len(v) /\ More(c, v, last, n) /\ n \in 0 .. n /\ 1 \in 1 .. n + 1
    BY <1>3, AppendMore
  <2>4. InInterp(c, n) = InInterp(v, n)
    BY <2>3, BalanceBefore DEF InInterp
  <2>5. InInterp(v, n) = 0
    BY <1>5, <2>3 DEF Nest
  <2>6. Len(c) = n + 1 /\ n + 1 > 0 /\ (n + 1) - 1 = n
    BY <2>3 DEF More
  <2>7. Awaits(c)
    BY <1>1, <1>3, <1>5, <1>6, <2>2, <2>4, <2>5, <2>6 DEF Awaits
  <2>8. QED
    BY <1>4, <1>8, <2>7
<1>9. QED
  BY <1>7, <1>8

LEMMA NestSingle ==
  ASSUME NEW str \in TokenSet, str.t = "Str"
  PROVE  Nest(<<str>>, 0, 0) /\ NetOf(<<str>>) = 0
<1>1. <<str>> = Append(<<>>, str) /\ <<>> \in Seq(TokenSet)
  OBVIOUS
<1>2. PICK zero \in Nat : zero = 0 /\ Nest(<<>>, zero, zero)
  BY NestNone
<1>3. /\ zero = zero + Step(str, {"StrBegin"}, {"StrEnd"})
      /\ zero = zero + Step(str, {"InterpOpen"}, {"InterpClose"})
      /\ zero - zero = IF str.t \in {"StrBegin", "StrLit", "InterpClose"} THEN 1 ELSE 0
      /\ str.t # "InterpClose"
  BY <1>2, StepFacts
<1>4. /\ Nest(Append(<<>>, str), zero, zero)
      /\ NetOf(Append(<<>>, str)) = NetOf(<<>>) + Step(str, Opening, Closing)
  BY <1>1, <1>2, <1>3, NestOther
<1>5. Step(str, Opening, Closing) = 0
  BY StepOfString DEF OfStrings
<1>6. QED
  BY <1>1, <1>2, <1>4, <1>5, NestNone

LEMMA NestBegin ==
  ASSUME NEW s \in Strings, s.buf = <<>>
  PROVE  Nest(Written(s), 1, 0) /\ NetOf(Written(s)) = 0
<1>1. PICK begin \in TokenSet :
        begin = Mark("StrBegin", s.start, s.start + 1) /\ begin.t = "StrBegin"
  BY WrittenFacts
<1>2. Written(s) = Append(<<>>, begin) /\ <<>> \in Seq(TokenSet)
  <2>1. <<begin>> \in Seq(TokenSet) /\ Append(<<>>, begin) = <<begin>> /\ <<>> \in Seq(TokenSet)
    OBVIOUS
  <2>2. <<begin>> \o <<>> = <<begin>>
    BY <2>1, ConcatEmptySeq
  <2>3. QED
    BY <1>1, <2>1, <2>2 DEF Written
<1>3. PICK zero \in Nat, one \in Nat : zero = 0 /\ one = 1 /\ Nest(<<>>, zero, zero)
  BY NestNone
<1>4. /\ one = zero + Step(begin, {"StrBegin"}, {"StrEnd"})
      /\ zero = zero + Step(begin, {"InterpOpen"}, {"InterpClose"})
      /\ one - zero = IF begin.t \in {"StrBegin", "StrLit", "InterpClose"} THEN 1 ELSE 0
      /\ begin.t # "InterpClose"
  BY <1>1, <1>3, StepFacts
<1>5. /\ Nest(Append(<<>>, begin), one, zero)
      /\ NetOf(Append(<<>>, begin)) = NetOf(<<>>) + Step(begin, Opening, Closing)
  BY <1>2, <1>3, <1>4, NestOther
<1>6. Step(begin, Opening, Closing) = 0
  BY <1>1, StepOfString DEF OfStrings
<1>7. QED
  BY <1>2, <1>3, <1>5, <1>6, NestNone

(* What the steps make of the stack.                                       *)
Acts == Tops \cup Strings

LEMMA FrontFacts ==
  ASSUME NEW s \in Seq(Acts), s # <<>>, NEW n, n = Len(s)
  PROVE  /\ n \in Nat \ {0}
         /\ Last(s) = s[n] /\ Last(s) \in Acts
         /\ Front(s) \in Seq(Acts) /\ Len(Front(s)) = n - 1
         /\ \A i \in 1 .. n - 1 : Front(s)[i] = s[i]
         /\ Front(s) = <<>> <=> n = 1
<1>1. n \in Nat \ {0} /\ n \in 1 .. n
  OBVIOUS
<1>2. Last(s) = s[n] /\ Last(s) \in Acts
  BY <1>1 DEF Last
<1>3. PICK f \in Seq(Acts) : f = Front(s) /\ Len(f) = n - 1 /\ \A i \in 1 .. n - 1 : f[i] = s[i]
  <2> DEFINE d == SubSeq(s, 1, n - 1)
  <2>1. d \in Seq(Acts) /\ Len(d) = n - 1 /\ \A i \in 1 .. n - 1 : d[i] = s[i]
    BY <1>1
  <2>2. d = Front(s)
    BY DEF Front
  <2> HIDE DEF d
  <2>3. QED
    BY <2>1, <2>2
<1>4. f = <<>> <=> n = 1
  BY <1>1, <1>3
<1>5. QED
  BY <1>1, <1>2, <1>3, <1>4

LEMMA PushFacts ==
  ASSUME NEW s \in Seq(Acts), NEW n, n = Len(s), NEW x \in Acts
  PROVE  /\ Append(s, x) \in Seq(Acts) /\ Len(Append(s, x)) = n + 1
         /\ \A i \in 1 .. n : Append(s, x)[i] = s[i]
         /\ Append(s, x)[n + 1] = x
OBVIOUS

LEMMA ReplaceFacts ==
  ASSUME NEW s \in Seq(Acts), s # <<>>, NEW n, n = Len(s), NEW x \in Acts
  PROVE  /\ Append(Front(s), x) \in Seq(Acts) /\ Len(Append(Front(s), x)) = n
         /\ \A i \in 1 .. n - 1 : Append(Front(s), x)[i] = s[i]
         /\ Append(Front(s), x)[n] = x
<1>1. n \in Nat \ {0}
  OBVIOUS
<1>2. PICK f \in Seq(Acts) : f = Front(s) /\ Len(f) = n - 1 /\ \A i \in 1 .. n - 1 : f[i] = s[i]
  BY FrontFacts
<1>3. /\ Append(f, x) \in Seq(Acts) /\ Len(Append(f, x)) = n
      /\ \A i \in 1 .. n - 1 : Append(f, x)[i] = s[i]
      /\ Append(f, x)[n] = x
  BY <1>1, <1>2
<1>4. QED
  BY <1>2, <1>3

LEMMA ReplacedFacts ==
  ASSUME NEW s \in Seq(Acts), s # <<>>, NEW n, n = Len(s), NEW x \in Acts,
         NEW more, more = Append(Front(s), x)
  PROVE  /\ more \in Seq(Acts) /\ Len(more) = n
         /\ \A i \in 1 .. n - 1 : more[i] = s[i]
         /\ more[n] = x
BY ReplaceFacts

LEMMA ReplacedBefore ==
  ASSUME NEW s \in Seq(Acts), s # <<>>, NEW x \in Acts,
         NEW more, more = Append(Front(s), x), NEW i \in 1 .. Len(s) - 1
  PROVE  more[i] = s[i]
<1>1. PICK n \in Nat : n = Len(s)
  OBVIOUS
<1>2. \A j \in 1 .. n - 1 : more[j] = s[j]
  BY <1>1, ReplacedFacts
<1>3. QED
  BY <1>1, <1>2

LEMMA ChainedOne ==
  ASSUME NEW from \in Nat, NEW token \in TokenSet, Follows(token, from)
  PROVE  /\ <<token>> \in Seq(TokenSet)
         /\ Chained(<<token>>, from) /\ EndOf(<<token>>, from) = token.to
<1>1. /\ <<token>> \in Seq(TokenSet) /\ Len(<<token>>) = 1 /\ <<token>>[1] = token
      /\ <<token>> # <<>>
  OBVIOUS
<1>2. QED
  BY <1>1 DEF Chained, EndOf, Last

LEMMA ChainedTwo ==
  ASSUME NEW from \in Nat, NEW one \in TokenSet, NEW two \in TokenSet,
         Follows(one, from), Follows(two, one.to)
  PROVE  /\ <<one, two>> \in Seq(TokenSet)
         /\ Chained(<<one, two>>, from) /\ EndOf(<<one, two>>, from) = two.to
<1>1. /\ <<one, two>> \in Seq(TokenSet) /\ Len(<<one, two>>) = 2
      /\ <<one, two>>[1] = one /\ <<one, two>>[2] = two /\ <<one, two>> # <<>>
  OBVIOUS
<1>2. \A i \in 1 .. 2 : i = 1 \/ i = 2
  OBVIOUS
<1>3. QED
  BY <1>1, <1>2 DEF Chained, EndOf, Last

LEMMA BottomType ==
  ASSUME NEW ks, NEW i, i = 1 \/ ks[i - 1] \in Strings
  PROVE  Bottom(ks, i) \in Nat
<1>1. ASSUME ks[i - 1] \in Strings PROVE EndOf(ks[i - 1].buf, ks[i - 1].start + 1) \in Nat
  <2>1. ks[i - 1].buf \in Seq(TokenSet) /\ ks[i - 1].start + 1 \in Nat
    BY <1>1 DEF Strings
  <2>2. QED
    BY <2>1, EndOfType
<1>2. QED
  BY <1>1 DEF Bottom

(* The turns are kept when the stack stays as it is up to k and has at most *)
(* one more activation there, of the other kind.                           *)
LEMMA Alternation ==
  ASSUME NEW ks, NEW more, NEW n \in Nat, NEW m \in Nat, NEW k \in Nat,
         n = Len(ks), m = Len(more), Alternate(ks), k <= n, m = k \/ m = k + 1,
         \A i \in 1 .. k : more[i].fn = ks[i].fn,
         m = k + 1 /\ k > 0 => more[m].fn # ks[k].fn
  PROVE  Alternate(more)
<1> SUFFICES ASSUME NEW i \in 1 .. m - 1 PROVE more[i].fn # more[i + 1].fn
  BY DEF Alternate
<1>1. CASE i < k
  <2>1. i \in 1 .. n - 1 /\ i \in 1 .. k /\ i + 1 \in 1 .. k
    BY <1>1
  <2>2. QED
    BY <2>1 DEF Alternate
<1>2. CASE i >= k
  <2>1. i = k /\ m = k + 1 /\ i + 1 = m
    BY <1>2
  <2>2. i \in 1 .. k /\ k > 0
    BY <2>1
  <2>3. QED
    BY <2>1, <2>2
<1>3. QED
  BY <1>1, <1>2

LEMMA RunningFacts ==
  ASSUME CoverInv, stage = "lex", NEW n, n = Len(stack)
  PROVE  /\ n \in Nat \ {0} /\ n \in 1 .. n /\ stack \in Seq(Acts) /\ stack # <<>>
         /\ Position /\ pos \in 1 .. End /\ pos \in Nat /\ End \in Nat
         /\ Running = stack[n] /\ Running \in Acts
         /\ \A i \in 1 .. n : i > 1 => stack[i - 1].fn # stack[i].fn
         /\ Running.fn = "lex_top" =>
              /\ Running \in Tops
              /\ n = 1 \/ (n > 1 /\ stack[n - 1] \in Strings)
              /\ Bottom(stack, n) \in Nat
         /\ Running.fn = "lex_string" =>
              /\ Running \in Strings /\ n > 1 /\ stack[n - 1] \in Tops
              /\ Bottom(stack, n - 1) \in Nat
<1>1. /\ n \in Nat \ {0} /\ n \in 1 .. n /\ stack \in Seq(Acts) /\ stack # <<>>
      /\ stack[1] \in Tops
      /\ \A i \in 1 .. n : stack[i] \in Acts
  BY DEF CoverInv, ShapeInv, Acts
<1>2. Position /\ pos \in 1 .. End /\ pos \in Nat /\ End \in Nat
  <2>1. Position
    BY DEF CoverInv, CutInv
  <2>2. pos \in 1 .. End
    BY <2>1 DEF Position
  <2>3. QED
    BY <2>1, <2>2, TextFacts
<1>3. Running = stack[n]
  BY DEF Running, Last
<1>4. \A i \in 1 .. n : i > 1 => i - 1 \in 1 .. n /\ stack[i - 1].fn # stack[i].fn
  <2> SUFFICES ASSUME NEW i \in 1 .. n, i > 1
               PROVE  i - 1 \in 1 .. n /\ stack[i - 1].fn # stack[i].fn
    OBVIOUS
  <2>1. i - 1 \in 1 .. n - 1 /\ (i - 1) + 1 = i
    BY <1>1
  <2>2. stack[i - 1].fn # stack[(i - 1) + 1].fn
    BY <2>1 DEF CoverInv, ShapeInv, Alternate
  <2>3. QED
    BY <1>1, <2>1, <2>2
<1>5. \A x \in Acts : /\ x \in Tops <=> x.fn = "lex_top"
                      /\ x \in Strings <=> x.fn = "lex_string"
                      /\ x.fn \in {"lex_top", "lex_string"}
  BY DEF Acts, Tops, Strings
<1>6. ASSUME Running.fn = "lex_top"
      PROVE  /\ Running \in Tops
             /\ n = 1 \/ (n > 1 /\ stack[n - 1] \in Strings)
             /\ Bottom(stack, n) \in Nat
  <2>1. n = 1 \/ (n > 1 /\ stack[n - 1] \in Strings)
    BY <1>1, <1>3, <1>4, <1>5, <1>6
  <2>2. QED
    BY <1>1, <1>3, <1>5, <1>6, <2>1, BottomType
<1>7. ASSUME Running.fn = "lex_string"
      PROVE  /\ Running \in Strings /\ n > 1 /\ stack[n - 1] \in Tops
             /\ Bottom(stack, n - 1) \in Nat
  <2>1. n > 1
    BY <1>1, <1>3, <1>5, <1>7
  <2>2. stack[n - 1] \in Tops /\ n - 1 \in 1 .. n
    BY <1>1, <1>3, <1>4, <1>5, <1>7, <2>1
  <2>3. n - 1 = 1 \/ stack[(n - 1) - 1] \in Strings
    <3>1. CASE n - 1 = 1
      BY <3>1
    <3>2. CASE n - 1 > 1
      <4>1. (n - 1) - 1 \in 1 .. n /\ stack[(n - 1) - 1].fn # stack[n - 1].fn
        BY <1>1, <1>4, <2>2, <3>2
      <4>2. QED
        BY <1>1, <1>5, <2>2, <4>1
    <3>3. QED
      BY <1>1, <2>1, <3>1, <3>2
  <2>4. QED
    BY <1>1, <1>3, <1>5, <1>7, <2>1, <2>2, <2>3, BottomType
<1>8. QED
  BY <1>1, <1>2, <1>3, <1>4, <1>6, <1>7

(* Strings further down are covered as before.                             *)
LEMMA StringKept ==
  ASSUME NEW ks, NEW more, NEW toks, NEW toks2, NEW p, NEW p2, NEW n \in Nat, NEW m \in Nat,
         n = Len(ks), m = Len(more),
         NEW i \in 1 .. n, i < n, i < m, \A j \in 1 .. i : more[j] = ks[j], i > 1,
         StringCovered(ks, toks, p, i)
  PROVE  StringCovered(more, toks2, p2, i)
<1>1. i \in 1 .. i /\ i - 1 \in 1 .. i /\ (i - 1 = 1 \/ (i - 1) - 1 \in 1 .. i)
  OBVIOUS
<1>2. Bottom(more, i - 1) = Bottom(ks, i - 1) /\ more[i] = ks[i] /\ more[i - 1] = ks[i - 1]
  BY <1>1 DEF Bottom
<1>3. Below(more, toks2, i) = Below(ks, toks, i)
  BY <1>2 DEF Below
<1>4. QED
  BY <1>2, <1>3 DEF StringCovered

LEMMA BottomKept ==
  ASSUME NEW ks, NEW more, NEW i \in Nat, i >= 1, \A j \in 1 .. i - 1 : more[j] = ks[j]
  PROVE  Bottom(more, i) = Bottom(ks, i)
<1>1. i = 1 \/ i - 1 \in 1 .. i - 1
  OBVIOUS
<1>2. QED
  BY <1>1 DEF Bottom

(* Every string below the running activation is covered as before after a  *)
(* step that changes nothing below it.                                     *)
LEMMA StringsKept ==
  ASSUME NEW ks \in Seq(Acts), NEW more, NEW toks, NEW toks2, NEW p, NEW p2,
         NEW n \in Nat, NEW m \in Nat, NEW k \in Nat, n = Len(ks), m = Len(more),
         k < n, k < m, \A j \in 1 .. k : more[j] = ks[j], ks[1] \in Tops, Covered(ks, toks, p)
  PROVE  \A i \in 1 .. k : more[i].fn = "lex_string" => StringCovered(more, toks2, p2, i)
<1> SUFFICES ASSUME NEW i \in 1 .. k, more[i].fn = "lex_string"
             PROVE  StringCovered(more, toks2, p2, i)
  OBVIOUS
<1>1. ks[i].fn = "lex_string" /\ i \in 1 .. n /\ i < n /\ i < m
  OBVIOUS
<1>2. i > 1
  BY <1>1 DEF Tops
<1>3. StringCovered(ks, toks, p, i)
  BY <1>1 DEF Covered
<1>4. \A j \in 1 .. i : more[j] = ks[j]
  OBVIOUS
<1>5. QED
  BY <1>1, <1>2, <1>3, <1>4, StringKept

LEMMA BottomTop == ASSUME CoverInv, stage = "lex" PROVE stack[1] \in Tops
BY DEF CoverInv, ShapeInv

(* What is left to show of a step of the lexer.                            *)
LEMMA CoverStep ==
  ASSUME CoverInv, LexNext, ShapeInv', text' = text,
         stage' = "lex" /\ errors' = <<>> => Covered(stack', tokens', pos'),
         stage' = "parse" => Cover(tokens', 1, End) /\ Nest(tokens', 0, 0)
  PROVE  CoverInv'
<1>1. CutInv'
  BY StepCutInv DEF CoverInv
<1>2. /\ Covered(stack, tokens, pos)' <=> Covered(stack', tokens', pos')
      /\ Cover(tokens, 1, End)' <=> Cover(tokens', 1, End)
      /\ Nest(tokens, 0, 0)' <=> Nest(tokens', 0, 0)
  BY CoveredSame
<1>3. QED
  BY <1>1, <1>2 DEF CoverInv

(* Skipping layout.                                                        *)
LEMMA SkipStep ==
  ASSUME CoverInv, LexNext, Lexing, Running.fn = "lex_top",
         UNCHANGED <<text, stage, tokens, errors, stack>>,
         pos' \in Nat, pos < pos', IsGap(pos, pos')
  PROVE  CoverInv'
<1>1. PICK n : n = Len(stack)
  OBVIOUS
<1>2. stage = "lex"
  BY DEF Lexing
<1>3. ShapeInv'
  BY DEF CoverInv, ShapeInv
<1>4. ASSUME errors = <<>> PROVE Covered(stack, tokens, pos')
  <2>1. Covered(stack, tokens, pos)
    BY <1>2, <1>4 DEF CoverInv
  <2>2. /\ n \in Nat \ {0} /\ stack \in Seq(Acts) /\ stack[n].fn = "lex_top"
        /\ pos \in Nat /\ Bottom(stack, n) \in Nat
    BY <1>1, <1>2, RunningFacts
  <2>3. \A i \in 1 .. n - 1 :
          stack[i].fn = "lex_string" => StringCovered(stack, tokens, pos', i)
    <3>1. n - 1 \in Nat /\ n - 1 < n /\ stack[1] \in Tops
      BY <1>2, <2>2, BottomTop
    <3>2. QED
      BY <1>1, <2>1, <2>2, <3>1, StringsKept
  <2>4. Cover(tokens, Bottom(stack, n), pos) /\ Nests(tokens, stack[n].depth)
    BY <1>1, <2>1, <2>2 DEF Covered
  <2>5. EndOf(tokens, Bottom(stack, n)) \in Nat
    BY <2>2, EndOfType DEF CoverInv, ShapeInv
  <2>6. Cover(tokens, Bottom(stack, n), pos')
    BY <2>2, <2>4, <2>5, LayoutMore DEF Cover
  <2>7. \A i \in 1 .. n : stack[i].fn = "lex_string" => StringCovered(stack, tokens, pos', i)
    BY <2>2, <2>3
  <2>8. QED
    BY <1>1, <2>2, <2>4, <2>6, <2>7 DEF Covered
<1>5. QED
  BY <1>2, <1>3, <1>4, CoverStep

(* Steps that report an error or stop there: nothing is claimed of what    *)
(* comes after.                                                            *)
LEMMA FailStep ==
  ASSUME CoverInv, LexNext, Lexing, text' = text, stage' = stage, tokens' = tokens,
         NEW from \in Int, NEW to \in Int, errors' = Append(errors, <<from, to>>),
         \/ stack' = stack
         \/ stack' = Callers /\ Running.fn = "lex_string"
  PROVE  CoverInv'
<1>1. PICK n : n = Len(stack)
  OBVIOUS
<1>2. stage = "lex"
  BY DEF Lexing
<1>3. errors' \in Seq(Int \X Int) /\ errors' # <<>>
  <2>1. errors \in Seq(Int \X Int) /\ <<from, to>> \in Int \X Int
    BY DEF CoverInv, ShapeInv
  <2>2. QED
    BY <2>1
<1>4. CASE stack' = stack
  <2>1. ShapeInv'
    BY <1>3, <1>4 DEF CoverInv, ShapeInv
  <2>2. QED
    BY <1>2, <1>3, <2>1, CoverStep
<1>5. CASE stack' = Callers /\ Running.fn = "lex_string"
  <2>1. n \in Nat /\ n > 1 /\ stack \in Seq(Acts) /\ stack # <<>>
    BY <1>1, <1>2, <1>5, RunningFacts
  <2>2. /\ stack' \in Seq(Acts) /\ Len(stack') = n - 1
        /\ \A i \in 1 .. n - 1 : stack'[i] = stack[i]
    BY <1>1, <1>5, <2>1, FrontFacts DEF Callers
  <2>3. stack' # <<>> /\ stack'[1] = stack[1]
    BY <2>1, <2>2
  <2>4. Alternate(stack')
    <3>1. PICK k \in Nat : k = n - 1 /\ k <= n /\ k # k + 1
      BY <2>1
    <3>2. Alternate(stack)
      BY DEF CoverInv, ShapeInv
    <3>3. QED
      BY <1>1, <2>1, <2>2, <3>1, <3>2, Alternation
  <2>5. ShapeInv'
    <3>1. Alternate(stack)'
      BY <2>4 DEF Alternate
    <3>2. QED
      BY <1>3, <2>2, <2>3, <3>1 DEF CoverInv, ShapeInv, Acts
  <2>6. QED
    BY <1>2, <1>3, <2>5, CoverStep
<1>6. QED
  BY <1>4, <1>5

(* The shape of a stack that is as it was up to k and has at most one more *)
(* activation there.                                                       *)
LEMMA ShapeStep ==
  ASSUME CoverInv, stage = "lex", NEW n, n = Len(stack), NEW m \in Nat, NEW k \in Nat,
         m = Len(stack'), k <= n, m = k \/ m = k + 1, m > 0,
         stack' \in Seq(Acts), tokens' \in Seq(TokenSet), errors' = errors,
         stage' \in {"lex", "parse", "refused", "panicked"},
         \A i \in 1 .. k : stack'[i].fn = stack[i].fn,
         m = k + 1 /\ k > 0 => stack'[m].fn # stack[k].fn,
         stack'[1] \in Tops /\ ~ stack'[1].inside
  PROVE  ShapeInv'
<1>1. Alternate(stack) /\ errors \in Seq(Int \X Int) /\ n \in Nat
  BY RunningFacts DEF CoverInv, ShapeInv
<1>2. Alternate(stack')
  BY <1>1, Alternation
<1>3. Alternate(stack)'
  BY <1>2 DEF Alternate
<1>4. stack' # <<>>
  OBVIOUS
<1>5. QED
  BY <1>1, <1>3, <1>4 DEF ShapeInv, Acts

LEMMA OneTokenStep == ASSUME CoverInv, OneToken PROVE CoverInv'
<1>1. PICK n, found, top :
        /\ n = Len(stack) /\ found = LogosToken(pos)
        /\ top = LexTop(Running.inside, DepthAfter(found.t))
  OBVIOUS
<1>2. /\ stage = "lex" /\ pos < End /\ Running.fn = "lex_top" /\ found # NoToken
      /\ stack' = Append(Callers, top) /\ tokens' = tokens \o <<found>> /\ pos' = found.to
      /\ errors' = errors /\ text' = text /\ stage' = stage /\ LexNext
  BY <1>1 DEF OneToken, AtToken, InTop, Lexing, Push, Advance, LexNext
<1>3. /\ n \in Nat \ {0} /\ stack \in Seq(Acts) /\ stack # <<>> /\ Running \in Tops
      /\ Running = stack[n] /\ Position /\ pos \in 1 .. End /\ Bottom(stack, n) \in Nat
  BY <1>1, <1>2, RunningFacts
<1>4. pos \in 1 .. Len(text) /\ pos \in Nat
  BY <1>2, <1>3, TextFacts
<1>5. found \in TokenSet /\ found.from = pos /\ found.t \in OneOfLogos /\ found.to \in Nat
  BY <1>1, <1>2, <1>3, <1>4, TokenShape DEF TokenSet
<1>6. found.t \notin {"StrLit", "InterpOpen", "StrEnd"}
  BY <1>5, LogosKinds DEF OfStrings
<1>7. top \in Tops /\ top \in Acts /\ top.inside = Running.inside /\ top.fn = "lex_top"
  BY <1>1, <1>3 DEF LexTop, Tops, DepthAfter, Acts
<1>8. /\ stack' \in Seq(Acts) /\ Len(stack') = n /\ stack'[n] = top
      /\ \A i \in 1 .. n - 1 : stack'[i] = stack[i]
  <2>1. stack' = Append(Front(stack), top)
    BY <1>2 DEF Callers
  <2>2. QED
    BY <1>1, <1>3, <1>7, <2>1, ReplaceFacts
<1>9. tokens \in Seq(TokenSet) /\ stack[1] \in Tops /\ ~ stack[1].inside
  BY <1>2 DEF CoverInv, ShapeInv
<1>10. tokens' \in Seq(TokenSet)
  BY <1>2, <1>5, <1>9
<1>11. ShapeInv'
  <2>1. stack'[1] \in Tops /\ ~ stack'[1].inside
    <3>1. CASE n = 1
      BY <1>3, <1>7, <1>8, <1>9, <3>1
    <3>2. CASE n # 1
      <4>1. 1 \in 1 .. n - 1
        BY <1>3, <3>2
      <4>2. QED
        BY <1>8, <1>9, <4>1
    <3>3. QED
      BY <3>1, <3>2
  <2>2. \A i \in 1 .. n : stack'[i].fn = stack[i].fn
    BY <1>2, <1>3, <1>7, <1>8
  <2>3. n \in Nat /\ n > 0 /\ n <= n /\ n # n + 1
    BY <1>3
  <2>4. QED
    BY <1>1, <1>2, <1>8, <1>10, <2>1, <2>2, <2>3, ShapeStep
<1>12. ASSUME errors = <<>> PROVE Covered(stack', tokens', pos')
  <2>1. Covered(stack, tokens, pos)
    BY <1>2, <1>12 DEF CoverInv
  <2>2. \A i \in 1 .. n - 1 :
          stack'[i].fn = "lex_string" => StringCovered(stack', tokens', pos', i)
    <3>1. n - 1 \in Nat /\ n - 1 < n
      BY <1>3
    <3>2. QED
      BY <1>1, <1>3, <1>8, <1>9, <2>1, <3>1, StringsKept
  <2>3. Cover(tokens, Bottom(stack, n), pos) /\ Nests(tokens, stack[n].depth)
    BY <1>1, <1>2, <1>3, <2>1 DEF Covered
  <2>4. Follows(found, EndOf(tokens, Bottom(stack, n)))
    BY <1>5, <1>6, <2>3 DEF Cover, Follows
  <2>5. EndOf(tokens, Bottom(stack, n)) \in Nat
    BY <1>3, <1>9, EndOfType
  <2>6. <<found>> \in Seq(TokenSet) /\ Chained(<<found>>, EndOf(tokens, Bottom(stack, n)))
        /\ EndOf(<<found>>, EndOf(tokens, Bottom(stack, n))) = found.to
    BY <1>5, <2>4, <2>5, ChainedOne
  <2>7. Chained(tokens', Bottom(stack, n)) /\ EndOf(tokens', Bottom(stack, n)) = pos'
    BY <1>2, <1>3, <1>9, <2>3, <2>6, ChainedConcat DEF Cover
  <2>8. Cover(tokens', Bottom(stack, n), pos')
    BY <1>2, <1>5, <2>7, LayoutNone DEF Cover
  <2>9. Bottom(stack', n) = Bottom(stack, n)
    BY <1>3, <1>8, BottomKept
  <2>10. \A i \in 1 .. n :
           stack'[i].fn = "lex_string" => StringCovered(stack', tokens', pos', i)
    BY <1>3, <1>7, <1>8, <2>2
  <2>11. Nests(tokens', top.depth)
    <3>1. tokens' = Append(tokens, found)
      BY <1>2, <1>5, <1>9, AppendIsConcat
    <3>2. found.t \notin {"StrBegin", "StrLit", "StrEnd", "InterpOpen", "InterpClose"}
      BY <1>5, LogosKinds DEF OfStrings
    <3>3. PICK zero \in Nat :
            /\ zero = 0 /\ Nest(tokens, zero, zero)
            /\ zero = zero + Step(found, {"StrBegin"}, {"StrEnd"})
            /\ zero = zero + Step(found, {"InterpOpen"}, {"InterpClose"})
            /\ zero - zero = IF found.t \in {"StrBegin", "StrLit", "InterpClose"} THEN 1 ELSE 0
      BY <2>3, <3>2, StepFacts DEF Nests
    <3>4. /\ Nest(Append(tokens, found), zero, zero)
          /\ NetOf(Append(tokens, found)) = NetOf(tokens) + Step(found, Opening, Closing)
      BY <1>5, <1>9, <3>2, <3>3, NestOther
    <3>5. Running.depth \in Int
      BY <1>3 DEF Tops
    <3>6. top.depth = Running.depth + Step(found, Opening, Closing)
      <4>1. Opening \cap Closing = {}
        BY DEF Opening, Closing
      <4>2. top.depth = DepthAfter(found.t)
        BY <1>1 DEF LexTop
      <4>3. QED
        BY <3>5, <4>1, <4>2, StepFacts DEF DepthAfter
    <3>7. QED
      BY <1>3, <2>3, <3>1, <3>3, <3>4, <3>6 DEF Nests
  <2>12. QED
    BY <1>8, <2>8, <2>9, <2>10, <2>11 DEF Covered
<1>13. QED
  BY <1>2, <1>11, <1>12, CoverStep

LEMMA OpenStringStep == ASSUME CoverInv, OpenString PROVE CoverInv'
<1>1. PICK n, s : n = Len(stack) /\ s = LexString(pos, pos + 1)
  OBVIOUS
<1>2. /\ stage = "lex" /\ pos < End /\ Running.fn = "lex_top"
      /\ stack' = Append(stack, s) /\ tokens' = tokens /\ pos' = pos + 1
      /\ errors' = errors /\ text' = text /\ stage' = stage /\ LexNext
  BY <1>1 DEF OpenString, InTop, Lexing, Advance, LexNext
<1>3. /\ n \in Nat \ {0} /\ stack \in Seq(Acts) /\ stack # <<>>
      /\ Running = stack[n] /\ pos \in Nat /\ Bottom(stack, n) \in Nat
  BY <1>1, <1>2, RunningFacts
<1>4. /\ s \in Strings /\ s \in Acts /\ s.fn = "lex_string" /\ s.start = pos
      /\ s.buf = <<>> /\ s.lit = <<>> /\ s.litStart = pos + 1
  BY <1>1, <1>3 DEF LexString, Strings, Acts
<1>5. /\ stack' \in Seq(Acts) /\ Len(stack') = n + 1 /\ stack'[n + 1] = s
      /\ \A i \in 1 .. n : stack'[i] = stack[i]
  BY <1>1, <1>2, <1>3, <1>4, PushFacts
<1>6. tokens \in Seq(TokenSet) /\ stack[1] \in Tops /\ ~ stack[1].inside
  BY <1>2 DEF CoverInv, ShapeInv
<1>7. ShapeInv'
  <2>1. PICK m \in Nat : m = n + 1 /\ m > 0 /\ n \in Nat /\ n <= n /\ 1 \in 1 .. n /\ n \in 1 .. n
    BY <1>3
  <2>2. QED
    BY <1>1, <1>2, <1>3, <1>4, <1>5, <1>6, <2>1, ShapeStep
<1>8. ASSUME errors = <<>> PROVE Covered(stack', tokens', pos')
  <2>1. Covered(stack, tokens, pos)
    BY <1>2, <1>8 DEF CoverInv
  <2>2. \A i \in 1 .. n - 1 :
          stack'[i].fn = "lex_string" => StringCovered(stack', tokens', pos', i)
    <3>1. PICK k \in Nat : k = n - 1 /\ k < n /\ k < n + 1 /\ n \in Nat /\ n + 1 \in Nat
      BY <1>3
    <3>2. \A j \in 1 .. k : stack'[j] = stack[j]
      BY <1>5, <3>1
    <3>3. QED
      BY <1>1, <1>3, <1>5, <1>6, <2>1, <3>1, <3>2, StringsKept
  <2>3. Cover(tokens, Bottom(stack, n), pos) /\ Nests(tokens, stack[n].depth)
    BY <1>1, <1>2, <1>3, <2>1 DEF Covered
  <2>4. Bottom(stack', n) = Bottom(stack, n)
    BY <1>3, <1>5, BottomKept
  <2>5. Chained(<<>>, pos + 1) /\ EndOf(<<>>, pos + 1) = pos + 1 /\ Len(<<>>) = 0
    BY ChainedNone
  <2>6. (n + 1) - 1 = n /\ ~ (n + 1 < n + 1) /\ pos + 1 + 0 <= pos + 1
    BY <1>3
  <2>7. StringCovered(stack', tokens', pos', n + 1)
    <3>1. Nest(Written(s), 1, 0) /\ NetOf(Written(s)) = 0
      BY <1>4, NestBegin
    <3>2. n \in 1 .. n
      BY <1>3
    <3>3. stack'[n] = stack[n]
      BY <1>5, <3>2
    <3>4. QED
      BY <1>2, <1>4, <1>5, <2>3, <2>4, <2>5, <2>6, <3>1, <3>3 DEF StringCovered, Below
  <2>8. \A i \in 1 .. n + 1 :
          stack'[i].fn = "lex_string" => StringCovered(stack', tokens', pos', i)
    <3>1. stack'[n].fn = "lex_top"
      BY <1>2, <1>3, <1>5
    <3>2. \A i \in 1 .. n + 1 : i \in 1 .. n - 1 \/ i = n \/ i = n + 1
      BY <1>3
    <3>3. QED
      BY <2>2, <2>7, <3>1, <3>2
  <2>9. QED
    BY <1>4, <1>5, <2>8 DEF Covered
<1>9. QED
  BY <1>2, <1>7, <1>8, CoverStep

(* A step within a string: the character goes to the literal.              *)
LEMMA LiteralStep ==
  ASSUME CoverInv, LexNext, InStr, NEW c \in Chars, NEW p \in Nat, pos < p, AddToLiteral(c, p)
  PROVE  CoverInv'
<1>1. PICK n, s : n = Len(stack) /\ s = [Running EXCEPT !.lit = Append(@, c)]
  OBVIOUS
<1>2. /\ stage = "lex" /\ Running.fn = "lex_string"
      /\ stack' = Append(Callers, s) /\ tokens' = tokens /\ pos' = p
      /\ errors' = errors /\ text' = text /\ stage' = stage
  BY <1>1 DEF InStr, Lexing, AddToLiteral, Advance
<1>3. /\ n \in Nat \ {0} /\ n > 1 /\ stack \in Seq(Acts) /\ stack # <<>> /\ Running \in Strings
      /\ Running = stack[n] /\ pos \in Nat /\ End \in Nat
  BY <1>1, <1>2, RunningFacts
<1>4. /\ s \in Strings /\ s \in Acts /\ s.fn = "lex_string" /\ s.start = Running.start
      /\ s.buf = Running.buf /\ s.litStart = Running.litStart
      /\ Len(s.lit) = Len(Running.lit) + 1 /\ Len(Running.lit) \in Nat /\ s.litStart \in Nat
  <2>1. Running.lit \in Seq(Chars)
    BY <1>3 DEF Strings
  <2>2. Append(Running.lit, c) \in Seq(Chars) /\ Len(Append(Running.lit, c)) = Len(Running.lit) + 1
    BY <2>1
  <2>3. QED
    <3>1. /\ s.lit = Append(Running.lit, c) /\ s.fn = Running.fn /\ s.start = Running.start
          /\ s.buf = Running.buf /\ s.litStart = Running.litStart
      BY <1>1, <1>3 DEF Strings
    <3>2. s \in Strings
      BY <1>1, <1>3, <2>2 DEF Strings
    <3>3. QED
      BY <1>2, <1>3, <2>1, <2>2, <3>1, <3>2 DEF Strings, Acts
<1>5. /\ stack' \in Seq(Acts) /\ Len(stack') = n /\ stack'[n] = s
      /\ \A i \in 1 .. n - 1 : stack'[i] = stack[i]
  BY <1>1, <1>2, <1>3, <1>4, ReplaceFacts DEF Callers
<1>6. tokens \in Seq(TokenSet) /\ stack[1] \in Tops /\ ~ stack[1].inside
  BY <1>2 DEF CoverInv, ShapeInv
<1>7. ShapeInv'
  <2>1. /\ n \in Nat /\ n > 0 /\ n <= n /\ n # n + 1 /\ 1 \in 1 .. n - 1
        /\ \A i \in 1 .. n : i \in 1 .. n - 1 \/ i = n
    BY <1>3
  <2>2. \A i \in 1 .. n : stack'[i].fn = stack[i].fn
    BY <1>2, <1>3, <1>4, <1>5, <2>1
  <2>3. QED
    BY <1>1, <1>2, <1>5, <1>6, <2>1, <2>2, ShapeStep
<1>8. ASSUME errors = <<>> PROVE Covered(stack', tokens', pos')
  <2>1. Covered(stack, tokens, pos)
    BY <1>2, <1>8 DEF CoverInv
  <2>2. PICK k \in Nat : k = n - 1 /\ k < n /\ n \in Nat
    BY <1>3
  <2>3. \A i \in 1 .. k :
          stack'[i].fn = "lex_string" => StringCovered(stack', tokens', pos', i)
    BY <1>1, <1>3, <1>5, <1>6, <2>1, <2>2, StringsKept
  <2>4. StringCovered(stack, tokens, pos, n)
    BY <1>1, <1>2, <1>3, <2>1 DEF Covered
  <2>5. Bottom(stack', n - 1) = Bottom(stack, n - 1)
    <3>1. k \in Nat /\ k >= 1 /\ \A j \in 1 .. k - 1 : stack'[j] = stack[j]
      BY <1>3, <1>5, <2>2
    <3>2. QED
      BY <2>2, <3>1, BottomKept
  <2>6. Running.litStart + Len(Running.lit) <= pos => s.litStart + Len(s.lit) <= p
    BY <1>3, <1>4
  <2>7. p < End => pos < End
    BY <1>3
  <2>8. ~ (n < n)
    BY <1>3
  <2>9. StringCovered(stack', tokens', pos', n)
    <3>1. Written(s) = Written(Running)
      BY <1>4 DEF Written
    <3>2. n - 1 \in 1 .. n - 1
      BY <1>3
    <3>3. stack'[n - 1] = stack[n - 1]
      BY <1>5, <3>2
    <3>4. QED
      BY <1>1, <1>2, <1>3, <1>4, <1>5, <2>4, <2>5, <2>6, <2>7, <2>8, <3>1, <3>3
      DEF StringCovered, Below
  <2>10. \A i \in 1 .. n :
           stack'[i].fn = "lex_string" => StringCovered(stack', tokens', pos', i)
    <3>1. \A i \in 1 .. n : i \in 1 .. k \/ i = n
      BY <2>2
    <3>2. QED
      BY <2>3, <2>9, <3>1
  <2>11. QED
    BY <1>4, <1>5, <2>10 DEF Covered
<1>9. QED
  BY <1>2, <1>7, <1>8, CoverStep

(* The tokens of a string that ends: they stand from its quote on.         *)
LEMMA CloseStringStep == ASSUME CoverInv, CloseString PROVE CoverInv'
<1>1. PICK n, s, found :
        /\ n = Len(stack) /\ s = Running
        /\ found = IF s.hasInterp
                   THEN <<Mark("StrBegin", s.start, s.start + 1)>> \o s.buf
                          \o <<Fragment(pos), Mark("StrEnd", pos, pos + 1)>>
                   ELSE <<Token("Str", s.lit, s.start, pos + 1)>>
  OBVIOUS
<1>2. /\ stage = "lex" /\ s.fn = "lex_string" /\ At(pos, <<Quote>>)
      /\ stack' = Callers /\ tokens' = tokens \o found /\ pos' = pos + 1
      /\ errors' = errors /\ text' = text /\ stage' = stage /\ LexNext
  BY <1>1 DEF CloseString, InStr, Lexing, Advance, Push, LexNext
<1>3. /\ n \in Nat \ {0} /\ n > 1 /\ stack \in Seq(Acts) /\ stack # <<>> /\ s \in Strings
      /\ s = stack[n] /\ pos \in Nat /\ End \in Nat /\ pos \in 1 .. End /\ Position
      /\ Bottom(stack, n - 1) \in Nat /\ stack[n - 1] \in Tops
  BY <1>1, <1>2, RunningFacts
<1>4. pos < End
  <2>1. pos \in 1 .. Len(text)
    BY <1>2, <1>3, AtFacts
  <2>2. QED
    BY <1>3, <2>1, TextFacts
<1>5. /\ stack' \in Seq(Acts) /\ Len(stack') = n - 1
      /\ \A i \in 1 .. n - 1 : stack'[i] = stack[i]
  BY <1>1, <1>2, <1>3, FrontFacts DEF Callers
<1>6. tokens \in Seq(TokenSet) /\ stack[1] \in Tops /\ ~ stack[1].inside
  BY <1>2 DEF CoverInv, ShapeInv
<1>7. /\ s.start \in Nat /\ s.lit \in Seq(Chars) /\ s.litStart \in Nat /\ s.buf \in Seq(TokenSet)
      /\ s.start + 1 \in Nat /\ pos + 1 \in Nat
  BY <1>3 DEF Strings
<1> DEFINE begin == Mark("StrBegin", s.start, s.start + 1)
           str   == Token("Str", s.lit, s.start, pos + 1)
           frag  == Fragment(pos)
           end   == Mark("StrEnd", pos, pos + 1)
<1>8. /\ begin \in TokenSet /\ begin.from = s.start /\ begin.to = s.start + 1
      /\ begin.t = "StrBegin"
      /\ str \in TokenSet /\ str.from = s.start /\ str.to = pos + 1 /\ str.t = "Str"
      /\ frag \in TokenSet /\ frag.from = s.litStart /\ frag.to = pos /\ frag.v = s.lit
      /\ frag.t = "StrLit"
      /\ end \in TokenSet /\ end.from = pos /\ end.to = pos + 1 /\ end.t = "StrEnd"
  BY <1>1, <1>3, <1>7 DEF Mark, Token, Fragment, TokenSet, OfStrings
<1>9. found = IF s.hasInterp THEN <<begin>> \o s.buf \o <<frag, end>> ELSE <<str>>
  BY <1>1
<1> HIDE DEF begin, str, frag, end
<1>10. found \in Seq(TokenSet)
  BY <1>7, <1>8, <1>9
<1>11. tokens' \in Seq(TokenSet)
  BY <1>2, <1>6, <1>10
<1>12. ShapeInv'
  <2>1. PICK k \in Nat : k = n - 1 /\ k <= n /\ k # k + 1 /\ k > 0 /\ 1 \in 1 .. n - 1
    BY <1>3
  <2>2. QED
    BY <1>1, <1>2, <1>5, <1>6, <1>11, <2>1, ShapeStep
<1>13. ASSUME errors = <<>> PROVE Covered(stack', tokens', pos')
  <2>1. Covered(stack, tokens, pos)
    BY <1>2, <1>13 DEF CoverInv
  <2>2. PICK k \in Nat, b \in Nat : k = n - 1 /\ k < n /\ n \in Nat /\ k >= 1 /\ b = Bottom(stack, k)
    BY <1>3
  <2>3. StringCovered(stack, tokens, pos, n)
    BY <1>1, <1>2, <1>3, <2>1 DEF Covered
  <2>4. Cover(tokens, b, s.start) /\ Nests(tokens, stack[k].depth)
    BY <1>1, <1>3, <2>2, <2>3 DEF StringCovered, Below
  <2>5. /\ Chained(s.buf, s.start + 1) /\ s.litStart = EndOf(s.buf, s.start + 1)
        /\ s.litStart + Len(s.lit) <= pos
    BY <1>1, <1>3, <1>4, <2>3 DEF StringCovered
  <2>6. PICK e \in Nat : e = EndOf(tokens, b)
    BY <1>6, <2>2, EndOfType
  <2>7. IsLayout(e, s.start)
    BY <2>4, <2>6 DEF Cover
  <2>8. Chained(found, e) /\ EndOf(found, e) = pos + 1
    <3>1. CASE ~ s.hasInterp
      <4>1. Follows(str, e)
        BY <1>8, <2>7 DEF Follows
      <4>2. QED
        BY <1>8, <1>9, <3>1, <4>1, ChainedOne
    <3>2. CASE s.hasInterp
      <4>1. Follows(begin, e)
        BY <1>8, <2>7 DEF Follows
      <4>2. <<begin>> \in Seq(TokenSet) /\ Chained(<<begin>>, e) /\ EndOf(<<begin>>, e) = s.start + 1
        BY <1>8, <4>1, ChainedOne
      <4>3. PICK o, x : o = <<begin>> /\ x = o \o s.buf
        OBVIOUS
      <4>4. x \in Seq(TokenSet) /\ Chained(x, e) /\ EndOf(x, e) = s.litStart
        <5>1. o \in Seq(TokenSet) /\ Chained(o, e) /\ EndOf(o, e) = s.start + 1
          BY <4>2, <4>3
        <5>2. Chained(s.buf, EndOf(o, e))
          BY <2>5, <5>1
        <5>3. /\ x \in Seq(TokenSet) /\ Chained(x, e)
              /\ EndOf(x, e) = EndOf(s.buf, EndOf(o, e))
          BY <1>7, <4>3, <5>1, <5>2, ChainedConcat
        <5>4. QED
          BY <2>5, <5>1, <5>3
      <4>5. Len(s.lit) <= pos - s.litStart
        <5>1. Len(s.lit) \in Nat
          BY <1>7
        <5>2. QED
          BY <1>3, <1>7, <2>5, <5>1
      <4>6. Follows(frag, s.litStart)
        BY <1>7, <1>8, <4>5, LayoutNone DEF Follows
      <4>7. Follows(end, frag.to)
        BY <1>3, <1>8, LayoutNone DEF Follows
      <4>8. PICK o2 : o2 = <<frag, end>>
        OBVIOUS
      <4>9. o2 \in Seq(TokenSet) /\ Chained(o2, EndOf(x, e)) /\ EndOf(o2, EndOf(x, e)) = pos + 1
        BY <1>7, <1>8, <4>4, <4>6, <4>7, <4>8, ChainedTwo
      <4>10. Chained(x \o o2, e) /\ EndOf(x \o o2, e) = pos + 1
        BY <4>4, <4>9, ChainedConcat
      <4>11. found = x \o o2
        BY <1>9, <3>2, <4>3, <4>8
      <4>12. QED
        BY <4>10, <4>11
    <3>3. QED
      BY <3>1, <3>2
  <2>9. Chained(tokens', b) /\ EndOf(tokens', b) = pos'
    BY <1>2, <1>6, <1>10, <2>2, <2>4, <2>6, <2>8, ChainedConcat DEF Cover
  <2>10. Cover(tokens', b, pos')
    BY <1>2, <1>7, <2>9, LayoutNone DEF Cover
  <2>11. Bottom(stack', k) = b
    <3>1. \A j \in 1 .. k - 1 : stack'[j] = stack[j]
      BY <1>5, <2>2
    <3>2. QED
      BY <2>2, <3>1, BottomKept
  <2>12. \A i \in 1 .. k - 1 :
           stack'[i].fn = "lex_string" => StringCovered(stack', tokens', pos', i)
    <3>1. PICK l \in Nat : l = k - 1 /\ l < k /\ l < n
      BY <2>2
    <3>2. \A j \in 1 .. l : stack'[j] = stack[j]
      BY <1>5, <2>2, <3>1
    <3>3. QED
      BY <1>1, <1>3, <1>5, <1>6, <2>1, <2>2, <3>1, <3>2, StringsKept
  <2>13. stack'[k].fn = "lex_top" /\ Len(stack') = k
    BY <1>3, <1>5, <2>2 DEF Tops
  <2>14. \A i \in 1 .. k :
           stack'[i].fn = "lex_string" => StringCovered(stack', tokens', pos', i)
    <3>1. \A i \in 1 .. k : i \in 1 .. k - 1 \/ i = k
      BY <2>2
    <3>2. QED
      BY <2>12, <2>13, <3>1
  <2>15. Nest(found, 0, 0) /\ NetOf(found) = 0
    <3>1. CASE ~ s.hasInterp
      BY <1>8, <1>9, <3>1, NestSingle
    <3>2. CASE s.hasInterp
      <4>1. Nest(Written(s), 1, 0) /\ NetOf(Written(s)) = 0
        BY <1>1, <1>3, <1>4, <2>3 DEF StringCovered
      <4>2. Nest(Written(s) \o <<frag, end>>, 0, 0) /\ NetOf(Written(s) \o <<frag, end>>) = 0
        BY <1>3, <1>8, <4>1, WrittenFacts, NestFragment
      <4>3. Written(s) = <<begin>> \o s.buf
        BY DEF Written, begin
      <4>4. QED
        BY <1>9, <3>2, <4>2, <4>3
    <3>3. QED
      BY <3>1, <3>2
  <2>16. Nests(tokens', stack'[k].depth)
    <3>1. PICK zero \in Nat : zero = 0 /\ Nest(tokens, zero, zero) /\ Nest(found, zero, zero)
      BY <2>4, <2>15 DEF Nests
    <3>2. /\ Nest(tokens \o found, zero + zero, zero + zero)
          /\ NetOf(tokens \o found) = NetOf(tokens) + NetOf(found)
      BY <1>6, <1>10, <3>1, NestConcat
    <3>3. NetOf(tokens) = stack[k].depth /\ stack[k].depth \in Int /\ stack'[k] = stack[k]
      <4>1. k \in 1 .. n - 1 /\ stack[k] \in Tops
        BY <1>3, <2>2
      <4>2. QED
        BY <1>5, <2>4, <4>1 DEF Tops, Nests
    <3>4. QED
      BY <1>2, <2>15, <3>1, <3>2, <3>3 DEF Nests
  <2>17. QED
    BY <2>10, <2>11, <2>13, <2>14, <2>16 DEF Covered
<1>14. QED
  BY <1>2, <1>12, <1>13, CoverStep

LEMMA OpenInterpStep == ASSUME CoverInv, OpenInterp PROVE CoverInv'
<1> DEFINE frag == Fragment(pos)
           open == Mark("InterpOpen", pos, pos + 2)
<1>1. PICK n, r, s, top, two :
        /\ n = Len(stack) /\ r = Running /\ top = LexTop(TRUE, 0)
        /\ two = <<frag, open>>
        /\ s = [r EXCEPT !.hasInterp = TRUE, !.lit = <<>>, !.saved = tokens, !.buf = @ \o two]
  OBVIOUS
<1>2. /\ stage = "lex" /\ r.fn = "lex_string" /\ At(pos, <<"$", "{">>)
      /\ stack' = Append(Append(Front(stack), s), top) /\ tokens' = <<>> /\ pos' = pos + 2
      /\ errors' = errors /\ text' = text /\ stage' = stage /\ LexNext
  BY <1>1 DEF OpenInterp, InStr, Lexing, Advance, LexNext, Callers
<1>3. /\ n \in Nat \ {0} /\ n > 1 /\ stack \in Seq(Acts) /\ stack # <<>> /\ r \in Strings
      /\ r = stack[n] /\ pos \in Nat /\ End \in Nat /\ pos \in 1 .. End /\ Position
      /\ n \in 1 .. Len(stack) /\ stack[n].fn = "lex_string"
  BY <1>1, <1>2, RunningFacts
<1>4. pos < End
  <2>1. pos \in 1 .. Len(text) - 1
    BY <1>2, <1>3, AtFacts
  <2>2. QED
    BY <1>3, <2>1, TextFacts
<1>5. tokens \in Seq(TokenSet) /\ stack[1] \in Tops /\ ~ stack[1].inside
  BY <1>2 DEF CoverInv, ShapeInv
<1>6. /\ r.start \in Nat /\ r.lit \in Seq(Chars) /\ r.litStart \in Nat /\ r.buf \in Seq(TokenSet)
      /\ r.start + 1 \in Nat /\ pos + 2 \in Nat
  BY <1>3 DEF Strings
<1>7. /\ frag \in TokenSet /\ frag.from = r.litStart /\ frag.to = pos /\ frag.v = r.lit
      /\ frag.t = "StrLit"
      /\ open \in TokenSet /\ open.from = pos /\ open.to = pos + 2 /\ open.t = "InterpOpen"
  BY <1>1, <1>3, <1>6 DEF Mark, Token, Fragment, TokenSet, OfStrings
<1> HIDE DEF frag, open
<1>8. two \in Seq(TokenSet) /\ r.buf \o two \in Seq(TokenSet)
  BY <1>1, <1>6, <1>7
<1>9. /\ s \in Strings /\ s \in Acts /\ s.fn = "lex_string" /\ s.start = r.start
      /\ s.buf = r.buf \o two /\ s.lit = <<>> /\ s.saved = tokens
  <2>1. s.buf = r.buf \o two /\ s.lit = <<>> /\ s.saved = tokens /\ s.start = r.start /\ s.fn = r.fn
    BY <1>1, <1>3 DEF Strings
  <2>2. <<>> \in Seq(Chars)
    OBVIOUS
  <2>3. s \in Strings
    BY <1>1, <1>3, <1>5, <1>8, <2>2 DEF Strings
  <2>4. QED
    BY <1>2, <2>1, <2>3 DEF Acts
<1>10. top \in Tops /\ top \in Acts /\ top.fn = "lex_top"
  BY <1>1 DEF LexTop, Tops, Acts
<1>11. /\ stack' \in Seq(Acts) /\ Len(stack') = n + 1 /\ stack'[n] = s /\ stack'[n + 1] = top
       /\ \A i \in 1 .. n - 1 : stack'[i] = stack[i]
  <2>1. PICK mid : mid = Append(Front(stack), s) /\ stack' = Append(mid, top)
    BY <1>2
  <2>2. /\ mid \in Seq(Acts) /\ Len(mid) = n /\ mid[n] = s
        /\ \A i \in 1 .. n - 1 : mid[i] = stack[i]
    <3>1. n = Len(stack) /\ stack \in Seq(Acts) /\ stack # <<>> /\ s \in Acts /\ n \in Nat \ {0}
      BY <1>1, <1>3, <1>9
    <3>2. mid = Append(Front(stack), s)
      BY <2>1
    <3>3. QED
      BY <3>1, <3>2, ReplaceFacts
  <2>3. /\ stack' \in Seq(Acts) /\ Len(stack') = n + 1 /\ stack'[n + 1] = top
        /\ \A i \in 1 .. n : stack'[i] = mid[i]
    BY <1>3, <1>10, <2>1, <2>2, PushFacts
  <2>4. n \in 1 .. n /\ \A i \in 1 .. n - 1 : i \in 1 .. n
    BY <1>3
  <2>5. QED
    BY <2>2, <2>3, <2>4
<1>12. ShapeInv'
  <2>1. PICK m \in Nat : /\ m = n + 1 /\ n \in Nat /\ n <= n /\ m > 0 /\ n > 0 /\ 1 \in 1 .. n - 1
                         /\ \A i \in 1 .. n : i \in 1 .. n - 1 \/ i = n
    BY <1>3
  <2>2. \A i \in 1 .. n : stack'[i].fn = stack[i].fn
    BY <1>2, <1>3, <1>9, <1>11, <2>1
  <2>3. tokens' \in Seq(TokenSet)
    <3>1. <<>> \in Seq(TokenSet)
      OBVIOUS
    <3>2. QED
      BY <1>2, <3>1
  <2>4. stack'[m].fn # stack[n].fn
    BY <1>2, <1>3, <1>10, <1>11, <2>1
  <2>5. QED
    BY <1>1, <1>2, <1>5, <1>11, <2>1, <2>2, <2>3, <2>4, ShapeStep
<1>13. ASSUME errors = <<>> PROVE Covered(stack', tokens', pos')
  <2>1. Covered(stack, tokens, pos)
    BY <1>2, <1>13 DEF CoverInv
  <2>2. PICK k \in Nat, m \in Nat :
          k = n - 1 /\ k < n /\ n \in Nat /\ k >= 1 /\ m = n + 1 /\ k < m /\ n < m /\ m >= 1
    BY <1>3
  <2>3. StringCovered(stack, tokens, pos, n)
    BY <1>3, <2>1 DEF Covered
  <2>4. /\ Chained(r.buf, r.start + 1) /\ r.litStart = EndOf(r.buf, r.start + 1)
        /\ r.litStart + Len(r.lit) <= pos
        /\ Nest(Written(r), 1, 0) /\ NetOf(Written(r)) = 0
    BY <1>1, <1>3, <1>4, <2>3 DEF StringCovered
  <2>5. Len(r.lit) <= pos - r.litStart
    <3>1. Len(r.lit) \in Nat
      BY <1>6
    <3>2. QED
      BY <1>3, <1>6, <2>4, <3>1
  <2>6. Follows(frag, EndOf(r.buf, r.start + 1))
    BY <1>6, <1>7, <2>4, <2>5, LayoutNone DEF Follows
  <2>7. Follows(open, frag.to)
    BY <1>3, <1>7, LayoutNone DEF Follows
  <2>8. /\ Chained(two, EndOf(r.buf, r.start + 1))
        /\ EndOf(two, EndOf(r.buf, r.start + 1)) = pos + 2
    <3>1. PICK e \in Nat : e = EndOf(r.buf, r.start + 1)
      BY <1>6, <2>4
    <3>2. QED
      BY <1>1, <1>7, <2>6, <2>7, <3>1, ChainedTwo
  <2>9. Chained(s.buf, s.start + 1) /\ EndOf(s.buf, s.start + 1) = pos + 2
    BY <1>6, <1>8, <1>9, <2>4, <2>8, ChainedConcat
  <2>10. Bottom(stack', k) = Bottom(stack, k)
    <3>1. \A j \in 1 .. k - 1 : stack'[j] = stack[j]
      BY <1>11, <2>2
    <3>2. QED
      BY <2>2, <3>1, BottomKept
  <2>11. StringCovered(stack', tokens', pos', n)
    <3>1. Below(stack', tokens', n) = tokens /\ Below(stack, tokens, n) = tokens
      BY <1>1, <1>9, <1>11, <2>2 DEF Below
    <3>2. Cover(tokens, Bottom(stack', n - 1), stack'[n].start)
      BY <1>3, <1>9, <1>11, <2>2, <2>3, <2>10, <3>1 DEF StringCovered
    <3>3. n # Len(stack')
      BY <1>11, <2>2
    <3>4. Nests(tokens, stack'[n - 1].depth)
      <4>1. n - 1 \in 1 .. n - 1
        BY <1>3
      <4>2. stack'[n - 1] = stack[n - 1]
        BY <1>11, <4>1
      <4>3. QED
        BY <2>3, <3>1, <4>2 DEF StringCovered
    <3>5. Awaits(Written(s))
      <4>1. Awaits(Written(r) \o two)
        BY <1>1, <1>3, <1>7, <2>4, WrittenFacts, NestFragment
      <4>2. Written(s) = Written(r) \o two
        BY <1>3, <1>8, <1>9, WrittenMore
      <4>3. QED
        BY <4>1, <4>2
    <3>6. QED
      BY <1>9, <1>11, <2>9, <3>1, <3>2, <3>3, <3>4, <3>5 DEF StringCovered
  <2>12. \A i \in 1 .. k :
           stack'[i].fn = "lex_string" => StringCovered(stack', tokens', pos', i)
    BY <1>1, <1>3, <1>5, <1>11, <2>1, <2>2, StringsKept
  <2>13. \A i \in 1 .. m :
           stack'[i].fn = "lex_string" => StringCovered(stack', tokens', pos', i)
    <3>1. \A i \in 1 .. m : i \in 1 .. k \/ i = n \/ i = m
      BY <2>2
    <3>2. QED
      BY <1>10, <1>11, <2>2, <2>11, <2>12, <3>1
  <2>14. Bottom(stack', m) = pos'
    <3>1. m # 1 /\ m - 1 = n
      BY <1>3, <2>2
    <3>2. QED
      BY <1>2, <1>11, <2>9, <3>1 DEF Bottom
  <2>15. Cover(tokens', Bottom(stack', m), pos')
    BY <1>2, <1>6, <2>14, ChainedNone, LayoutNone DEF Cover
  <2>16. Nests(tokens', top.depth)
    BY <1>1, <1>2, NestNone DEF Nests, LexTop
  <2>17. QED
    BY <1>11, <2>2, <2>13, <2>15, <2>16 DEF Covered
<1>14. QED
  BY <1>2, <1>12, <1>13, CoverStep

(* What a lex_top returns at the brace that closes its interpolation.      *)
Returned(found) ==
  \E toks \in Seq(TokenSet), close \in TokenSet :
    found = Append(toks, close) /\ close.t = "InterpClose" /\ Nests(toks, 0)

(* lex_top goes back to lex_string with what it found.                     *)
LEMMA ResumeStep ==
  ASSUME CoverInv, LexNext, stage = "lex", Running.fn = "lex_top", NEW n, n = Len(stack), n > 1,
         NEW found \in Seq(TokenSet), NEW p \in Nat, pos' = p,
         stack' = Resumed(found, p), tokens' = Last(Callers).saved,
         UNCHANGED <<errors, text, stage>>,
         errors = <<>> /\ p < End =>
           /\ Chained(found, Bottom(stack, n)) /\ EndOf(found, Bottom(stack, n)) = p
           /\ Returned(found)
  PROVE  CoverInv'
<1>1. /\ n \in Nat \ {0} /\ stack \in Seq(Acts) /\ stack # <<>>
      /\ stack[n - 1] \in Strings /\ Bottom(stack, n) \in Nat
  BY RunningFacts
<1>2. PICK k \in Nat : /\ k = n - 1 /\ k >= 1 /\ k <= n /\ k < n /\ k + 1 = n /\ n \in Nat
                       /\ k \in 1 .. n - 1 /\ 1 \in 1 .. n - 1 /\ k # k + 1
                       /\ \A i \in 1 .. k : i \in 1 .. k - 1 \/ i = k
  BY <1>1
<1>3. PICK cs : /\ cs = Callers /\ cs \in Seq(Acts) /\ Len(cs) = k
                /\ \A i \in 1 .. k : cs[i] = stack[i]
  <2>1. /\ Front(stack) \in Seq(Acts) /\ Len(Front(stack)) = n - 1
        /\ \A i \in 1 .. n - 1 : Front(stack)[i] = stack[i]
    BY <1>1, FrontFacts
  <2>2. QED
    BY <1>2, <2>1 DEF Callers
<1>4. cs # <<>> /\ Last(cs) = stack[k]
  BY <1>2, <1>3 DEF Last
<1>5. PICK r, s :
        /\ r \in Strings /\ r = stack[k]
        /\ s = [r EXCEPT !.buf = @ \o found, !.litStart = p, !.saved = <<>>]
  BY <1>1, <1>2
<1>6. tokens' = r.saved /\ stack' = Append(Front(cs), s)
  BY <1>3, <1>4, <1>5 DEF Resumed
<1>7. /\ r.start \in Nat /\ r.lit \in Seq(Chars) /\ r.buf \in Seq(TokenSet)
      /\ r.saved \in Seq(TokenSet) /\ r.start + 1 \in Nat /\ r.fn = "lex_string"
  BY <1>5 DEF Strings
<1>8. /\ s \in Strings /\ s \in Acts /\ s.fn = "lex_string" /\ s.start = r.start
      /\ s.buf = r.buf \o found /\ s.lit = r.lit /\ s.litStart = p
  <2>1. r.buf \o found \in Seq(TokenSet) /\ <<>> \in Seq(TokenSet)
    BY <1>7
  <2>2. /\ s.buf = r.buf \o found /\ s.lit = r.lit /\ s.litStart = p
        /\ s.start = r.start /\ s.fn = r.fn
    BY <1>5 DEF Strings
  <2>3. s \in Strings
    BY <1>5, <2>1 DEF Strings
  <2>4. QED
    BY <1>7, <2>2, <2>3 DEF Acts
<1>9. /\ stack' \in Seq(Acts) /\ Len(stack') = k /\ stack'[k] = s
      /\ \A i \in 1 .. k - 1 : stack'[i] = stack[i]
  <2>1. /\ stack' \in Seq(Acts) /\ Len(stack') = k /\ stack'[k] = s
        /\ \A i \in 1 .. k - 1 : stack'[i] = cs[i]
    <3>1. k = Len(cs) /\ cs \in Seq(Acts) /\ cs # <<>> /\ s \in Acts
      BY <1>3, <1>4, <1>8
    <3>2. stack' = Append(Front(cs), s)
      BY <1>6
    <3>3. QED
      <4>1. k \in Nat \ {0}
        BY <1>2
      <4>2. stack' \in Seq(Acts)
        BY <3>1, <3>2, <4>1, ReplacedFacts
      <4>3. Len(stack') = k
        BY <3>1, <3>2, <4>1, ReplacedFacts, SMTT(30)
      <4>4. stack'[k] = s
        BY <3>1, <3>2, <4>1, ReplacedFacts, SMTT(30)
      <4>5. \A i \in 1 .. k - 1 : stack'[i] = cs[i]
        <5>1. ASSUME NEW i \in 1 .. k - 1 PROVE stack'[i] = cs[i]
          <6>1. PICK m \in Nat : m = k /\ m = Len(cs) /\ i \in 1 .. m - 1
            BY <3>1, <4>1
          <6>2. QED
            BY <3>1, <3>2, <6>1, ReplacedBefore
        <5>2. QED
          BY <5>1
      <4>6. QED
        BY <4>2, <4>3, <4>4, <4>5
  <2>2. \A i \in 1 .. k - 1 : i \in 1 .. k
    OBVIOUS
  <2>3. QED
    BY <1>3, <2>1, <2>2
<1>10. stack[1] \in Tops /\ ~ stack[1].inside
  BY DEF CoverInv, ShapeInv
<1>11. k > 1 /\ 1 \in 1 .. k - 1
  BY <1>2, <1>5, <1>7, <1>10 DEF Tops
<1>12. ShapeInv'
  <2>1. \A i \in 1 .. k : stack'[i].fn = stack[i].fn
    BY <1>2, <1>5, <1>7, <1>8, <1>9
  <2>2. stage' \in {"lex", "parse", "refused", "panicked"} /\ k > 0
    BY <1>2
  <2>3. stack'[1] \in Tops /\ ~ stack'[1].inside
    BY <1>9, <1>10, <1>11
  <2>4. tokens' \in Seq(TokenSet)
    BY <1>6, <1>7
  <2>5. QED
    BY <1>2, <1>9, <2>1, <2>2, <2>3, <2>4, ShapeStep
<1>13. ASSUME errors = <<>> PROVE Covered(stack', tokens', pos')
  <2>1. Covered(stack, tokens, pos)
    BY <1>13 DEF CoverInv
  <2>2. StringCovered(stack, tokens, pos, k)
    <3>1. k \in 1 .. Len(stack)
      BY <1>2
    <3>2. QED
      BY <1>5, <1>7, <2>1, <3>1 DEF Covered
  <2>3. Cover(r.saved, Bottom(stack, k - 1), r.start)
    BY <1>2, <1>5, <2>2 DEF StringCovered, Below
  <2>4. Chained(r.buf, r.start + 1) /\ r.lit = <<>> /\ Awaits(Written(r))
    BY <1>2, <1>5, <2>2 DEF StringCovered
  <2>5. Bottom(stack, n) = EndOf(r.buf, r.start + 1)
    BY <1>2, <1>5 DEF Bottom
  <2>6. p < End => Chained(s.buf, s.start + 1) /\ EndOf(s.buf, s.start + 1) = p
    BY <1>7, <1>8, <1>13, <2>4, <2>5, ChainedConcat
  <2>7. Bottom(stack', k - 1) = Bottom(stack, k - 1)
    <3>1. PICK l \in Nat : l = k - 1 /\ l >= 1
      BY <1>11
    <3>2. \A j \in 1 .. l - 1 : stack'[j] = stack[j]
      BY <1>9, <3>1
    <3>3. QED
      BY <3>1, <3>2, BottomKept
  <2>8. Below(stack', tokens', k) = r.saved /\ ~ (k < Len(stack')) /\ p + Len(<<>>) <= p
    BY <1>6, <1>9 DEF Below
  <2>9. StringCovered(stack', tokens', pos', k)
    <3>1. ASSUME p < End PROVE Nest(Written(s), 1, 0) /\ NetOf(Written(s)) = 0
      <4>1. PICK toks \in Seq(TokenSet), close \in TokenSet :
              /\ found = Append(toks, close) /\ close.t = "InterpClose"
              /\ Nest(toks, 0, 0) /\ NetOf(toks) = 0
        BY <1>13, <3>1 DEF Nests, Returned
      <4>2. Nest(Written(r) \o found, 1, 0) /\ NetOf(Written(r) \o found) = 0
        BY <1>5, <2>4, <4>1, WrittenFacts, NestInterp
      <4>3. Written(s) = Written(r) \o found
        BY <1>5, <1>8, WrittenMore
      <4>4. QED
        BY <4>2, <4>3
    <3>2. Nests(r.saved, stack'[k - 1].depth)
      <4>1. Nests(r.saved, stack[k - 1].depth)
        BY <1>2, <1>5, <2>2 DEF StringCovered, Below
      <4>2. k - 1 \in 1 .. k - 1
        BY <1>2, <1>11
      <4>3. stack'[k - 1] = stack[k - 1]
        BY <1>9, <4>2
      <4>4. QED
        BY <4>1, <4>3
    <3>3. QED
      BY <1>8, <1>9, <2>3, <2>4, <2>6, <2>7, <2>8, <3>1, <3>2 DEF StringCovered
  <2>10. \A i \in 1 .. k - 1 :
           stack'[i].fn = "lex_string" => StringCovered(stack', tokens', pos', i)
    <3>1. PICK l \in Nat : l = k - 1 /\ l < k /\ l < n
      <4>1. k - 1 \in Nat /\ k - 1 < k /\ k - 1 < n
        BY <1>2, <1>11
      <4>2. QED
        BY <4>1
    <3>2. QED
      BY <1>1, <1>2, <1>9, <1>10, <2>1, <3>1, StringsKept
  <2>11. \A i \in 1 .. k :
           stack'[i].fn = "lex_string" => StringCovered(stack', tokens', pos', i)
    BY <1>2, <2>9, <2>10
  <2>12. QED
    BY <1>8, <1>9, <2>11 DEF Covered
<1>14. QED
  BY <1>12, <1>13, CoverStep

LEMMA InsideIsNotBottom ==
  ASSUME CoverInv, stage = "lex", NEW n, n = Len(stack)
  PROVE  n = 1 => ~ Running.inside
BY RunningFacts DEF CoverInv, ShapeInv

LEMMA CallersFacts ==
  ASSUME CoverInv, stage = "lex", NEW n, n = Len(stack)
  PROVE  Callers = <<>> <=> n = 1
BY RunningFacts, FrontFacts DEF Callers

LEMMA CloseInterpStep == ASSUME CoverInv, CloseInterp PROVE CoverInv'
<1>1. PICK n, close, found :
        /\ n = Len(stack) /\ close = Mark("InterpClose", pos, pos + 1)
        /\ found = Append(tokens, close)
  OBVIOUS
<1>2. /\ stage = "lex" /\ Running.fn = "lex_top" /\ Running.inside /\ pos' = pos + 1
      /\ ReturnFromTop(found, pos + 1)
      /\ errors' = errors /\ text' = text /\ LexNext
  BY <1>1 DEF CloseInterp, AtToken, Closes, InTop, Lexing, LexNext
<1>3. /\ n \in Nat \ {0} /\ n > 1 /\ pos \in Nat /\ pos + 1 \in Nat /\ Bottom(stack, n) \in Nat
      /\ n \in 1 .. n /\ stack[n].fn = "lex_top"
  BY <1>1, <1>2, RunningFacts, InsideIsNotBottom
<1>4. Callers # <<>>
  BY <1>1, <1>2, <1>3, CallersFacts
<1>5. stack' = Resumed(found, pos + 1) /\ tokens' = Last(Callers).saved /\ stage' = stage
  BY <1>2, <1>4 DEF ReturnFromTop
<1>6. tokens \in Seq(TokenSet)
  BY DEF CoverInv, ShapeInv
<1>7. /\ close \in TokenSet /\ close.from = pos /\ close.to = pos + 1 /\ close.t = "InterpClose"
  BY <1>1, <1>3 DEF Mark, Token, TokenSet, OfStrings
<1>8. found \in Seq(TokenSet)
  BY <1>1, <1>6, <1>7
<1>9. ASSUME errors = <<>>
      PROVE  /\ Chained(found, Bottom(stack, n)) /\ EndOf(found, Bottom(stack, n)) = pos + 1
             /\ Returned(found)
  <2>1. Covered(stack, tokens, pos)
    BY <1>2, <1>9 DEF CoverInv
  <2>2. Cover(tokens, Bottom(stack, n), pos) /\ Nests(tokens, stack[n].depth)
    BY <1>1, <1>3, <2>1 DEF Covered
  <2>3. Follows(close, EndOf(tokens, Bottom(stack, n)))
    BY <1>7, <2>2 DEF Cover, Follows
  <2>4. Nests(tokens, 0)
    BY <1>1, <1>2, <2>2, RunningFacts DEF CloseInterp, Closes
  <2>5. Chained(found, Bottom(stack, n)) /\ EndOf(found, Bottom(stack, n)) = pos + 1
    BY <1>1, <1>3, <1>6, <1>7, <2>2, <2>3, ChainedAppend DEF Cover
  <2>6. QED
    BY <1>1, <1>6, <1>7, <2>4, <2>5 DEF Returned
<1>10. QED
  BY <1>1, <1>2, <1>3, <1>5, <1>8, <1>9, ResumeStep

LEMMA EndOfInputStep == ASSUME CoverInv, EndOfInput PROVE CoverInv'
<1>1. PICK n : n = Len(stack)
  OBVIOUS
<1>2. /\ stage = "lex" /\ Running.fn = "lex_top" /\ pos' = pos /\ pos = End
      /\ ReturnFromTop(tokens, pos)
      /\ errors' = errors /\ text' = text /\ LexNext
  BY DEF EndOfInput, Lexing, LexNext
<1>3. /\ n \in Nat \ {0} /\ pos \in Nat /\ n \in 1 .. n /\ stack[n].fn = "lex_top"
      /\ Bottom(stack, n) \in Nat
  BY <1>1, <1>2, RunningFacts
<1>4. tokens \in Seq(TokenSet) /\ errors \in Seq(Int \X Int)
  BY DEF CoverInv, ShapeInv
<1>5. CASE Callers = <<>>
  <2>1. /\ stack' = <<>> /\ tokens' = tokens /\ stage' \in {"parse", "refused"}
        /\ stage' = "parse" => errors = <<>>
    BY <1>2, <1>5 DEF ReturnFromTop
  <2>2. ShapeInv'
    <3>1. <<>> \in Seq(Tops \cup Strings) /\ Alternate(<<>>)
      BY DEF Alternate
    <3>2. Alternate(stack)'
      BY <2>1, <3>1 DEF Alternate
    <3>3. QED
      BY <1>2, <1>4, <2>1, <3>1, <3>2 DEF ShapeInv
  <2>3. n = 1
    BY <1>1, <1>2, <1>5, CallersFacts
  <2>4. ASSUME errors = <<>> PROVE Cover(tokens, 1, End) /\ Nest(tokens, 0, 0)
    <3>1. Covered(stack, tokens, pos)
      BY <1>2, <2>4 DEF CoverInv
    <3>2. Cover(tokens, Bottom(stack, n), pos) /\ Nests(tokens, stack[n].depth)
      BY <1>1, <1>3, <3>1 DEF Covered
    <3>3. QED
      BY <1>2, <2>3, <3>2 DEF Bottom, Nests
  <2>5. QED
    BY <1>2, <2>1, <2>2, <2>4, CoverStep
<1>6. CASE Callers # <<>>
  <2>1. stack' = Resumed(tokens, pos) /\ tokens' = Last(Callers).saved /\ stage' = stage
    BY <1>2, <1>6 DEF ReturnFromTop
  <2>2. n > 1 /\ ~ (pos < End)
    BY <1>1, <1>2, <1>3, <1>6, CallersFacts
  <2>3. QED
    BY <1>1, <1>2, <1>3, <1>4, <2>1, <2>2, ResumeStep
<1>7. QED
  BY <1>5, <1>6

LEMMA GiveUpStep ==
  ASSUME CoverInv, LexNext, InStr, NEW from \in Int, NEW to \in Int, GiveUp(from, to)
  PROVE  CoverInv'
<1>1. /\ Lexing /\ Running.fn = "lex_string" /\ text' = text /\ stage' = stage
      /\ tokens' = tokens /\ errors' = Append(errors, <<from, to>>) /\ stack' = Callers
  BY DEF InStr, GiveUp, Fail, Advance
<1>2. QED
  BY <1>1, FailStep

LEMMA StepCoverInv == CoverInv /\ [LexNext]_lexVars => CoverInv'
<1> SUFFICES ASSUME CoverInv, [LexNext]_lexVars PROVE CoverInv'
  OBVIOUS
<1>1. CASE UNCHANGED lexVars
  <2>1. CutInv'
    BY StepCutInv DEF CoverInv
  <2>2. ShapeInv'
    BY <1>1 DEF lexVars, CoverInv, ShapeInv, Alternate
  <2>3. /\ Covered(stack, tokens, pos)' <=> Covered(stack, tokens, pos)
        /\ Cover(tokens, 1, End)' <=> Cover(tokens, 1, End)
        /\ Nest(tokens, 0, 0)' <=> Nest(tokens, 0, 0)
    BY <1>1, CoveredSame DEF lexVars
  <2>4. QED
    BY <1>1, <2>1, <2>2, <2>3 DEF lexVars, CoverInv
<1>2. CASE LexNext
  <2>1. /\ Position
        /\ Lexing => pos \in Nat /\ pos \in 1 .. End /\ End \in Nat
        /\ Lexing /\ pos < End => pos \in 1 .. Len(text)
    <3>1. Position
      BY DEF CoverInv, CutInv
    <3>2. QED
      BY <3>1, TextFacts DEF Position, Lexing
  <2>2. CASE SkipBlank
    <3>1. /\ Lexing /\ Running.fn = "lex_top" /\ UNCHANGED <<text, stage, tokens, errors, stack>>
          /\ pos' = pos + 1 /\ text[pos] \in Blank
      BY <2>2 DEF SkipBlank, InTop, Advance
    <3>2. pos' \in Nat /\ pos < pos' /\ IsGap(pos, pos')
      BY <2>1, <3>1 DEF IsGap
    <3>3. QED
      BY <1>2, <3>1, <3>2, SkipStep
  <2>3. CASE SkipComment
    <3>1. /\ Lexing /\ Running.fn = "lex_top" /\ UNCHANGED <<text, stage, tokens, errors, stack>>
          /\ pos' = (IF Find(pos, <<"\n">>) = End THEN End ELSE Find(pos, <<"\n">>) + 1)
          /\ At(pos, <<"/", "/">>)
      BY <2>3 DEF SkipComment, InTop, Advance
    <3>2. pos' \in Nat /\ pos < pos' /\ IsGap(pos, pos')
      BY <2>1, <3>1, CommentGap
    <3>3. QED
      BY <1>2, <3>1, <3>2, SkipStep
  <2>4. CASE BlockComment
    <3>1. PICK close :
            /\ close = Find(pos + 2, <<"*", "/">>) /\ At(pos, <<"/", "*">>)
            /\ Lexing /\ Running.fn = "lex_top" /\ stack' = stack /\ text' = text /\ stage' = stage
            /\ tokens' = tokens
            /\ \/ close # End /\ pos' = close + 2 /\ errors' = errors
               \/ errors' = Append(errors, <<pos, End>>)
      BY <2>4 DEF BlockComment, InTop, Advance, Fail
    <3>2. CASE close # End /\ pos' = close + 2 /\ errors' = errors
      <4>1. pos' \in Nat /\ pos < pos' /\ IsGap(pos, pos')
        BY <2>1, <3>1, <3>2, BlockGap
      <4>2. QED
        BY <1>2, <3>1, <3>2, <4>1, SkipStep
    <3>3. CASE errors' = Append(errors, <<pos, End>>)
      <4>1. pos \in Int /\ End \in Int
        BY <2>1, <3>1
      <4>2. QED
        BY <1>2, <3>1, <3>3, <4>1, FailStep
    <3>4. QED
      BY <3>1, <3>2, <3>3
  <2>5. CASE BadCharacter
    <3>1. /\ Lexing /\ Running.fn = "lex_top" /\ stack' = stack /\ text' = text /\ stage' = stage
          /\ tokens' = tokens /\ errors' = Append(errors, <<pos, pos + Width(pos)>>)
      BY <2>5 DEF BadCharacter, AtToken, InTop, Advance, Fail
    <3>2. pos \in Int /\ pos + Width(pos) \in Int
      BY <2>1, <3>1 DEF Width
    <3>3. QED
      BY <1>2, <3>1, <3>2, FailStep
  <2>6. CASE Unterminated
    <3>1. InStr /\ GiveUp(Running.start, End) /\ End \in Int /\ Running.start \in Int
      <4>1. stage = "lex" /\ Running.fn = "lex_string"
        BY <2>6 DEF Unterminated, InStr, Lexing
      <4>2. Running \in Strings
        BY <4>1, RunningFacts
      <4>3. QED
        BY <2>1, <2>6, <4>2 DEF Strings, Unterminated, InStr
    <3>2. QED
      BY <1>2, <3>1, GiveUpStep
  <2>7. CASE BadEscape
    <3>1. InStr /\ (GiveUp(pos, End) \/ GiveUp(pos, pos + 2)) /\ pos \in Int /\ End \in Int
      BY <2>1, <2>7 DEF BadEscape, InStr
    <3>2. QED
      BY <1>2, <3>1, GiveUpStep
  <2>8. CASE Escape
    <3>1. InStr /\ text[pos + 1] \in DOMAIN Escapes /\ pos \in Nat
          /\ AddToLiteral(Escapes[text[pos + 1]], pos + 2)
      BY <2>1, <2>8 DEF Escape, InStr
    <3>2. Escapes[text[pos + 1]] \in Chars
      BY <3>1 DEF Chars
    <3>3. pos + 2 \in Nat /\ pos < pos + 2
      BY <3>1
    <3>4. QED
      BY <1>2, <3>1, <3>2, <3>3, LiteralStep
  <2>9. CASE UnicodeEscape
    <3>1. InStr /\ pos \in Nat /\ End \in Nat /\ pos \in 1 .. End
      BY <2>1, <2>9 DEF UnicodeEscape, AtUnicode, InStr
    <3>2. CASE GiveUp(pos, End) \/ GiveUp(pos, pos + 6)
      BY <1>2, <3>1, <3>2, GiveUpStep
    <3>3. CASE ~ (pos + 6 > End) /\ AddToLiteral(Code, pos + 6)
      <4>1. Code \in Seq(STRING)
        <5>1. text \in Seq(STRING) /\ End = Len(text) + 1 /\ Len(text) \in Nat
          BY <2>1, TextFacts
        <5>2. pos + 2 \in 1 .. Len(text) /\ pos + 5 \in 1 .. Len(text)
          BY <3>1, <3>3, <5>1
        <5>3. QED
          BY <5>1, <5>2 DEF Code
      <4>2. Code \in Chars
        BY <4>1 DEF Chars
      <4>3. pos + 6 \in Nat /\ pos < pos + 6
        BY <3>1
      <4>4. QED
        BY <1>2, <3>1, <3>3, <4>2, <4>3, LiteralStep
    <3>4. QED
      BY <2>9, <3>2, <3>3 DEF UnicodeEscape
  <2>10. CASE StringCharacter
    <3>1. InStr /\ pos \in Nat /\ pos \in 1 .. Len(text)
          /\ AddToLiteral(text[pos], pos + Width(pos))
      BY <2>1, <2>10 DEF StringCharacter, AtPlainCharacter, InStr
    <3>2. text[pos] \in Chars
      BY <2>1, <3>1, TextChars
    <3>3. pos + Width(pos) \in Nat /\ pos < pos + Width(pos)
      BY <3>1 DEF Width
    <3>4. QED
      BY <1>2, <3>1, <3>2, <3>3, LiteralStep
  <2>11. CASE SliceInsideACharacter
    <3>1. /\ stage' = "panicked" /\ UNCHANGED <<text, pos, tokens, errors, stack>>
      BY <2>11 DEF SliceInsideACharacter
    <3>2. ShapeInv'
      BY <3>1 DEF CoverInv, ShapeInv, Alternate
    <3>3. QED
      BY <1>2, <3>1, <3>2, CoverStep
  <2>12. QED
    BY <1>2, <2>2, <2>3, <2>4, <2>5, <2>6, <2>7, <2>8, <2>9, <2>10, <2>11, OpenStringStep,
       CloseInterpStep, EndOfInputStep, OneTokenStep, CloseStringStep, OpenInterpStep
    DEF LexNext
<1>3. QED
  BY <1>1, <1>2

(* A text that is lexed without an error is covered by its tokens: they    *)
(* stand in its order and leave out nothing but layout, whatever strings   *)
(* and interpolations nest in it (lexer.rs:374-382).                       *)
THEOREM TokensCoverTheTextCorrect == LexSpec => []TokensCoverTheText
<1>1. CoverInv => TokensCoverTheText
  BY DEF CoverInv, ShapeInv, TokensCoverTheText, Lexed
<1>2. QED
  BY <1>1, InitCoverInv, StepCoverInv, PTL DEF LexSpec

(* The tokens of a text that is lexed without an error nest: fragments     *)
(* stand in strings, everything else in interpolations or outside, and the *)
(* brace that ends an interpolation is none that a bracket inside it       *)
(* opened (lexer.rs:194-197).                                              *)
THEOREM StringsNestCorrect == LexSpec => []StringsNest
<1>1. CoverInv => StringsNest
  <2> SUFFICES ASSUME CoverInv, Lexed PROVE StringsNest
    BY DEF StringsNest
  <2>1. Nest(tokens, 0, 0)
    BY DEF CoverInv, ShapeInv, Lexed
  <2>2. QED
    BY <2>1 DEF Nest, StringsNest
<1>2. QED
  BY <1>1, InitCoverInv, StepCoverInv, PTL DEF LexSpec

-----------------------------------------------------------------------------
(* A step has less left to do that opens fewer activations than twice the  *)
(* bytes it takes; if it takes none it has to end one.                     *)
LEMMA LessArithmetic ==
  ASSUME NEW e \in Nat, NEW p \in Nat, NEW q \in Nat, NEW n \in Nat, NEW m \in Nat,
         p <= q, q <= e, m - n < 2 * (q - p)
  PROVE  2 * (e - q) + m \in Nat /\ 2 * (e - q) + m < 2 * (e - p) + n
<1>1. 2 * (e - q) + m < 2 * (e - p) + n
  OBVIOUS
<1>2. e - q \in Nat
  OBVIOUS
<1>3. 2 * (e - q) + m \in Nat
  BY <1>2
<1>4. QED
  BY <1>1, <1>3

LEMMA LessIsLeft ==
  ASSUME CoverInv, CoverInv', stage = "lex", text' = text,
         NEW n, n = Len(stack), NEW m, m = Len(stack'),
         pos' \in pos .. End, m - n < 2 * (pos' - pos)
  PROVE  Left' \in Nat /\ Left' < Left
<1>1. n \in Nat /\ pos \in Nat /\ End \in Nat
  BY RunningFacts
<1>2. m \in Nat
  BY DEF CoverInv, ShapeInv
<1>3. End' = End
  BY DEF End
<1>4. Left = 2 * (End - pos) + n /\ Left' = 2 * (End - pos') + m
  BY <1>3 DEF Left
<1>5. PICK p \in Nat : p = pos' /\ pos <= p /\ p <= End /\ m - n < 2 * (p - pos)
  BY <1>1
<1>6. 2 * (End - p) + m \in Nat /\ 2 * (End - p) + m < 2 * (End - pos) + n
  BY <1>1, <1>2, <1>5, LessArithmetic
<1>7. QED
  BY <1>4, <1>5, <1>6

LEMMA Lengths ==
  ASSUME NEW s \in Seq(Acts), s # <<>>, NEW n, n = Len(s), NEW x
  PROVE  /\ Front(s) \in Seq(Acts) /\ Len(Front(s)) = n - 1
         /\ Len(Append(Front(s), x)) = n /\ Len(Append(s, x)) = n + 1
<1>1. Front(s) \in Seq(Acts) /\ Len(Front(s)) = n - 1 /\ n \in Nat \ {0}
  BY FrontFacts
<1>2. \A f \in Seq(Acts) : Len(Append(f, x)) = Len(f) + 1
  OBVIOUS
<1>3. QED
  BY <1>1, <1>2

(* How far the steps of lex_top go.                                        *)
LEMMA CommentMoves ==
  ASSUME Position, stage = "lex", SkipComment \/ BlockComment
  PROVE  pos < pos'
<1>1. pos \in 1 .. End /\ pos \in Nat /\ End \in Nat /\ pos < End
  BY TextFacts DEF Position, SkipComment, BlockComment, InTop
<1>2. Find(pos, <<"\n">>) \in pos .. End
  BY <1>1, FindFacts
<1>3. CASE SkipComment
  BY <1>1, <1>2, <1>3 DEF SkipComment, Advance
<1>4. CASE BlockComment
  <2>1. At(pos, <<"/", "*">>) /\ End = Len(text) + 1
    BY <1>4, TextFacts DEF BlockComment
  <2>2. pos \in 1 .. Len(text) - 1
    BY <1>1, <2>1, AtFacts
  <2>3. pos + 2 \in 1 .. End
    BY <1>1, <2>1, <2>2
  <2>4. Find(pos + 2, <<"*", "/">>) \in pos + 2 .. End
    BY <2>3, FindFacts
  <2>5. QED
    BY <1>1, <1>4, <2>4 DEF BlockComment, Advance
<1>5. QED
  BY <1>3, <1>4

(* The activations after a step, and how far it goes.                      *)
LEMMA StepMoves ==
  ASSUME CoverInv, LexNext, stage = "lex", stage' # "panicked",
         NEW n, n = Len(stack), NEW m, m = Len(stack')
  PROVE  /\ text' = text
         /\ \/ m = n /\ pos < pos' /\ stage' = "lex"
            \/ m = n + 1 /\ pos < pos' /\ stage' = "lex"
            \/ m = n - 1 /\ pos <= pos' /\ stage' = "lex"
            \/ m < n /\ pos' = pos
            \/ m <= n /\ pos < End /\ pos' = pos + 1
<1>1. /\ n \in Nat \ {0} /\ stack \in Seq(Acts) /\ stack # <<>> /\ Position
      /\ pos \in 1 .. End /\ pos \in Nat /\ End \in Nat
  BY RunningFacts
<1>2. /\ Callers \in Seq(Acts) /\ Len(Callers) = n - 1
      /\ \A x : Len(Append(Callers, x)) = n /\ Len(Append(stack, x)) = n + 1
  BY <1>1, Lengths DEF Callers
<1>3. /\ \A x, y : Len(Append(Append(Callers, x), y)) = n + 1
      /\ Callers # <<>> => \A x : Len(Append(Front(Callers), x)) = n - 1
  <2>1. ASSUME Callers # <<>>, NEW x PROVE Len(Append(Front(Callers), x)) = n - 1
    <3>1. PICK c : c = Callers
      OBVIOUS
    <3>2. c \in Seq(Acts) /\ c # <<>> /\ Len(c) = n - 1
      BY <1>2, <2>1, <3>1
    <3>3. Len(Append(Front(c), x)) = Len(c)
      BY ONLY <3>2, Lengths
    <3>4. QED
      BY <3>1, <3>2, <3>3
  <2>2. ASSUME NEW x, NEW y PROVE Len(Append(Append(Callers, x), y)) = n + 1
    <3>1. Append(Callers, x) \in Seq(Acts \cup {x}) /\ Len(Append(Callers, x)) = n
      BY <1>2
    <3>2. \A s \in Seq(Acts \cup {x}) : Len(Append(s, y)) = Len(s) + 1
      OBVIOUS
    <3>3. QED
      BY <3>1, <3>2
  <2>3. QED
    BY <2>1, <2>2
<1>4. Width(pos) \in {1, 2}
  BY DEF Width
<1>5. CASE SkipBlank
  BY <1>1, <1>5 DEF SkipBlank, InTop, Lexing, Advance
<1>6. CASE SkipComment
  BY <1>1, <1>6, CommentMoves DEF SkipComment, Advance
<1>7. CASE BlockComment
  BY <1>1, <1>7, CommentMoves DEF BlockComment, Advance
<1>8. CASE OpenString
  BY <1>1, <1>2, <1>8 DEF OpenString, Advance
<1>9. ASSUME NEW found, NEW p, ReturnFromTop(found, p)
      PROVE  m < n
  <2>1. CASE Callers = <<>>
    BY <1>1, <1>9, <2>1 DEF ReturnFromTop
  <2>2. CASE Callers # <<>>
    BY <1>1, <1>3, <1>9, <2>2 DEF ReturnFromTop, Resumed
  <2>3. QED
    BY <2>1, <2>2
<1>10. CASE CloseInterp
  BY <1>1, <1>9, <1>10 DEF CloseInterp, AtToken, InTop
<1>11. CASE EndOfInput
  BY <1>9, <1>11 DEF EndOfInput
<1>12. CASE OneToken
  <2>1. pos \in 1 .. Len(text) /\ LogosToken(pos) # NoToken
    BY <1>1, <1>12, TextFacts DEF OneToken, AtToken, InTop
  <2>2. QED
    BY <1>1, <1>2, <1>12, <2>1, TokenFacts DEF OneToken, Advance
<1>13. CASE BadCharacter
  BY <1>1, <1>4, <1>13 DEF BadCharacter, Advance
<1>14. ASSUME NEW from, NEW to, GiveUp(from, to)
       PROVE  text' = text /\ m = n - 1 /\ pos <= pos' /\ stage' = "lex"
  BY <1>1, <1>2, <1>14 DEF GiveUp, Advance
<1>15. ASSUME NEW c, NEW p \in Nat, pos < p, AddToLiteral(c, p)
       PROVE  text' = text /\ m = n /\ pos < pos' /\ stage' = "lex"
  BY <1>2, <1>15 DEF AddToLiteral, Advance
<1>16. CASE Unterminated \/ BadEscape
  BY <1>14, <1>16 DEF Unterminated, BadEscape
<1>17. CASE CloseString
  BY <1>1, <1>2, <1>17 DEF CloseString, Advance
<1>18. CASE Escape
  BY <1>1, <1>15, <1>18 DEF Escape
<1>19. CASE UnicodeEscape
  BY <1>1, <1>14, <1>15, <1>19 DEF UnicodeEscape
<1>20. CASE OpenInterp
  <2>1. PICK x, y : stack' = Append(Append(Callers, x), y)
    BY <1>20 DEF OpenInterp
  <2>2. m = n + 1
    BY <1>3, <2>1
  <2>3. pos' = pos + 2 /\ UNCHANGED <<text, stage>>
    BY <1>20 DEF OpenInterp, Advance
  <2>4. QED
    BY <1>1, <2>2, <2>3
<1>21. CASE StringCharacter
  BY <1>1, <1>4, <1>15, <1>21 DEF StringCharacter
<1>22. ~ SliceInsideACharacter
  BY DEF SliceInsideACharacter
<1>23. QED
  BY <1>5, <1>6, <1>7, <1>8, <1>10, <1>11, <1>12, <1>13, <1>16, <1>17, <1>18, <1>19,
     <1>20, <1>21, <1>22 DEF LexNext

LEMMA StepAdvances ==
  ASSUME CoverInv, LexNext, stage = "lex", stage' # "panicked"
  PROVE  Left' \in Nat /\ Left' < Left
<1>1. CoverInv'
  BY StepCoverInv
<1>2. PICK n, m : n = Len(stack) /\ m = Len(stack')
  OBVIOUS
<1>3. /\ n \in Nat /\ m \in Nat /\ pos \in Nat /\ End \in Nat /\ pos \in 1 .. End
  BY <1>1, <1>2, RunningFacts DEF CoverInv, ShapeInv
<1>4. /\ text' = text
      /\ \/ m = n /\ pos < pos' /\ stage' = "lex"
         \/ m = n + 1 /\ pos < pos' /\ stage' = "lex"
         \/ m = n - 1 /\ pos <= pos' /\ stage' = "lex"
         \/ m < n /\ pos' = pos
         \/ m <= n /\ pos < End /\ pos' = pos + 1
  BY <1>2, StepMoves
<1>5. stage' = "lex" => pos' \in 1 .. End
  <2>1. Position' /\ End' = End
    BY <1>1, <1>4 DEF CoverInv, CutInv, End
  <2>2. QED
    BY <2>1 DEF Position
<1>6. pos' \in pos .. End /\ m - n < 2 * (pos' - pos)
  BY <1>3, <1>4, <1>5
<1>7. QED
  BY <1>1, <1>2, <1>4, <1>6, LessIsLeft

(* Whatever the text and however wrong it is, every step of the lexer      *)
(* leaves less to do: of a text of n bytes it is done after 2 n + 1 steps. *)
(* No error (lexer.rs:259, :279-284) leaves it where it was for good.      *)
THEOREM LexingAdvancesCorrect == LexSpec => LexingAdvances
<1>1. CoverInv /\ [LexNext]_lexVars =>
        [stage = "lex" /\ stage' # "panicked" => Left' \in Nat /\ Left' < Left]_lexVars
  BY StepAdvances
<1>2. QED
  BY <1>1, InitCoverInv, StepCoverInv, PTL DEF LexSpec, LexingAdvances
=============================================================================
