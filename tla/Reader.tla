------------------------------- MODULE Reader -------------------------------
(***************************************************************************)
(* From a source to its tree (parser.rs, parse): the lexer, then, when it  *)
(* found no error, the grammar.                                            *)
(***************************************************************************)
EXTENDS Lexer, Parser

VARIABLE tree                                 (* the tree, once stage is done *)
readVars == <<lexVars, tree>>

NoTree == Statement(<<>>, <<>>)

Parse ==
  /\ stage = "parse"
  /\ \E result \in {ParseTokens(tokens)} :
       /\ stage' = IF result.n = 0 THEN "refused" ELSE "done"
       /\ tree'  = IF result.n = 0 THEN NoTree ELSE result.e
  /\ UNCHANGED <<text, pos, tokens, errors, stack>>

ReadInit == LexInit /\ tree = NoTree
ReadNext == (LexNext /\ UNCHANGED tree) \/ Parse

(* Neither waits for anything.  The grammar is one step, so it needs no    *)
(* fairness for what is said here.                                         *)
ReadSpec == ReadInit /\ [][ReadNext]_readVars /\ WF_lexVars(LexNext)

-----------------------------------------------------------------------------
(* Every source is lexed to its end: no error leaves the lexer where it    *)
(* was for good (lexer.rs:259).                                            *)
LexingEnds == <>(stage # "lex")
=============================================================================
