-------------------------------- MODULE Repl --------------------------------
(***************************************************************************)
(* The driver (main.rs): one source file, or the REPL.  The REPL keeps the *)
(* definitions of the lines before and evaluates each line under all of    *)
(* them, resolved afresh; the evaluator and its current directory belong   *)
(* to the thread and outlive a line.                                       *)
(***************************************************************************)
EXTENDS Interp

CONSTANTS
  Sessions,           (* the sequences of lines that may be typed; a line  *)
                      (* is `parses', `defs' and `body'                    *)
  Resolved(_, _)      (* the resolver: a statement, or Undefined           *)

VARIABLES
  session,            (* the lines typed in all                            *)
  lines,              (* those still to be typed                           *)
  line,               (* the line being evaluated, or NoLine               *)
  accumulated         (* the definitions of the lines before               *)

replVars == <<session, lines, line, accumulated>>
allVars  == <<vars, replVars>>

NoLine   == [parses |-> FALSE]
Combined(l) == Resolved(accumulated \o l.defs, l.body)
Accepted(l) == l.parses /\ Combined(l) # Undefined

AtPrompt == ctl.m = "exit" /\ line = NoLine /\ lines # <<>>

(* A line that does not parse or resolve leaves nothing behind.            *)
RefuseLine ==
  /\ AtPrompt /\ ~Accepted(Head(lines))
  /\ lines' = Tail(lines)
  /\ Go(Exit(ErrorText), <<>>)
  /\ UNCHANGED <<prog, frames, lists, dir, session, line, accumulated>>

EvaluateLine ==
  /\ AtPrompt /\ Accepted(Head(lines))
  /\ prog' = Combined(Head(lines))
  /\ Build(MakeFrame(prog'.defs, RootEnv, <<>>))
  /\ Go(Eval(prog'.body, NewEnv), <<>>)
  /\ lines' = Tail(lines) /\ line' = Head(lines)
  /\ UNCHANGED <<lists, dir, session, accumulated>>

(* Seeded fault: a line that failed leaves no definitions.                 *)
KeepDefinitionsOfResults ==
  /\ ctl.m = "exit" /\ line # NoLine
  /\ accumulated' = IF ctl.t = ErrorText THEN accumulated ELSE accumulated \o line.defs
  /\ line' = NoLine
  /\ UNCHANGED <<vars, session, lines>>

(* The result or the diagnostic has been printed: either way the           *)
(* definitions stay.                                                       *)
KeepDefinitions ==
  /\ ctl.m = "exit" /\ line # NoLine
  /\ accumulated' = accumulated \o line.defs
  /\ line' = NoLine
  /\ UNCHANGED <<vars, session, lines>>

-----------------------------------------------------------------------------
RunSource == Init /\ session = <<>>

RunRepl ==
  /\ session \in Sessions
  /\ prog   = Statement(<<>>, Literal(Null))
  /\ frames = RootFrames
  /\ ctl = Exit(ErrorText) /\ kont = <<>> /\ lists = 0 /\ dir = MainDir

MainInit ==
  /\ RunSource \/ RunRepl
  /\ lines = session /\ line = NoLine /\ accumulated = <<>>
MainNext ==
  \/ Next /\ UNCHANGED replVars
  \/ RefuseLine \/ EvaluateLine \/ KeepDefinitions

(* One thread evaluates and nothing it does waits; the user need not type. *)
MainSpec ==
  /\ MainInit /\ [][MainNext]_allVars
  /\ WF_vars(Next) /\ WF_line(KeepDefinitions)
=============================================================================
