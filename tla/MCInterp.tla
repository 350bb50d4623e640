------------------------------ MODULE MCInterp ------------------------------
(***************************************************************************)
(* Small programs and REPL sessions for Interp and Repl, and the           *)
(* comparison of what is printed with what CallByName says the program     *)
(* means.                                                                  *)
(***************************************************************************)
EXTENDS Repl, Resolver

Reference(budget, shares) ==
  INSTANCE CallByName WITH Budget <- budget, Shares <- shares

Num(n)    == Literal(Number(n))
Str(s)    == Literal(Text(s))
Add(a, b) == Binary("Add", a, b)

MCFieldOrder == <<"a", "b">>
NoFiles      == <<>>
NoLocate     == <<>>
NoDirs       == <<>>

-----------------------------------------------------------------------------
(* Lazy bindings without functions: two definitions x and y drawn from     *)
(* every combination of the forms below, records and inner blocks          *)
(* included, under bodies that use them one or several times.              *)
X(d) == Variable(d, 1)
Y(d) == Variable(d, 2)

Atoms(d) == {Num(0), X(d), Y(d)}
LazyDefs ==
  Atoms(0)
  \cup {Add(Num(1), b) : b \in {X(0), Y(0)}}
  \cup {If(Y(0), Num(1), X(0)), And(X(0), Y(0)), Or(Num(0), Y(0))}
  \cup {Block(<<"b", "a">>, <<p, q>>) : p \in {Y(0), X(1)}, q \in {X(0), Y(1)}}
  \cup {Block(<<"a">>, <<Num(1)>>)}
  \cup {Access(X(0), "a"), Access(Y(0), "b"), Index(Y(0), Str("a")),
        ImmediateBlock(<<Add(X(1), Num(1))>>, Add(X(0), Y(1))),
        Interpolation(<<Str("n"), X(0)>>), Unary("Neg", Y(0)),
        ListOf(<<X(0), Y(0)>>)}
LazyBodies ==
  {Add(Y(0), X(0)),
   ListOf(<<Block(<<"a", "b">>, <<X(1), Y(1)>>), Num(1)>>),
   Block(<<"a", "b">>, <<Y(1), Access(Block(<<"a">>, <<X(2)>>), "a")>>)}

LazyPrograms ==
  {Statement(<<dx, dy>>, body) : dx \in LazyDefs, dy \in LazyDefs, body \in LazyBodies}

-----------------------------------------------------------------------------
(* Functions: f and g drawn from closures, tail and non-tail recursion,    *)
(* values that are not functions and calls with a wrong arity; they are    *)
(* called directly, from each other and by map, filter and reduce.  Inside *)
(* a function the parameter is at depth 0, f and g at depth 1.             *)
P          == Variable(0, 1)
FromList(d, name) == Access(Variable(d, 1), name)
Decrement  == Binary("Sub", P, Num(1))

FunctionDefs ==
  {Function(1, Add(P, Num(1))),
   Function(1, If(P, Call(Variable(1, 2), <<Decrement>>), Num(7))),
   Function(1, If(P, Add(Num(1), Call(Variable(1, 1), <<Decrement>>)), Num(0))),
   Function(1, Function(1, Add(P, Variable(1, 1)))),
   Function(1, Or(Binary("Gt", P, Num(0)), Call(Variable(1, 1), <<P>>))),
   Function(1, ImmediateBlock(<<Add(Variable(1, 1), Num(2))>>,
                              ListOf(<<Variable(0, 1), Variable(0, 1)>>))),
   Function(1, Unary("Not", Binary("Eq", P, Num(1)))),
   Function(2, P),
   Num(3)}

ZeroTo(n) == Call(FromList(1, "range"), <<Num(0), Num(n)>>)
FunctionBodies ==
  {Call(X(0), <<Num(2)>>),
   Call(Call(X(0), <<Num(2)>>), <<Num(1)>>),
   And(Y(0), Block(<<"a", "b">>, <<Call(X(1), <<Num(1)>>), Call(Y(1), <<Num(1)>>)>>)),
   Call(FromList(1, "map"), <<ZeroTo(3), X(0)>>),
   Call(FromList(1, "filter"), <<Call(FromList(1, "map"), <<ZeroTo(3), X(0)>>), Y(0)>>),
   Call(FromList(1, "reduce"),
        <<ZeroTo(3), Num(1), Function(2, Add(Variable(0, 1), Call(X(1), <<Variable(0, 2)>>)))>>),
   Call(FromList(1, "head"), <<Call(Y(0), <<Num(1)>>)>>),
   Index(Call(FromList(1, "take"), <<Call(X(0), <<Num(0)>>), Num(1)>>), Num(0))}

FunctionPrograms ==
  {Statement(<<f, g>>, body) :
     f \in FunctionDefs, g \in FunctionDefs, body \in FunctionBodies}

-----------------------------------------------------------------------------
(* Lists: uses of one list (OneListBodies) and lists that only look alike  *)
(* (AlikeBodies), with an item x that has an equality or has none;         *)
(* positions and counts before the first item, at the ends and past the    *)
(* last.                                                                   *)
ListOp(name, args) == Call(FromList(1, name), args)
Eq(a, b)    == Binary("Eq", a, b)
SharedItems == {Num(1), P, Function(1, P), Block(<<"a">>, <<Num(1)>>)}
FlatList    == ListOf(<<X(0)>>)
NestedList  == ListOf(<<ListOf(<<X(0)>>), Num(1)>>)
SharedLists == {FlatList, NestedList}
OneListBodies ==
  {Eq(Y(0), Y(0)), Binary("Ne", Y(0), Y(0)), Eq(Index(Y(0), Num(0)), Index(Y(0), Num(0))),
   Eq(ListOf(<<Y(0), Num(2)>>), ListOf(<<Y(0), Num(2)>>)),
   Eq(ListOf(<<Y(0), Num(2)>>), ListOf(<<Y(0), Num(3)>>)),
   ListOp("filter", <<ListOf(<<Num(2), Y(0)>>), Function(1, Eq(P, Y(1)))>>),
   Call(Function(2, Eq(P, Variable(0, 2))), <<Y(0), Y(0)>>)}
AlikeBodies ==
  {Eq(Y(0), ListOf(<<X(0)>>)), Eq(ListOf(<<X(0), Num(1)>>), ListOf(<<X(0), Num(1)>>)),
   ListOp("filter", <<ListOf(<<X(0), ListOf(<<X(0)>>)>>), Function(1, Eq(P, Y(1)))>>)}
CopyBodies ==              (* another list, of the same items            *)
  {Eq(ListOp("take", <<Y(0), Num(2)>>), Y(0)), Eq(ListOp("concat", <<Y(0), ListOf(<<>>)>>), Y(0))}

Positions3 == {0 - 1, 0, 1, 2, 3, 4}
ListBodies ==
  {ListOp(name, <<Y(0), Num(n)>>) : name \in {"take", "drop"}, n \in Positions3}
  \cup {Index(Y(0), Num(n)) : n \in Positions3}
  \cup {ListOp("concat", <<Y(0), ListOp("tail", <<Y(0)>>)>>), ListOp("length", <<Y(0)>>)}

OneListPrograms ==
  {Statement(<<x, y>>, body) : x \in SharedItems, y \in SharedLists, body \in OneListBodies}
  \cup {Statement(<<x, NestedList>>, body) : x \in SharedItems, body \in CopyBodies}
ListPrograms ==
  OneListPrograms
  \cup {Statement(<<x, y>>, body) :
          x \in SharedItems, y \in SharedLists, body \in AlikeBodies}
  \cup {Statement(<<x, FlatList>>, body) : x \in SharedItems, body \in CopyBodies}
  \cup {Statement(<<Num(0), ListOp("range", <<Num(1), Num(n)>>)>>, body) :
          n \in {0 - 1, 1, 4}, body \in ListBodies}

-----------------------------------------------------------------------------
(* Loops of MCLoop rounds whose recursive call is in tail position: in a   *)
(* branch, in the body of an immediate block, through a second function    *)
(* and as a parameter.                                                     *)
MCLoop == 15
N      == Variable(0, 1)
Acc    == Variable(0, 2)
Again(callee, extra) ==
  Call(callee, <<Binary("Sub", N, Num(1)), Add(Acc, N)>> \o extra)
Until(next) == If(Binary("Eq", N, Num(0)), Acc, next)
Loop(def, other, extra) ==
  Statement(<<def, other>>, Call(X(0), <<Num(MCLoop), Num(0)>> \o extra))

LoopPrograms ==
  {Loop(Function(2, Until(Again(Variable(1, 1), <<>>))), Num(0), <<>>),
   Loop(Function(2, Until(Again(Variable(1, 2), <<>>))),
        Function(2, Until(Again(Variable(1, 1), <<>>))), <<>>),
   Loop(Function(2, Until(ImmediateBlock(<<Variable(1, 1), Variable(1, 2)>>,
                                         Again(Variable(2, 1), <<>>)))), Num(0), <<>>),
   Loop(Function(3, Until(Again(Variable(0, 3), <<Variable(0, 3)>>))), Num(0), <<X(0)>>)}

-----------------------------------------------------------------------------
(* Files in the directories main, lib and lib/sub.  "b" names one file in  *)
(* main and another in lib, so an import resolved in the wrong directory   *)
(* silently gets the wrong file; "missing" names none.                     *)
Import(depth, path) == Call(Variable(depth, 4), <<Str(path)>>)

MCFiles ==
  [main_b    |-> Statement(<<>>, Num(20)),
   lib_b     |-> Statement(<<>>, Num(10)),
   lib_a     |-> Statement(<<Import(1, "b")>>, Add(X(0), Num(1))),
   lib_bad   |-> Statement(<<Num(1), Import(1, "missing")>>, X(0)),
   lib_deep  |-> Statement(<<Import(1, "sub/c")>>, ListOf(<<X(0), Import(1, "b")>>)),
   sub_c     |-> Statement(<<Import(1, "../b"), Import(1, "../a")>>, Add(X(0), Y(0))),
   lib_rec   |-> Statement(<<Import(1, "b")>>, Block(<<"b", "a">>, <<X(1), Num(1)>>)),
   lib_fn    |-> Statement(<<Import(1, "b")>>, Function(1, Add(P, X(1)))),
   lib_cycle |-> Statement(<<Import(1, "cycle")>>, Num(0)),
   lib_late  |-> Statement(<<>>, Block(<<"a">>, <<Import(2, "b")>>))]

MCDirs ==
  [f \in DOMAIN MCFiles |->
     CASE f = "main_b" -> "main" [] f = "sub_c" -> "sub" [] OTHER -> "lib"]

InLib ==
  [b |-> "lib_b", a |-> "lib_a", bad |-> "lib_bad", deep |-> "lib_deep",
   rec |-> "lib_rec", fn |-> "lib_fn", cycle |-> "lib_cycle", late |-> "lib_late"]
MCLocate ==
  [at \in {<<"lib", n>> : n \in DOMAIN InLib} |-> InLib[at[2]]]
  @@ [at \in {<<"main", "lib/" \o n>> : n \in DOMAIN InLib} |->
        InLib[CHOOSE n \in DOMAIN InLib : at[2] = "lib/" \o n]]
  @@ (<<"main", "b">> :> "main_b") @@ (<<"lib", "sub/c">> :> "sub_c")
  @@ (<<"sub", "../b">> :> "lib_b") @@ (<<"sub", "../a">> :> "lib_a")

ImportPaths == {"b", "lib/a", "lib/bad", "lib/deep", "lib/rec", "lib/fn", "lib/cycle", "missing"}
ImportBodies ==
  {Block(<<"a", "b">>, <<X(1), Y(1)>>), Add(X(0), Y(0)), ListOf(<<Y(0), X(0)>>),
   Call(X(0), <<Y(0)>>), Access(Y(0), "b"),
   Block(<<"b", "a">>, <<Import(2, "lib/a"), Import(2, "missing")>>),
   Call(Variable(1, 4), <<X(0)>>)}

ImportPrograms ==
  {Statement(<<Import(1, p), Import(1, q)>>, body) :
     p \in ImportPaths, q \in ImportPaths, body \in ImportBodies}

(* An import inside a record of an imported file, run when the field is    *)
(* first used.                                                             *)
LateImportPrograms ==
  {Statement(<<Import(1, p), Import(1, q)>>, body) :
     p \in {"lib/late"}, q \in {"lib/a", "b"},
     body \in {Block(<<"a", "b">>, <<X(1), Y(1)>>), Add(Access(X(0), "a"), Y(0))}}

MCPrograms ==
  LazyPrograms \cup FunctionPrograms \cup ListPrograms \cup LoopPrograms
  \cup ImportPrograms

-----------------------------------------------------------------------------
(* REPL sessions of three lines: definitions that are used by later ones,  *)
(* defined again, fail, depend on themselves or on a file, and lines that  *)
(* are refused.                                                            *)
Line(defs, body) == [parses |-> TRUE, defs |-> defs, body |-> body]
Define(n, e)     == <<(<<n, e>>)>>
Garbled          == [parses |-> FALSE, defs |-> <<>>, body |-> Num(0)]
ImportLine(path) == Call(Name("import"), <<Str(path)>>)

ReplLines ==
  {Line(Define("x", Num(1)), Name("x")),
   Line(Define("x", Num(2)) \o Define("x", Num(3)), Name("x")),
   Line(Define("x", Add(Name("x"), Num(1))), Name("x")),
   Line(Define("f", Lambda(<<"n">>, Add(Name("n"), Name("x")))), Call(Name("f"), <<Num(1)>>)),
   Line(Define("y", Block(<<"a", "x">>, <<Call(Name("f"), <<Num(2)>>), Name("y")>>)),
        Access(Name("y"), "a")),
   Line(Define("f", Nested(<<"x">>, <<Num(5)>>, Lambda(<<"x", "x">>, Name("x")))),
        ListOf(<<Call(Name("f"), <<Num(1), Num(2)>>), Name("x")>>)),
   Line(Define("x", ImportLine("lib/bad")), Block(<<"a", "b">>, <<Name("x"), ImportLine("b")>>)),
   Line(Define("x", Num(9)), If(Name("x"), Name("undefined"), Or(Name("x"), Num(0)))),
   Garbled}
MCSessions == {<<a, b, c>> : a \in ReplLines, b \in ReplLines, c \in ReplLines}
NoSessions == {}

-----------------------------------------------------------------------------
(* Every expression of the programs, the files and the lines, in its       *)
(* scopes: what the theorems assume of them.                               *)
RECURSIVE WithParts(_, _)
WithParts(J, new) ==
  IF new = {} THEN J
  ELSE WithParts(J \cup new, UNION {Parts(j[1], j[2]) : j \in new} \ (J \cup new))

LineStatements ==
  {ResolveStatement(a.defs \o b.defs \o c.defs, c.body) :
     a \in ReplLines, b \in ReplLines, c \in ReplLines}
    \ {Undefined}
MCStatements == Programs \cup FileStatements \cup LineStatements
Expressions  == WithParts({}, UNION {StatementParts(s) : s \in MCStatements})
ASSUME ExpressionsAssumption == ResolvedIn(Expressions, MCStatements)

-----------------------------------------------------------------------------
(* The budget of uses and calls that the reference gets.                   *)
BudgetOf(p) == IF p \in LoopPrograms THEN 2 * MCLoop + 4 ELSE 14
IsMeaning(t, p) == t = Reference(BudgetOf(p), p \in OneListPrograms)!Meaning(p)

(* What main prints is what the program means call by name: sharing,       *)
(* restoring a binding after an error and reporting a cycle change no      *)
(* result and turn no result into an error, or an error into a result.     *)
(* Only == tells what is shared: all uses of a binding, a parameter or an  *)
(* item are one list, equal to itself whatever it holds (interp.rs:539),   *)
(* and a list expression or function makes another one each time.          *)
PrintsWhatTheProgramMeans ==
  ctl.m = "exit" /\ prog \in Programs => IsMeaning(ctl.t, prog)

(* What a REPL line prints is what a file would mean that holds only the   *)
(* last definition of every name, in all the lines typed before that were  *)
(* not refused: one whose evaluation failed has left its definitions, and  *)
(* nothing else, and what used an old definition uses the new one          *)
(* (main.rs:195-232).                                                      *)
Typed(n) ==
  LET kept[i \in 0..n] ==
        IF i = 0 THEN <<>>
        ELSE LET l   == session[i]
                 all == kept[i - 1] \o l.defs
             IN  IF l.parses /\ ResolveStatement(all, l.body) # Undefined
                 THEN all ELSE kept[i - 1]
  IN  kept[n]
LatestOf(defs) ==
  LET latest == SelectSeq([i \in DOMAIN defs |-> i],
                          LAMBDA i : \A j \in DOMAIN defs : defs[j][1] = defs[i][1] => j <= i)
  IN  [k \in DOMAIN latest |-> defs[latest[k]]]
LineMeansTheLatestDefinitions ==
  ctl.m = "exit" /\ line # NoLine =>
    IsMeaning(ctl.t, ResolveStatement(LatestOf(Typed(Len(session) - Len(lines))), line.body))

(* Evaluating a program without calls always comes to an end: a binding    *)
(* that depends on itself is an error the program reports, and never a     *)
(* stack that grows until the process dies.                                *)
EvaluationEnds == prog \in LazyPrograms => <>(ctl.m \in {"show", "exit"})

(* Without calls of functions the stack overflows in two ways only: a      *)
(* record that is a part of itself is printed, or a file is imported while *)
(* the same file is being imported (imports.rs:87).                        *)
Twice(kind, what) ==
  \E i, j \in Positions(kont, kind) : i < j /\ kont[i][what] = kont[j][what]
OverflowsOnlyInsideItself ==
  ctl.m = "abort" /\ prog \in LazyPrograms \cup ImportPrograms =>
    Twice("Field", "f") \/ Twice("Import", "file")

(* Every nested import of an imported file executes while that file's      *)
(* directory is the current one (interp.rs:84-87): what a path names does  *)
(* not depend on who uses the value that needs it.                         *)
NestedImportsUseTheirDirectory ==
  ctl.m = "exit" => IsMeaning(ctl.t, prog)

(* A loop whose recursive call is in tail position runs any number of      *)
(* rounds on a stack that has room for fewer (main.rs:11-14).              *)
TailLoopsEnd == prog \in LoopPrograms => <>(ctl.m = "exit" /\ ctl.t.k = "number")
=============================================================================
