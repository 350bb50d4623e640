------------------------------- MODULE MCTypes --------------------------------
(***************************************************************************)
(* Small programs for TypeCheck, JitInstances, JitGen and JitRun: two      *)
(* definitions f and g of every combination of the forms below, under      *)
(* bodies that use them at one or two types.  The recorded types are       *)
(* compared with each other, with the value CallByName gives the program,  *)
(* and with the instances the JIT compiles; what the compiled program      *)
(* displays is compared with the value.                                    *)
(***************************************************************************)
EXTENDS JitRun

CONSTANTS Files, Locate, DirOf, MainDir, Budget

(* Compiled code compares lists item by item, also a list with itself      *)
(* (jit.rs:860-866): what a program means is taken without sharing.        *)
Reference == INSTANCE CallByName WITH Shares <- FALSE

MCFieldOrder == <<"a", "b">>
NoFiles      == <<>>

Num(n)    == Literal(Reference!Number(n))
Str(s)    == Literal(Reference!Text(s))
Yes       == Literal(Reference!Boolean(TRUE))
Add(a, b) == Binary("Add", a, b)
Eq(a, b)  == Binary("Eq", a, b)
Pair(p, q) == Block(<<"a", "b">>, <<p, q>>)

(* f, g and List with `d' scopes between; a parameter likewise.            *)
F(d)      == Variable(d, 1)
G(d)      == Variable(d, 2)
P(d)      == Variable(d, 1)
ListDot(d, name) == Access(Variable(d, 1), name)
Lambda(body)     == Function(1, body)

(* Functions of one parameter; f and g call each other or themselves, with *)
(* the parameter or with a list of it; local definitions are or are not    *)
(* generalized; a literal inside a literal mentions its type or hides it.  *)
Calls ==
  {Lambda(Call(fn, <<arg>>)) : fn \in {F(1), G(1)}, arg \in {P(0), ListOf(<<P(0)>>)}}
  \cup {Lambda(If(Yes, ListOf(<<Num(0)>>), Call(G(1), <<ListOf(<<P(0)>>)>>)))}
Local ==
  {Lambda(ImmediateBlock(<<Lambda(inner)>>, Pair(Call(F(1), <<Num(1)>>), Call(F(1), <<arg>>)))) :
     inner \in {P(0), ListOf(<<P(0), P(2)>>), ListOf(<<P(2), P(0)>>), P(2)},
     arg   \in {Str("s"), P(2)}}
Shapes ==
  {Lambda(P(0)), Lambda(Add(P(0), Num(1))), Lambda(ListOf(<<P(0), P(0)>>)),
   Lambda(Index(P(0), Num(0))), Lambda(Block(<<"a">>, <<P(1)>>)),
   Lambda(Function(0, Eq(P(1), P(1)))), Lambda(Function(0, P(1))),
   Lambda(Interpolation(<<P(0)>>)), Lambda(Access(P(0), "a")),
   Lambda(Call(P(0), <<P(0)>>)),
   Lambda(If(Yes, Pair(P(1), Num(1)), Block(<<"b", "a">>, <<Num(2), P(1)>>))),
   Lambda(If(Yes, Pair(P(1), Num(1)), Block(<<"b", "a">>, <<P(1), Num(2)>>))),
   Lambda(Call(ListDot(2, "map"), <<P(0), G(1)>>)),
   Lambda(If(Yes, Lambda(ListOf(<<Pair(P(1), P(2)), Pair(ListOf(<<P(2)>>), ListOf(<<P(1)>>))>>)),
                  Lambda(P(0))))}
PlainValues ==
  {Num(1), Str("s"), G(0), Add(G(0), Num(1)), ListOf(<<Num(1), Num(2)>>),
   Call(G(0), <<Num(1)>>), Block(<<"a", "a">>, <<Num(1), Str("s")>>)}

Bodies ==
  {Call(F(0), <<Num(1)>>),
   Pair(Call(F(1), <<Num(1)>>), Call(F(1), <<Str("s")>>)),
   Pair(Call(Call(F(1), <<Num(1)>>), <<>>), Call(Call(F(1), <<Str("s")>>), <<>>)),
   Add(Call(F(0), <<Num(1)>>), Call(G(0), <<Num(2)>>)),
   And(Call(F(0), <<Num(1)>>), Yes),
   Call(F(0), <<ListOf(<<Num(1)>>)>>),
   ListOf(<<F(0), G(0)>>),
   ImmediateBlock(<<Lambda(ListOf(<<P(0)>>))>>, Call(F(1), <<Call(F(0), <<Num(1)>>)>>))}

Definitions == Calls \cup Local \cup Shapes \cup PlainValues
TypePrograms ==
  {Statement(<<f, g>>, body) : f \in Definitions, g \in Definitions, body \in Bodies}

(* For code generation: f computes with its parameter, with g, in blocks   *)
(* and through closures; g is a list, a record or a number.                *)
Sub(a, b)   == Binary("Sub", a, b)
Less(a, b)  == Binary("Lt", a, b)
OfList(d, name, args) == Call(ListDot(d, name), args)
Numbers(ns) == ListOf([i \in DOMAIN ns |-> Num(ns[i])])
Sum         == Function(2, Sub(Variable(0, 1), Variable(0, 2)))

Computes ==
  {Lambda(Sub(P(0), Num(1))), Lambda(Less(P(0), Num(2))), Lambda(Sub(P(0), G(1))),
   Lambda(ImmediateBlock(<<Lambda(Sub(P(0), Variable(1, 2))), Add(P(1), Num(5))>>,
                         Call(Variable(0, 1), <<P(1)>>))),
   Lambda(ImmediateBlock(<<Lambda(Call(Variable(1, 3), <<P(0)>>)), Num(3),
                           Lambda(Sub(P(0), Variable(1, 2)))>>,
                         Call(Variable(0, 1), <<P(1)>>))),
   Lambda(ImmediateBlock(<<Lambda(Sub(P(0), Variable(1, 3))),
                           Call(Variable(0, 1), <<P(1)>>), Num(3)>>, Variable(0, 2))),
   Lambda(Block(<<"a", "b">>, <<P(1), Function(0, Variable(1, 1))>>)),
   Lambda(Call(Function(0, Sub(P(1), G(2))), <<>>)),
   Lambda(If(Less(P(0), Num(1)), Unary("Neg", P(0)), Call(F(1), <<Sub(P(0), Num(1))>>))),
   Lambda(Call(F(1), <<P(0)>>)),
   Lambda(Access(If(Less(P(0), Num(1)), Pair(Num(1), P(1)),
                    Block(<<"b", "a">>, <<Num(2), P(1)>>)), "a")),
   Lambda(OfList(2, "map", <<Numbers(<<1, 2>>), Lambda(Sub(P(0), P(1)))>>)),
   Lambda(Pair(OfList(3, "map", <<ListOf(<<P(1)>>), G(2)>>),
               OfList(3, "map", <<ListOf(<<Str("s")>>), G(2)>>))),
   Lambda(Call(Function(0, Interpolation(<<P(1)>>)), <<>>))}
Data ==
  {Numbers(<<1, 2>>), ListOf(<<Str("s")>>), Pair(Num(4), Str("s")), Num(4),
   OfList(1, "range", <<Num(0), Num(2)>>), ListOf(<<Lambda(Sub(P(0), Num(1)))>>),
   Index(Numbers(<<1>>), Num(3)), Lambda(ListOf(<<P(0)>>))}
Uses ==
  {OfList(1, name, <<G(0)>>) : name \in {"length", "head", "tail"}}
  \cup {OfList(1, name, <<G(0), Num(n)>>) : name \in {"take", "drop"}, n \in {0 - 1, 1, 3}}
  \cup {Index(G(0), Num(n)) : n \in {0 - 1, 0, 2}}
  \cup {OfList(1, name, <<G(0), F(0)>>) : name \in {"map", "filter", "concat"}}
  \cup {OfList(1, "reduce", <<G(0), Num(9), Sum>>),
        Call(F(0), <<Num(1)>>), Call(F(0), <<Num(0)>>), G(0),
        Pair(Call(F(1), <<Num(1)>>), Unary("Not", Eq(G(1), G(1)))),
        Interpolation(<<Call(F(0), <<Num(1)>>), Yes, Access(G(0), "b")>>),
        Or(Less(Access(G(0), "a"), Num(3)), Eq(Call(F(0), <<Num(2)>>), G(0))),
        ImmediateBlock(<<Lambda(Sub(P(0), Num(7)))>>, Call(Variable(0, 1), <<Num(1)>>)),
        ImmediateBlock(<<Num(2)>>,
                       ImmediateBlock(<<Num(5)>>, Sub(Variable(0, 1), Variable(1, 1)))),
        ImmediateBlock(<<Num(2), Lambda(Sub(P(0), Variable(1, 1)))>>,
                       Call(Variable(0, 2), <<Call(F(1), <<Num(1)>>)>>))}

ValuePrograms ==
  {Statement(<<f, g>>, body) : f \in Computes, g \in Data, body \in Uses}

(* A generic f is handed to map by g, at one type or at two.               *)
Mapped(x)   == OfList(3, "map", <<ListOf(<<x>>), F(2)>>)
GenericPrograms ==
  {Statement(<<f, Lambda(Pair(Mapped(P(1)), Mapped(x)))>>,
             Pair(Call(G(1), <<Num(1)>>), Call(F(1), <<Num(1)>>))) :
     f \in {Lambda(P(0)), Lambda(ListOf(<<P(0)>>)), Lambda(Num(3))},
     x \in {Num(2), Str("s")}}
MCPrograms == UNION {TypePrograms, ValuePrograms, GenericPrograms}

-----------------------------------------------------------------------------
(* Every expression of the statement with its path and, innermost first,   *)
(* the paths of the functions around it (<<>> for any other scope).        *)
RECURSIVE Below(_, _, _)
Below(x, path, scopes) ==
  LET kids  == IF x.op = "Interpolation"
               THEN [i \in DOMAIN x.kids |-> Child(i, x.kids[i])] ELSE Children(x)
      inner == CASE x.op = "Function" -> <<path>> \o scopes
                 [] x.op \in {"Block", "ImmediateBlock"} -> <<(<<>>)>> \o scopes
                 [] OTHER -> scopes
  IN  {[x |-> x, path |-> path, scopes |-> scopes]}
      \cup UNION {Below(kids[i].x, Append(path, kids[i].n), inner) : i \in DOMAIN kids}

Expressions ==
  Below(prog.body, <<0>>, <<>>)
  \cup UNION {Below(prog.defs[i], <<i>>, <<>>) : i \in DOMAIN prog.defs}

RepeatsName == \E n \in Expressions :
  n.x.op = "Block" /\ Cardinality(Range(n.x.names)) < Len(n.x.names)

(* Parts of a type.                                                        *)
RECURSIVE Parts(_)
Parts(ty) ==
  {ty} \cup (CASE ty.t = "fn"     -> Parts(ty.ret) \cup UNION {Parts(a) : a \in Range(ty.args)}
               [] ty.t = "list"   -> Parts(ty.elem)
               [] ty.t = "record" -> UNION {Parts(u) : u \in Range(ty.tys)}
               [] OTHER -> {})
Somewhere(part) == \E p \in DOMAIN inferer.nodes : part \in Parts(inferer.nodes[p])

(* Equal but for the order of fields and for what is unknown.              *)
RECURSIVE Agree(_, _)
Agree(a, b) ==
  \/ AnyType \in {a, b} \/ a = b
  \/ /\ a.t = b.t
     /\ CASE a.t = "fn"   -> /\ Len(a.args) = Len(b.args) /\ Agree(a.ret, b.ret)
                             /\ \A i \in DOMAIN a.args : Agree(a.args[i], b.args[i])
          [] a.t = "list" -> Agree(a.elem, b.elem)
          [] a.t = "record" ->
               /\ Range(a.names) = Range(b.names)
               /\ \A i \in DOMAIN a.tys, j \in DOMAIN b.tys :
                    a.names[i] = b.names[j] => Agree(a.tys[i], b.tys[j])
          [] OTHER -> FALSE

-----------------------------------------------------------------------------
JustChecked == Checked /\ stage = "check"

(* What the types of an expression and of its children have to do with     *)
(* each other.                                                             *)
Typed(n) ==
  LET x == n.x
      ty == inferer.nodes[n.path]
      kid(i) == inferer.nodes[Append(n.path, i)]
      all(tys, t) == \A u \in tys : Agree(u, t)
  IN CASE x.op = "Variable" ->
            LET f == n.scopes[x.depth + 1]
            IN  (x.depth < Len(n.scopes) /\ f # <<>>)
                  => Agree(inferer.nodes[f].args[x.slot], ty)
       [] x.op = "Call"  -> Agree(kid(1), Fn([i \in 1..(Len(x.kids) - 1) |-> kid(i + 1)], ty))
       [] x.op = "If"    -> Agree(kid(1), BoolType) /\ all({kid(2), kid(3)}, ty)
       [] x.op = "List"  -> all({kid(i) : i \in DOMAIN x.kids}, ty.elem)
       [] x.op = "Index" -> Agree(kid(1), ListType(ty)) /\ Agree(kid(2), NumberType)
       [] x.op = "Function" -> Agree(kid(1), ty.ret)
       [] x.op = "Block" -> \A i \in DOMAIN x.defs : Agree(kid(i), ty.tys[i])
       [] x.op = "Access" /\ kid(1).t = "record" ->
            \E i \in FieldsNamed(kid(1), x.name) : Agree(kid(1).tys[i], ty)
       [] x.op \in {"And", "Or"} -> all({kid(1), kid(2), ty}, BoolType)
       [] x.op = "Binary" /\ x.o = "Eq"  -> Agree(kid(1), kid(2)) /\ ty = BoolType
       [] x.op = "Binary" /\ x.o = "Add" -> all({kid(1), kid(2), ty}, NumberType)
       [] OTHER -> TRUE

(* In a program without a warning the recorded types fit together at every *)
(* expression once the final substitution is applied: what was unified     *)
(* stays equal whatever is bound later (typeck.rs:115-190).                *)
RecordedTypesFitTogether ==
  (JustChecked /\ ~inferer.warned /\ ~RepeatsName) => \A n \in Expressions : Typed(n)

(* No type variable ever stands for a type it occurs in, so Type::apply    *)
(* comes back (types.rs:28-31, typeck.rs:139).                             *)
SubstitutionEnds ==
  stage = "check" => \A v \in DOMAIN inferer.subst : Endless \notin Parts(Apply(Var(v), inferer.subst))

RECURSIVE HasType(_, _)
HasType(v, ty) ==
  \/ v.k = "<error>" \/ ty.t = "var"
  \/ ty.t \in Basic /\ v.k = ty.t
  \/ ty.t = "fn" /\ v.k = "[function]"
  \/ /\ ty.t = "list" /\ v.k = "list"
     /\ \A i \in DOMAIN v.xs : HasType(v.xs[i], ty.elem)
  \/ /\ ty.t = "record" /\ v.k = "block"
     /\ {f[1] : f \in Range(v.fs)} = Range(ty.names)
     /\ \A f \in Range(v.fs), i \in DOMAIN ty.names :
          f[1] = ty.names[i] => HasType(f[2], ty.tys[i])

(* A program without a warning has a value of its program type or fails at *)
(* run time, unless a type was generalized too early, something is Any, or *)
(* a record gives a name twice (typeck.rs:205-226).                        *)
ValueHasTheProgramType ==
  (/\ JustChecked /\ ~inferer.warned /\ inferer.early = {}
   /\ ~Somewhere(AnyType) /\ ~RepeatsName)
    => HasType(Reference!Meaning(prog), result)

-----------------------------------------------------------------------------
LiteralsInherit ==
  \A i \in DOMAIN instances : IsFunctionDef(instances[i][1]) =>
    LET slot == instances[i][1]
        sub  == SubstOf(instances[i])
    IN  \A l \in Range(Literals(prog.defs[slot], <<slot>>, 0)) :
          LET shared == funcs[<<l.path, At(l.path, sub)>>].sub
          IN  \A n \in Below(l.x.body, Append(l.path, 1), <<>>) :
                At(n.path, shared) = At(n.path, sub)

(* "Inner function literals inherit their enclosing top-level function's   *)
(* subst" (jit.rs:499-502): in every instance, each literal is compiled    *)
(* with the types its body has there.                                      *)
InnerLiteralsInheritTheSubstitution == stage = "code" => LiteralsInherit

-----------------------------------------------------------------------------
(* Where compiled programs are known to differ from interpreted ones.      *)
(* Two record types list the same fields in different orders.              *)
ReordersFields ==
  LET parts == UNION {Parts(inferer.nodes[p]) : p \in DOMAIN inferer.nodes}
  IN  \E a, b \in parts :
        a.t = "record" /\ b.t = "record"
        /\ a.names # b.names /\ Range(a.names) = Range(b.names)

(* A call in a block names a local function by the coordinates of a        *)
(* top-level one (jit.rs:3667).                                            *)
Functions(scopes) == Len(SelectSeq(scopes, LAMBDA f : f # <<>>))
CallsTheWrongFunction ==
  \E n \in Expressions :
    /\ n.x.op = "Call" /\ n.x.kids[1].op = "Variable"
    /\ n.x.kids[1].depth = Functions(n.scopes) /\ n.x.kids[1].depth < Len(n.scopes)
    /\ n.x.kids[1].slot \in FunctionSlots

(* A literal uses what it captures at two types (jit.rs:1349).             *)
CapturesAtTwoTypes ==
  \E k \in DOMAIN funcs :
    \E v, w \in Range(Variables(LiteralAt(k[1]).body, Append(k[1], 1), 0)) :
      v.depth > 0 /\ Same(v, w) /\ At(v.path, funcs[k].sub) # At(w.path, funcs[k].sub)

(* A value reads itself, or names a function with captures (jit.rs:1649).  *)
RunsBeforeTheCaptures ==
  \E s \in ValueSlots : \E r \in SiblingRefs(prog.defs[s], 0) :
    r = s \/ \E i \in DOMAIN instances :
                instances[i][1] = r /\ ~IsValue(i) /\ CapturesOf(i) # <<>>

Excused ==
  \/ inferer.early # {} \/ RepeatsName \/ ReordersFields \/ CallsTheWrongFunction
  \/ CapturesAtTwoTypes \/ RunsBeforeTheCaptures \/ ~LiteralsInherit

(* A compiled program that runs to its end has never read a word that was  *)
(* not written or was written as something else, and displays what the     *)
(* program means (tests/jit.rs compares single programs; jit.rs:2174).     *)
CompiledMeansTheProgram ==
  (stage = "ran" /\ outcome.how \in {"ok", "garbage"} /\ ~Excused) =>
    outcome = [how |-> "ok", shown |-> Reference!Meaning(prog)]

(* What the values and the body of the program are, all evaluated; a list  *)
(* operation of the body that the interpreter lets saturate.               *)
RECURSIVE ShowsError(_)
ShowsError(v) ==
  CASE v.k = "list"  -> \E x \in Range(v.xs) : ShowsError(x)
    [] v.k = "block" -> \E f \in Range(v.fs) : ShowsError(f[2])
    [] OTHER         -> v.k = "<error>"
MeaningOf(x) == Reference!Meaning(Statement(prog.defs, x))
Fails == \E x \in {prog.body} \cup {prog.defs[s] : s \in ValueSlots} : ShowsError(MeaningOf(x))
Saturates ==
  LET x == prog.body
  IN  \/ x.op = "Index" /\ MeaningOf(x.kids[2]).n < 0
      \/ /\ x.op = "Call" /\ x.kids[1].op = "Access" /\ x.kids[1].name \in {"take", "drop"}
         /\ MeaningOf(x.kids[3]).n \notin 0..Len(MeaningOf(x.kids[2]).xs)

(* A compiled program reads outside a list, traps or runs out of stack     *)
(* only where the interpreter reports an error, unless it is at a negative *)
(* index or a count the interpreter would clamp (jit.rs:2174, 3245-3275).  *)
StopsOnlyWhereEvaluationFails ==
  (stage = "ran" /\ outcome.how \notin {"ok", "garbage"} /\ ~Excused) => Fails \/ Saturates

(* Whatever the checker lets pass without generalizing too early has code: *)
(* the worklist comes to an end (jit.rs:1056); every literal, instance,    *)
(* field and signature the generator looks up is there, at the IR type its *)
(* use expects (jit.rs:1496, 2642, 2858).  What it refuses is an order of  *)
(* definitions, a function in a list, a variable seen only in a string, or *)
(* a module used as a value.                                               *)
CodeExistsForWhatIsChecked ==
  /\ stage \in {"cut", "panicked"} => inferer.early # {}
  /\ (stage = "refused" /\ main # NoCode /\ ~Excused) =>
       main.x \in {"forward", "pending", "cycle", "allocator", "capture", "root", "stdlib"}
=============================================================================
