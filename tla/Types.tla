-------------------------------- MODULE Types --------------------------------
(***************************************************************************)
(* Types, substitutions and schemes (types.rs), and the types of the root  *)
(* scope (stdlib).  A type is a record whose field `t' names the variant;  *)
(* a type variable is a number; a substitution maps the variables that are *)
(* bound to types, which may mention further bound variables.              *)
(***************************************************************************)
EXTENDS Naturals, Sequences, SequencesExt, FiniteSets, TLC

CONSTANT
  MaxChain      (* bound: bound variables that Apply follows inside each   *)
                (* other; the program's only limit is its stack            *)

NumberType == [t |-> "number"]
StringType == [t |-> "string"]
BoolType   == [t |-> "bool"]
NullType   == [t |-> "null"]
AnyType    == [t |-> "any"]
Var(v)     == [t |-> "var", v |-> v]
Fn(args, ret)          == [t |-> "fn", args |-> args, ret |-> ret]
ListType(elem)         == [t |-> "list", elem |-> elem]
RecordType(names, tys) == [t |-> "record", names |-> names, tys |-> tys]
ModuleType(names, schemes) == [t |-> "module", names |-> names, schemes |-> schemes]

Basic == {"number", "string", "bool", "null"}

(* A scheme: its quantified variables and its type.                        *)
Scheme(vars, ty) == [vars |-> vars, ty |-> ty]
Mono(ty)         == Scheme({}, ty)

(* What is left of a type when its substitution never stops.               *)
Endless == [t |-> "endless"]

Without(s, vars) == [v \in DOMAIN s \ vars |-> s[v]]

RECURSIVE Follow(_, _, _)
Follow(ty, s, n) ==
  LET Each(tys) == [i \in DOMAIN tys |-> Follow(tys[i], s, n)]
      In(sch)   == Scheme(sch.vars, Follow(sch.ty, Without(s, sch.vars), n))
  IN CASE ty.t = "var" /\ ty.v \in DOMAIN s ->
            IF n = 0 THEN Endless ELSE Follow(s[ty.v], s, n - 1)
       [] ty.t = "fn"     -> Fn(Each(ty.args), Follow(ty.ret, s, n))
       [] ty.t = "list"   -> ListType(Follow(ty.elem, s, n))
       [] ty.t = "record" -> RecordType(ty.names, Each(ty.tys))
       [] ty.t = "module" ->
            ModuleType(ty.names, [i \in DOMAIN ty.schemes |-> In(ty.schemes[i])])
       [] OTHER           -> ty

(* Type::apply.                                                            *)
Apply(ty, s) == Follow(ty, s, MaxChain)

RECURSIVE FreeVars(_)
FreeVars(ty) ==
  LET Of(tys) == UNION {FreeVars(tys[i]) : i \in DOMAIN tys}
  IN CASE ty.t = "var"    -> {ty.v}
       [] ty.t = "fn"     -> Of(ty.args) \cup FreeVars(ty.ret)
       [] ty.t = "list"   -> FreeVars(ty.elem)
       [] ty.t = "record" -> Of(ty.tys)
       [] ty.t = "module" ->
            UNION {FreeVars(ty.schemes[i].ty) \ ty.schemes[i].vars : i \in DOMAIN ty.schemes}
       [] OTHER           -> {}

SchemeVars(sch) == FreeVars(sch.ty) \ sch.vars

(* Type::contains.                                                         *)
Occurs(v, ty) == v \in FreeVars(ty)

(* The fields of a record or a module that have a name, and their types.   *)
FieldsNamed(ty, name) == {i \in DOMAIN ty.names : ty.names[i] = name}
FieldType(ty, i) == IF ty.t = "module" THEN ty.schemes[i].ty ELSE ty.tys[i]

-----------------------------------------------------------------------------
(* The modules of the root scope, in slot order.  Their schemes quantify   *)
(* the variables 0 and 1.                                                  *)
A == Var(0)
B == Var(1)
ForA(ty)  == Scheme({0}, ty)
ForAB(ty) == Scheme({0, 1}, ty)

ListModule ==
  ModuleType(
    <<"range", "length", "head", "tail", "concat", "take", "drop", "map", "filter", "reduce">>,
    <<Mono(Fn(<<NumberType, NumberType>>, ListType(NumberType))),
      ForA(Fn(<<ListType(A)>>, NumberType)),
      ForA(Fn(<<ListType(A)>>, A)),
      ForA(Fn(<<ListType(A)>>, ListType(A))),
      ForA(Fn(<<ListType(A), ListType(A)>>, ListType(A))),
      ForA(Fn(<<ListType(A), NumberType>>, ListType(A))),
      ForA(Fn(<<ListType(A), NumberType>>, ListType(A))),
      ForAB(Fn(<<ListType(A), Fn(<<A>>, B)>>, ListType(B))),
      ForA(Fn(<<ListType(A), Fn(<<A>>, BoolType)>>, ListType(A))),
      ForAB(Fn(<<ListType(A), B, Fn(<<B, A>>, B)>>, B))>>)

StringModule ==
  ModuleType(
    <<"length", "concat", "split", "contains", "to_lower", "to_upper">>,
    <<Mono(Fn(<<StringType>>, NumberType)),
      Mono(Fn(<<StringType, StringType>>, StringType)),
      Mono(Fn(<<StringType, StringType>>, ListType(StringType))),
      Mono(Fn(<<StringType, StringType>>, BoolType)),
      Mono(Fn(<<StringType>>, StringType)),
      Mono(Fn(<<StringType>>, StringType))>>)

OneNumber  == Mono(Fn(<<NumberType>>, NumberType))
TwoNumbers == Mono(Fn(<<NumberType, NumberType>>, NumberType))
NumberModule ==
  ModuleType(
    <<"toString", "parse", "abs", "floor", "ceil", "round", "sqrt", "pow", "min", "max">>,
    <<Mono(Fn(<<NumberType>>, StringType)), Mono(Fn(<<StringType>>, NumberType)),
      OneNumber, OneNumber, OneNumber, OneNumber, OneNumber,
      TwoNumbers, TwoNumbers, TwoNumbers>>)

RootTypes == <<ListModule, StringModule, NumberModule, Fn(<<StringType>>, AnyType)>>
=============================================================================
