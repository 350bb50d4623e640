------------------------------- MODULE Syntax -------------------------------
(***************************************************************************)
(* Resolved abstract syntax (ast.rs).  An expression is a record whose     *)
(* field `op' names its Expr variant; variables carry the (depth, slot)    *)
(* the resolver gave them, spans are left out.  The children every variant *)
(* of `Operands' evaluates, left to right, before anything else are in the *)
(* sequence `kids'.                                                        *)
(***************************************************************************)
LOCAL INSTANCE Sequences

Literal(v)           == [op |-> "Literal", v |-> v]
Variable(depth, slot) == [op |-> "Variable", depth |-> depth, slot |-> slot]
Function(arity, body) == [op |-> "Function", arity |-> arity, body |-> body]
Block(names, defs)   == [op |-> "Block", names |-> names, defs |-> defs]
ImmediateBlock(defs, body) ==
  [op |-> "ImmediateBlock", defs |-> defs, body |-> body]
If(cond, cons, alt)  == [op |-> "If", cond |-> cond, cons |-> cons, alt |-> alt]
And(l, r)            == [op |-> "And", l |-> l, r |-> r]
Or(l, r)             == [op |-> "Or", l |-> l, r |-> r]

ListOf(items)        == [op |-> "List", kids |-> items]
Interpolation(parts) == [op |-> "Interpolation", kids |-> parts]
Binary(o, l, r)      == [op |-> "Binary", o |-> o, kids |-> <<l, r>>]
Unary(o, e)          == [op |-> "Unary", o |-> o, kids |-> <<e>>]
Call(callee, args)   == [op |-> "Call", kids |-> <<callee>> \o args]
Access(e, name)      == [op |-> "Access", name |-> name, kids |-> <<e>>]
Index(arr, idx)      == [op |-> "Index", kids |-> <<arr, idx>>]

Operands ==
  {"List", "Interpolation", "Binary", "Unary", "Call", "Access", "Index"}

(* A source file or a line: definitions in order, then a body.             *)
Statement(defs, body) == [defs |-> defs, body |-> body]

(* What a name that no scope has, or a statement with one, resolves to.    *)
Undefined == [op |-> "Undefined"]
=============================================================================
