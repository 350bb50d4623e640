------------------------------ MODULE MCJitScope ------------------------------
EXTENDS JitScope

CONSTANTS t1, t2

MCFunTypes == {t1, t2}

(* A monomorphic or polymorphic function, or a value that may be a record. *)
Bindings ==
  [lit : {TRUE}, at : {{t1}, {t1, t2}}] \cup [lit : {FALSE}, at : {{t1}, {Plain}}]

AllTops == [Slots -> Bindings]
=============================================================================
