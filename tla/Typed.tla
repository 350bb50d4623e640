-------------------------------- MODULE Typed --------------------------------
(***************************************************************************)
(* What the type checker hands to the JIT (typeck.rs, jit.rs): the         *)
(* resolved statement, and the inferer with the types it recorded.         *)
(***************************************************************************)
VARIABLES
  prog,         (* the statement                                           *)
  inferer       (* as TypeCheck describes it                               *)
=============================================================================
