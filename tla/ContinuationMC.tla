--------------------------- MODULE ContinuationMC ---------------------------
(* Bounded instances of Continuation. *)
EXTENDS Continuation
=============================================================================
