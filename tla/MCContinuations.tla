--------------------------- MODULE MCContinuations --------------------------
(* The bounded instance of Continuations.                                  *)
EXTENDS Continuations
=============================================================================
