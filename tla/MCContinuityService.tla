------------------------ MODULE MCContinuityService ------------------------
(* Bounded instances of ContinuityService.                                 *)
EXTENDS ContinuityService

CONSTANTS o1, o2

TwoOps == {o1, o2}
=============================================================================
