----------------------- MODULE MCCheckpointLifecycle -----------------------
(* Bounded instances of CheckpointLifecycle.                               *)
EXTENDS CheckpointLifecycle, TLC

CONSTANTS o1, o2, o3, w1, w2

ThreeOps == {o1, o2, o3}
\* o3 belongs to a second Work of the same sandbox.
TwoWorks == [o \in Ops |-> IF o = o3 THEN w2 ELSE w1]
\* o2 is twice as large as the others.
Sizes == [o \in Ops |-> IF o = o2 THEN 2 ELSE 1]
=============================================================================
