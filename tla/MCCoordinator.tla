--------------------------- MODULE MCCoordinator ---------------------------
(* The bounded instance of Coordinator: two operations. One of them alone     *)
(* meets up to four crashes, lost answers, rebindings and moves of the source; *)
(* while both have been issued there is one. The budget only limits events    *)
(* that are not under fairness, so it cuts no obligation of the daemon.       *)
EXTENDS Coordinator

Budget == faults + moves <= IF \A o \in Ops : opRev[o] # 0 THEN 1 ELSE 4
=============================================================================
