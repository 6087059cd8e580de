-------------------------- MODULE MCPhysicalGate --------------------------
(***************************************************************************)
(* A version 1 case with an imported request, a domain of two requests and *)
(* a domain of one; a version 2 case of three requests on one runtime; and *)
(* one of two requests on two runtimes.  The exposure of the single case   *)
(* covers fewer reservations than requests.                                *)
(***************************************************************************)
EXTENDS PhysicalGate

MCSlot(r, d, p, k) == [rt |-> r, dom |-> d, prep |-> p, kind |-> k]

MCPlan ==
  [m \in {"domain", "single", "participant"} |->
     CASE m = "domain" ->
            <<MCSlot("r1", "legacy", "old", "cell"),
              MCSlot("r1", "d1", "probe", "access"),
              MCSlot("r1", "d1", "task1", "cell"),
              MCSlot("r1", "d2", "task2", "parent")>>
       [] m = "single" ->
            <<MCSlot("r1", "one", "probe", "access"),
              MCSlot("r1", "one", "task1", "cell"),
              MCSlot("r1", "one", "task1", "cell")>>
       [] m = "participant" ->
            <<MCSlot("r1", "shared", "task1", "cell"),
              MCSlot("r2", "shared", "task2", "cell")>>]

MCUsd == [d \in {"legacy", "d1", "d2", "one", "shared"} |->
            IF d \in {"d1", "shared"} THEN 2 ELSE 1]

MCPrior == [d \in DOMAIN MCUsd |-> IF d = "d2" THEN "d1" ELSE None]

MCMaxConns == [m \in DOMAIN MCPlan |-> 2]
MCMaxFaults == [m \in DOMAIN MCPlan |-> 1]
=============================================================================
