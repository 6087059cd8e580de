------------------------- MODULE MCManagerCoordinator -------------------------
(* The collector and the manager coordinator on a small instance.          *)
EXTENDS ManagerCoordinator
=============================================================================
