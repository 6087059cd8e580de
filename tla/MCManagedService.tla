-------------------------- MODULE MCManagedService --------------------------
(* The bounded instance of ManagedService.                                 *)
EXTENDS ManagedService
=============================================================================
