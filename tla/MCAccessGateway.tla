-------------------------- MODULE MCAccessGateway --------------------------
(* The bounded instance of AccessGateway.                                  *)
EXTENDS AccessGateway
=============================================================================
