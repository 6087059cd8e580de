--------------------------- MODULE MCCellServices ---------------------------
(* The bounded instance of CellServices.                                   *)
EXTENDS CellServices
=============================================================================
