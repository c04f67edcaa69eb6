------------------------------- MODULE MCMain -------------------------------
(***************************************************************************)
(* A small instance of Main: two exports and the three Stops.              *)
(***************************************************************************)
EXTENDS Main

CONSTANTS e1, e2

NoTimeouts == {}
=============================================================================
