---------------------------- MODULE MCExportRun ----------------------------
(***************************************************************************)
(* Small instances of ExportRun: two exports and the Stops that meet them. *)
(***************************************************************************)
EXTENDS ExportRun

CONSTANTS e1, e2, s1, s2, t1, c1

NoTimeouts == {}
=============================================================================
