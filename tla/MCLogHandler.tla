---------------------------- MODULE MCLogHandler ----------------------------
(***************************************************************************)
(* A small instance of LogHandler: an attribute of the caller's choice and *)
(* one with a reserved key, a group, levels on and between the named ones. *)
(***************************************************************************)
EXTENDS LogHandler

MCKeys == {"id", "time"}
MCGroups == {"repository"}
MCLevels == {-5, -4, 3, 4, 9}
=============================================================================
