---------------------------- MODULE MCInstaller ----------------------------
(***************************************************************************)
(* A small instance of Installer: two releases, of which the newer plugin  *)
(* does not work with the older configuration; agents that are supported,  *)
(* too old, pre-releases and oddly numbered; two runs.                     *)
(***************************************************************************)
EXTENDS Installer

MCVersions == {1, 2}
MCWorks == {<<1, 1>>, <<2, 2>>, <<1, 2>>}
MCAgentVersions == {<<7, 0, 5>>, <<6, 4, 9>>, <<7, 4>>, <<7, 4, -1>>}
MCMajors == {7, 8}
=============================================================================
