------------------------- MODULE MCPluginLifecycle -------------------------
(***************************************************************************)
(* Small instances of PluginLifecycle: two exports, two stops, one start   *)
(* and one configure, timeouts that are negative, zero and positive.       *)
(***************************************************************************)
EXTENDS PluginLifecycle, TLC

CONSTANTS e1, e2, s1, s2, t1, c1

MCTimeouts == {-1, 0, 5}
Symmetry == Permutations({e1, e2}) \cup Permutations({s1, s2})
=============================================================================
