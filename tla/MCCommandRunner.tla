-------------------------- MODULE MCCommandRunner --------------------------
(***************************************************************************)
(* Small instances of CommandRunner: one descendant of each kind, limits   *)
(* of two bytes and one, pipes of two bytes, exit codes 0 and 100; and the *)
(* environments of up to MaxEntries entries that a Run may start from.     *)
(***************************************************************************)
EXTENDS CommandRunner, SequencesExt

CONSTANTS child, daemon,
          lang, lcAll, path,    \* the names of variables
          MaxEntries            \* bound: the entries of the plugin's environment

MCLimit == [s \in Streams |-> IF s = "stdout" THEN 2 ELSE 1]

MCEntries == {<<k, v>> : k \in {lang, lcAll, path}, v \in {"C", "de_DE"}} \cup {<<path>>}
MCEnvironments == BoundedSeq(MCEntries, MaxEntries)
MCOverrides == {<<>>, <<<<lang, "C">>, <<lcAll, "C">>>>}
=============================================================================
