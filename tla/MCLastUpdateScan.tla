-------------------------- MODULE MCLastUpdateScan --------------------------
(***************************************************************************)
(* Instances of LastUpdateScan: DNF4 and three versions of DNF5 around the *)
(* one that has JSON.                                                      *)
(***************************************************************************)
EXTENDS LastUpdateScan

DNF5(major, minor) == [dnf5 |-> TRUE, major |-> major, minor |-> minor]

\* A plain command line, one with a "|", one whose second "|" puts a label in
\* the place of the actions, and one that is too long.
MCCommandLines == {<<"update">>, <<"install", "glob">>, <<"install", "glob", "upgrade">>,
                   Overlong}

MCVersions == {DNF4, DNF5(5, 3), DNF5(5, 4), DNF5(6, 0)}
=============================================================================
