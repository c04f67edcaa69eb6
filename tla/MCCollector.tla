----------------------------- MODULE MCCollector -----------------------------
(***************************************************************************)
(* Small instances of Collector: two repositories with an update each, and *)
(* hosts that differ in every answer.                                      *)
(***************************************************************************)
EXTENDS Collector

CONSTANTS r1, r2, u1, u2

MCRepoOf == [u \in {u1, u2} |-> IF u = u1 THEN r1 ELSE r2]

MCName == [r \in {r1, r2} |-> IF r = r1 THEN <<"Base", "OS">> ELSE <<"Extras">>]

Host(repos, pending, k1, k2, needed, result) ==
  [repos |-> repos, pending |-> pending,
   kinds |-> [u \in {u1, u2} |-> IF u = u1 THEN k1 ELSE k2],
   reboot |-> needed, last |-> result]

\* Before and after an update run, with and without the second repository,
\* and with the advisories that a refresh of the metadata may bring.
MCHosts ==
  {Host({r1, r2}, {u1, u2}, k1, k2, FALSE, "not_recorded") :
     k1 \in {{}, {"security"}, {"security", "bugfix"}, {"bugfix", "enhancement"}},
     k2 \in {{}, {"bugfix"}}}
  \cup
  {Host(repos, pending, {"security", "bugfix"}, {"enhancement"}, TRUE, result) :
     repos \in {{}, {r1}, {r1, r2}}, pending \in {{}, {u2}},
     result \in {"success", "failed"}}

\* A security update u1 is superseded by u2, a security update as well, when
\* the metadata is refreshed.
RefreshHosts ==
  {Host({r1, r2}, {u}, {"security"}, {"security"}, FALSE, "not_recorded") :
     u \in {u1, u2}}
=============================================================================
