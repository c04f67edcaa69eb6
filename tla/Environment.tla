---------------------------- MODULE Environment ----------------------------
(***************************************************************************)
(* mergeEnv of internal/command/runner.go: the environment of a command,   *)
(* which is the plugin's own with what the request forces on it, LC_ALL=C  *)
(* and LANG=C, so that the output can be parsed whatever the language of   *)
(* the host.                                                               *)
(*                                                                         *)
(* An entry is <<key, value>>, or a tuple of another length when it has no *)
(* "=".  The overrides are the sequence of their entries, in the order of  *)
(* their keys.                                                             *)
(***************************************************************************)
EXTENDS Integers, Sequences

CONSTANTS Entries,        \* the entries of environments
          Environments,   \* the environments that the plugin may run in
          Overrides       \* the overrides of requests

Key(entry) == entry[1]
Wellformed(entry) == Len(entry) = 2

ASSUME EnvironmentAssumption ==
  /\ Environments \subseteq Seq(Entries) /\ Overrides \subseteq Seq(Entries)
  /\ \A overrides \in Overrides : \A i \in DOMAIN overrides : Wellformed(overrides[i])

\* Bug: an entry of a known key is appended like any other.
PutTwice(env, entry) == Append(env, entry)

\* An entry of a known key takes the place of the one that was there.
Put(env, entry) ==
  IF \E i \in DOMAIN env : Key(env[i]) = Key(entry)
    THEN [i \in DOMAIN env |-> IF Key(env[i]) = Key(entry) THEN entry ELSE env[i]]
    ELSE Append(env, entry)

\* The loop over the entries of the base and over the overrides, which leaves
\* malformed ones out.
Merged(entries) ==
  LET merged[i \in 0 .. Len(entries)] ==
        IF i = 0 THEN <<>>
        ELSE IF Wellformed(entries[i]) THEN Put(merged[i - 1], entries[i]) ELSE merged[i - 1]
  IN  merged[Len(entries)]

\* Without overrides the base is copied as it is, malformed entries and all.
MergeEnv(base, overrides) == IF overrides = <<>> THEN base ELSE Merged(base \o overrides)

-----------------------------------------------------------------------------
\* What a child finds under key: os/exec keeps the last of several entries.
Lookup(env, key) ==
  LET at == {i \in DOMAIN env : Wellformed(env[i]) /\ Key(env[i]) = key}
  IN IF at = {} THEN <<>> ELSE <<env[CHOOSE i \in at : \A j \in at : j <= i][2]>>

\* The child finds every override, and for every other key what it would have
\* found without them; no key comes twice, so that a child that reads the
\* first of two entries instead of the last finds the same.
MergedRight(base, overrides) ==
  LET env == MergeEnv(base, overrides)
  IN /\ \A k \in {Key(entry) : entry \in Entries} :
          Lookup(env, k) = IF Lookup(overrides, k) # <<>>
                           THEN Lookup(overrides, k) ELSE Lookup(base, k)
     /\ overrides # <<>> =>
          \A i, j \in DOMAIN env : Key(env[i]) = Key(env[j]) => i = j
=============================================================================
