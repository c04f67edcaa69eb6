----------------------------- MODULE Collector -----------------------------
(***************************************************************************)
(* One collection: Plugin.collect of cmd/agent/plugin.go, the update       *)
(* queries of internal/dnf and results.Build.                              *)
(*                                                                         *)
(* A collection asks the host several questions, one command after the     *)
(* other, and the host may change between any two of them: repositories    *)
(* are enabled and disabled, metadata is refreshed, packages are updated.  *)
(* A host is a record of what the commands would answer now:               *)
(*   repos     the enabled repositories                                    *)
(*   pending   the packages with an update available in some repository    *)
(*   kinds     the categories of each package's advisories                 *)
(*   reboot    whether a reboot is pending                                 *)
(*   last      the result of the last update, or "not_recorded"            *)
(* An update is one name, epoch, version, release, architecture and        *)
(* repository, which is what updatePackageKey tells apart.                 *)
(***************************************************************************)
EXTENDS Integers, FiniteSets, FiniteSetsExt, DnfOutput

CONSTANTS Repos, Updates,   \* repository IDs and updates
          RepoOf,           \* the repository of each update
          Name,             \* the words of each repository's name
          Hosts,            \* the hosts there can be
          MaxChanges        \* bound: how often the host changes

Kinds == {"security", "bugfix", "enhancement"}
Types == Kinds \cup {"other"}

ASSUME CollectorAssumption ==
  /\ IsFiniteSet(Repos) /\ IsFiniteSet(Updates)
  /\ RepoOf \in [Updates -> Repos] /\ Name \in [Repos -> Seq(STRING)]
  /\ Hosts \subseteq [repos : SUBSET Repos, pending : SUBSET Updates,
                      kinds : [Updates -> SUBSET Kinds], reboot : BOOLEAN,
                      last : {"not_recorded", "success", "failed"}]
  /\ MaxChanges \in Nat

VARIABLES
  host,       \* the host as it is now
  changes,    \* how often it has changed
  seen,       \* the hosts there were since the collection began
  stage,      \* the next question, or "build" or "done"
  failed,     \* the questions whose command or parser has failed
  listed,     \* the rows that ParseRepositories gave, by their lines
  updates,    \* the updates that repoquery gave
  type,       \* dnf.Update.Type of each
  reboot, last,
  payload     \* what is published, NoPayload until and unless it is

hostVars == <<host, changes, seen>>
readVars == <<listed, updates, type, reboot, last>>
vars == <<hostVars, readVars, stage, failed, payload>>

NoPayload == [updates |-> {}]

-----------------------------------------------------------------------------
Init == /\ host \in Hosts /\ changes = 0 /\ seen = {host}
        /\ stage = "repositories" /\ failed = {}
        /\ listed = <<>>
        /\ updates = {} /\ type = [u \in Updates |-> "other"]
        /\ reboot = FALSE /\ last = "not_recorded"
        /\ payload = NoPayload

HostChanges == /\ stage # "done" /\ changes < MaxChanges
               /\ \E h \in Hosts \ {host} : host' = h /\ seen' = seen \cup {h}
               /\ changes' = changes + 1
               /\ UNCHANGED <<readVars, stage, failed, payload>>

-----------------------------------------------------------------------------
(***************************************************************************)
(* The questions in their order.                                           *)
(***************************************************************************)
Questions == {"repositories", "updates", "reboot", "history"} \cup Kinds

After(question) ==
  CASE question = "repositories" -> "updates"
    [] question = "updates" -> "security"
    [] question = "security" -> "bugfix"
    [] question = "bugfix" -> "enhancement"
    [] question = "enhancement" -> "reboot"
    [] question = "reboot" -> "history"
    [] question = "history" -> "build"

\* Bug: a category that cannot be queried is left out.
FailsUnlessCategory ==
  /\ stage \in Questions
  /\ failed' = failed \cup {stage}
  /\ stage' = IF stage \in Kinds THEN After(stage) ELSE "done"
  /\ UNCHANGED <<hostVars, readVars, payload>>

\* collect returns the error of a question.
GivesUp == /\ failed' = failed \cup {stage}
           /\ stage' = "done"
           /\ UNCHANGED <<hostVars, readVars, payload>>

\* A command or a lookup fails.
Fails == stage \in Questions /\ GivesUp

-----------------------------------------------------------------------------
(***************************************************************************)
(* The outputs of DNF: its table or list, which a blank line may end and a *)
(* line may interrupt that is too long to be read; and the notices of its  *)
(* plugins, which come before a repolist's header, and anywhere among the  *)
(* lines of a repoquery.                                                   *)
(***************************************************************************)
Notice == <<"notice">>

Interrupted(out, line) == {InsertAt(out, i, line) : i \in 1..Len(out) + 1}

RepolistRow(r, status) == <<r>> \o Name[r] \o (IF status THEN <<"enabled">> ELSE <<>>)

\* No repository reads like a header.
ASSUME RowsAssumption ==
  \A r \in Repos, status \in BOOLEAN : RepolistRow(r, status) \notin {Header, StatusHeader}

Repolist(order, status) ==
  <<IF status THEN StatusHeader ELSE Header>>
    \o [i \in DOMAIN order |-> RepolistRow(order[i], status)]

\* What may be printed around a table; its header is not known when it is
\* translated.
Printed(table) ==
  {table, <<Notice>> \o table, Append(table, <<>>), <<Notice>> \o Tail(table)}
    \cup Interrupted(table, TooLong)

\* Nothing when no repository is enabled, and a repository twice when two
\* files of the host define it.
PrintedInOrder(order) ==
  Printed(Repolist(order, TRUE)) \cup Printed(Repolist(order, FALSE))
    \cup (IF order = <<>> THEN {<<>>} ELSE {Repolist(Append(order, Head(order)), TRUE)})

RepolistOutputs(h) == UNION {PrintedInOrder(order) : order \in SetToSeqs(h.repos)}

RepoqueryLine(u) == <<u, "epoch", "version", "release", "arch", RepoOf[u]>>

QueriedInOrder(order) ==
  LET list == [i \in DOMAIN order |-> RepoqueryLine(order[i])]
  IN {list, Append(list, <<>>)} \cup Interrupted(list, TooLong) \cup Interrupted(list, Notice)

RepoqueryOutputs(set) == UNION {QueriedInOrder(order) : order \in SetToSeqs(set)}

\* The updates of an output that has been parsed.
UpdatesIn(rows) == {rows[i][1] : i \in DOMAIN rows}

-----------------------------------------------------------------------------
Repositories ==
  /\ stage = "repositories"
  /\ \E out \in RepolistOutputs(host) :
       LET parsed == ParseRepositories(out)
       IN \/ ~parsed.ok /\ GivesUp
          \/ /\ parsed.ok
             /\ listed' = parsed.rows
             /\ stage' = After(stage)
             /\ UNCHANGED <<hostVars, updates, type, reboot, last, failed, payload>>

\* repoquery --upgrades, which looks into the enabled repositories only.
Available(h) == {u \in h.pending : RepoOf[u] \in h.repos}

\* The query without a category; if it gives nothing the others are not made.
ListUpdates ==
  /\ stage = "updates"
  /\ \E out \in RepoqueryOutputs(Available(host)) :
       LET parsed == ParseUpdates(out)
       IN \/ ~parsed.ok /\ GivesUp
          \/ /\ parsed.ok
             /\ updates' = UpdatesIn(parsed.rows)
             /\ stage' = IF UpdatesIn(parsed.rows) = {} THEN "reboot" ELSE After(stage)
             /\ UNCHANGED <<hostVars, listed, type, reboot, last, failed, payload>>

\* Bug: a later category replaces an earlier one.
MarkLast(found, kind) ==
  [u \in Updates |-> IF u \in updates \cap found THEN kind ELSE type[u]]

\* Bug: an update that a category does not list loses its type.
MarkClears(found, kind) ==
  [u \in Updates |-> IF u \in updates \cap found THEN kind ELSE "none"]

\* markUpdateType: an update keeps the first category it was given.
Mark(found, kind) ==
  [u \in Updates |->
     IF u \in updates \cap found /\ type[u] = "other" THEN kind ELSE type[u]]

Classify ==
  /\ stage \in Kinds
  /\ \E out \in RepoqueryOutputs({u \in Available(host) : stage \in host.kinds[u]}) :
       LET parsed == ParseUpdates(out)
       IN \/ ~parsed.ok /\ GivesUp
          \/ /\ parsed.ok
             /\ type' = Mark(UpdatesIn(parsed.rows), stage)
             /\ stage' = After(stage)
             /\ UNCHANGED <<hostVars, listed, updates, reboot, last, failed, payload>>

CheckReboot ==
  /\ stage = "reboot"
  /\ reboot' = host.reboot
  /\ stage' = After(stage)
  /\ UNCHANGED <<hostVars, listed, updates, type, last, failed, payload>>

ReadHistory ==
  /\ stage = "history"
  /\ last' = host.last
  /\ stage' = After(stage)
  /\ UNCHANGED <<hostVars, listed, updates, type, reboot, failed,
                 payload>>

-----------------------------------------------------------------------------
(***************************************************************************)
(* results.Build                                                           *)
(***************************************************************************)
\* countUpdateTypes: "other" is what the three categories leave over.
CountTypes(set, typeOf) ==
  LET count(t) == Cardinality({u \in set : typeOf[u] = t})
      classified == count("security") + count("bugfix") + count("enhancement")
  IN [t \in Types |-> IF t = "other" THEN Cardinality(set) - classified ELSE count(t)]

ListedIDs == {listed[i].id : i \in DOMAIN listed}

Repeated == \E i, j \in DOMAIN listed : i # j /\ listed[i].id = listed[j].id

\* Bug: the references of the updates are not validated.
InconsistentIfRepeated == Repeated

\* An update of a repository that was not listed, or a repeated repository.
Inconsistent == Repeated \/ \E u \in updates : RepoOf[u] \notin ListedIDs

BuildFails == /\ stage = "build" /\ Inconsistent
              /\ failed' = failed \cup {"build"}
              /\ stage' = "done"
              /\ UNCHANGED <<hostVars, readVars, payload>>

Build == /\ stage = "build" /\ ~Inconsistent
         /\ payload' =
              [repositories |->
                 [i \in DOMAIN listed |->
                    [id |-> listed[i].id, name |-> listed[i].name,
                     updates |-> Cardinality({u \in updates : RepoOf[u] = listed[i].id})]],
               updates |-> updates,
               types |-> CountTypes(updates, type),
               reboot |-> reboot,
               last |-> last]
         /\ stage' = "done"
         /\ UNCHANGED <<hostVars, readVars, failed>>

-----------------------------------------------------------------------------
Ended == stage = "done" /\ UNCHANGED vars

Next == \/ HostChanges \/ Fails \/ Repositories \/ ListUpdates \/ Classify
        \/ CheckReboot \/ ReadHistory \/ BuildFails \/ Build \/ Ended

Spec == Init /\ [][Next]_vars

-----------------------------------------------------------------------------
Published == payload # NoPayload

\* The types of the variables.
TypeOK ==
  /\ host \in Hosts /\ changes \in 0..MaxChanges /\ seen \subseteq Hosts
  /\ stage \in Questions \cup {"build", "done"}
  /\ failed \subseteq Questions \cup {"build"}
  /\ ListedIDs \subseteq Repos
  /\ updates \subseteq Updates /\ type \in [Updates -> Types]
  /\ reboot \in BOOLEAN /\ last \in {"not_recorded", "success", "failed"}

\* Nothing is published when any question could not be answered: the payload
\* is complete or there is none (template-dnf-by-zabbix-agent2.yaml:37).
AllOrNothing == Published => failed = {}

\* In what is published, whatever happened to the host meanwhile, the counts
\* by category and the counts by repository both add up to the updates, and
\* none is negative.  (What the rows of the repositories count is the number
\* of the pairs of a row and a number up to its count.)
CountsAddUp ==
  Published =>
    LET types == payload.types
        rows == payload.repositories
    IN /\ \A t \in Types : types[t] \in Nat
       /\ types["security"] + types["bugfix"] + types["enhancement"] + types["other"]
            = Cardinality(payload.updates)
       /\ \A i \in DOMAIN rows : rows[i].updates \in Nat
       /\ Cardinality(UNION {{i} \X (1..rows[i].updates) : i \in DOMAIN rows})
            = Cardinality(payload.updates)

\* The category of an update is the gravest one that its advisories have.
Gravest(kinds) == IF "security" \in kinds THEN "security"
                  ELSE IF "bugfix" \in kinds THEN "bugfix"
                  ELSE IF "enhancement" \in kinds THEN "enhancement"
                  ELSE "other"

\* An update that was available all the time, with the same advisories, is
\* published under its gravest category, however the rest of the host
\* changed.
StableUpdatesAreExact ==
  Published =>
    \A u \in Updates :
      (\A h \in seen : u \in Available(h) /\ h.kinds[u] = host.kinds[u]) =>
        u \in payload.updates /\ type[u] = Gravest(host.kinds[u])

\* Of a host that did not change, the payload is an exact snapshot, whatever
\* DNF printed around its answers: output that cannot be read to its end, or
\* understood, is an error and never a shorter list.
QuietHostIsExact ==
  Published /\ seen = {host} =>
    /\ IsInjective(payload.repositories)
    /\ ToSet(payload.repositories)
         = {[id |-> r, name |-> Name[r],
             updates |-> Cardinality({u \in Available(host) : RepoOf[u] = r})] :
              r \in host.repos}
    /\ payload.updates = Available(host)
    /\ payload.types = [t \in Types |->
                          Cardinality({u \in Available(host) : Gravest(host.kinds[u]) = t})]
    /\ payload.reboot = host.reboot
    /\ payload.last = host.last

\* "Number of available package updates classified by repository advisory
\* metadata as security updates" (README.md:124): if there was such an update
\* at every moment of the collection, the published number is not zero.
SecurityIsNeverHidden ==
  Published /\ (\A h \in seen : \E u \in Available(h) : "security" \in h.kinds[u])
    => payload.types["security"] > 0
=============================================================================
