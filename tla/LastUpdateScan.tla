--------------------------- MODULE LastUpdateScan ---------------------------
(***************************************************************************)
(* Client.LastUpdate of internal/dnf/history*.go: the search of DNF's      *)
(* transaction history for the newest completed upgrade, while DNF itself  *)
(* may begin, finish or die in transactions of its own.                    *)
(*                                                                         *)
(* The list is read once, newest first; then transactions are inspected    *)
(* one by one, each with a command, until one is a completed upgrade.      *)
(***************************************************************************)
EXTENDS Integers, Sequences

CONSTANTS Versions,          \* the answers to dnf --version
          CommandLines,      \* command lines, as the pieces between their "|"
          MaxTransactions    \* bound: the length of the history

\* A command line whose row no bufio.Scanner takes.
Overlong == <<"overlong">>

DNF4 == [dnf5 |-> FALSE, major |-> 4, minor |-> 0]

ASSUME ScanAssumption ==
  /\ Versions \subseteq [dnf5 : BOOLEAN, major : Nat, minor : Nat]
  /\ CommandLines \subseteq Seq(STRING) \ {<<>>}
  /\ MaxTransactions \in Nat

(***************************************************************************)
(* A transaction either has an end time or not.  "started" is the status   *)
(* of one that runs, or whose DNF died; one that was aborted has another   *)
(* status and no end time.                                                 *)
(***************************************************************************)
Transaction == [upgrade : BOOLEAN, status : {"started", "ok", "error", "aborted"},
                ended : BOOLEAN, command : CommandLines]

VARIABLES
  history,   \* the transactions, in the order of their IDs
  live,      \* the last of them is being run by a DNF
  stage,     \* "version", "list", "inspect" or "done"
  format,    \* "dnf4", "json" or "text"
  next,      \* the ID of the row to inspect next, 0 after the last row
  newest,    \* the newest completed upgrade when the list was read, or 0
  moments,   \* what the newest completed upgrade has been since then
  found,     \* the ID of the transaction that is the result, or 0
  result     \* "none", "failed to read", "not_recorded", "success", "failed"

historyVars == <<history, live>>
vars == <<historyVars, stage, format, next, newest, moments, found, result>>

Completed(t) == t.ended

\* The newest completed upgrade of the history, 0 if there is none.
Newest(h) ==
  LET ids == {i \in DOMAIN h : h[i].upgrade /\ Completed(h[i])}
  IN IF ids = {} THEN 0 ELSE CHOOSE i \in ids : \A j \in ids : j <= i

-----------------------------------------------------------------------------
Init == /\ history = <<>> /\ live = FALSE
        /\ stage = "version" /\ format = "dnf4"
        /\ next = 0 /\ newest = 0 /\ moments = {} /\ found = 0 /\ result = "none"

(***************************************************************************)
(* DNF.  Its lock lets one transaction run at a time.                      *)
(***************************************************************************)
Begin == /\ ~live /\ Len(history) < MaxTransactions /\ stage # "done"
         /\ \E u \in BOOLEAN, c \in CommandLines :
              history' = Append(history, [upgrade |-> u, status |-> "started",
                                          ended |-> FALSE, command |-> c])
         /\ live' = TRUE
         /\ UNCHANGED <<stage, format, next, newest, moments, found, result>>

End == /\ live /\ stage # "done"
       /\ \E s \in {"ok", "error"} :
            history' = [history EXCEPT ![Len(history)].status = s,
                                       ![Len(history)].ended = TRUE]
       /\ live' = FALSE
       /\ moments' = IF stage = "inspect" THEN moments \cup {Newest(history')} ELSE moments
       /\ UNCHANGED <<stage, format, next, newest, found, result>>

Die == /\ live /\ stage # "done"
       /\ \E s \in {"started", "aborted"} :
            history' = [history EXCEPT ![Len(history)].status = s]
       /\ live' = FALSE
       /\ UNCHANGED <<stage, format, next, newest, moments, found, result>>

-----------------------------------------------------------------------------
(***************************************************************************)
(* The search.                                                             *)
(***************************************************************************)
\* historyCapabilities: the format of DNF5 depends on its version.
FormatOf(v) ==
  IF ~v.dnf5 THEN "dnf4"
  ELSE IF v.major > 5 \/ (v.major = 5 /\ v.minor >= 4) THEN "json" ELSE "text"

ReadVersion ==
  /\ stage = "version"
  /\ \E v \in Versions : format' = FormatOf(v)
  /\ stage' = "list"
  /\ UNCHANGED <<historyVars, next, newest, moments, found, result>>

\* A row of DNF4's list.
Row(t) == <<"id">> \o t.command
            \o <<"date", IF t.upgrade THEN "upgrade" ELSE "install", "altered">>

\* Bug: the column of the actions is counted from zero.
ListedUpgradeOffByOne(t) == Row(t)[3] \in {"upgrade", "update", "updated", "u"}

\* parseDNF4HistoryList: the fourth field is taken for the actions, which it
\* is unless there is a "|" in the command line.
ListedUpgrade(t) == Row(t)[4] \in {"upgrade", "update", "updated", "u"}

\* Bug: the search starts with a row that the list does not have.
ListHistoryPastEnd ==
  /\ stage = "list"
  /\ next' = Len(history) + 1
  /\ newest' = Newest(history) /\ moments' = {Newest(history)}
  /\ stage' = "inspect"
  /\ UNCHANGED <<historyVars, format, found, result>>

\* DNF4's list is parsed as a whole before the search, DNF5's text row by row.
Unlisted == format = "dnf4" /\ \E i \in DOMAIN history : history[i].command = Overlong

ListHistory ==
  /\ stage = "list" /\ ~Unlisted
  /\ next' = Len(history)
  /\ newest' = Newest(history) /\ moments' = {Newest(history)}
  /\ stage' = "inspect"
  /\ UNCHANGED <<historyVars, format, found, result>>

Unfinished(t) == ~t.ended /\ t.status = "started"

\* Bug: the status of a completed transaction is not looked at.
ReadingOptimist(t) ==
  IF ~t.upgrade \/ Unfinished(t) THEN "skip"
  ELSE IF ~t.ended THEN "error" ELSE "success"

\* What parseDNF5HistoryInfo and parseTextHistoryInfo make of a transaction.
Reading(t) ==
  IF ~t.upgrade \/ Unfinished(t) THEN "skip"
  ELSE IF ~t.ended THEN "error"
  ELSE IF t.status = "ok" THEN "success" ELSE "failed"

\* DNF4's list already says which rows are upgrades; the others are passed
\* over without a command.
PassRow ==
  /\ stage = "inspect" /\ next > 0
  /\ format = "dnf4" /\ ~ListedUpgrade(history[next])
  /\ next' = next - 1
  /\ UNCHANGED <<historyVars, stage, format, newest, moments, found, result>>

\* Bug: the error of the scanner is not looked at, and a row that is too long
\* ends the list.
RowsCut ==
  /\ stage = "inspect"
  /\ IF next = 0 THEN TRUE ELSE format = "text" /\ history[next].command = Overlong

\* The rows are used up.
RowsEnd == stage = "inspect" /\ next = 0

\* The rest of the list cannot be read.
RowFails == /\ stage = "inspect" /\ next > 0
            /\ format = "text" /\ history[next].command = Overlong

InspectRow ==
  /\ stage = "inspect" /\ next > 0 /\ ~RowFails
  /\ format = "dnf4" => ListedUpgrade(history[next])

InspectSkips ==
  /\ InspectRow
  /\ Reading(history[next]) = "skip"
  /\ next' = next - 1
  /\ UNCHANGED <<historyVars, stage, format, newest, moments, found, result>>

InspectFinds ==
  /\ InspectRow
  /\ Reading(history[next]) \in {"success", "failed"}
  /\ found' = next /\ result' = Reading(history[next])
  /\ stage' = "done"
  /\ UNCHANGED <<historyVars, format, next, newest, moments>>

InspectFails ==
  /\ InspectRow
  /\ Reading(history[next]) = "error"
  /\ result' = "failed to read" /\ stage' = "done"
  /\ UNCHANGED <<historyVars, format, next, newest, moments, found>>

NoneFound ==
  /\ RowsEnd
  /\ result' = "not_recorded" /\ stage' = "done"
  /\ UNCHANGED <<historyVars, format, next, newest, moments, found>>

\* A command fails, its context ends, or what it printed cannot be parsed: a
\* version without numbers, a list that is no JSON, a row that is too long.
CommandFails ==
  /\ stage \in {"version", "list"} \/ InspectRow \/ RowFails
  /\ result' = "failed to read" /\ stage' = "done"
  /\ UNCHANGED <<historyVars, format, next, newest, moments, found>>

Done == stage = "done" /\ UNCHANGED vars

Next == \/ Begin \/ End \/ Die
        \/ ReadVersion \/ ListHistory \/ PassRow
        \/ InspectSkips \/ InspectFinds \/ InspectFails \/ NoneFound
        \/ CommandFails \/ Done

Spec == Init /\ [][Next]_vars

-----------------------------------------------------------------------------
Results == {"none", "failed to read", "not_recorded", "success", "failed"}

\* The types of the variables.
TypeOK ==
  /\ history \in Seq(Transaction) /\ live \in BOOLEAN
  /\ stage \in {"version", "list", "inspect", "done"}
  /\ format \in {"dnf4", "json", "text"}
  /\ next \in 0..Len(history) /\ newest \in 0..Len(history)
  /\ moments \subseteq 0..Len(history)
  /\ found \in 0..Len(history)
  /\ result \in Results

\* The result is of a transaction that is complete and upgraded a package,
\* with the result that this transaction has.
ResultIsReal ==
  /\ result \in {"success", "failed"} =>
       /\ found > 0 /\ history[found].upgrade /\ Completed(history[found])
       /\ (result = "success") <=> (history[found].status = "ok")
  /\ result = "not_recorded" => found = 0

\* An upgrade that DNF4's list does not show as one.
Misread(t) == format = "dnf4" /\ t.upgrade /\ Len(t.command) > 1

\* The search is atomic in effect although DNF runs beside it: the result was
\* the newest completed upgrade of the history at some moment between the
\* listing and the last inspection, and "not recorded" means that there was
\* none.  Neither a running transaction, nor one whose DNF died, nor a list
\* that cannot be read to its end hides one
\* (TestLastUpdateSkipsUnfinishedTransactions); only a "|" in the command line
\* of a newer upgrade does, where DNF4 prints the list.
AnswerWasTrue ==
  result \in {"success", "failed", "not_recorded"} =>
    found \in moments \/ \E i \in found + 1..Len(history) : Misread(history[i])

(***************************************************************************)
(* What makes AnswerWasTrue inductive: the newest upgrade that was         *)
(* complete when the list was read has not been passed, and those that     *)
(* have completed since then were each the newest at that moment.          *)
(***************************************************************************)
ScanInv ==
  /\ stage \in {"version", "list"} => newest = 0 /\ next = 0
  /\ live => Len(history) > 0
  /\ stage # "done" => found = 0 /\ result = "none"
  /\ newest > 0 => history[newest].upgrade /\ Completed(history[newest])
  /\ stage = "inspect" => newest <= next \/ Misread(history[newest])
  /\ stage = "inspect" => newest \in moments
  /\ stage = "inspect" => \A i \in newest + 1..Len(history) :
                            history[i].upgrade /\ Completed(history[i]) => i \in moments
  /\ \A i \in DOMAIN history :
       (history[i].status = "started" \/ (i = Len(history) /\ live))
         => ~history[i].ended
=============================================================================
