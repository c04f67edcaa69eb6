----------------------------- MODULE DnfOutput -----------------------------
(***************************************************************************)
(* What the parsers of internal/dnf make of the standard output of         *)
(* "dnf repolist" (repository_parser.go) and "dnf repoquery"               *)
(* (update_parser.go).                                                     *)
(*                                                                         *)
(* An output is a sequence of lines.  A line is the sequence of its        *)
(* fields, which white space separates in a repolist and "|" in a          *)
(* repoquery; it is <<>> when it is blank, and TooLong when it exceeds     *)
(* what a bufio.Scanner takes.  The words of a header are compared in      *)
(* lower case, so they are lower case here.                                *)
(***************************************************************************)
EXTENDS Integers, Sequences, SequencesExt

TooLong == <<"too", "long">>

\* A parser gives an error, or a row for each line that it takes as one.
Error == [ok |-> FALSE, rows |-> <<>>]
Rows(rows) == [ok |-> TRUE, rows |-> rows]

\* bufio.Scanner and the trimming: the numbers of the lines that are not blank,
\* up to the first one that is too long.
Scanned(out) ==
  {i \in DOMAIN out : out[i] # <<>> /\ \A j \in 1..i : out[j] # TooLong}

-----------------------------------------------------------------------------
Header == <<"repo", "id", "repo", "name">>
StatusHeader == Append(Header, "status")

\* parseRepositoryRow: the ID, the words of the name and, under a header with
\* a status, the status.
RowFields(status) == IF status THEN 3 ELSE 2
RepositoryRow(line, status) ==
  [id |-> Head(line), name |-> IF status THEN Front(Tail(line)) ELSE Tail(line)]

\* What comes before the header is skipped, and no output at all means that
\* no repository is enabled.
RepositoriesIn(out) ==
  LET headers == {i \in Scanned(out) : out[i] \in {Header, StatusHeader}}
      header == Min(headers)
      status == out[header] = StatusHeader
      rows == {i \in Scanned(out) : i > header}
  IN IF headers = {} THEN IF Scanned(out) = {} THEN Rows(<<>>) ELSE Error
     ELSE IF \E i \in rows : Len(out[i]) < RowFields(status) THEN Error
     ELSE Rows([i \in rows |-> RepositoryRow(out[i], status)])

\* Bug: the error of the scanner is not looked at.
ParseRepositoriesCut(out) == RepositoriesIn(out)

ParseRepositories(out) ==
  IF TooLong \in ToSet(out) THEN Error ELSE RepositoriesIn(out)

-----------------------------------------------------------------------------
UpdateFields == 6

\* Bug: a line that is not an update is skipped, as it is before a header.
ParseUpdatesLenient(out) ==
  Rows([i \in {j \in Scanned(out) : Len(out[j]) = UpdateFields} |-> out[i]])

\* ParseUpdates: every line that is not blank is an update, or the output is
\* an error.
ParseUpdates(out) ==
  IF TooLong \in ToSet(out) \/ \E i \in Scanned(out) : Len(out[i]) < UpdateFields
    THEN Error
  ELSE Rows([i \in Scanned(out) |-> out[i]])
=============================================================================
