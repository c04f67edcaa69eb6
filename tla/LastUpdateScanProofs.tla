------------------------ MODULE LastUpdateScanProofs ------------------------
(***************************************************************************)
(* Proofs about LastUpdateScan, for any versions and command lines and any *)
(* length of the history: the answer of the search was true at a moment of *)
(* the search, although DNF runs transactions beside it.                   *)
(***************************************************************************)
EXTENDS LastUpdateScan, SequenceTheorems, WellFoundedInduction, TLAPS

Inv == TypeOK /\ ScanInv /\ ResultIsReal /\ AnswerWasTrue

\* A set of positions that is not empty has a last one.
LEMMA LastPosition ==
  ASSUME NEW n \in Nat, NEW T \in SUBSET (1..n), T # {}
  PROVE  \E i \in T : \A j \in T : j <= i
<1> DEFINE U == {n - i : i \in T}
<1>1. U \subseteq Nat
  OBVIOUS
<1>2. U # {}
  <2>1. PICK i \in T : TRUE
    OBVIOUS
  <2>2. n - i \in U
    BY <2>1
  <2> QED BY <2>2
<1>3. PICK u \in U : \A v \in U : u <= v
  <2>1. OpToRel(<, Nat) = {p \in Nat \X Nat : p[1] < p[2]}
    BY DEF OpToRel
  <2>2. PICK u \in U : \A v \in U : <<v, u>> \notin OpToRel(<, Nat)
    BY <1>1, <1>2, WFMin, NatLessThanWellFounded, Zenon
  <2> HIDE DEF U
  <2>3. \A v \in U : ~ (v < u)
    BY <1>1, <2>1, <2>2
  <2> QED BY <1>1, <2>3
<1>4. PICK i \in T : u = n - i
  OBVIOUS
<1>5. ASSUME NEW j \in T PROVE j <= i
  <2>1. n - j \in U
    OBVIOUS
  <2>2. u <= n - j
    BY <1>3, <2>1
  <2> QED BY <1>4, <2>2
<1> QED BY <1>5

\* The newest completed upgrade is one, and none after it is.
LEMMA NewestIsLast ==
  ASSUME NEW h \in Seq(Transaction)
  PROVE  /\ Newest(h) \in 0..Len(h)
         /\ Newest(h) > 0 => h[Newest(h)].upgrade /\ Completed(h[Newest(h)])
         /\ \A i \in Newest(h) + 1..Len(h) : ~ (h[i].upgrade /\ Completed(h[i]))
<1> DEFINE ids == {i \in DOMAIN h : h[i].upgrade /\ Completed(h[i])}
<1>1. CASE ids = {}
  BY <1>1 DEF Newest
<1>2. CASE ids # {}
  <2>1. ids \in SUBSET (1..Len(h)) /\ Len(h) \in Nat
    OBVIOUS
  <2> HIDE DEF ids
  <2>2. \E i \in ids : \A j \in ids : j <= i
    BY <1>2, <2>1, LastPosition
  <2> USE DEF ids
  <2>3. Newest(h) \in ids /\ \A j \in ids : j <= Newest(h)
    BY <1>2, <2>2 DEF Newest
  <2> QED BY <2>3
<1> QED BY <1>1, <1>2

\* Where the fourth field of a row is when the command line has no "|".
LEMMA FourthField ==
  ASSUME NEW S, NEW c \in Seq(S), Len(c) = 1,
         NEW id \in S, NEW date \in S, NEW action \in S, NEW altered \in S
  PROVE  (<<id>> \o c \o <<date, action, altered>>)[4] = action
<1> DEFINE head == <<id>> \o c
           tail == <<date, action, altered>>
<1>1. head \in Seq(S) /\ Len(head) = 2
  BY ConcatProperties
<1>2. tail \in Seq(S) /\ Len(tail) = 3 /\ tail[2] = action
  OBVIOUS
<1> HIDE DEF head, tail
<1>3. 4 \in 1..Len(head) + Len(tail) /\ ~(4 <= Len(head)) /\ 4 - Len(head) = 2
  BY <1>1, <1>2
<1>4. \A i \in 1..Len(head) + Len(tail) :
        (head \o tail)[i] = IF i <= Len(head) THEN head[i] ELSE tail[i - Len(head)]
  BY <1>1, <1>2, ConcatProperties, Zenon
<1>5. (head \o tail)[4] = tail[2]
  BY <1>3, <1>4, Zenon
<1> QED BY <1>2, <1>5, Zenon DEF head, tail

LEMMA OneOrMore == ASSUME NEW n \in Nat, n # 0 PROVE n = 1 \/ n > 1
  OBVIOUS

\* A sequence that is not empty has one element or more.
LEMMA NotEmpty ==
  ASSUME NEW S, NEW c \in Seq(S), c # <<>>
  PROVE  Len(c) = 1 \/ Len(c) > 1
<1>1. Len(c) \in Nat /\ Len(c) # 0
  BY EmptySeq, LenProperties, Zenon
<1> QED BY <1>1, OneOrMore, Zenon

\* A row with an upgrade that DNF4's list does not show has a "|" in it.
LEMMA UnlistedIsMisread ==
  ASSUME NEW t \in Transaction, t.upgrade, ~ListedUpgrade(t)
  PROVE  Len(t.command) > 1
<1>1. t.command \in Seq(STRING) /\ t.command # <<>>
  BY ScanAssumption DEF Transaction
<1> DEFINE Words == STRING \cup {"id", "date", "upgrade", "altered"}
<1>2. t.command \in Seq(Words)
  BY <1>1
<1>3. "id" \in Words /\ "date" \in Words /\ "upgrade" \in Words /\ "altered" \in Words
  OBVIOUS
<1> HIDE DEF Words
<1>4. Len(t.command) # 1
  <2>1. Row(t) = <<"id">> \o t.command \o <<"date", "upgrade", "altered">>
    BY DEF Row
  <2>2. Row(t)[4] # "upgrade"
    BY DEF ListedUpgrade
  <2>3. ASSUME Len(t.command) = 1
        PROVE  (<<"id">> \o t.command \o <<"date", "upgrade", "altered">>)[4] = "upgrade"
    <3> DEFINE c == t.command
               id == "id"
               date == "date"
               action == "upgrade"
               altered == "altered"
    <3>1. c \in Seq(Words) /\ Len(c) = 1
      BY <1>2, <2>3
    <3>2. id \in Words /\ date \in Words /\ action \in Words /\ altered \in Words
      BY <1>3
    <3> HIDE DEF c, id, date, action, altered
    <3>3. (<<id>> \o c \o <<date, action, altered>>)[4] = action
      BY <3>1, <3>2, FourthField
    <3> QED BY <3>3, Zenon DEF c, id, date, action, altered
  <2> QED BY <2>1, <2>2, <2>3
<1> QED BY <1>1, <1>2, <1>4, NotEmpty, Zenon

LEMMA InitInv == Init => Inv
<1> SUFFICES ASSUME Init PROVE Inv
  OBVIOUS
<1>1. TypeOK
  <2>1. history \in Seq(Transaction) /\ Len(history) = 0
    BY EmptySeq, Zenon DEF Init
  <2>2. 0 \in 0..Len(history) /\ {} \subseteq 0..Len(history)
    BY <2>1
  <2> QED BY <2>1, <2>2, Zenon DEF Init, TypeOK, Results
<1>2. ScanInv
  BY DEF Init, ScanInv
<1>3. ResultIsReal /\ AnswerWasTrue
  BY DEF Init, ResultIsReal, AnswerWasTrue
<1> QED BY <1>1, <1>2, <1>3 DEF Inv

\* DNF begins a transaction, which is not complete.
LEMMA BeginInv == ASSUME Inv, Begin PROVE Inv'
<1> USE DEF Inv, Begin, historyVars
<1>1. PICK u \in BOOLEAN, c \in CommandLines :
        history' = Append(history, [upgrade |-> u, status |-> "started",
                                    ended |-> FALSE, command |-> c])
  OBVIOUS
<1>2. TypeOK'
  BY <1>1 DEF TypeOK, Transaction
<1>3. \A i \in DOMAIN history : history'[i] = history[i]
  BY <1>1 DEF TypeOK
<1>4. Len(history') = Len(history) + 1 /\ ~history'[Len(history')].ended
  BY <1>1 DEF TypeOK
<1>5. ScanInv'
  BY <1>2, <1>3, <1>4 DEF TypeOK, ScanInv, Completed, Misread
<1>6. ResultIsReal' /\ AnswerWasTrue'
  BY DEF ScanInv, ResultIsReal, AnswerWasTrue, TypeOK
<1> QED BY <1>2, <1>5, <1>6

\* DNF completes it: if it is an upgrade, it is the newest from then on.
LEMMA EndInv == ASSUME Inv, End PROVE Inv'
<1> USE DEF Inv, End, historyVars
<1>1. PICK s \in {"ok", "error"} :
        history' = [history EXCEPT ![Len(history)].status = s,
                                   ![Len(history)].ended = TRUE]
  OBVIOUS
<1>2. history' \in Seq(Transaction) /\ Len(history') = Len(history)
  <2> DEFINE n == Len(history)
             new == [history[Len(history)] EXCEPT !.status = s, !.ended = TRUE]
  <2>1. n \in 1..Len(history) /\ history[n] \in Transaction
    BY DEF TypeOK, ScanInv
  <2>2. new \in Transaction
    BY <2>1 DEF Transaction
  <2>3. history' = [history EXCEPT ![n] = new]
    BY <1>1, <2>1 DEF TypeOK
  <2> HIDE DEF n, new
  <2>4. [history EXCEPT ![n] = new] \in Seq(Transaction)
          /\ Len([history EXCEPT ![n] = new]) = Len(history)
    <3>1. history \in Seq(Transaction)
      BY DEF TypeOK
    <3> QED BY <2>1, <2>2, <3>1, ExceptSeq
  <2> QED BY <2>3, <2>4, Zenon
<1>3. \A i \in DOMAIN history :
        /\ history'[i].upgrade = history[i].upgrade
        /\ history'[i].command = history[i].command
        /\ i # Len(history) => history'[i] = history[i]
  BY <1>1 DEF TypeOK, Transaction
<1>4. TypeOK'
  <2>1. Newest(history') \in 0..Len(history')
    BY <1>2, NewestIsLast
  <2> QED BY <1>2, <2>1 DEF TypeOK
<1>5. ScanInv'
  <2>1. ASSUME newest > 0
        PROVE  history'[newest].upgrade /\ Completed(history'[newest])
    BY <1>1, <1>2, <1>3, <2>1 DEF TypeOK, ScanInv, Completed, Transaction
  <2>2. ASSUME stage = "inspect", NEW i \in newest + 1..Len(history'),
               history'[i].upgrade, Completed(history'[i])
        PROVE  i \in moments'
    <3>1. CASE i = Len(history)
      <4>1. /\ Newest(history') \in 0..Len(history')
            /\ \A j \in Newest(history') + 1..Len(history') :
                  ~ (history'[j].upgrade /\ Completed(history'[j]))
        BY <1>2, NewestIsLast
      <4>2. Newest(history') = i
        <5>1. Len(history') = i /\ i \in Nat
          BY <1>2, <3>1 DEF TypeOK
        <5>2. i \notin Newest(history') + 1..Len(history')
          BY <2>2, <4>1, Zenon
        <5> QED BY <4>1, <5>1, <5>2
      <4> QED BY <2>2, <4>2
    <3>2. CASE i # Len(history)
      BY <1>2, <1>3, <2>2, <3>2 DEF TypeOK, ScanInv
    <3> QED BY <3>1, <3>2
  <2>3. \A i \in DOMAIN history' : history'[i].status = "started" => ~history'[i].ended
    BY <1>1, <1>2, <1>3 DEF TypeOK, ScanInv, Transaction
  <2>4. ASSUME stage = "inspect"
        PROVE  newest <= next \/ Misread(history[newest])'
    BY <1>2, <1>3, <2>4 DEF TypeOK, ScanInv, Misread
  <2>5. stage = "inspect" => newest \in moments'
    BY DEF ScanInv
  <2> QED BY <1>2, <2>1, <2>2, <2>3, <2>4, <2>5 DEF TypeOK, ScanInv
<1>6. ResultIsReal' /\ AnswerWasTrue'
  BY DEF ScanInv, ResultIsReal, AnswerWasTrue, TypeOK
<1> QED BY <1>4, <1>5, <1>6

\* DNF dies in it.
LEMMA DieInv == ASSUME Inv, Die PROVE Inv'
<1> USE DEF Inv, Die, historyVars
<1>1. PICK s \in {"started", "aborted"} :
        history' = [history EXCEPT ![Len(history)].status = s]
  OBVIOUS
<1>2. history' \in Seq(Transaction) /\ Len(history') = Len(history)
  <2> DEFINE n == Len(history)
             new == [history[Len(history)] EXCEPT !.status = s]
  <2>1. n \in 1..Len(history) /\ history[n] \in Transaction
    BY DEF TypeOK, ScanInv
  <2>2. new \in Transaction
    BY <2>1 DEF Transaction
  <2>3. history' = [history EXCEPT ![n] = new]
    BY <1>1, <2>1 DEF TypeOK
  <2> HIDE DEF n, new
  <2> QED BY <2>1, <2>2, <2>3, ExceptSeq DEF TypeOK
<1>3. \A i \in DOMAIN history :
        /\ history'[i].upgrade = history[i].upgrade
        /\ history'[i].command = history[i].command
        /\ history'[i].ended = history[i].ended
        /\ i # Len(history) => history'[i] = history[i]
  BY <1>1 DEF TypeOK, Transaction
<1>4. TypeOK'
  BY <1>2 DEF TypeOK
<1>5. ScanInv'
  BY <1>2, <1>3, <1>4 DEF TypeOK, ScanInv, Completed, Misread
<1>6. ResultIsReal' /\ AnswerWasTrue'
  BY DEF ScanInv, ResultIsReal, AnswerWasTrue, TypeOK
<1> QED BY <1>4, <1>5, <1>6

LEMMA ReadVersionInv == ASSUME Inv, ReadVersion PROVE Inv'
<1> USE DEF Inv, ReadVersion, historyVars
<1>1. format' \in {"dnf4", "json", "text"}
  BY DEF FormatOf
<1> QED BY <1>1 DEF TypeOK, ScanInv, ResultIsReal, AnswerWasTrue

\* The list is read, and with it the newest completed upgrade.
LEMMA ListHistoryInv == ASSUME Inv, ListHistory PROVE Inv'
<1> USE DEF Inv, ListHistory, historyVars
<1>1. /\ newest' \in 0..Len(history)
      /\ newest' > 0 => history[newest'].upgrade /\ Completed(history[newest'])
      /\ \A i \in newest' + 1..Len(history) :
            ~ (history[i].upgrade /\ Completed(history[i]))
  BY NewestIsLast DEF TypeOK
<1>2. TypeOK'
  BY <1>1 DEF TypeOK
<1>3. ScanInv'
  BY <1>1 DEF TypeOK, ScanInv
<1>4. ResultIsReal' /\ AnswerWasTrue'
  BY DEF ScanInv, ResultIsReal, AnswerWasTrue
<1> QED BY <1>2, <1>3, <1>4

\* A row that is passed is not of the newest one, or DNF4's list misreads it.
LEMMA PassRowInv == ASSUME Inv, PassRow PROVE Inv'
<1> USE DEF Inv, PassRow, historyVars
<1>1. ASSUME newest = next PROVE Misread(history[newest])
  BY <1>1, UnlistedIsMisread DEF TypeOK, ScanInv, Misread
<1>2. newest <= next' \/ Misread(history[newest])
  BY <1>1 DEF TypeOK, ScanInv
<1> QED BY <1>2 DEF TypeOK, ScanInv, ResultIsReal, AnswerWasTrue, Misread

\* A transaction that is skipped is not the newest completed upgrade.
LEMMA InspectSkipsInv == ASSUME Inv, InspectSkips PROVE Inv'
<1> USE DEF Inv, InspectSkips, InspectRow, historyVars
<1>1. newest # next
  BY DEF TypeOK, ScanInv, Reading, Unfinished, Completed
<1> QED BY <1>1 DEF TypeOK, ScanInv, ResultIsReal, AnswerWasTrue, Misread

\* A transaction that is found is the newest one of the list, or has completed
\* since then, or a misread one is above it.
LEMMA InspectFindsInv == ASSUME Inv, InspectFinds PROVE Inv'
<1> USE DEF Inv, InspectFinds, InspectRow, historyVars
<1>1. history[next].upgrade /\ Completed(history[next])
  BY DEF TypeOK, Reading, Completed
<1>2. TypeOK' /\ ScanInv'
  BY DEF TypeOK, ScanInv, Results
<1>3. ResultIsReal'
  BY <1>1 DEF TypeOK, ResultIsReal, Reading
<1>4. next \in moments \/ \E i \in next + 1..Len(history) : Misread(history[i])
  BY <1>1 DEF TypeOK, ScanInv
<1>5. AnswerWasTrue'
  BY <1>4 DEF AnswerWasTrue, Misread
<1> QED BY <1>2, <1>3, <1>5

LEMMA NoneFoundInv == ASSUME Inv, NoneFound PROVE Inv'
<1> USE DEF Inv, NoneFound, RowsEnd, historyVars
<1>1. TypeOK' /\ ScanInv' /\ ResultIsReal'
  BY DEF TypeOK, ScanInv, ResultIsReal, Results
<1>2. 0 \in moments \/ \E i \in 1..Len(history) : Misread(history[i])
  BY DEF TypeOK, ScanInv
<1>3. AnswerWasTrue'
  BY <1>2 DEF TypeOK, ScanInv, AnswerWasTrue, Misread
<1> QED BY <1>1, <1>3

LEMMA FailureInv == ASSUME Inv, InspectFails \/ CommandFails PROVE Inv'
<1>1. /\ UNCHANGED <<historyVars, format, next, newest, moments, found>>
      /\ stage' = "done" /\ result' = "failed to read"
  BY DEF InspectFails, CommandFails
<1> QED BY <1>1 DEF Inv, historyVars, TypeOK, ScanInv, ResultIsReal, AnswerWasTrue, Results

LEMMA StutterInv == ASSUME Inv, UNCHANGED vars PROVE Inv'
  BY DEF Inv, vars, historyVars, TypeOK, ScanInv, ResultIsReal, AnswerWasTrue, Misread,
         Newest, Completed

-----------------------------------------------------------------------------
\* The inductive invariant of the search.
THEOREM Invariance == Spec => []Inv
<1>1. ASSUME Inv, [Next]_vars PROVE Inv'
  BY <1>1, BeginInv, EndInv, DieInv, ReadVersionInv, ListHistoryInv, PassRowInv,
     InspectSkipsInv, InspectFindsInv, NoneFoundInv, FailureInv, StutterInv
     DEF Next, Done
<1> QED BY <1>1, InitInv, PTL DEF Spec

\* The types of the variables.
THEOREM TypeCorrect == Spec => []TypeOK
  BY Invariance, PTL DEF Inv

\* The newest upgrade that was complete when the list was read is never passed
\* over, unless DNF4's list misreads it.
THEOREM NewestIsKept == Spec => []ScanInv
  BY Invariance, PTL DEF Inv

\* The reported transaction is a completed upgrade with the reported result.
THEOREM ResultsAreReal == Spec => []ResultIsReal
  BY Invariance, PTL DEF Inv

\* The answer was the newest completed upgrade at some moment of the search,
\* whatever DNF does meanwhile, unless a "|" hides a newer one in DNF4's list.
THEOREM AnswersWereTrue == Spec => []AnswerWasTrue
  BY Invariance, PTL DEF Inv
=============================================================================
