-------------------------- MODULE CollectorProofs --------------------------
(***************************************************************************)
(* Proofs about Collector and DnfOutput, for any repositories, updates and *)
(* hosts, and however often the host changes during a collection.          *)
(***************************************************************************)
EXTENDS Collector, FiniteSetTheorems, SequenceTheorems, TLAPS

-----------------------------------------------------------------------------
(***************************************************************************)
(* What the parsers make of the outputs.                                   *)
(***************************************************************************)
Texts == Repos \cup STRING \cup {"repo", "id", "name", "status", "enabled", "notice", "too", "long"}

\* In whatever order DNF prints a set, it prints all of it.
LEMMA Orders ==
  ASSUME NEW S, IsFiniteSet(S), NEW order \in SetToSeqs(S)
  PROVE  /\ Cardinality(S) \in Nat
         /\ order \in [1..Cardinality(S) -> S]
         /\ \A x \in S : \E i \in 1..Cardinality(S) : order[i] = x
<1> DEFINE n == Cardinality(S)
<1>1. n \in Nat /\ order \in [1..n -> S]
  BY FS_CardinalityType DEF SetToSeqs
<1>2. order \in Injection(1..n, S)
  BY <1>1 DEF SetToSeqs, Injection, IsInjective
<1>3. Cardinality(1..n) = Cardinality(S)
  BY <1>1, FS_Interval
<1>4. order \in Surjection(1..n, S)
  BY <1>2, <1>3, FS_Injection
<1> QED BY <1>1, <1>4 DEF Surjection

LEMMA FrontIsPrefix ==
  ASSUME NEW S, NEW s \in Seq(S), NEW n \in Nat, Len(s) = n + 1
  PROVE  /\ Front(s) \in Seq(S) /\ Len(Front(s)) = n
         /\ \A i \in 1..n : Front(s)[i] = s[i]
<1>1. Front(s) = SubSeq(s, 1, n)
  BY DEF Front
<1>2. \A i \in 1..n : s[i] \in S
  OBVIOUS
<1> QED BY <1>1, <1>2

LEMMA Headers ==
  /\ Header \in Seq(Texts) /\ StatusHeader \in Seq(Texts)
  /\ Len(Header) = 4 /\ Len(StatusHeader) = 5
  /\ Header # <<>> /\ StatusHeader # <<>>
  /\ Header # StatusHeader
<1>1. Header \in Seq(Texts) /\ Len(Header) = 4 /\ Header # <<>>
  <2>1. {"repo", "id", "name"} \subseteq Texts
    BY DEF Texts
  <2> HIDE DEF Texts
  <2> QED BY <2>1 DEF Header
<1>2. "status" \in Texts
  BY DEF Texts
<1>3. StatusHeader \in Seq(Texts) /\ Len(StatusHeader) = Len(Header) + 1 /\ StatusHeader # <<>>
  <2> HIDE DEF Header, Texts
  <2> QED BY <1>1, <1>2, AppendProperties, Zenon DEF StatusHeader
<1>4. Len(StatusHeader) = 5
  BY <1>1, <1>3
<1>5. Header # StatusHeader
  <2>1. 4 # 5
    OBVIOUS
  <2> QED BY <1>1, <1>4, <2>1, Zenon
<1> QED BY <1>1, <1>3, <1>4, <1>5

\* parseRepositoryRow finds the ID and the name again.
LEMMA RowIsRead ==
  ASSUME NEW r \in Repos, NEW status \in BOOLEAN
  PROVE  /\ RepolistRow(r, status) \in Seq(Texts)
         /\ RepolistRow(r, status) # <<>>
         /\ RepositoryRow(RepolistRow(r, status), status) = [id |-> r, name |-> Name[r]]
<1> DEFINE name == Name[r]
           end == IF status THEN <<"enabled">> ELSE <<>>
           line == (<<r>> \o name) \o end
<1>1. name \in Seq(Texts)
  <2>1. name \in Seq(STRING)
    BY CollectorAssumption
  <2> QED BY <2>1, SeqMonotonic DEF Texts
<1>2. <<r>> \in Seq(Texts) /\ Len(<<r>>) = 1 /\ <<r>>[1] = r
  BY DEF Texts
<1>3. end \in Seq(Texts) /\ Len(end) = (IF status THEN 1 ELSE 0)
  <2>1. "enabled" \in Texts
    BY DEF Texts
  <2>2. <<"enabled">> \in Seq(Texts) /\ <<>> \in Seq(Texts)
    BY <2>1
  <2> QED BY <2>2
<1> HIDE DEF name, end
<1> DEFINE front == <<r>> \o name
<1>4. /\ front \in Seq(Texts) /\ Len(front) = 1 + Len(name) /\ Len(name) \in Nat
      /\ front[1] = r
      /\ \A i \in 1..Len(name) : front[i + 1] = name[i]
  <2>1. Len(name) \in Nat
    BY <1>1, LenProperties
  <2> QED BY <1>1, <1>2, <2>1, ConcatProperties
<1> HIDE DEF front
<1>5. /\ line = front \o end /\ line \in Seq(Texts) /\ Len(line) = Len(front) + Len(end)
      /\ \A i \in 1..Len(front) : line[i] = front[i]
  <2>1. line = front \o end
    BY DEF front
  <2>2. /\ front \o end \in Seq(Texts) /\ Len(front \o end) = Len(front) + Len(end)
        /\ \A i \in 1..Len(front) + Len(end) :
              (front \o end)[i] = IF i <= Len(front) THEN front[i] ELSE end[i - Len(front)]
    <3>1. front \in Seq(Texts) /\ end \in Seq(Texts)
      BY <1>3, <1>4
    <3> HIDE DEF Texts
    <3> QED BY <3>1, ConcatProperties, Zenon
  <2>3. \A i \in 1..Len(front) : i \in 1..Len(front) + Len(end) /\ i <= Len(front)
    BY <1>3, <1>4
  <2> HIDE DEF line
  <2> QED BY <2>1, <2>2, <2>3
<1> HIDE DEF line
<1>6. Len(line) > 0 /\ line # <<>> /\ Head(line) = r
  BY <1>3, <1>4, <1>5
<1>7. /\ Tail(line) \in Seq(Texts) /\ Len(Tail(line)) = Len(name) + Len(end)
      /\ \A i \in 1..Len(name) : Tail(line)[i] = name[i]
  <2>1. /\ Tail(line) \in Seq(Texts) /\ Len(Tail(line)) = Len(line) - 1
        /\ \A i \in 1..Len(Tail(line)) : Tail(line)[i] = line[i + 1]
    BY <1>5, <1>6, HeadTailProperties
  <2> QED BY <1>3, <1>4, <1>5, <2>1
<1>8. (IF status THEN Front(Tail(line)) ELSE Tail(line)) = name
  <2>1. CASE status
    <3>1. Len(Tail(line)) = Len(name) + 1
      BY <2>1, <1>3, <1>7
    <3>2. /\ Front(Tail(line)) \in Seq(Texts) /\ Len(Front(Tail(line))) = Len(name)
          /\ \A i \in 1..Len(name) : Front(Tail(line))[i] = Tail(line)[i]
      BY <1>4, <1>7, <3>1, FrontIsPrefix
    <3> QED BY <1>1, <1>7, <2>1, <3>2, SeqEqual
  <2>2. CASE ~status
    <3>1. Len(Tail(line)) = Len(name)
      BY <2>2, <1>3, <1>4, <1>7
    <3> QED BY <1>1, <1>7, <2>2, <3>1, SeqEqual
  <2> QED BY <2>1, <2>2
<1>9. RepolistRow(r, status) = line
  BY DEF RepolistRow, line, name, end
<1> QED BY <1>5, <1>6, <1>8, <1>9 DEF RepositoryRow, name

\* Line p of an output is the header of a table, and what follows the table
\* is blank.
TableAt(out, p, order, n, status) ==
  /\ \A i \in 1..(p - 1) : out[i] \notin {Header, StatusHeader}
  /\ out[p] = (IF status THEN StatusHeader ELSE Header)
  /\ \A i \in 1..n : out[p + i] = RepolistRow(order[i], status)
  /\ \A i \in (p + n + 1)..Len(out) : out[i] = <<>>

\* The rows of a listing are these repositories under their names.
Lists(rows, set) ==
  /\ \A i \in DOMAIN rows : rows[i] \in {[id |-> r, name |-> Name[r]] : r \in set}
  /\ \A r \in set : \E i \in DOMAIN rows : rows[i] = [id |-> r, name |-> Name[r]]

\* A table is read row by row, from the line after its header.
LEMMA TableIsRead ==
  ASSUME NEW n \in Nat, NEW order \in [1..n -> Repos], NEW status \in BOOLEAN,
         NEW p \in Nat \ {0}, NEW out \in Seq(Seq(Texts)), p + n <= Len(out),
         TableAt(out, p, order, n, status), ParseRepositories(out).ok
  PROVE  Lists(ParseRepositories(out).rows, {order[i] : i \in 1..n})
<1> DEFINE m == Len(out)
<1>0. /\ m \in Nat /\ DOMAIN out = 1..m
      /\ \A i \in 1..(p - 1) : out[i] \notin {Header, StatusHeader}
      /\ out[p] = (IF status THEN StatusHeader ELSE Header)
      /\ \A i \in 1..n : out[p + i] = RepolistRow(order[i], status)
      /\ \A i \in (p + n + 1)..m : out[i] = <<>>
  BY DEF TableAt
<1> DEFINE headers == {i \in Scanned(out) : out[i] \in {Header, StatusHeader}}
           rows == {i \in Scanned(out) : i > p}
<1>1. TooLong \notin ToSet(out)
  BY DEF ParseRepositories, Error
<1>2. ParseRepositories(out) = RepositoriesIn(out)
  BY <1>1 DEF ParseRepositories
<1>3. Scanned(out) = {i \in 1..m : out[i] # <<>>}
  BY <1>0, <1>1 DEF Scanned, ToSet
<1>4. p \in 1..m /\ p \in headers
  <2>1. Header # <<>> /\ StatusHeader # <<>>
    BY Headers
  <2> QED BY <1>0, <1>3, <2>1
<1>5. Min(headers) = p
  <2>1. \A i \in headers : i \in Nat /\ p <= i
    <3>1. ASSUME NEW i \in 1..m, i < p PROVE i \in 1..(p - 1)
      BY <3>1
    <3> QED BY <1>0, <1>3, <3>1
  <2>2. \A x \in headers : (\A y \in headers : x <= y) => x = p
    BY <1>4, <2>1
  <2> HIDE DEF headers
  <2> QED BY <1>4, <2>1, <2>2 DEF Min
<1>6. (out[p] = StatusHeader) = status
  BY <1>0, Headers
<1>7. rows = (p + 1)..(p + n)
  <2>1. ASSUME NEW i \in (p + 1)..(p + n) PROVE i \in 1..m /\ out[i] # <<>>
    <3>1. i - p \in 1..n /\ p + (i - p) = i /\ i \in 1..m
      BY <1>0
    <3>2. out[i] = RepolistRow(order[i - p], status)
      BY <1>0, <3>1
    <3>3. out[i] # <<>>
      BY <3>1, <3>2, RowIsRead
    <3> QED BY <3>1, <3>3
  <2>2. ASSUME NEW i \in 1..m, i > p, out[i] # <<>> PROVE i \in (p + 1)..(p + n)
    <3>1. i \notin (p + n + 1)..m
      BY <1>0, <2>2
    <3> QED BY <1>0, <2>2, <3>1
  <2> QED BY <1>0, <1>3, <2>1, <2>2
<1>8. /\ headers # {}
      /\ RepositoriesIn(out)
           = IF \E i \in rows : Len(out[i]) < RowFields(status) THEN Error
             ELSE Rows([i \in rows |-> RepositoryRow(out[i], status)])
  BY <1>4, <1>5, <1>6, Zenon DEF RepositoriesIn
<1>9. RepositoriesIn(out) = Rows([i \in rows |-> RepositoryRow(out[i], status)])
  BY <1>2, <1>8 DEF Error
<1>10. ASSUME NEW i \in (p + 1)..(p + n)
       PROVE  RepositoryRow(out[i], status) = [id |-> order[i - p], name |-> Name[order[i - p]]]
  <2>1. i - p \in 1..n /\ p + (i - p) = i
    OBVIOUS
  <2>2. out[i] = RepolistRow(order[i - p], status) /\ order[i - p] \in Repos
    BY <1>0, <2>1
  <2> QED BY <2>2, RowIsRead
<1>11. ParseRepositories(out).rows = [i \in rows |-> RepositoryRow(out[i], status)]
  BY <1>2, <1>9 DEF Rows
<1> DEFINE found == [i \in rows |-> RepositoryRow(out[i], status)]
<1> HIDE DEF rows
<1>12. \A i \in 1..n : p + i \in (p + 1)..(p + n) /\ (p + i) - p = i
  OBVIOUS
<1>13. \A i \in (p + 1)..(p + n) : i - p \in 1..n
  OBVIOUS
<1>14. /\ DOMAIN found = (p + 1)..(p + n)
       /\ \A i \in DOMAIN found : found[i] = [id |-> order[i - p], name |-> Name[order[i - p]]]
  BY <1>7, <1>10
<1> HIDE DEF found
<1>15. ASSUME NEW i \in DOMAIN found
       PROVE  found[i] \in {[id |-> r, name |-> Name[r]] : r \in {order[k] : k \in 1..n}}
  BY <1>13, <1>14
<1>16. ASSUME NEW i \in 1..n
       PROVE  \E k \in DOMAIN found : found[k] = [id |-> order[i], name |-> Name[order[i]]]
  <2>1. p + i \in DOMAIN found /\ found[p + i] = [id |-> order[i], name |-> Name[order[i]]]
    BY <1>12, <1>14
  <2> QED BY <2>1
<1>17. Lists(found, {order[i] : i \in 1..n})
  BY <1>15, <1>16 DEF Lists
<1> QED BY <1>11, <1>17 DEF found

LEMMA RepolistShape ==
  ASSUME NEW n \in Nat, NEW order \in [1..n -> Repos], NEW status \in BOOLEAN
  PROVE  LET t == Repolist(order, status)
         IN  /\ t \in Seq(Seq(Texts)) /\ Len(t) = n + 1
             /\ t[1] = (IF status THEN StatusHeader ELSE Header)
             /\ \A i \in 1..n : t[i + 1] = RepolistRow(order[i], status)
<1> DEFINE header == IF status THEN StatusHeader ELSE Header
           rows == [i \in 1..n |-> RepolistRow(order[i], status)]
<1>1. header \in Seq(Texts)
  BY Headers
<1>2. rows \in [1..n -> Seq(Texts)]
  BY RowIsRead
<1>3. Repolist(order, status) = <<header>> \o rows
  BY DEF Repolist
<1> HIDE DEF header, rows
<1>4. rows \in Seq(Seq(Texts)) /\ Len(rows) = n
  BY <1>2
<1>5. <<header>> \in Seq(Seq(Texts)) /\ Len(<<header>>) = 1 /\ <<header>>[1] = header
  BY <1>1
<1>6. /\ <<header>> \o rows \in Seq(Seq(Texts)) /\ Len(<<header>> \o rows) = n + 1
      /\ (<<header>> \o rows)[1] = header
      /\ \A i \in 1..n : (<<header>> \o rows)[i + 1] = rows[i]
  BY <1>4, <1>5, ConcatProperties
<1> QED BY <1>3, <1>6 DEF header, rows

\* One word is no header, no blank line and not too long.
LEMMA NoticeIsSkipped ==
  /\ <<Notice>> \in Seq(Seq(Texts)) /\ Len(<<Notice>>) = 1 /\ <<Notice>>[1] = Notice
  /\ Notice \notin {Header, StatusHeader} /\ Notice # <<>> /\ Len(Notice) = 1
<1>1. Notice \in Seq(Texts) /\ Len(Notice) = 1 /\ Notice # <<>>
  <2>1. "notice" \in Texts
    BY DEF Texts
  <2> QED BY <2>1 DEF Notice
<1>2. 1 # 4 /\ 1 # 5
  OBVIOUS
<1>3. Notice # Header /\ Notice # StatusHeader
  BY <1>1, <1>2, Headers, Zenon
<1> QED BY <1>1, <1>3

\* A line in between is a line of the output.
LEMMA InterruptedHasLine ==
  ASSUME NEW S, NEW t \in Seq(S), NEW line \in S, NEW out \in Interrupted(t, line)
  PROVE  out \in Seq(S) /\ \E i \in DOMAIN out : out[i] = line
<1>1. PICK i \in 1..Len(t) + 1 : out = SubSeq(t, 1, i - 1) \o <<line>> \o SubSeq(t, i, Len(t))
  BY DEF Interrupted, InsertAt
<1> DEFINE a == SubSeq(t, 1, i - 1)
           b == SubSeq(t, i, Len(t))
<1>2. a \in Seq(S) /\ b \in Seq(S)
  OBVIOUS
<1>3. out = (a \o <<line>>) \o b
  BY <1>1
<1> HIDE DEF a, b
<1>4. /\ a \o <<line>> \in Seq(S) /\ Len(a \o <<line>>) = Len(a) + 1
      /\ (a \o <<line>>)[Len(a) + 1] = line /\ Len(a) \in Nat
  BY <1>2, ConcatProperties
<1> DEFINE c == a \o <<line>>
<1> HIDE DEF c
<1>5. c \in Seq(S) /\ c[Len(a) + 1] = line /\ Len(c) = Len(a) + 1
  BY <1>4 DEF c
<1>6. c \o b \in Seq(S) /\ (c \o b)[Len(a) + 1] = line /\ Len(a) + 1 \in 1..Len(c \o b)
  BY <1>2, <1>4, <1>5, ConcatProperties
<1>7. out = c \o b
  BY <1>3 DEF c
<1> QED BY <1>6, <1>7

\* Whatever is printed around a table, the parser finds its repositories or
\* gives an error.
LEMMA RepolistIsRead ==
  ASSUME NEW n \in Nat, NEW order \in [1..n -> Repos], NEW status \in BOOLEAN,
         NEW out \in Printed(Repolist(order, status)), ParseRepositories(out).ok
  PROVE  Lists(ParseRepositories(out).rows, {order[i] : i \in 1..n})
<1> DEFINE t == Repolist(order, status)
           lines == Seq(Texts)
           header == IF status THEN StatusHeader ELSE Header
<1>1. /\ t \in Seq(lines) /\ Len(t) = n + 1 /\ t[1] = header
      /\ \A i \in 1..n : t[i + 1] = RepolistRow(order[i], status)
  BY RepolistShape
<1>2. \A i \in 1..n : 1 + i = i + 1 /\ 2 + i = (i + 1) + 1 /\ i + 1 \in 1..n + 1
  OBVIOUS
<1>3. TooLong \notin ToSet(out)
  BY DEF ParseRepositories, Error
<1> HIDE DEF t
<1>4. CASE out = t
  <2>1. TableAt(out, 1, order, n, status)
    BY <1>1, <1>2, <1>4 DEF TableAt
  <2>2. out \in Seq(lines) /\ 1 \in Nat \ {0} /\ 1 + n <= Len(out)
    BY <1>1, <1>4
  <2> QED BY <2>1, <2>2, TableIsRead, Zenon
<1>5. CASE out = Append(t, <<>>)
  <2>1. <<>> \in lines
    OBVIOUS
  <2>2. /\ out \in Seq(lines) /\ Len(out) = n + 2 /\ out[n + 2] = <<>>
        /\ \A i \in 1..n + 1 : out[i] = t[i]
    BY <1>1, <1>5, <2>1, AppendProperties
  <2>3. TableAt(out, 1, order, n, status)
    BY <1>1, <1>2, <2>2 DEF TableAt
  <2>4. out \in Seq(lines) /\ 1 \in Nat \ {0} /\ 1 + n <= Len(out)
    BY <2>2
  <2> QED BY <2>3, <2>4, TableIsRead, Zenon
<1>6. CASE out = <<Notice>> \o t
  <2>1. /\ out \in Seq(lines) /\ Len(out) = n + 2 /\ out[1] = Notice
        /\ \A i \in 1..n + 1 : out[i + 1] = t[i]
    BY <1>1, <1>6, NoticeIsSkipped, ConcatProperties
  <2>2. out[2] = header /\ \A i \in 1..n : out[2 + i] = RepolistRow(order[i], status)
    BY <1>1, <1>2, <2>1
  <2>3. TableAt(out, 2, order, n, status)
    BY <2>1, <2>2, NoticeIsSkipped DEF TableAt
  <2>4. out \in Seq(lines) /\ 2 \in Nat \ {0} /\ 2 + n <= Len(out)
    BY <2>1
  <2> QED BY <2>3, <2>4, TableIsRead, Zenon
<1>7. CASE out = <<Notice>> \o Tail(t)
  <2>1. /\ Tail(t) \in Seq(lines) /\ Len(Tail(t)) = n
        /\ \A i \in 1..n : Tail(t)[i] = RepolistRow(order[i], status)
    BY <1>1, HeadTailProperties
  <2>2. /\ out \in Seq(lines) /\ Len(out) = n + 1 /\ out[1] = Notice
        /\ \A i \in 1..n : out[i + 1] = RepolistRow(order[i], status)
    BY <1>7, <2>1, NoticeIsSkipped, ConcatProperties
  <2>3. \A i \in DOMAIN out : out[i] \notin {Header, StatusHeader}
    <3>1. \A i \in 1..n : RepolistRow(order[i], status) \notin {Header, StatusHeader}
      BY RowsAssumption
    <3>2. \A i \in 2..n + 1 : i - 1 \in 1..n /\ (i - 1) + 1 = i
      OBVIOUS
    <3>3. DOMAIN out = 1..n + 1 /\ 1..n + 1 = {1} \cup 2..n + 1
      BY <2>2
    <3>4. \A i \in 2..n + 1 : out[i] = RepolistRow(order[i - 1], status)
      BY <2>2, <3>2
    <3>5. \A i \in 2..n + 1 : out[i] \notin {Header, StatusHeader}
      BY <3>1, <3>2, <3>4
    <3>6. out[1] \notin {Header, StatusHeader}
      BY <2>2, NoticeIsSkipped
    <3> QED BY <3>3, <3>5, <3>6, Zenon
  <2>4. 1 \in Scanned(out)
    BY <1>3, <2>2, NoticeIsSkipped DEF Scanned, ToSet
  <2>5. {i \in Scanned(out) : out[i] \in {Header, StatusHeader}} = {}
    BY <2>3 DEF Scanned
  <2>6. RepositoriesIn(out) = Error
    BY <2>4, <2>5, Zenon DEF RepositoriesIn
  <2> QED BY <1>3, <2>6 DEF ParseRepositories, Error
<1>8. CASE out \in Interrupted(t, TooLong)
  <2>1. TooLong \in lines
    BY DEF TooLong, Texts
  <2> QED BY <1>1, <1>3, <1>8, <2>1, InterruptedHasLine DEF ToSet
<1> QED BY <1>4, <1>5, <1>6, <1>7, <1>8 DEF t, Printed

\* "dnf repolist" of a host gives the enabled repositories, or an error.
LEMMA RepositoriesAreRead ==
  ASSUME NEW h \in Hosts, NEW out \in RepolistOutputs(h), ParseRepositories(out).ok
  PROVE  Lists(ParseRepositories(out).rows, h.repos)
<1>1. h.repos \subseteq Repos /\ IsFiniteSet(h.repos)
  BY CollectorAssumption, FS_Subset
<1> DEFINE n == Cardinality(h.repos)
<1>2. PICK order \in SetToSeqs(h.repos) : out \in PrintedInOrder(order)
  BY DEF RepolistOutputs
<1>3. /\ n \in Nat /\ order \in [1..n -> h.repos]
      /\ \A x \in h.repos : \E i \in 1..n : order[i] = x
  BY <1>1, Orders
<1> HIDE DEF n
<1>4. order \in [1..n -> Repos] /\ {order[i] : i \in 1..n} = h.repos
  BY <1>1, <1>3
<1>5. CASE out \in Printed(Repolist(order, TRUE)) \cup Printed(Repolist(order, FALSE))
  <2>1. Lists(ParseRepositories(out).rows, {order[i] : i \in 1..n})
    BY <1>3, <1>4, <1>5, RepolistIsRead
  <2> QED BY <1>4, <2>1
<1>6. CASE order = <<>> /\ out = <<>>
  <2>1. Scanned(out) = {} /\ ToSet(out) = {}
    BY <1>6 DEF Scanned, ToSet
  <2>2. ParseRepositories(out) = Rows(<<>>)
    BY <2>1 DEF ParseRepositories, RepositoriesIn
  <2>3. h.repos = {}
    BY <1>3, <1>6
  <2> QED BY <2>2, <2>3 DEF Rows, Lists
<1>7. CASE order # <<>> /\ out = Repolist(Append(order, Head(order)), TRUE)
  <2>1. order \in Seq(h.repos) /\ Len(order) = n /\ n > 0
    BY <1>3, <1>7
  <2> DEFINE more == Append(order, Head(order))
  <2>2. /\ more \in Seq(h.repos) /\ Len(more) = n + 1
        /\ \A i \in 1..n : more[i] = order[i]
    BY <2>1
  <2> HIDE DEF more
  <2>3. more \in [1..n + 1 -> Repos] /\ {more[i] : i \in 1..n + 1} = h.repos
    <3>1. more \in [1..n + 1 -> h.repos]
      BY <2>2
    <3>2. \A x \in h.repos : \E i \in 1..n + 1 : more[i] = x
      BY <1>3, <2>2
    <3> QED BY <1>1, <3>1, <3>2
  <2>4. n + 1 \in Nat /\ out = Repolist(more, TRUE)
    BY <1>3, <1>7 DEF more
  <2>5. Lists(ParseRepositories(out).rows, {more[i] : i \in 1..n + 1})
    <3>1. out \in Printed(Repolist(more, TRUE)) /\ TRUE \in BOOLEAN
      BY <2>4, Zenon DEF Printed
    <3> QED BY <2>3, <2>4, <3>1, RepolistIsRead, Zenon
  <2> QED BY <2>3, <2>5
<1> QED BY <1>2, <1>5, <1>6, <1>7 DEF PrintedInOrder

Fields == Updates \cup Texts \cup {"epoch", "version", "release", "arch"}

LEMMA LineIsUpdate ==
  ASSUME NEW u \in Updates
  PROVE  /\ RepoqueryLine(u) \in Seq(Fields) /\ Len(RepoqueryLine(u)) = UpdateFields
         /\ RepoqueryLine(u) # <<>> /\ RepoqueryLine(u)[1] = u
<1>1. RepoOf[u] \in Repos
  BY CollectorAssumption
<1>2. {u, "epoch", "version", "release", "arch", RepoOf[u]} \subseteq Fields
  BY <1>1 DEF Fields, Texts
<1> QED BY <1>2 DEF RepoqueryLine, UpdateFields

\* "dnf repoquery" gives the updates that there are, or an error: every line
\* that is not blank is one of them.
LEMMA UpdatesAreRead ==
  ASSUME NEW S, S \subseteq Updates, NEW out \in RepoqueryOutputs(S), ParseUpdates(out).ok
  PROVE  UpdatesIn(ParseUpdates(out).rows) = S
<1> DEFINE n == Cardinality(S)
           lines == Seq(Fields)
<1>1. PICK order \in SetToSeqs(S) : out \in QueriedInOrder(order)
  BY DEF RepoqueryOutputs
<1>2. /\ n \in Nat /\ order \in [1..n -> S] /\ DOMAIN order = 1..n
      /\ \A x \in S : \E i \in 1..n : order[i] = x
  <2>1. IsFiniteSet(S)
    BY CollectorAssumption, FS_Subset
  <2> QED BY <2>1, Orders
<1> HIDE DEF n
<1> DEFINE list == [i \in 1..n |-> RepoqueryLine(order[i])]
<1>3. out \in {list, Append(list, <<>>)} \cup Interrupted(list, TooLong)
                \cup Interrupted(list, Notice)
  BY <1>1, <1>2 DEF QueriedInOrder
<1>4. list \in Seq(lines) /\ Len(list) = n
  <2>1. list \in [1..n -> lines]
    BY <1>2, LineIsUpdate
  <2> QED BY <1>2, <2>1
<1>5. \A i \in 1..n : list[i] = RepoqueryLine(order[i]) /\ order[i] \in Updates
  BY <1>2
<1>6. /\ TooLong \notin ToSet(out)
      /\ \A i \in Scanned(out) : Len(out[i]) >= UpdateFields \/ Len(out[i]) \notin Int
  BY DEF ParseUpdates, Error, UpdateFields
<1>7. Scanned(out) = {i \in DOMAIN out : out[i] # <<>>} \/ DOMAIN out # 1..Len(out)
  BY <1>6 DEF Scanned, ToSet
<1> HIDE DEF list
<1>8. ASSUME Scanned(out) = 1..n, \A i \in 1..n : out[i] = list[i]
      PROVE  UpdatesIn(ParseUpdates(out).rows) = S
  <2>1. ParseUpdates(out).rows = [i \in 1..n |-> out[i]]
    BY <1>8 DEF ParseUpdates, Rows, Error
  <2>2. UpdatesIn([i \in 1..n |-> out[i]]) = {out[i][1] : i \in 1..n}
    BY DEF UpdatesIn
  <2>3. \A i \in 1..n : out[i][1] = order[i]
    BY <1>5, <1>8, LineIsUpdate
  <2>4. {out[i][1] : i \in 1..n} = {order[i] : i \in 1..n}
    BY <2>3
  <2>5. {order[i] : i \in 1..n} = S
    BY <1>2
  <2> QED BY <2>1, <2>2, <2>4, <2>5
<1>9. CASE out = list
  <2>1. Scanned(out) = 1..n
    <3>1. DOMAIN out = 1..n /\ Len(out) = n
      BY <1>4, <1>9
    <3>2. \A i \in 1..n : out[i] # <<>>
      BY <1>5, <1>9, LineIsUpdate
    <3> QED BY <1>7, <3>1, <3>2
  <2> QED BY <1>8, <1>9, <2>1
<1>10. CASE out = Append(list, <<>>)
  <2>1. <<>> \in lines
    OBVIOUS
  <2>2. /\ DOMAIN out = 1..n + 1 /\ Len(out) = n + 1 /\ out[n + 1] = <<>>
        /\ \A i \in 1..n : out[i] = list[i]
    BY <1>4, <1>10, <2>1, AppendProperties
  <2>3. 1..n + 1 = 1..n \cup {n + 1} /\ n + 1 \notin 1..n
    BY <1>2
  <2>4. \A i \in 1..n : out[i] # <<>>
    BY <1>5, <2>2, LineIsUpdate
  <2>5. Scanned(out) = 1..n
    BY <1>7, <2>2, <2>3, <2>4
  <2> QED BY <1>8, <2>2, <2>5
<1>11. CASE out \in Interrupted(list, TooLong)
  <2>1. TooLong \in lines
    BY DEF TooLong, Texts, Fields
  <2> QED BY <1>4, <1>6, <1>11, <2>1, InterruptedHasLine DEF ToSet
<1>12. CASE out \in Interrupted(list, Notice)
  <2>1. Notice \in lines
    BY DEF Notice, Texts, Fields
  <2>2. out \in Seq(lines) /\ \E i \in DOMAIN out : out[i] = Notice
    BY <1>4, <1>12, <2>1, InterruptedHasLine
  <2>3. PICK i \in DOMAIN out : out[i] = Notice
    BY <2>2
  <2>4. i \in Scanned(out)
    BY <1>7, <2>2, <2>3, NoticeIsSkipped
  <2>5. Len(out[i]) = 1
    BY <2>3, NoticeIsSkipped
  <2> QED BY <1>6, <2>4, <2>5 DEF UpdateFields
<1> QED BY <1>3, <1>9, <1>10, <1>11, <1>12

-----------------------------------------------------------------------------
(***************************************************************************)
(* What results.Build counts.                                              *)
(***************************************************************************)
LEMMA DisjointUnion ==
  ASSUME NEW S, NEW T, IsFiniteSet(S), IsFiniteSet(T), S \cap T = {}
  PROVE  IsFiniteSet(S \cup T) /\ Cardinality(S \cup T) = Cardinality(S) + Cardinality(T)
<1>1. Cardinality(S) \in Nat /\ Cardinality(T) \in Nat
  BY FS_CardinalityType
<1>2. Cardinality(S \cap T) = 0
  BY FS_EmptySet
<1>3. /\ IsFiniteSet(S \cup T)
      /\ Cardinality(S \cup T) = Cardinality(S) + Cardinality(T) - Cardinality(S \cap T)
  BY FS_Union, Zenon
<1> DEFINE a == Cardinality(S)
           b == Cardinality(T)
           c == Cardinality(S \cap T)
           d == Cardinality(S \cup T)
<1>4. a \in Nat /\ b \in Nat /\ c = 0 /\ d = a + b - c
  BY <1>1, <1>2, <1>3
<1> HIDE DEF a, b, c, d
<1>5. d = a + b
  BY <1>4
<1> QED BY <1>3, <1>5 DEF a, b, d

\* "other" is the number of the updates that no category lists.
LEMMA TypesAreCounted ==
  ASSUME NEW set \in SUBSET Updates, NEW typeOf \in [Updates -> Types]
  PROVE  /\ Cardinality(set) \in Nat
         /\ \A t \in Types : Cardinality({u \in set : typeOf[u] = t}) \in Nat
         /\ CountTypes(set, typeOf) = [t \in Types |-> Cardinality({u \in set : typeOf[u] = t})]
<1> DEFINE of(t) == {u \in set : typeOf[u] = t}
           named == (of("security") \cup of("bugfix")) \cup of("enhancement")
<1>1. IsFiniteSet(set) /\ Cardinality(set) \in Nat
  BY CollectorAssumption, FS_Subset, FS_CardinalityType
<1>2. \A t \in Types : IsFiniteSet(of(t)) /\ Cardinality(of(t)) \in Nat
  BY <1>1, FS_Subset, FS_CardinalityType
<1>3. {"security", "bugfix", "enhancement", "other"} \subseteq Types
  BY DEF Types, Kinds
<1>4. Cardinality(of("security") \cup of("bugfix"))
        = Cardinality(of("security")) + Cardinality(of("bugfix"))
      /\ IsFiniteSet(of("security") \cup of("bugfix"))
  <2>1. of("security") \cap of("bugfix") = {}
    OBVIOUS
  <2> HIDE DEF of
  <2> QED BY <1>2, <1>3, <2>1, DisjointUnion
<1>5. Cardinality(named) = Cardinality(of("security")) + Cardinality(of("bugfix"))
                             + Cardinality(of("enhancement"))
      /\ IsFiniteSet(named)
  <2>1. (of("security") \cup of("bugfix")) \cap of("enhancement") = {}
    OBVIOUS
  <2> HIDE DEF of
  <2>2. Cardinality((of("security") \cup of("bugfix")) \cup of("enhancement"))
          = Cardinality(of("security") \cup of("bugfix")) + Cardinality(of("enhancement"))
        /\ IsFiniteSet((of("security") \cup of("bugfix")) \cup of("enhancement"))
    BY <1>2, <1>3, <1>4, <2>1, DisjointUnion
  <2> QED BY <1>4, <2>2
<1>6. set = named \cup of("other") /\ named \cap of("other") = {}
  BY DEF Types, Kinds
<1>7. Cardinality(set) = Cardinality(named) + Cardinality(of("other"))
  <2> HIDE DEF named, of
  <2> QED BY <1>2, <1>3, <1>5, <1>6, DisjointUnion
<1> DEFINE s == Cardinality(of("security"))
           b == Cardinality(of("bugfix"))
           e == Cardinality(of("enhancement"))
           o == Cardinality(of("other"))
<1>8. Cardinality(set) - (s + b + e) = o
  <2>1. s \in Nat /\ b \in Nat /\ e \in Nat /\ o \in Nat
    BY <1>2, <1>3
  <2> QED BY <1>5, <1>7, <2>1
<1>9. CountTypes(set, typeOf)
        = [t \in Types |-> IF t = "other" THEN Cardinality(set) - (s + b + e)
                           ELSE Cardinality(of(t))]
  BY DEF CountTypes
<1> QED BY <1>1, <1>2, <1>8, <1>9

\* Sets that have no element in common count an element of their union once.
LEMMA PairsAreCounted ==
  ASSUME NEW D, NEW U, IsFiniteSet(U), NEW part \in [D -> SUBSET U],
         \A u \in U : \E i \in D : u \in part[i],
         \A i, j \in D : i # j => part[i] \cap part[j] = {}
  PROVE  Cardinality(UNION {{i} \X (1..Cardinality(part[i])) : i \in D}) = Cardinality(U)
<1> DEFINE n == [i \in D |-> Cardinality(part[i])]
           P == UNION {{i} \X (1..n[i]) : i \in D}
           B == [i \in D |-> CHOOSE f : f \in Bijection(1..n[i], part[i])]
           G == [p \in P |-> B[p[1]][p[2]]]
<1>1. ASSUME NEW i \in D
      PROVE  /\ n[i] \in Nat /\ B[i] \in [1..n[i] -> part[i]]
             /\ \A k, l \in 1..n[i] : B[i][k] = B[i][l] => k = l
             /\ \A u \in part[i] : \E k \in 1..n[i] : B[i][k] = u
  <2>1. IsFiniteSet(part[i])
    BY FS_Subset
  <2>2. n[i] \in Nat /\ \E f : f \in Bijection(1..n[i], part[i])
    BY <2>1, FS_CardinalityType DEF ExistsBijection
  <2>3. B[i] \in Bijection(1..n[i], part[i])
    BY <2>2
  <2> HIDE DEF B
  <2> QED BY <2>2, <2>3 DEF Bijection, Injection, Surjection, IsInjective
<1> HIDE DEF B
<1>2. \A p : p \in P <=> \E i \in D : \E k \in 1..n[i] : p = <<i, k>>
  OBVIOUS
<1> HIDE DEF P
<1>3. ASSUME NEW p \in P
      PROVE  /\ p[1] \in D /\ p[2] \in 1..n[p[1]] /\ p = <<p[1], p[2]>>
             /\ G[p] = B[p[1]][p[2]] /\ G[p] \in part[p[1]] /\ G[p] \in U
  <2>0. PICK i \in D : \E k \in 1..n[i] : p = <<i, k>>
    BY <1>2
  <2>1. PICK k \in 1..n[i] : p = <<i, k>>
    BY <2>0
  <2>2. p[1] = i /\ p[2] = k
    BY <2>1
  <2>3. G[p] = B[i][k]
    BY <2>2
  <2> QED BY <1>1, <2>1, <2>2, <2>3
<1>4. G \in [P -> U]
  BY <1>3
<1>5. ASSUME NEW p \in P, NEW q \in P, G[p] = G[q]
      PROVE  p = q
  <2>1. p[1] = q[1]
    BY <1>3, <1>5
  <2> DEFINE i == p[1]
             k == p[2]
             l == q[2]
  <2>2. i \in D /\ k \in 1..n[i] /\ l \in 1..n[i] /\ p = <<i, k>> /\ q = <<i, l>>
    BY <1>3, <2>1
  <2>3. B[i][k] = B[i][l]
    BY <1>3, <1>5, <2>1
  <2> HIDE DEF i, k, l, n
  <2>4. k = l
    BY <1>1, <2>2, <2>3
  <2> QED BY <2>2, <2>4
<1>6. ASSUME NEW u \in U PROVE \E p \in P : G[p] = u
  <2>1. PICK i \in D : u \in part[i]
    OBVIOUS
  <2>2. PICK k \in 1..n[i] : B[i][k] = u
    BY <1>1, <2>1
  <2>3. <<i, k>> \in P
    BY <1>2
  <2>4. G[<<i, k>>] = u
    BY <2>2, <2>3
  <2> QED BY <2>3, <2>4
<1>7. DOMAIN G = P
  OBVIOUS
<1> HIDE DEF G
<1>8. G \in Injection(P, U)
  BY <1>4, <1>5, <1>7 DEF Injection, IsInjective
<1>9. G \in Surjection(P, U)
  BY <1>4, <1>6 DEF Surjection
<1>10. IsFiniteSet(P)
  BY <1>8, FS_Injection
<1>11. ExistsBijection(P, U)
  BY <1>8, <1>9 DEF ExistsBijection, Bijection
<1>12. Cardinality(P) = Cardinality(U)
  BY <1>10, <1>11, FS_Bijection
<1> QED BY <1>12 DEF P

-----------------------------------------------------------------------------
(***************************************************************************)
(* The inductive invariant.                                                *)
(***************************************************************************)
\* There all the time, with the same advisories.
Stable(u) == \A h \in seen : u \in Available(h) /\ h.kinds[u] = host.kinds[u]

\* The categories that have been asked for when a stage begins.
Asked == [repositories |-> {}, updates |-> {}, security |-> {}, bugfix |-> {"security"},
          enhancement |-> {"security", "bugfix"}, reboot |-> Kinds, history |-> Kinds,
          build |-> Kinds, done |-> Kinds]

BeforeUpdates == {"repositories", "updates"}

\* Until the end nothing has failed and nothing is published.
ProgressInv ==
  /\ host \in seen
  /\ stage # "done" => failed = {} /\ payload = NoPayload
  /\ failed = {} \/ payload = NoPayload

ListedInv == Lists(listed, ListedIDs)

\* What is known of the updates that were there all the time.
StableInv ==
  failed = {} =>
    /\ stage \in BeforeUpdates => updates = {}
    /\ stage \in BeforeUpdates \cup {"security"} => type = [u \in Updates |-> "other"]
    /\ stage \notin BeforeUpdates => \A u \in Updates : Stable(u) => u \in updates
    /\ \A u \in updates : Stable(u) => type[u] = Gravest(host.kinds[u] \cap Asked[stage])

\* What is known of a host that has not changed.
QuietInv ==
  failed = {} /\ seen = {host} =>
    /\ stage # "repositories" => ListedIDs = host.repos
    /\ stage \notin BeforeUpdates => updates = Available(host)
    /\ stage \in {"history", "build", "done"} => reboot = host.reboot
    /\ stage \in {"build", "done"} => last = host.last

PublishedInv == CountsAddUp /\ StableUpdatesAreExact /\ QuietHostIsExact

Inv == TypeOK /\ ProgressInv /\ ListedInv /\ StableInv /\ QuietInv /\ PublishedInv

-----------------------------------------------------------------------------
LEMMA HostType ==
  ASSUME NEW h \in Hosts
  PROVE  /\ h.repos \subseteq Repos /\ h.pending \subseteq Updates
         /\ h.kinds \in [Updates -> SUBSET Kinds] /\ h.reboot \in BOOLEAN
         /\ h.last \in {"not_recorded", "success", "failed"}
         /\ Available(h) \subseteq Updates
BY CollectorAssumption DEF Available

LEMMA ListsIDs ==
  ASSUME NEW rows, NEW set, Lists(rows, set)
  PROVE  {rows[i].id : i \in DOMAIN rows} = set
BY DEF Lists

LEMMA StageAfter ==
  /\ After("repositories") = "updates" /\ After("updates") = "security"
  /\ After("security") = "bugfix" /\ After("bugfix") = "enhancement"
  /\ After("enhancement") = "reboot" /\ After("reboot") = "history"
  /\ After("history") = "build"
BY DEF After

LEMMA AskedBefore ==
  /\ Asked["repositories"] = {} /\ Asked["updates"] = {} /\ Asked["security"] = {}
  /\ Asked["bugfix"] = {"security"} /\ Asked["enhancement"] = {"security", "bugfix"}
  /\ Asked["reboot"] = Kinds /\ Asked["history"] = Kinds
  /\ Asked["build"] = Kinds /\ Asked["done"] = Kinds
BY DEF Asked

LEMMA NothingPublished == ASSUME payload = NoPayload PROVE PublishedInv
BY DEF PublishedInv, CountsAddUp, StableUpdatesAreExact, QuietHostIsExact, Published

LEMMA InitInv == Init => Inv
<1> SUFFICES ASSUME Init PROVE Inv
  OBVIOUS
<1>1. ListedIDs = {} /\ DOMAIN listed = {}
  BY DEF Init, ListedIDs
<1>2. TypeOK
  <2>1. host \in Hosts /\ seen \subseteq Hosts /\ changes \in 0..MaxChanges
    BY CollectorAssumption DEF Init
  <2>2. stage \in Questions /\ failed = {} /\ ListedIDs \subseteq Repos
    BY <1>1 DEF Init, Questions
  <2>3. updates \subseteq Updates /\ reboot \in BOOLEAN
        /\ last \in {"not_recorded", "success", "failed"}
    BY DEF Init
  <2>4. type \in [Updates -> Types]
    BY DEF Init, Types
  <2> QED BY <2>1, <2>2, <2>3, <2>4 DEF TypeOK
<1>3. ProgressInv
  BY DEF Init, ProgressInv
<1>4. ListedInv
  BY <1>1 DEF ListedInv, Lists
<1>5. StableInv /\ QuietInv
  BY DEF Init, StableInv, QuietInv, BeforeUpdates
<1>6. PublishedInv
  BY NothingPublished DEF Init
<1> QED BY <1>2, <1>3, <1>4, <1>5, <1>6 DEF Inv

\* What was there all the time is so before a change as well, and a host that
\* has changed is no longer quiet.
LEMMA HostChangesInv == ASSUME Inv, HostChanges PROVE Inv'
<1>1. PICK h \in Hosts \ {host} : host' = h /\ seen' = seen \cup {h}
  BY DEF HostChanges
<1>2. UNCHANGED <<readVars, stage, failed, payload>> /\ changes < MaxChanges
      /\ changes' = changes + 1 /\ stage # "done"
  BY DEF HostChanges
<1>3. UNCHANGED <<listed, updates, type, reboot, last, stage, failed, payload>>
      /\ ListedIDs' = ListedIDs
  BY <1>2 DEF readVars, ListedIDs
<1>4. TypeOK'
  BY <1>1, <1>2, <1>3, CollectorAssumption DEF Inv, TypeOK
<1>5. ProgressInv' /\ ListedInv'
  BY <1>1, <1>3 DEF Inv, ProgressInv, ListedInv
<1>6. StableInv'
  <2>1. ASSUME NEW u, Stable(u)'
        PROVE  Stable(u) /\ host'.kinds[u] = host.kinds[u]
    BY <1>1, <2>1 DEF Stable, Inv, ProgressInv, Available
  <2> QED BY <1>3, <2>1 DEF Inv, StableInv
<1>7. QuietInv'
  BY <1>1 DEF Inv, ProgressInv, QuietInv
<1>8. PublishedInv'
  <2>1. payload' = NoPayload
    BY <1>2 DEF Inv, ProgressInv
  <2> QED BY <2>1 DEF PublishedInv, CountsAddUp, StableUpdatesAreExact, QuietHostIsExact, Published,
                     NoPayload
<1> QED BY <1>4, <1>5, <1>6, <1>7, <1>8 DEF Inv

LEMMA GivesUpInv == ASSUME Inv, stage \in Questions \cup {"build"},
                           failed' = failed \cup {stage}, stage' = "done",
                           UNCHANGED <<hostVars, readVars, payload>>
                    PROVE  Inv'
<1>1. UNCHANGED <<host, changes, seen, listed, updates, type, reboot, last, payload>>
      /\ ListedIDs' = ListedIDs
  BY DEF hostVars, readVars, ListedIDs
<1>2. failed' # {} /\ stage # "done"
  BY DEF Questions, Kinds
<1>3. TypeOK'
  BY <1>1 DEF Inv, TypeOK
<1>4. ProgressInv' /\ ListedInv' /\ payload' = NoPayload
  BY <1>1, <1>2 DEF Inv, ProgressInv, ListedInv
<1>5. StableInv' /\ QuietInv'
  BY <1>2 DEF StableInv, QuietInv
<1>6. PublishedInv'
  BY <1>4 DEF PublishedInv, CountsAddUp, StableUpdatesAreExact, QuietHostIsExact, Published,
              NoPayload
<1> QED BY <1>3, <1>4, <1>5, <1>6 DEF Inv

LEMMA FailsInv ==
  ASSUME Inv, Fails \/ BuildFails
  PROVE  Inv'
<1>1. CASE Fails
  BY <1>1, GivesUpInv DEF Fails, GivesUp
<1>2. CASE BuildFails
  <2>1. failed' = failed \cup {stage}
    BY <1>2 DEF BuildFails
  <2> QED BY <1>2, <2>1, GivesUpInv DEF BuildFails
<1> QED BY <1>1, <1>2

LEMMA RepositoriesInv == ASSUME Inv, Repositories PROVE Inv'
<1>1. PICK out \in RepolistOutputs(host) :
             LET parsed == ParseRepositories(out)
             IN \/ ~parsed.ok /\ GivesUp
                \/ /\ parsed.ok
                   /\ listed' = parsed.rows
                   /\ stage' = After(stage)
                   /\ UNCHANGED <<hostVars, updates, type, reboot, last, failed, payload>>
  BY DEF Repositories
<1>2. stage = "repositories"
  BY DEF Repositories
<1>3. CASE GivesUp
  BY <1>2, <1>3, GivesUpInv DEF GivesUp, Questions
<1>4. CASE /\ ParseRepositories(out).ok /\ listed' = ParseRepositories(out).rows
           /\ stage' = After(stage)
           /\ UNCHANGED <<hostVars, updates, type, reboot, last, failed, payload>>
  <2>1. UNCHANGED <<host, changes, seen, updates, type, reboot, last, failed, payload>>
        /\ stage' = "updates"
    BY <1>2, <1>4, StageAfter DEF hostVars
  <2>2. Lists(listed', host.repos) /\ host \in Hosts
    BY <1>4, RepositoriesAreRead DEF Inv, TypeOK
  <2>3. ListedIDs' = host.repos
    BY <2>2, ListsIDs DEF ListedIDs
  <2>4. TypeOK'
    BY <2>1, <2>2, <2>3, HostType DEF Inv, TypeOK, Questions
  <2>5. ProgressInv' /\ payload' = NoPayload
    BY <1>2, <2>1 DEF Inv, ProgressInv
  <2>6. ListedInv'
    BY <2>2, <2>3 DEF ListedInv
  <2>7. StableInv'
    BY <1>2, <2>1 DEF Inv, StableInv, BeforeUpdates
  <2>8. QuietInv'
    BY <2>1, <2>3 DEF QuietInv, BeforeUpdates
  <2>9. PublishedInv'
    BY <2>5 DEF PublishedInv, CountsAddUp, StableUpdatesAreExact, QuietHostIsExact, Published,
                NoPayload
  <2> QED BY <2>4, <2>5, <2>6, <2>7, <2>8, <2>9 DEF Inv
<1> QED BY <1>1, <1>3, <1>4

LEMMA ListUpdatesInv == ASSUME Inv, ListUpdates PROVE Inv'
<1>1. PICK out \in RepoqueryOutputs(Available(host)) :
             LET parsed == ParseUpdates(out)
             IN \/ ~parsed.ok /\ GivesUp
                \/ /\ parsed.ok
                   /\ updates' = UpdatesIn(parsed.rows)
                   /\ stage' = IF UpdatesIn(parsed.rows) = {} THEN "reboot" ELSE After(stage)
                   /\ UNCHANGED <<hostVars, listed, type, reboot, last, failed, payload>>
  BY DEF ListUpdates
<1>2. stage = "updates"
  BY DEF ListUpdates
<1>3. CASE GivesUp
  BY <1>2, <1>3, GivesUpInv DEF GivesUp, Questions
<1>4. CASE /\ ParseUpdates(out).ok /\ updates' = UpdatesIn(ParseUpdates(out).rows)
           /\ stage' = IF UpdatesIn(ParseUpdates(out).rows) = {} THEN "reboot" ELSE After(stage)
           /\ UNCHANGED <<hostVars, listed, type, reboot, last, failed, payload>>
  <2>1. UNCHANGED <<host, changes, seen, listed, type, reboot, last, failed, payload>>
        /\ ListedIDs' = ListedIDs
    BY <1>4 DEF hostVars, ListedIDs
  <2>2. host \in Hosts /\ Available(host) \subseteq Updates
    BY HostType DEF Inv, TypeOK
  <2>3. updates' = Available(host) /\ stage' = IF updates' = {} THEN "reboot" ELSE "security"
    BY <1>2, <1>4, <2>2, UpdatesAreRead, StageAfter
  <2>4. TypeOK'
    BY <2>1, <2>2, <2>3 DEF Inv, TypeOK, Questions, Kinds
  <2>5. ProgressInv' /\ payload' = NoPayload
    BY <1>2, <2>1, <2>3 DEF Inv, ProgressInv
  <2>6. ListedInv'
    BY <2>1 DEF Inv, ListedInv
  <2>7. StableInv'
    <3>1. type = [u \in Updates |-> "other"] /\ failed = {} /\ host \in seen
      BY <1>2 DEF Inv, StableInv, ProgressInv, BeforeUpdates
    <3>2. \A u \in Updates : Stable(u)' => u \in updates'
      BY <2>1, <2>3, <3>1 DEF Stable, Available
    <3>3. \A u \in updates' : type'[u] = Gravest(host'.kinds[u] \cap Asked[stage'])
      <4>1. ASSUME NEW u \in updates' PROVE type'[u] = Gravest({}) /\ stage' = "security"
        BY <2>1, <2>2, <2>3, <3>1 DEF Gravest
      <4> QED BY <4>1, AskedBefore
    <3> QED BY <2>1, <2>3, <3>1, <3>2, <3>3 DEF StableInv, BeforeUpdates
  <2>8. QuietInv'
    <3>1. Available(host)' = Available(host)
      BY <2>1 DEF Available
    <3>2. failed = {} /\ seen = {host} => ListedIDs = host.repos
      BY <1>2 DEF Inv, QuietInv
    <3> QED BY <2>1, <2>3, <3>1, <3>2 DEF QuietInv
  <2>9. PublishedInv'
    BY <2>5 DEF PublishedInv, CountsAddUp, StableUpdatesAreExact, QuietHostIsExact, Published,
                NoPayload
  <2> QED BY <2>4, <2>5, <2>6, <2>7, <2>8, <2>9 DEF Inv
<1> QED BY <1>1, <1>3, <1>4

\* A category asked for after graver ones leaves what they have marked.
LEMMA MarkIsGravest ==
  ASSUME NEW K \in SUBSET Kinds, NEW k \in Kinds,
         NEW was, was = Gravest(K \cap Asked[k])
  PROVE  (IF k \in K /\ was = "other" THEN k ELSE was) = Gravest(K \cap Asked[After(k)])
<1>1. CASE k = "security"
  BY <1>1, AskedBefore, StageAfter DEF Gravest
<1>2. CASE k = "bugfix"
  BY <1>2, AskedBefore, StageAfter DEF Gravest
<1>3. CASE k = "enhancement"
  BY <1>3, AskedBefore, StageAfter DEF Gravest, Kinds
<1> QED BY <1>1, <1>2, <1>3 DEF Kinds

LEMMA ClassifyInv == ASSUME Inv, Classify PROVE Inv'
<1> DEFINE asked == {u \in Available(host) : stage \in host.kinds[u]}
<1>1. PICK out \in RepoqueryOutputs(asked) :
             LET parsed == ParseUpdates(out)
             IN \/ ~parsed.ok /\ GivesUp
                \/ /\ parsed.ok
                   /\ type' = Mark(UpdatesIn(parsed.rows), stage)
                   /\ stage' = After(stage)
                   /\ UNCHANGED <<hostVars, listed, updates, reboot, last, failed, payload>>
  BY DEF Classify
<1>2. stage \in Kinds
  BY DEF Classify
<1>3. CASE GivesUp
  BY <1>2, <1>3, GivesUpInv DEF GivesUp, Questions
<1>4. CASE /\ ParseUpdates(out).ok /\ type' = Mark(UpdatesIn(ParseUpdates(out).rows), stage)
           /\ stage' = After(stage)
           /\ UNCHANGED <<hostVars, listed, updates, reboot, last, failed, payload>>
  <2>1. UNCHANGED <<host, changes, seen, listed, updates, reboot, last, failed, payload>>
        /\ ListedIDs' = ListedIDs
    BY <1>4 DEF hostVars, ListedIDs
  <2>2. /\ host \in Hosts /\ Available(host) \subseteq Updates
        /\ host.kinds \in [Updates -> SUBSET Kinds]
    BY HostType DEF Inv, TypeOK
  <2>3. type' = Mark(asked, stage)
    <3>1. asked \subseteq Updates
      BY <2>2
    <3> HIDE DEF asked
    <3> QED BY <1>4, <3>1, UpdatesAreRead
  <2>4. stage' \in {"bugfix", "enhancement", "reboot"}
    BY <1>2, <1>4, StageAfter DEF Kinds
  <2>5. TypeOK'
    <3>1. type' \in [Updates -> Types]
      <4>1. type \in [Updates -> Types] /\ stage \in Types
        BY <1>2 DEF Inv, TypeOK, Types
      <4> QED BY <2>3, <4>1 DEF Mark
    <3>2. stage' \in Questions
      BY <2>4 DEF Questions, Kinds
    <3> QED BY <2>1, <3>1, <3>2 DEF Inv, TypeOK
  <2>6. ProgressInv' /\ payload' = NoPayload /\ stage \notin BeforeUpdates \cup {"done"}
    BY <1>2, <2>1, <2>4 DEF Inv, ProgressInv, Kinds, BeforeUpdates
  <2>7. ListedInv'
    BY <2>1 DEF Inv, ListedInv
  <2>8. StableInv'
    <3>1. failed = {} /\ host \in seen
      BY <2>6 DEF Inv, ProgressInv
    <3>2. \A u \in Updates : Stable(u)' = Stable(u)
      BY <2>1 DEF Stable, Available
    <3>3. \A u \in Updates : Stable(u) => u \in updates
      BY <2>6, <3>1 DEF Inv, StableInv
    <3>4. ASSUME NEW u \in updates, Stable(u)
          PROVE  type'[u] = Gravest(host.kinds[u] \cap Asked[stage'])
      <4>1. u \in Updates /\ u \in Available(host)
        BY <3>1, <3>4 DEF Inv, TypeOK, Stable
      <4>2. type[u] = Gravest(host.kinds[u] \cap Asked[stage])
        BY <3>1, <3>4 DEF Inv, StableInv
      <4>3. type'[u] = IF stage \in host.kinds[u] /\ type[u] = "other" THEN stage ELSE type[u]
        BY <2>3, <4>1 DEF Mark
      <4>4. host.kinds[u] \in SUBSET Kinds
        BY <2>2, <4>1
      <4> QED BY <1>2, <1>4, <4>2, <4>3, <4>4, MarkIsGravest
    <3> QED BY <2>1, <2>4, <3>2, <3>3, <3>4 DEF StableInv, BeforeUpdates, Inv, TypeOK
  <2>9. QuietInv'
    <3>1. Available(host)' = Available(host)
      BY <2>1 DEF Available
    <3>2. failed = {} /\ seen = {host} => ListedIDs = host.repos /\ updates = Available(host)
      BY <2>6 DEF Inv, QuietInv, BeforeUpdates
    <3> QED BY <2>1, <2>4, <3>1, <3>2 DEF QuietInv
  <2>10. PublishedInv'
    BY <2>6 DEF PublishedInv, CountsAddUp, StableUpdatesAreExact, QuietHostIsExact, Published,
                NoPayload
  <2> QED BY <2>5, <2>6, <2>7, <2>8, <2>9, <2>10 DEF Inv
<1> QED BY <1>1, <1>3, <1>4

LEMMA OtherQuestionsInv ==
  ASSUME Inv, CheckReboot \/ ReadHistory
  PROVE  Inv'
<1>1. UNCHANGED <<host, changes, seen, listed, updates, type, failed, payload>>
      /\ ListedIDs' = ListedIDs
  BY DEF CheckReboot, ReadHistory, hostVars, ListedIDs
<1>2. \/ stage = "reboot" /\ stage' = "history" /\ reboot' = host.reboot /\ last' = last
      \/ stage = "history" /\ stage' = "build" /\ reboot' = reboot /\ last' = host.last
  BY StageAfter DEF CheckReboot, ReadHistory
<1>3. TypeOK'
  <2>1. host.reboot \in BOOLEAN /\ host.last \in {"not_recorded", "success", "failed"}
    BY HostType DEF Inv, TypeOK
  <2> QED BY <1>1, <1>2, <2>1 DEF Inv, TypeOK, Questions
<1>4. ProgressInv' /\ ListedInv' /\ payload' = NoPayload /\ failed = {}
  BY <1>1, <1>2 DEF Inv, ProgressInv, ListedInv
<1>5. StableInv'
  <2>1. \A u \in Updates : Stable(u)' = Stable(u)
    BY <1>1 DEF Stable, Available
  <2>2. Asked[stage'] = Asked[stage]
    BY <1>2, AskedBefore
  <2>3. stage \notin BeforeUpdates \cup {"security"} /\ stage' \notin BeforeUpdates \cup {"security"}
    BY <1>2 DEF BeforeUpdates
  <2> QED BY <1>1, <1>4, <2>1, <2>2, <2>3 DEF Inv, StableInv, TypeOK
<1>6. QuietInv'
  <2>1. Available(host)' = Available(host)
    BY <1>1 DEF Available
  <2> QED BY <1>1, <1>2, <2>1 DEF Inv, QuietInv, BeforeUpdates
<1>7. PublishedInv'
  BY <1>4 DEF PublishedInv, CountsAddUp, StableUpdatesAreExact, QuietHostIsExact, Published,
              NoPayload
<1> QED BY <1>3, <1>4, <1>5, <1>6, <1>7 DEF Inv

-----------------------------------------------------------------------------
(***************************************************************************)
(* What is published.                                                      *)
(***************************************************************************)
LEMMA AllKinds ==
  ASSUME NEW K \in SUBSET Kinds
  PROVE  Gravest(K \cap Kinds) = Gravest(K)
<1>1. K \cap Kinds = K
  OBVIOUS
<1> QED BY <1>1

LEMMA BuildCounts == ASSUME Inv, Build PROVE CountsAddUp'
<1> DEFINE rows == payload'.repositories
           of == [i \in DOMAIN listed |-> {u \in updates : RepoOf[u] = listed[i].id}]
<1>1. /\ rows = [i \in DOMAIN listed |->
                   [id |-> listed[i].id, name |-> listed[i].name,
                    updates |-> Cardinality({u \in updates : RepoOf[u] = listed[i].id})]]
      /\ payload'.updates = updates /\ payload'.types = CountTypes(updates, type)
  BY DEF Build
<1>2. DOMAIN rows = DOMAIN listed /\ \A i \in DOMAIN listed : rows[i].updates = Cardinality(of[i])
  BY <1>1
<1>3. updates \in SUBSET Updates /\ type \in [Updates -> Types] /\ IsFiniteSet(updates)
  BY CollectorAssumption, FS_Subset DEF Inv, TypeOK
<1>4. of \in [DOMAIN listed -> SUBSET updates]
  OBVIOUS
<1>5. \A i \in DOMAIN listed : Cardinality(of[i]) \in Nat
  BY <1>3, <1>4, FS_Subset, FS_CardinalityType
<1>6. \A u \in updates : \E i \in DOMAIN listed : u \in of[i]
  BY DEF Build, Inconsistent, ListedIDs
<1>7. \A i, j \in DOMAIN listed : i # j => of[i] \cap of[j] = {}
  BY DEF Build, Inconsistent, Repeated
<1> HIDE DEF rows, of
<1>8. Cardinality(UNION {{i} \X (1..Cardinality(of[i])) : i \in DOMAIN listed})
        = Cardinality(updates)
  BY <1>3, <1>4, <1>6, <1>7, PairsAreCounted
<1>9. UNION {{i} \X (1..rows[i].updates) : i \in DOMAIN rows}
        = UNION {{i} \X (1..Cardinality(of[i])) : i \in DOMAIN listed}
  BY <1>2
<1> DEFINE types == payload'.types
<1>10. /\ \A t \in Types : types[t] \in Nat
       /\ types["security"] + types["bugfix"] + types["enhancement"] + types["other"]
            = Cardinality(updates)
  <2> DEFINE c(t) == Cardinality({u \in updates : type[u] = t})
  <2>1. /\ Cardinality(updates) \in Nat /\ \A t \in Types : c(t) \in Nat
        /\ types = [t \in Types |-> c(t)]
    BY <1>1, <1>3, TypesAreCounted
  <2>2. types = [t \in Types |-> IF t = "other"
                                  THEN Cardinality(updates) - (c("security") + c("bugfix") + c("enhancement"))
                                  ELSE c(t)]
    BY <1>1 DEF CountTypes
  <2> HIDE DEF c, types
  <2>3. {"security", "bugfix", "enhancement", "other"} \subseteq Types
    BY DEF Types, Kinds
  <2>4. types["security"] = c("security") /\ types["bugfix"] = c("bugfix")
        /\ types["enhancement"] = c("enhancement")
    BY <2>1, <2>3
  <2>5. types["other"] = Cardinality(updates) - (c("security") + c("bugfix") + c("enhancement"))
    BY <2>2, <2>3
  <2>6. c("security") \in Nat /\ c("bugfix") \in Nat /\ c("enhancement") \in Nat
    BY <2>1, <2>3
  <2>7. \A t \in Types : types[t] \in Nat
    BY <2>1
  <2> QED BY <2>1, <2>4, <2>5, <2>6, <2>7
<1> HIDE DEF types
<1>11. CountsAddUp'
  <2>1. /\ \A t \in Types : types[t] \in Nat
        /\ types["security"] + types["bugfix"] + types["enhancement"] + types["other"]
             = Cardinality(payload'.updates)
        /\ \A i \in DOMAIN rows : rows[i].updates \in Nat
        /\ Cardinality(UNION {{i} \X (1..rows[i].updates) : i \in DOMAIN rows})
             = Cardinality(payload'.updates)
    BY <1>1, <1>2, <1>5, <1>8, <1>9, <1>10
  <2> QED BY <2>1, Zenon DEF CountsAddUp, rows, types
<1> QED BY <1>11

LEMMA BuildInv == ASSUME Inv, Build PROVE Inv'
<1>1. UNCHANGED <<host, changes, seen, listed, updates, type, reboot, last, failed>>
      /\ ListedIDs' = ListedIDs /\ stage = "build" /\ stage' = "done"
  BY DEF Build, hostVars, readVars, ListedIDs
<1>2. failed = {} /\ host \in seen
  BY <1>1 DEF Inv, ProgressInv
<1>3. TypeOK'
  BY <1>1 DEF Inv, TypeOK
<1>4. ProgressInv' /\ ListedInv'
  BY <1>1, <1>2 DEF Inv, ProgressInv, ListedInv
<1>5. \A u \in Updates : Stable(u)' = Stable(u)
  BY <1>1 DEF Stable, Available
<1>6. Asked["done"] = Kinds /\ Asked["build"] = Kinds
  BY AskedBefore
<1>7. StableInv'
  BY <1>1, <1>2, <1>5, <1>6 DEF Inv, StableInv, BeforeUpdates, TypeOK
<1>8. QuietInv'
  <2>1. Available(host)' = Available(host)
    BY <1>1 DEF Available
  <2> QED BY <1>1, <2>1 DEF Inv, QuietInv, BeforeUpdates
<1>9. /\ host \in Hosts /\ Available(host) \subseteq Updates
      /\ host.kinds \in [Updates -> SUBSET Kinds]
  BY HostType DEF Inv, TypeOK
<1>10. ASSUME NEW u \in Updates, Stable(u)
       PROVE  u \in updates /\ type[u] = Gravest(host.kinds[u])
  <2>1. u \in updates /\ type[u] = Gravest(host.kinds[u] \cap Kinds)
    BY <1>1, <1>2, <1>6, <1>10 DEF Inv, StableInv, BeforeUpdates
  <2> QED BY <1>9, <2>1, AllKinds
<1>11. StableUpdatesAreExact'
  <2>1. payload'.updates = updates
    BY DEF Build
  <2> QED BY <1>1, <1>10, <2>1 DEF StableUpdatesAreExact, Stable, Available
<1>12. ASSUME seen = {host}
       PROVE  /\ IsInjective(payload'.repositories)
              /\ ToSet(payload'.repositories)
                   = {[id |-> r, name |-> Name[r],
                       updates |-> Cardinality({u \in Available(host) : RepoOf[u] = r})] :
                        r \in host.repos}
              /\ payload'.updates = Available(host)
              /\ payload'.types = [t \in Types |->
                   Cardinality({u \in Available(host) : Gravest(host.kinds[u]) = t})]
              /\ payload'.reboot = host.reboot
              /\ payload'.last = host.last
  <2>1. /\ ListedIDs = host.repos /\ updates = Available(host)
        /\ reboot = host.reboot /\ last = host.last
    BY <1>1, <1>2, <1>12 DEF Inv, QuietInv, BeforeUpdates
  <2>2. payload'.updates = updates /\ payload'.reboot = reboot /\ payload'.last = last
        /\ payload'.types = CountTypes(updates, type)
    BY DEF Build
  <2> DEFINE count(r) == Cardinality({u \in updates : RepoOf[u] = r})
             rows == [i \in DOMAIN listed |->
                        [id |-> listed[i].id, name |-> listed[i].name,
                         updates |-> count(listed[i].id)]]
  <2>3. payload'.repositories = rows
    BY DEF Build
  <2> HIDE DEF count
  <2>4. IsInjective(rows)
    <3>1. \A i, j \in DOMAIN rows : rows[i] = rows[j] => listed[i].id = listed[j].id
      OBVIOUS
    <3> QED BY <3>1 DEF IsInjective, Build, Inconsistent, Repeated
  <2>5. ToSet(rows) = {[id |-> r, name |-> Name[r], updates |-> count(r)] : r \in host.repos}
    <3>1. \A i \in DOMAIN listed : \E r \in host.repos : listed[i] = [id |-> r, name |-> Name[r]]
      BY <2>1 DEF Inv, ListedInv, Lists
    <3>2. \A r \in host.repos : \E i \in DOMAIN listed : listed[i] = [id |-> r, name |-> Name[r]]
      BY <2>1 DEF Inv, ListedInv, Lists
    <3>3. ASSUME NEW i \in DOMAIN listed
          PROVE  \E r \in host.repos : rows[i] = [id |-> r, name |-> Name[r], updates |-> count(r)]
      BY <3>1
    <3>4. ASSUME NEW r \in host.repos
          PROVE  \E i \in DOMAIN rows : rows[i] = [id |-> r, name |-> Name[r], updates |-> count(r)]
      BY <3>2
    <3>5. DOMAIN rows = DOMAIN listed
      OBVIOUS
    <3> HIDE DEF rows
    <3> QED BY <3>3, <3>4, <3>5 DEF ToSet
  <2>6. CountTypes(updates, type)
          = [t \in Types |-> Cardinality({u \in updates : Gravest(host.kinds[u]) = t})]
    <3>1. \A u \in updates : type[u] = Gravest(host.kinds[u])
      BY <1>9, <1>10, <1>12, <2>1 DEF Stable
    <3>2. \A t \in Types : {u \in updates : type[u] = t}
                             = {u \in updates : Gravest(host.kinds[u]) = t}
      BY <3>1
    <3>3. CountTypes(updates, type)
            = [t \in Types |-> Cardinality({u \in updates : type[u] = t})]
      BY TypesAreCounted DEF Inv, TypeOK
    <3> QED BY <3>2, <3>3
  <2> HIDE DEF rows
  <2> QED BY <2>1, <2>2, <2>3, <2>4, <2>5, <2>6 DEF count
<1>13. QuietHostIsExact'
  BY <1>1, <1>12 DEF QuietHostIsExact, Available
<1>14. CountsAddUp'
  BY BuildCounts
<1> QED BY <1>3, <1>4, <1>7, <1>8, <1>11, <1>13, <1>14 DEF Inv, PublishedInv

LEMMA StutterInv == ASSUME Inv, UNCHANGED vars PROVE Inv'
<1> USE DEF vars, hostVars, readVars
<1>1. TypeOK' /\ ListedInv' /\ ProgressInv'
  BY DEF Inv, TypeOK, ListedInv, ProgressInv, ListedIDs
<1>2. StableInv' /\ QuietInv'
  BY DEF Inv, StableInv, QuietInv, Stable, Available, ListedIDs
<1>3. CountsAddUp'
  BY DEF Inv, PublishedInv, CountsAddUp, Published
<1>4. StableUpdatesAreExact' /\ QuietHostIsExact'
  BY DEF Inv, PublishedInv, StableUpdatesAreExact, QuietHostIsExact, Published, Available
<1> QED BY <1>1, <1>2, <1>3, <1>4 DEF Inv, PublishedInv

LEMMA NextInv == ASSUME Inv, [Next]_vars PROVE Inv'
BY HostChangesInv, FailsInv, RepositoriesInv, ListUpdatesInv, ClassifyInv, OtherQuestionsInv,
   BuildInv, StutterInv
   DEF Next, Ended

-----------------------------------------------------------------------------
\* A collection keeps what it knows of a host that changes under it.
THEOREM Invariance == Spec => []Inv
BY InitInv, NextInv, PTL DEF Spec

\* The types of a collection's variables: collect, the parsers and Build.
THEOREM TypeCorrect == Spec => []TypeOK
BY Invariance, PTL DEF Inv

\* collect publishes nothing if any of its questions or Build has failed.
THEOREM CompleteOrNothing == Spec => []AllOrNothing
<1>1. Inv => AllOrNothing
  BY DEF Inv, ProgressInv, AllOrNothing, Published
<1> QED BY <1>1, Invariance, PTL

\* However the host changes between the questions, the counts that Build
\* publishes add up to the updates, by category and by repository.
THEOREM CountsAgree == Spec => []CountsAddUp
BY Invariance, PTL DEF Inv, PublishedInv

\* An update that was there all the time is published in its gravest category.
THEOREM StableUpdatesHold == Spec => []StableUpdatesAreExact
BY Invariance, PTL DEF Inv, PublishedInv

\* Of a host that does not change the payload is an exact snapshot, whatever
\* DNF prints around its answers.
THEOREM QuietHostHolds == Spec => []QuietHostIsExact
BY Invariance, PTL DEF Inv, PublishedInv

=============================================================================
