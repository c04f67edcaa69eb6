-------------------------- MODULE LogHandlerProofs -------------------------
(***************************************************************************)
(* Proofs about LogHandler, for any keys, groups and levels, any length of *)
(* the caller's slice and any number of handlers: what is derived shares   *)
(* no memory that anybody writes, and a record says what was attached to   *)
(* its handler.                                                            *)
(***************************************************************************)
EXTENDS LogHandler, Induction, SequenceTheorems

-----------------------------------------------------------------------------
(***************************************************************************)
(* The groups that are open.                                               *)
(***************************************************************************)
\* The recursion of Path, and the groups that are open after i operations.
PathTo(groups) ==
  CHOOSE path : path = [i \in 0..Len(groups) |->
    IF i = 0 THEN <<>>
    ELSE IF groups[i] = NoGroup THEN path[i - 1] ELSE Append(path[i - 1], groups[i])]

LEMMA PathToSteps ==
  ASSUME NEW N, NEW groups \in Seq(N)
  PROVE  /\ PathTo(groups)[0] = <<>>
         /\ \A i \in 1..Len(groups) :
              PathTo(groups)[i] = IF groups[i] = NoGroup THEN PathTo(groups)[i - 1]
                                  ELSE Append(PathTo(groups)[i - 1], groups[i])
         /\ \A i \in 0..Len(groups) : PathTo(groups)[i] \in Seq(N)
<1> DEFINE n == Len(groups)
           A == Seq(N)
           opens(i, p) == IF groups[i] = NoGroup THEN p ELSE Append(p, groups[i])
           step == [i \in 1..n |-> [p \in A |-> opens(i, p)]]
           Solves(f) == f = [i \in 0..n |->
                               IF i = 0 THEN <<>>
                               ELSE IF groups[i] = NoGroup THEN f[i - 1]
                                    ELSE Append(f[i - 1], groups[i])]
<1>1. n \in Nat /\ <<>> \in A
  OBVIOUS
<1>2. ASSUME NEW i \in 1..n, NEW p \in A PROVE opens(i, p) \in A
  <2>1. groups[i] \in N
    BY ElementOfSeq
  <2> QED BY <2>1, AppendProperties
<1>3. IsRecursion(n, A, <<>>, step)
  BY <1>1, <1>2 DEF IsRecursion
<1>4. PICK f : Follows(f, n, A, <<>>, step)
  <2> HIDE DEF n, A, step
  <2> QED BY <1>3, Recursion
<1>5. Solves(f)
  <2>1. f \in [0..n -> A] /\ f[0] = <<>> /\ \A i \in 1..n : f[i] = step[i][f[i - 1]]
    <3> HIDE DEF n, A, step
    <3> QED BY <1>4 DEF Follows
  <2>2. \A i \in 1..n, p \in A : step[i][p] = opens(i, p)
    OBVIOUS
  <2> HIDE DEF step, A
  <2>3. \A i \in 1..n : f[i - 1] \in A /\ f[i] = opens(i, f[i - 1])
    <3>1. \A i \in 1..n : i - 1 \in 0..n
      BY <1>1
    <3> QED BY <2>1, <2>2, <3>1
  <2>4. \A i \in 0..n : i = 0 \/ i \in 1..n
    BY <1>1
  <2> HIDE DEF n
  <2> QED BY <2>1, <2>3, <2>4
<1>6. PathTo(groups) = CHOOSE g : Solves(g)
  BY DEF PathTo
<1>7. Solves(PathTo(groups))
  <2> HIDE DEF Solves
  <2> QED BY <1>5, <1>6
<1> DEFINE F == PathTo(groups)
<1>8. F = [i \in 0..n |->
              IF i = 0 THEN <<>>
              ELSE IF groups[i] = NoGroup THEN F[i - 1] ELSE Append(F[i - 1], groups[i])]
  BY <1>7
<1> HIDE DEF F, A
<1>9. F[0] = <<>> /\ \A i \in 1..n : i - 1 \in 0..n /\ F[i] = opens(i, F[i - 1])
  <2>1. F[0] = <<>>
    BY <1>1, <1>8
  <2>2. ASSUME NEW i \in 1..n PROVE i - 1 \in 0..n /\ F[i] = opens(i, F[i - 1])
    <3>1. i \in 0..n /\ i # 0 /\ i - 1 \in 0..n
      BY <1>1
    <3> HIDE DEF n
    <3> QED BY <1>8, <3>1
  <2> QED BY <2>1, <2>2
<1>10. \A i \in 0..n : F[i] \in A
  <2> HIDE DEF opens, n
  <2> DEFINE S == {i \in 0..n : F[i] \in A}
  <2>1. 0 \in S /\ \A i \in 1..n : i - 1 \in S => i \in S
    BY <1>1, <1>2, <1>9
  <2>2. 0..n \subseteq S
    <3> HIDE DEF S
    <3> QED BY <1>1, <2>1, InductionUpTo
  <2> QED BY <2>2
<1> QED BY <1>9, <1>10 DEF F, A

LEMMA PathIsPathTo ==
  ASSUME NEW groups
  PROVE  Path(groups) = PathTo(groups)[Len(groups)]
BY DEF Path, PathTo

\* One operation more opens its group, if it has one.
LEMMA PathGrows ==
  ASSUME NEW N, NEW groups \in Seq(N), NEW x \in N
  PROVE  /\ Path(groups) \in Seq(N)
         /\ Path(Append(groups, x)) = IF x = NoGroup THEN Path(groups) ELSE Append(Path(groups), x)
<1> DEFINE n == Len(groups)
           longer == Append(groups, x)
           F == PathTo(groups)
           G == PathTo(longer)
<1>1. n \in Nat /\ longer \in Seq(N) /\ Len(longer) = n + 1 /\ longer[n + 1] = x
      /\ \A i \in 1..n : longer[i] = groups[i]
  OBVIOUS
<1>2. /\ F[0] = <<>> /\ F[n] \in Seq(N)
      /\ \A i \in 1..n : F[i] = IF groups[i] = NoGroup THEN F[i - 1] ELSE Append(F[i - 1], groups[i])
  BY <1>1, PathToSteps
<1>3. /\ G[0] = <<>>
      /\ \A i \in 1..(n + 1) :
           G[i] = IF longer[i] = NoGroup THEN G[i - 1] ELSE Append(G[i - 1], longer[i])
  BY <1>1, PathToSteps
<1> HIDE DEF F, G, n, longer
<1>4. F[n] = G[n]
  <2> DEFINE S == {i \in 0..n : F[i] = G[i]}
  <2>1. 0 \in S /\ \A i \in 1..n : i - 1 \in S => i \in S
    <3>1. 0 \in S
      BY <1>1, <1>2, <1>3
    <3>2. ASSUME NEW i \in 1..n, i - 1 \in S PROVE i \in S
      <4>1. i \in 1..(n + 1) /\ longer[i] = groups[i]
        BY <1>1
      <4> QED BY <1>2, <1>3, <3>2, <4>1
    <3> QED BY <3>1, <3>2
  <2>2. 0..n \subseteq S
    <3> HIDE DEF S
    <3> QED BY <1>1, <2>1, InductionUpTo
  <2> QED BY <1>1, <2>2
<1>5. G[n + 1] = IF x = NoGroup THEN G[n] ELSE Append(G[n], x)
  <2>1. n + 1 \in 1..(n + 1) /\ (n + 1) - 1 = n
    BY <1>1
  <2> QED BY <1>1, <1>3, <2>1
<1>6. Path(groups) = F[n] /\ Path(longer) = G[n + 1]
  BY <1>1, PathIsPathTo DEF F, G, n, longer
<1> QED BY <1>2, <1>4, <1>5, <1>6 DEF longer

\* Before any operation no group is open.
LEMMA PathOfNone == Path(<<>>) = <<>>
<1>1. <<>> \in Seq({}) /\ Len(<<>>) = 0
  OBVIOUS
<1> QED BY <1>1, PathIsPathTo, PathToSteps

-----------------------------------------------------------------------------
(***************************************************************************)
(* The memory.                                                             *)
(***************************************************************************)
Slices == [array : Nat, length : Nat]
Names == Groups \cup {NoGroup}
Operations == [group : Names, attrs : Slices]
Cells == Keys \cup Operations \cup {"unused"}
Memories == Seq(Seq(Cells))

\* A slice of an array from number first on, or nil.
Within(memory, s, first) ==
  \/ s = Empty
  \/ s \in Slices /\ s.array \in first..Len(memory) /\ s.length \in 1..Len(memory[s.array])

\* The arrays of a memory from number first on are in another, unchanged.
Keeps(memory, later, first) ==
  /\ later \in Memories /\ Len(memory) <= Len(later)
  /\ \A a \in first..Len(memory) : later[a] = memory[a]

\* What a slice holds is a sequence, and is kept with its array.
LEMMA ContentsAreKept ==
  ASSUME NEW memory \in Memories, NEW first \in Nat \ {0}, NEW s, Within(memory, s, first),
         NEW later, Keeps(memory, later, first)
  PROVE  /\ Within(later, s, first)
         /\ Contents(later, s) = Contents(memory, s)
         /\ Contents(memory, s) \in Seq(Cells) /\ Len(Contents(memory, s)) = s.length
<1>1. CASE s = Empty
  BY <1>1 DEF Within, Contents, Empty
<1>2. CASE s # Empty
  <2>1. /\ s \in Slices /\ s.array \in first..Len(memory) /\ s.length \in 1..Len(memory[s.array])
    BY <1>2 DEF Within
  <2>2. /\ later \in Memories /\ Len(memory) <= Len(later) /\ later[s.array] = memory[s.array]
    BY <2>1 DEF Keeps
  <2>3. memory[s.array] \in Seq(Cells) /\ s.array \in first..Len(later)
    BY <2>1, <2>2 DEF Memories
  <2>4. Within(later, s, first)
    BY <2>1, <2>2, <2>3 DEF Within
  <2>5. Contents(later, s) = Contents(memory, s)
    BY <2>2 DEF Contents
  <2>6. Contents(memory, s) \in Seq(Cells) /\ Len(Contents(memory, s)) = s.length
    <3> DEFINE array == memory[s.array]
               c == [i \in 1..s.length |-> array[i]]
    <3>1. array \in Seq(Cells) /\ s.length \in Nat /\ s.length <= Len(array)
      BY <2>1, <2>3
    <3> HIDE DEF array
    <3>2. c \in Seq(Cells) /\ Len(c) = s.length
      BY <3>1
    <3> QED BY <3>2 DEF Contents, array
  <2> QED BY <2>4, <2>5, <2>6
<1> QED BY <1>1, <1>2

\* A new array is behind all others, and its slice is what was to be stored.
LEMMA AllocatedIsNew ==
  ASSUME NEW memory \in Memories, NEW cells \in Seq(Cells), cells # <<>>,
         NEW spare \in Seq(Cells), NEW r, r = Allocated(memory, cells, spare)
  PROVE  /\ Keeps(memory, r.memory, 1)
         /\ Within(r.memory, r.slice, Len(memory) + 1)
         /\ Contents(r.memory, r.slice) = cells
<1> DEFINE array == cells \o spare
           n == Len(memory)
           later == Append(memory, array)
<1>1. r.memory = later /\ r.slice = Slice(n + 1, Len(cells))
  BY DEF Allocated
<1>2. /\ array \in Seq(Cells) /\ Len(cells) \in 1..Len(array)
      /\ \A i \in 1..Len(cells) : array[i] = cells[i]
  BY ConcatProperties
<1> HIDE DEF array
<1>3. /\ n \in Nat /\ later \in Memories /\ Len(later) = n + 1 /\ later[n + 1] = array
      /\ \A a \in 1..n : later[a] = memory[a]
  BY <1>2, AppendProperties DEF Memories
<1> HIDE DEF later
<1>4. Keeps(memory, later, 1)
  BY <1>3 DEF Keeps
<1>5. Within(later, Slice(n + 1, Len(cells)), n + 1)
  BY <1>2, <1>3 DEF Within, Slice, Slices
<1>6. Contents(later, Slice(n + 1, Len(cells))) = cells
  <2>1. Contents(later, Slice(n + 1, Len(cells))) = [i \in 1..Len(cells) |-> array[i]]
    BY <1>3 DEF Contents, Slice
  <2> QED BY <1>2, <2>1
<1> QED BY <1>1, <1>4, <1>5, <1>6

\* There is room for some cells, and the room is not theirs.
LEMMA SparesAreCells == Spares \subseteq Seq(Cells)
BY DEF Spares, Cells

\* A copy is nil or an array that nobody else has.
LEMMA CopiedIsNew ==
  ASSUME NEW memory \in Memories, NEW s, Within(memory, s, 1),
         NEW spares \in SUBSET Seq(Cells), NEW r \in Copied(memory, s, spares)
  PROVE  /\ Keeps(memory, r.memory, 1)
         /\ Within(r.memory, r.slice, Len(memory) + 1)
         /\ Contents(r.memory, r.slice) = Contents(memory, s)
<1>1. CASE s.length = 0
  <2>1. r.memory = memory /\ r.slice = Empty
    BY <1>1 DEF Copied
  <2>2. s = Empty
    BY <1>1 DEF Within
  <2> QED BY <2>1, <2>2 DEF Keeps, Within
<1>2. CASE s.length # 0
  <2>1. PICK spare \in spares : r = Allocated(memory, Contents(memory, s), spare)
    BY <1>2 DEF Copied
  <2>2. Keeps(memory, memory, 1)
    BY DEF Keeps
  <2>3. Contents(memory, s) \in Seq(Cells) /\ Contents(memory, s) # <<>>
    BY <1>2, <2>2, ContentsAreKept
  <2> QED BY <2>1, <2>3, AllocatedIsNew
<1> QED BY <1>1, <1>2

\* What is appended to a new slice is stored in it or in a newer one: either
\* way, the arrays there were before it stay as they are.
LEMMA AppendedIsNew ==
  ASSUME NEW memory \in Memories, NEW n \in Nat, n <= Len(memory),
         NEW s, Within(memory, s, n + 1), NEW x \in Cells, NEW r \in Appended(memory, s, x)
  PROVE  /\ r.memory \in Memories /\ Len(memory) <= Len(r.memory)
         /\ \A a \in 1..n : r.memory[a] = memory[a]
         /\ Within(r.memory, r.slice, n + 1)
         /\ Contents(r.memory, r.slice) = Append(Contents(memory, s), x)
<1> DEFINE old == Contents(memory, s)
<1>1. Keeps(memory, memory, n + 1)
  BY DEF Keeps
<1>2. old \in Seq(Cells) /\ Len(old) = s.length
  BY <1>1, ContentsAreKept
<1>3. CASE s.array # 0 /\ s.length < Len(memory[s.array])
  <2> DEFINE k == s.length + 1
             array == [memory[s.array] EXCEPT ![k] = x]
             later == [memory EXCEPT ![s.array] = array]
  <2>1. s \in Slices /\ s.array \in (n + 1)..Len(memory) /\ s.length \in 1..Len(memory[s.array])
    BY <1>3 DEF Within, Empty
  <2>2. r.memory = later /\ r.slice = Slice(s.array, k)
    BY <1>3 DEF Appended
  <2>3. memory[s.array] \in Seq(Cells)
    BY <2>1 DEF Memories
  <2>4. /\ array \in Seq(Cells) /\ Len(array) = Len(memory[s.array]) /\ array[k] = x
        /\ \A i \in 1..s.length : array[i] = memory[s.array][i]
    BY <1>3, <2>1, <2>3, ExceptSeq
  <2> HIDE DEF array
  <2>5. /\ later \in Memories /\ Len(later) = Len(memory) /\ later[s.array] = array
        /\ \A a \in 1..n : later[a] = memory[a]
    BY <2>1, <2>4, ExceptSeq DEF Memories
  <2> HIDE DEF later
  <2>6. Within(later, Slice(s.array, k), n + 1)
    BY <1>3, <2>1, <2>4, <2>5 DEF Within, Slice, Slices
  <2>7. Contents(later, Slice(s.array, k)) = Append(old, x)
    <3>1. Contents(later, Slice(s.array, k)) = [i \in 1..k |-> array[i]]
      BY <2>5 DEF Contents, Slice
    <3>2. /\ Append(old, x) \in Seq(Cells) /\ Len(Append(old, x)) = k /\ Append(old, x)[k] = x
          /\ \A i \in 1..s.length : Append(old, x)[i] = array[i]
      <4>1. \A i \in 1..s.length : old[i] = array[i]
        BY <2>4 DEF Contents
      <4> HIDE DEF old
      <4> QED BY <1>2, <4>1, AppendProperties
    <3>3. \A i \in 1..k : Append(old, x)[i] = array[i]
      BY <2>1, <2>4, <3>2
    <3>4. Append(old, x) = [i \in 1..k |-> array[i]]
      <4> DEFINE grown == Append(old, x)
      <4>1. DOMAIN grown = 1..k /\ grown \in [1..k -> Cells]
        <5>1. grown \in Seq(Cells) /\ Len(grown) = k
          BY <3>2
        <5> HIDE DEF grown, k
        <5> QED BY <5>1
      <4>2. \A i \in 1..k : grown[i] = array[i]
        BY <3>3
      <4> HIDE DEF grown, k
      <4>3. grown = [i \in 1..k |-> array[i]]
        BY <4>1, <4>2
      <4> QED BY <4>3 DEF grown
    <3> QED BY <3>1, <3>4
  <2> QED BY <2>2, <2>5, <2>6, <2>7
<1>4. CASE ~(s.array # 0 /\ s.length < Len(memory[s.array]))
  <2>1. PICK spare \in Spares : r = Allocated(memory, Append(old, x), spare)
    BY <1>4 DEF Appended
  <2>2. Append(old, x) \in Seq(Cells) /\ Append(old, x) # <<>>
    BY <1>2, AppendProperties
  <2>3. /\ Keeps(memory, r.memory, 1) /\ Within(r.memory, r.slice, Len(memory) + 1)
        /\ Contents(r.memory, r.slice) = Append(old, x)
    BY <2>1, <2>2, SparesAreCells, AllocatedIsNew
  <2> QED BY <2>3 DEF Keeps, Within, Memories
<1> QED BY <1>3, <1>4

-----------------------------------------------------------------------------
(***************************************************************************)
(* What the operations of a handler say.                                   *)
(***************************************************************************)
\* An operation opens a group or has attributes, which are in a copy.
IsOperation(memory, x) ==
  x \in Operations /\ Within(memory, x.attrs, 2) /\ (x.group = NoGroup \/ x.attrs = Empty)

AreOperations(memory, operations) ==
  operations \in Seq(Cells) /\ \A i \in DOMAIN operations : IsOperation(memory, operations[i])

MeaningIn(memory, x) == [group |-> x.group, keys |-> KeysOf(memory, x)]

Told(memory, operations) ==
  [operations |-> [i \in DOMAIN operations |-> MeaningIn(memory, operations[i])],
   path |-> PathAfter(operations, Len(operations)),
   fields |-> Written(memory, operations)]

Tales == [operations : Seq([group : Names, keys : Seq(Cells)]),
          path : Seq(Names), fields : SUBSET (Seq(Names) \X Cells)]

\* A memory that keeps the copies keeps what is said.
LEMMA ToldIsKept ==
  ASSUME NEW memory \in Memories, NEW later, Keeps(memory, later, 2),
         NEW operations, AreOperations(memory, operations)
  PROVE  AreOperations(later, operations) /\ Told(later, operations) = Told(memory, operations)
<1>1. ASSUME NEW i \in DOMAIN operations
      PROVE  IsOperation(later, operations[i])
             /\ KeysOf(later, operations[i]) = KeysOf(memory, operations[i])
  BY ContentsAreKept DEF AreOperations, IsOperation, KeysOf
<1>2. AreOperations(later, operations)
  BY <1>1 DEF AreOperations
<1>3. [i \in DOMAIN operations |-> MeaningIn(later, operations[i])]
        = [i \in DOMAIN operations |-> MeaningIn(memory, operations[i])]
  BY <1>1 DEF MeaningIn
<1>4. Written(later, operations) = Written(memory, operations)
  BY <1>1 DEF Written
<1> QED BY <1>2, <1>3, <1>4 DEF Told

\* What is said of one operation more, and that it is what With makes of it.
LEMMA OneMoreIsTold ==
  ASSUME NEW memory \in Memories, NEW operations, AreOperations(memory, operations),
         NEW x, IsOperation(memory, x)
  PROVE  /\ AreOperations(memory, Append(operations, x))
         /\ Told(memory, operations) \in Tales
         /\ Told(memory, Append(operations, x)) = With(Told(memory, operations), MeaningIn(memory, x))
<1> DEFINE n == Len(operations)
           longer == Append(operations, x)
           groups(i) == [j \in 1..i |-> operations[j].group]
           longerGroups(i) == [j \in 1..i |-> longer[j].group]
<1>1. /\ operations \in Seq(Cells) /\ n \in Nat /\ DOMAIN operations = 1..n
      /\ x \in Cells /\ x \in Operations
  BY DEF AreOperations, IsOperation, Cells
<1>2. /\ longer \in Seq(Cells) /\ Len(longer) = n + 1 /\ DOMAIN longer = 1..(n + 1)
      /\ longer[n + 1] = x /\ \A i \in 1..n : longer[i] = operations[i]
  BY <1>1, AppendProperties
<1>3. \A i \in 1..(n + 1) : i \in 1..n \/ i = n + 1
  BY <1>1
<1> HIDE DEF longer, n
<1>4. AreOperations(memory, longer)
  BY <1>1, <1>2, <1>3 DEF AreOperations
<1>5. x.group \in Names
  BY <1>1 DEF Operations
<1>6. ASSUME NEW i \in 0..n
      PROVE  /\ groups(i) \in Seq(Names) /\ longerGroups(i) = groups(i)
             /\ PathAfter(longer, i) = PathAfter(operations, i)
             /\ PathAfter(operations, i) \in Seq(Names)
  <2>1. i \in Nat /\ \A j \in 1..i : j \in 1..n /\ operations[j].group \in Names
    BY <1>1 DEF AreOperations, IsOperation, Operations
  <2>2. groups(i) \in Seq(Names)
    BY <2>1
  <2>3. longerGroups(i) = groups(i)
    BY <1>2, <2>1
  <2> HIDE DEF groups, longerGroups
  <2>4. Path(groups(i)) \in Seq(Names)
    <3>1. NoGroup \in Names
      BY DEF Names
    <3> QED BY <2>2, <3>1, PathGrows
  <2> QED BY <2>2, <2>3, <2>4 DEF PathAfter, groups, longerGroups
<1>7. PathAfter(longer, n + 1) = IF x.group = NoGroup THEN PathAfter(operations, n)
                                 ELSE Append(PathAfter(operations, n), x.group)
  <2>1. groups(n) \in Seq(Names) /\ Len(groups(n)) = n
    BY <1>1, <1>6
  <2>2. longerGroups(n + 1) = Append(groups(n), x.group)
    <3> DEFINE grown == Append(groups(n), x.group)
    <3>1. grown \in Seq(Names) /\ Len(grown) = n + 1 /\ grown[n + 1] = x.group
          /\ \A j \in 1..n : grown[j] = groups(n)[j]
      <4> HIDE DEF groups
      <4> QED BY <1>5, <2>1, AppendProperties
    <3>2. \A j \in 1..n : groups(n)[j] = longer[j].group
      BY <1>2
    <3> HIDE DEF grown, groups
    <3>3. grown \in [1..(n + 1) -> Names] /\ \A j \in 1..(n + 1) : grown[j] = longer[j].group
      BY <1>2, <1>3, <3>1, <3>2
    <3>4. grown = [j \in 1..(n + 1) |-> longer[j].group]
      BY <3>3
    <3> QED BY <3>4 DEF grown
  <2> HIDE DEF groups, longerGroups
  <2>3. x.group \in Names
    BY <1>5
  <2>4. Path(longerGroups(n + 1)) = IF x.group = NoGroup THEN Path(groups(n))
                                    ELSE Append(Path(groups(n)), x.group)
    BY <2>1, <2>2, <2>3, PathGrows
  <2> QED BY <2>4 DEF PathAfter, groups, longerGroups
<1>8. ASSUME NEW i \in 1..n
      PROVE  KeysOf(memory, operations[i]) \in Seq(Cells)
             /\ Len(KeysOf(memory, operations[i])) = operations[i].attrs.length
  <2>1. Keeps(memory, memory, 2)
    BY DEF Keeps
  <2>2. Within(memory, operations[i].attrs, 2)
    BY <1>1 DEF AreOperations, IsOperation
  <2> QED BY <2>1, <2>2, ContentsAreKept DEF KeysOf
<1>9. KeysOf(memory, x) \in Seq(Cells) /\ Len(KeysOf(memory, x)) = x.attrs.length
  <2>1. Keeps(memory, memory, 2)
    BY DEF Keeps
  <2> QED BY <2>1, ContentsAreKept DEF IsOperation, KeysOf
<1> HIDE DEF groups, longerGroups
<1> DEFINE Meanings(ops) == [i \in DOMAIN ops |-> MeaningIn(memory, ops[i])]
           At(ops, i) == {<<PathAfter(ops, i), KeysOf(memory, ops[i])[k]>> :
                            k \in 1 .. ops[i].attrs.length}
           MeaningSet == [group : Names, keys : Seq(Cells)]
<1>10. Meanings(operations) \in Seq(MeaningSet) /\ Len(Meanings(operations)) = n
  <2>1. \A i \in 1..n : MeaningIn(memory, operations[i]) \in MeaningSet
    BY <1>1, <1>8 DEF MeaningIn, AreOperations, IsOperation, Operations
  <2> HIDE DEF MeaningSet
  <2> QED BY <1>1, <2>1
<1>11. MeaningIn(memory, x) \in MeaningSet
  BY <1>5, <1>9 DEF MeaningIn
<1>12. Meanings(longer) = Append(Meanings(operations), MeaningIn(memory, x))
  <2> DEFINE grown == Append(Meanings(operations), MeaningIn(memory, x))
  <2>1. grown \in Seq(MeaningSet) /\ Len(grown) = n + 1 /\ grown[n + 1] = MeaningIn(memory, x)
        /\ \A i \in 1..n : grown[i] = Meanings(operations)[i]
    <3> HIDE DEF Meanings, MeaningSet
    <3> QED BY <1>10, <1>11, AppendProperties
  <2>2. \A i \in 1..n : Meanings(operations)[i] = MeaningIn(memory, longer[i])
    BY <1>1, <1>2
  <2> HIDE DEF grown, MeaningSet
  <2>3. grown \in [1..(n + 1) -> MeaningSet]
        /\ \A i \in 1..(n + 1) : grown[i] = MeaningIn(memory, longer[i])
    <3> HIDE DEF Meanings
    <3> QED BY <1>2, <1>3, <2>1, <2>2
  <2>4. grown = [i \in 1..(n + 1) |-> MeaningIn(memory, longer[i])]
    BY <2>3
  <2> QED BY <1>2, <2>4 DEF grown
<1>13. Written(memory, operations) \subseteq Seq(Names) \X Cells
  <2>1. ASSUME NEW i \in 1..n, NEW k \in 1 .. operations[i].attrs.length
        PROVE  KeysOf(memory, operations[i])[k] \in Cells /\ PathAfter(operations, i) \in Seq(Names)
    <3>1. i \in 0..n
      BY <1>1
    <3> QED BY <1>6, <1>8, <3>1, ElementOfSeq
  <2> QED BY <1>1, <2>1 DEF Written
<1>14. Written(memory, longer)
         = Written(memory, operations)
             \cup {<<PathAfter(operations, n), KeysOf(memory, x)[k]>> : k \in 1 .. x.attrs.length}
  <2> DEFINE last == {<<PathAfter(operations, n), KeysOf(memory, x)[k]>> : k \in 1 .. x.attrs.length}
  <2>1. Written(memory, operations) = UNION {At(operations, i) : i \in 1..n}
    BY <1>1 DEF Written
  <2>2. Written(memory, longer) = UNION {At(longer, i) : i \in 1..(n + 1)}
    BY <1>2 DEF Written
  <2>3. \A i \in 1..n : At(longer, i) = At(operations, i)
    BY <1>1, <1>2, <1>6
  <2>4. At(longer, n + 1) = last
    <3>1. CASE x.group = NoGroup
      BY <1>2, <1>7, <3>1
    <3>2. CASE x.attrs = Empty
      BY <1>2, <3>2 DEF Empty
    <3> QED BY <3>1, <3>2 DEF IsOperation
  <2>5. \A i : i \in 1..(n + 1) <=> i \in 1..n \/ i = n + 1
    BY <1>1
  <2>6. /\ \A f : f \in Written(memory, operations) <=> \E i \in 1..n : f \in At(operations, i)
        /\ \A f : f \in Written(memory, longer) <=> \E i \in 1..(n + 1) : f \in At(longer, i)
    <3> HIDE DEF At
    <3> QED BY <2>1, <2>2
  <2> HIDE DEF At, last
  <2>7. \A f : f \in Written(memory, longer) <=> f \in Written(memory, operations) \/ f \in last
    BY <2>3, <2>4, <2>5, <2>6
  <2>8. Written(memory, longer) = Written(memory, operations) \cup last
    BY <2>7
  <2> QED BY <2>8 DEF last
<1>15. Told(memory, operations) \in Tales
  <2>1. PathAfter(operations, n) \in Seq(Names)
    BY <1>1, <1>6
  <2> HIDE DEF Meanings
  <2>2. Told(memory, operations) = [operations |-> Meanings(operations),
          path |-> PathAfter(operations, n), fields |-> Written(memory, operations)]
    BY DEF Told, Meanings, n
  <2> QED BY <1>10, <1>13, <2>1, <2>2 DEF Tales
<1>16. With(Told(memory, operations), MeaningIn(memory, x)) = Told(memory, longer)
  <2>1. {<<PathAfter(operations, n), MeaningIn(memory, x).keys[i]>> : i \in DOMAIN MeaningIn(memory, x).keys}
          = {<<PathAfter(operations, n), KeysOf(memory, x)[k]>> : k \in 1 .. x.attrs.length}
    BY <1>9 DEF MeaningIn
  <2>2. Told(memory, operations) = [operations |-> Meanings(operations),
          path |-> PathAfter(operations, n), fields |-> Written(memory, operations)]
    BY DEF Told, n
  <2>3. Told(memory, longer) = [operations |-> Meanings(longer),
          path |-> PathAfter(longer, n + 1), fields |-> Written(memory, longer)]
    BY <1>2 DEF Told
  <2>4. MeaningIn(memory, x).group = x.group
    BY DEF MeaningIn
  <2> HIDE DEF Meanings
  <2> DEFINE t == Told(memory, operations)
             u == MeaningIn(memory, x)
  <2>5. t.operations = Meanings(operations) /\ t.path = PathAfter(operations, n)
        /\ t.fields = Written(memory, operations)
    BY <2>2
  <2> HIDE DEF t, u
  <2>6. With(t, u) = [operations |-> Meanings(longer),
          path |-> PathAfter(longer, n + 1), fields |-> Written(memory, longer)]
    <3>1. Append(t.operations, u) = Meanings(longer)
      BY <1>12, <2>5 DEF u
    <3>2. (IF u.group = NoGroup THEN t.path ELSE Append(t.path, u.group)) = PathAfter(longer, n + 1)
      BY <1>7, <2>4, <2>5 DEF u
    <3>3. t.fields \cup {<<t.path, u.keys[i]>> : i \in DOMAIN u.keys} = Written(memory, longer)
      BY <1>14, <2>1, <2>5 DEF u
    <3> QED BY <3>1, <3>2, <3>3 DEF With
  <2> QED BY <2>3, <2>6 DEF t, u
<1> QED BY <1>4, <1>15, <1>16 DEF longer

-----------------------------------------------------------------------------
(***************************************************************************)
(* The invariant.  Array 1 is the caller's.  Every handler has its         *)
(* operations in an array behind it, and their attributes are behind it    *)
(* too; what was attached to the handler is what they say.                 *)
(***************************************************************************)
MemoryInv ==
  /\ heap \in Memories /\ heap # <<>> /\ heap[1] \in [1..MaxAttrs -> Keys]
  /\ handlers \in Seq(Slices)
  /\ \A h \in DOMAIN handlers : /\ Within(heap, handlers[h], 2)
                                /\ AreOperations(heap, Contents(heap, handlers[h]))

BuiltInv ==
  /\ built \in Seq(Tales) /\ Len(built) = Len(handlers)
  /\ \A h \in DOMAIN handlers : built[h] = Told(heap, Contents(heap, handlers[h]))

Inv == MemoryInv /\ BuiltInv

\* A new memory that keeps all but the caller's array keeps the handlers.
LEMMA HandlersAreKept ==
  ASSUME Inv, NEW later, Keeps(heap, later, 2)
  PROVE  \A h \in DOMAIN handlers :
           /\ Within(later, handlers[h], 2)
           /\ Contents(later, handlers[h]) = Contents(heap, handlers[h])
           /\ AreOperations(later, Contents(later, handlers[h]))
           /\ built[h] = Told(later, Contents(later, handlers[h]))
<1> TAKE h \in DOMAIN handlers
<1>1. /\ heap \in Memories /\ Within(heap, handlers[h], 2)
      /\ AreOperations(heap, Contents(heap, handlers[h]))
      /\ built[h] = Told(heap, Contents(heap, handlers[h]))
  BY DEF Inv, MemoryInv, BuiltInv
<1>2. Within(later, handlers[h], 2) /\ Contents(later, handlers[h]) = Contents(heap, handlers[h])
  BY <1>1, ContentsAreKept
<1>3. /\ AreOperations(later, Contents(heap, handlers[h]))
      /\ Told(later, Contents(heap, handlers[h])) = Told(heap, Contents(heap, handlers[h]))
  BY <1>1, ToldIsKept
<1> QED BY <1>1, <1>2, <1>3

\* At first there is the root handler, without operations.
LEMMA InitInv == ASSUME Init PROVE Inv
<1>1. PICK cells \in [1 .. MaxAttrs -> Keys] : heap = <<cells>>
  BY DEF Init
<1>2. handlers = <<Empty>> /\ built = <<Nothing>>
  BY DEF Init
<1>3. heap \in Memories /\ heap # <<>> /\ heap[1] \in [1..MaxAttrs -> Keys]
  <2>1. cells \in Seq(Cells)
    BY LogAssumption DEF LogAssumption, Cells
  <2> HIDE DEF Cells
  <2> QED BY <1>1, <2>1 DEF Memories
<1>4. Contents(heap, Empty) = <<>>
  BY DEF Contents, Empty
<1>5. AreOperations(heap, <<>>)
  BY DEF AreOperations
<1>6. Empty \in Slices
  BY DEF Empty, Slices
<1>7. MemoryInv
  BY <1>2, <1>3, <1>4, <1>5, <1>6 DEF MemoryInv, Within
<1>8. Told(heap, <<>>) = Nothing
  <2>1. PathAfter(<<>>, 0) = <<>>
    <3>1. [i \in 1..0 |-> <<>>[i].group] = <<>>
      OBVIOUS
    <3> QED BY <3>1, PathOfNone DEF PathAfter
  <2>2. Written(heap, <<>>) = {}
    BY DEF Written
  <2>3. [i \in DOMAIN <<>> |-> MeaningIn(heap, <<>>[i])] = <<>>
    OBVIOUS
  <2> QED BY <2>1, <2>2, <2>3 DEF Told, Nothing
<1>9. Nothing \in Tales
  BY DEF Nothing, Tales
<1>10. BuiltInv
  BY <1>2, <1>4, <1>8, <1>9 DEF BuiltInv
<1> QED BY <1>7, <1>10 DEF Inv

\* The caller writes to an array that no handler has.
LEMMA CallerWritesInv == ASSUME Inv, CallerWrites PROVE Inv'
<1>1. PICK i \in 1 .. MaxAttrs, k \in Keys : heap' = [heap EXCEPT ![1][i] = k]
  BY DEF CallerWrites
<1>2. handlers' = handlers /\ built' = built
  BY DEF CallerWrites
<1>3. heap \in Memories /\ heap # <<>> /\ heap[1] \in [1..MaxAttrs -> Keys]
      /\ handlers \in Seq(Slices) /\ built \in Seq(Tales) /\ Len(built) = Len(handlers)
  BY DEF Inv, MemoryInv, BuiltInv
<1>4. heap[1] \in Seq(Cells) /\ 1 \in 1..Len(heap)
  BY <1>3 DEF Memories
<1> DEFINE array == [heap[1] EXCEPT ![i] = k]
<1>5. heap' = [heap EXCEPT ![1] = array]
  BY <1>1
<1>6. array \in [1..MaxAttrs -> Keys] /\ array \in Seq(Cells)
  <2>1. array \in [1..MaxAttrs -> Keys]
    BY <1>3
  <2>2. MaxAttrs \in Nat /\ Keys \subseteq Cells
    BY LogAssumption DEF LogAssumption, Cells
  <2> HIDE DEF array
  <2> QED BY <2>1, <2>2
<1> HIDE DEF array
<1>7. heap' \in Memories /\ Len(heap') = Len(heap) /\ heap'[1] = array
      /\ \A a \in 2..Len(heap) : heap'[a] = heap[a]
  BY <1>3, <1>4, <1>5, <1>6, ExceptSeq DEF Memories
<1>8. Keeps(heap, heap', 2) /\ heap' # <<>>
  BY <1>3, <1>4, <1>7 DEF Keeps, Memories
<1>9. \A h \in DOMAIN handlers :
        /\ Within(heap', handlers[h], 2)
        /\ AreOperations(heap', Contents(heap', handlers[h]))
        /\ built[h] = Told(heap', Contents(heap', handlers[h]))
  BY <1>8, HandlersAreKept
<1> QED BY <1>2, <1>3, <1>6, <1>7, <1>8, <1>9 DEF Inv, MemoryInv, BuiltInv

\* A derived handler has its operations for itself.
LEMMA DeriveInv ==
  ASSUME Inv, NEW h \in DOMAIN handlers, NEW memory, Keeps(heap, memory, 1),
         NEW x, IsOperation(memory, x), NEW meaning, meaning = MeaningIn(memory, x),
         Derive(h, memory, x, meaning)
  PROVE  Inv'
<1> DEFINE n == Len(memory)
           ops == Contents(heap, handlers[h])
<1>1. /\ heap \in Memories /\ heap # <<>> /\ heap[1] \in [1..MaxAttrs -> Keys]
      /\ handlers \in Seq(Slices) /\ built \in Seq(Tales) /\ Len(built) = Len(handlers)
      /\ Within(heap, handlers[h], 2) /\ built[h] = Told(heap, ops)
      /\ AreOperations(heap, ops)
  BY DEF Inv, MemoryInv, BuiltInv
<1>2. Keeps(heap, memory, 2) /\ memory \in Memories /\ 1 \in 1..Len(heap) /\ Len(heap) <= n
      /\ n \in Nat /\ memory[1] = heap[1]
  BY <1>1 DEF Keeps, Memories
<1>3. /\ Within(memory, handlers[h], 2) /\ Contents(memory, handlers[h]) = ops
      /\ AreOperations(memory, ops) /\ built[h] = Told(memory, ops)
  BY <1>2, HandlersAreKept
<1>0. PICK copy \in Copied(memory, handlers[h], Spares) :
        \E grown \in Appended(copy.memory, copy.slice, x) :
          heap' = grown.memory /\ handlers' = Append(handlers, grown.slice)
  BY DEF Derive
<1>4. PICK grown \in Appended(copy.memory, copy.slice, x) :
        heap' = grown.memory /\ handlers' = Append(handlers, grown.slice)
  BY <1>0
<1>5. built' = Append(built, With(built[h], meaning))
  BY DEF Derive
<1>6. /\ Keeps(memory, copy.memory, 1) /\ Within(copy.memory, copy.slice, n + 1)
      /\ Contents(copy.memory, copy.slice) = ops
  <2>1. Within(memory, handlers[h], 1)
    BY <1>3 DEF Within
  <2> QED BY <1>2, <1>3, <2>1, SparesAreCells, CopiedIsNew
<1>7. /\ heap' \in Memories /\ n <= Len(heap') /\ \A a \in 1..n : heap'[a] = memory[a]
      /\ Within(heap', grown.slice, n + 1)
      /\ Contents(heap', grown.slice) = Append(ops, x)
  <2>1. copy.memory \in Memories /\ n <= Len(copy.memory) /\ \A a \in 1..n : copy.memory[a] = memory[a]
    BY <1>6 DEF Keeps
  <2>2. x \in Cells
    BY DEF IsOperation, Cells
  <2>3. /\ grown.memory \in Memories /\ Len(copy.memory) <= Len(grown.memory)
        /\ \A a \in 1..n : grown.memory[a] = copy.memory[a]
        /\ Within(grown.memory, grown.slice, n + 1)
        /\ Contents(grown.memory, grown.slice) = Append(Contents(copy.memory, copy.slice), x)
    BY <1>2, <1>4, <1>6, <2>1, <2>2, AppendedIsNew
  <2>4. Len(copy.memory) \in Nat /\ Len(grown.memory) \in Nat
    BY <2>1, <2>3 DEF Memories
  <2> QED BY <1>2, <1>4, <1>6, <2>1, <2>3, <2>4
<1> HIDE DEF n, ops
<1>8. Keeps(memory, heap', 2) /\ Keeps(heap, heap', 2)
  <2>1. Len(heap) \in Nat /\ Len(heap') \in Nat
    BY <1>1, <1>7 DEF Memories
  <2>2. \A a \in 2..Len(heap) : a \in 1..n /\ heap'[a] = heap[a]
    BY <1>2, <1>7, <2>1 DEF Keeps
  <2>3. Len(heap) <= Len(heap')
    BY <1>2, <1>7, <2>1
  <2>4. Keeps(heap, heap', 2)
    BY <1>7, <2>2, <2>3 DEF Keeps
  <2>5. \A a \in 2..n : heap'[a] = memory[a]
    BY <1>7
  <2> QED BY <1>7, <2>4, <2>5 DEF Keeps, n
<1>9. Within(heap', grown.slice, 2) /\ grown.slice \in Slices
  BY <1>2, <1>7 DEF Within, Slices, Empty
<1>10. IsOperation(heap', x) /\ meaning = MeaningIn(heap', x)
  <2>1. Within(memory, x.attrs, 2)
    BY DEF IsOperation
  <2>2. Within(heap', x.attrs, 2) /\ KeysOf(heap', x) = KeysOf(memory, x)
    BY <1>2, <1>8, <2>1, ContentsAreKept DEF KeysOf
  <2> QED BY <2>2 DEF IsOperation, MeaningIn
<1>11. AreOperations(heap', ops) /\ Told(heap', ops) = built[h]
  BY <1>1, <1>8, ToldIsKept
<1>12. /\ AreOperations(heap', Append(ops, x)) /\ Told(heap', Append(ops, x)) = With(built[h], meaning)
  BY <1>7, <1>10, <1>11, OneMoreIsTold
<1>13. Told(heap', Append(ops, x)) \in Tales
  BY <1>7, <1>10, <1>12, OneMoreIsTold
<1>14. \A g \in DOMAIN handlers :
         /\ Within(heap', handlers[g], 2)
         /\ AreOperations(heap', Contents(heap', handlers[g]))
         /\ built[g] = Told(heap', Contents(heap', handlers[g]))
  BY <1>8, HandlersAreKept
<1> DEFINE m == Len(handlers)
<1>15. /\ m \in Nat /\ DOMAIN handlers = 1..m /\ handlers' \in Seq(Slices) /\ Len(handlers') = m + 1
       /\ DOMAIN handlers' = 1..(m + 1)
       /\ handlers'[m + 1] = grown.slice /\ \A g \in 1..m : handlers'[g] = handlers[g]
  BY <1>1, <1>4, <1>9, AppendProperties
<1>16. /\ built' \in Seq(Tales) /\ Len(built') = m + 1
       /\ built'[m + 1] = Told(heap', Append(ops, x)) /\ \A g \in 1..m : built'[g] = built[g]
  BY <1>1, <1>5, <1>12, <1>13, AppendProperties
<1> HIDE DEF m
<1>17. \A g \in DOMAIN handlers' :
         /\ Within(heap', handlers'[g], 2)
         /\ AreOperations(heap', Contents(heap', handlers'[g]))
         /\ built'[g] = Told(heap', Contents(heap', handlers'[g]))
  <2> TAKE g \in DOMAIN handlers'
  <2>1. CASE g \in 1..m
    BY <1>14, <1>15, <1>16, <2>1
  <2>2. CASE g = m + 1
    BY <1>7, <1>9, <1>12, <1>15, <1>16, <2>2
  <2>3. g \in 1..m \/ g = m + 1
    BY <1>15
  <2> QED BY <2>1, <2>2, <2>3
<1>18. heap' # <<>> /\ heap'[1] \in [1..MaxAttrs -> Keys]
  BY <1>1, <1>2, <1>7 DEF Memories
<1> QED BY <1>7, <1>15, <1>16, <1>17, <1>18 DEF Inv, MemoryInv, BuiltInv

\* Attributes are copied before the handler has them.
LEMMA WithAttrsInv == ASSUME Inv, NEW h \in DOMAIN handlers, WithAttrs(h) PROVE Inv'
<1>0. PICK n \in 1 .. MaxAttrs :
        \E attrs \in Copied(heap, Slice(1, n), {<<>>}) :
          Derive(h, attrs.memory, [group |-> NoGroup, attrs |-> attrs.slice],
                 [group |-> NoGroup, keys |-> Contents(heap, Slice(1, n))])
  BY DEF WithAttrs
<1>1. PICK attrs \in Copied(heap, Slice(1, n), {<<>>}) :
        Derive(h, attrs.memory, [group |-> NoGroup, attrs |-> attrs.slice],
               [group |-> NoGroup, keys |-> Contents(heap, Slice(1, n))])
  BY <1>0
<1> DEFINE x == [group |-> NoGroup, attrs |-> attrs.slice]
<1>2. heap \in Memories /\ heap # <<>> /\ heap[1] \in [1..MaxAttrs -> Keys]
  BY DEF Inv, MemoryInv
<1>3. Within(heap, Slice(1, n), 1)
  <2>1. MaxAttrs \in Nat /\ heap[1] \in Seq(Cells) /\ Len(heap) \in Nat /\ Len(heap) # 0
    BY <1>2, LogAssumption DEF LogAssumption, Memories
  <2>2. Len(heap[1]) = MaxAttrs
    BY <1>2, <2>1
  <2> QED BY <2>1, <2>2 DEF Within, Slice, Slices
<1>4. /\ Keeps(heap, attrs.memory, 1) /\ Within(attrs.memory, attrs.slice, Len(heap) + 1)
      /\ Contents(attrs.memory, attrs.slice) = Contents(heap, Slice(1, n))
  <2>1. {<<>>} \in SUBSET Seq(Cells)
    OBVIOUS
  <2> QED BY <1>2, <1>3, <2>1, CopiedIsNew
<1>5. Within(attrs.memory, attrs.slice, 2) /\ attrs.slice \in Slices
  <2>1. Len(heap) \in Nat /\ Len(heap) # 0 /\ Len(attrs.memory) \in Nat
    BY <1>2, <1>4 DEF Memories, Keeps
  <2> QED BY <1>4, <2>1 DEF Within, Slices, Empty
<1>6. IsOperation(attrs.memory, x)
  BY <1>5 DEF IsOperation, Operations, Names
<1>7. [group |-> NoGroup, keys |-> Contents(heap, Slice(1, n))] = MeaningIn(attrs.memory, x)
  BY <1>4 DEF MeaningIn, KeysOf
<1> HIDE DEF x
<1>8. Derive(h, attrs.memory, x, MeaningIn(attrs.memory, x))
  BY <1>1, <1>7 DEF x
<1> QED BY <1>4, <1>6, <1>8, DeriveInv

\* A group has no attributes.
LEMMA WithGroupInv == ASSUME Inv, NEW h \in DOMAIN handlers, WithGroup(h) PROVE Inv'
<1>1. PICK name \in Groups : Derive(h, heap, [group |-> name, attrs |-> Empty],
                                    [group |-> name, keys |-> <<>>])
  BY DEF WithGroup
<1> DEFINE x == [group |-> name, attrs |-> Empty]
<1>2. Keeps(heap, heap, 1)
  BY DEF Inv, MemoryInv, Keeps
<1>3. IsOperation(heap, x)
  BY DEF IsOperation, Operations, Names, Within, Empty, Slices
<1>4. [group |-> name, keys |-> <<>>] = MeaningIn(heap, x)
  BY DEF MeaningIn, KeysOf, Contents, Empty
<1> HIDE DEF x
<1>5. Derive(h, heap, x, MeaningIn(heap, x))
  BY <1>1, <1>4 DEF x
<1> QED BY <1>2, <1>3, <1>5, DeriveInv

\* The memory of the handlers is theirs, whatever is derived from them.
THEOREM Invariance == Spec => []Inv
<1>1. Inv /\ UNCHANGED vars => Inv'
  BY DEF Inv, MemoryInv, BuiltInv, vars
<1>2. Inv /\ [Next]_vars => Inv'
  BY <1>1, CallerWritesInv, WithAttrsInv, WithGroupInv DEF Next
<1> QED BY <1>2, InitInv, PTL DEF Spec

\* A handler keeps what it was made of.
THEOREM HandlersStayIndependent == Spec => []HandlersAreIndependent
<1>1. ASSUME Inv PROVE HandlersAreIndependent
  <2> SUFFICES ASSUME NEW h \in DOMAIN handlers
               PROVE  built[h].operations
                        = [i \in DOMAIN Contents(heap, handlers[h]) |->
                             Meaning(Contents(heap, handlers[h])[i])]
    BY DEF HandlersAreIndependent
  <2>1. built[h] = Told(heap, Contents(heap, handlers[h]))
    BY <1>1 DEF Inv, BuiltInv
  <2> QED BY <2>1 DEF Told, MeaningIn, Meaning
<1> QED BY <1>1, Invariance, PTL

\* The method for a level is that of the highest named level it reaches.
LEMMA MethodIsSeverity ==
  ASSUME NEW level \in Int
  PROVE  Method(level) = Severity[SeverityOf(level)]
<1> DEFINE R == Reached(level)
           top == CHOOSE t \in R : \A u \in R : u <= t
<1>0. /\ Severity[1] = "Tracef" /\ Severity[2] = "Debugf" /\ Severity[3] = "Infof"
      /\ Severity[4] = "Warningf" /\ Severity[5] = "Errf"
  BY DEF Severity
<1>1. R = {t \in {-4, 0, 4, 8} : t <= level}
  BY DEF Reached, Debug, Info, Warn, Error
<1>2. CASE level >= 8
  <2>1. Error \in R
    BY <1>1, <1>2 DEF Error
  <2>2. SeverityOf(level) = 5
    BY <2>1 DEF SeverityOf
  <2> QED BY <1>0, <1>2, <2>2 DEF Method, Error
<1>3. CASE level < -4
  <2>1. R = {} /\ Error \notin R
    BY <1>1, <1>3
  <2>2. SeverityOf(level) = 1
    BY <2>1 DEF SeverityOf
  <2> QED BY <1>0, <1>3, <2>2 DEF Method, Error, Warn, Info, Debug
<1>4. CASE level \in -4..7
  <2>1. R # {} /\ Error \notin R
    BY <1>1, <1>4 DEF Error
  <2>2. ASSUME NEW t \in R, \A u \in R : u <= t PROVE top = t
    <3>1. top \in R /\ \A u \in R : u <= top
      BY <2>2
    <3> HIDE DEF top
    <3>2. R \subseteq Int
      BY <1>1
    <3> QED BY <2>2, <3>1, <3>2
  <2>3. SeverityOf(level) = 1 + (top \div 4 + 2)
    BY <2>1 DEF SeverityOf
  <2> HIDE DEF top
  <2>4. CASE level >= 4
    <3>1. 4 \in R /\ \A u \in R : u <= 4
      BY <1>1, <1>4, <2>4
    <3>2. SeverityOf(level) = 4
      BY <2>2, <2>3, <3>1
    <3> QED BY <1>0, <1>4, <2>4, <3>2 DEF Method, Error, Warn
  <2>5. CASE level \in 0..3
    <3>1. 0 \in R /\ \A u \in R : u <= 0
      BY <1>1, <2>5
    <3>2. SeverityOf(level) = 3
      BY <2>2, <2>3, <3>1
    <3> QED BY <1>0, <2>5, <3>2 DEF Method, Error, Warn, Info
  <2>6. CASE level < 0
    <3>1. -4 \in R /\ \A u \in R : u <= -4
      BY <1>1, <1>4, <2>6
    <3>2. SeverityOf(level) = 2
      <4>1. (-4) \div 4 = -1
        OBVIOUS
      <4> QED BY <2>2, <2>3, <3>1, <4>1
    <3> QED BY <1>0, <1>4, <2>6, <3>2 DEF Method, Error, Warn, Info, Debug
  <2> QED BY <1>4, <2>4, <2>5, <2>6
<1> QED BY <1>2, <1>3, <1>4

\* A record reaches Zabbix with all that was attached to it, and nothing else.
THEOREM LinesStayFaithful == Spec => []LinesAreFaithful
<1>1. ASSUME Inv PROVE LinesAreFaithful
  <2>1. ASSUME NEW h \in DOMAIN handlers, NEW level \in Levels
        PROVE  Handle(h, level, {}).method = Severity[SeverityOf(level)]
    <3>1. level \in Int
      BY LogAssumption DEF LogAssumption
    <3> QED BY <3>1, MethodIsSeverity DEF Handle
  <2>2. ASSUME NEW h \in DOMAIN handlers, NEW own \in SUBSET Keys
        PROVE  LET all == built[h].fields \cup {<<built[h].path, k>> : k \in own}
               IN  Handle(h, Info, own).fields = {<<<<>>, MessageKey>>}
                     \cup {f \in all : ~(f[1] = <<>> /\ f[2] \in {TimeKey, LevelKey})}
    <3> DEFINE ops == Contents(heap, handlers[h])
               written == Written(heap, ops)
               record == {<<PathAfter(ops, Len(ops)), k>> : k \in own}
               builtin == {<<<<>>, TimeKey>>, <<<<>>, LevelKey>>, <<<<>>, MessageKey>>}
    <3>1. built[h] = Told(heap, ops)
      BY <1>1 DEF Inv, BuiltInv
    <3>2. built[h].fields = written /\ built[h].path = PathAfter(ops, Len(ops))
      BY <3>1 DEF Told
    <3>3. Handle(h, Info, own).fields = {f \in written \cup record \cup builtin : Kept(f[1], f[2])}
      BY DEF Handle, Fields
    <3>4. MessageKey \notin {TimeKey, LevelKey}
      BY DEF MessageKey, TimeKey, LevelKey
    <3> HIDE DEF written, record
    <3>5. {f \in written \cup record \cup builtin : Kept(f[1], f[2])}
            = {<<<<>>, MessageKey>>} \cup
              {f \in written \cup record : ~(f[1] = <<>> /\ f[2] \in {TimeKey, LevelKey})}
      BY <3>4 DEF Kept
    <3> QED BY <3>2, <3>3, <3>5 DEF record
  <2> QED BY <2>1, <2>2 DEF LinesAreFaithful
<1> QED BY <1>1, Invariance, PTL
=============================================================================
