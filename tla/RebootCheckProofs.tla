------------------------- MODULE RebootCheckProofs -------------------------
(***************************************************************************)
(* Proofs about KernelRelease and RebootCheck, for any packages, any       *)
(* kernels of any release and any time: the comparison of releases is the  *)
(* order of their segments, and the answer of a check is right although    *)
(* the host changes between its readings.                                  *)
(***************************************************************************)
EXTENDS RebootCheck, Induction, SequenceTheorems

-----------------------------------------------------------------------------
(***************************************************************************)
(* The parts of a release.                                                 *)
(***************************************************************************)
\* A set of numbers that is not empty has a least one, which Min is.
LEMMA MinIsLeast ==
  ASSUME NEW T, T \subseteq Nat, T # {}
  PROVE  Min(T) \in T /\ \A x \in T : Min(T) <= x
<1>1. \E n \in T : \A m \in T : n <= m
  BY LeastNumber
<1> QED BY <1>1 DEF Min

LEMMA Kinds ==
  ASSUME NEW v \in Nat
  PROVE  /\ Kind(v) \in {0, 1, 2}
         /\ isASCIIDigit(v) <=> Kind(v) = 2
         /\ isASCIILetter(v) <=> Kind(v) = 1
         /\ isASCIIDigit(v) => v - 48 \in 0..9
BY DEF Kind, isASCIIDigit, isASCIILetter

\* A release without a part, and one whose first part is from s to e - 1.
HasNoPart(value) == \A i \in 1..Len(value) : Kind(value[i]) = 0

HasPart(value, s, e) ==
  /\ s \in 1..Len(value) /\ e \in (s + 1)..(Len(value) + 1)
  /\ \A i \in 1..(s - 1) : Kind(value[i]) = 0
  /\ Kind(value[s]) # 0
  /\ \A i \in s..(e - 1) : Kind(value[i]) = Kind(value[s])
  /\ e <= Len(value) => Kind(value[e]) # Kind(value[s])

LEMMA NextPart ==
  ASSUME NEW value \in Seq(Nat)
  PROVE  \/ HasNoPart(value) /\ nextVersionPart(value) = NoPart
         \/ \E s, e : /\ HasPart(value, s, e)
                      /\ nextVersionPart(value)
                           = [part |-> SubSeq(value, s, e - 1), numeric |-> Kind(value[s]) = 2,
                              rest |-> SubSeq(value, e, Len(value))]
<1> DEFINE n == Len(value)
           Starts == {i \in 1..n : isASCIIDigit(value[i]) \/ isASCIILetter(value[i])} \cup {n + 1}
           s == PartStart(value)
           Ends(d) == {i \in s..n : ~InPart(value[i], d)} \cup {n + 1}
           e == PartEnd(value, s)
<1>1. n \in Nat /\ DOMAIN value = 1..n /\ \A i \in 1..n : value[i] \in Nat
  OBVIOUS
<1>2. \A i \in 1..n : /\ Kind(value[i]) \in {0, 1, 2}
                      /\ isASCIIDigit(value[i]) <=> Kind(value[i]) = 2
                      /\ isASCIILetter(value[i]) <=> Kind(value[i]) = 1
  BY <1>1, Kinds
<1>3. s = Min(Starts)
  BY <1>1 DEF PartStart
<1>4. s \in Starts /\ \A i \in Starts : s <= i
  <2>1. Starts \subseteq Nat /\ Starts # {}
    BY <1>1
  <2> HIDE DEF Starts
  <2> QED BY <1>3, <2>1, MinIsLeast
<1>5. s \in 1..(n + 1) /\ \A i \in 1..(s - 1) : Kind(value[i]) = 0
  <2>1. s \in 1..(n + 1)
    BY <1>1, <1>4
  <2>2. ASSUME NEW i \in 1..(s - 1) PROVE Kind(value[i]) = 0
    <3>1. i \in 1..n /\ i \notin Starts
      BY <1>1, <1>4, <2>1
    <3> QED BY <1>2, <3>1
  <2> QED BY <2>1, <2>2
<1> HIDE DEF s
<1>6. CASE s > n
  <2>1. nextVersionPart(value) = NoPart
    BY <1>6 DEF nextVersionPart, s
  <2>2. HasNoPart(value)
    BY <1>1, <1>5, <1>6 DEF HasNoPart
  <2> QED BY <2>1, <2>2
<1>7. CASE s <= n
  <2>0. s \in 1..n /\ Kind(value[s]) # 0
    BY <1>1, <1>2, <1>4, <1>5, <1>7
  <2> DEFINE d == isASCIIDigit(value[s])
  <2>1. e = Min(Ends(d))
    BY DEF PartEnd, s
  <2>2. e \in Ends(d) /\ \A i \in Ends(d) : e <= i
    <3>1. Ends(d) \subseteq Nat /\ Ends(d) # {}
      BY <1>1, <1>5
    <3> HIDE DEF Ends, d, e
    <3> QED BY <2>1, <3>1, MinIsLeast
  <2>3. \A i \in s..n : InPart(value[i], d) <=> Kind(value[i]) = Kind(value[s])
    <3> TAKE i \in s..n
    <3>1. i \in 1..n
      BY <1>1, <2>0
    <3> QED BY <1>2, <2>0, <3>1 DEF InPart
  <2> HIDE DEF d, e
  <2>4. e \in (s + 1)..(n + 1)
    <3>1. s \notin Ends(d)
      BY <1>1, <2>0, <2>3
    <3> QED BY <1>1, <2>0, <2>2, <3>1
  <2>5. \A i \in s..(e - 1) : Kind(value[i]) = Kind(value[s])
    <3> TAKE i \in s..(e - 1)
    <3>1. i \in s..n /\ i \notin Ends(d)
      BY <1>1, <2>0, <2>2, <2>4
    <3> QED BY <2>3, <3>1
  <2>6. e <= n => Kind(value[e]) # Kind(value[s])
    BY <1>1, <2>0, <2>2, <2>3, <2>4
  <2>7. HasPart(value, s, e)
    BY <1>5, <2>0, <2>4, <2>5, <2>6 DEF HasPart
  <2>8. nextVersionPart(value)
          = [part |-> SubSeq(value, s, e - 1), numeric |-> d, rest |-> SubSeq(value, e, n)]
    BY <1>1, <1>5, <1>7 DEF nextVersionPart, s, e, d
  <2>9. d <=> Kind(value[s]) = 2
    BY <1>2, <2>0 DEF d
  <2>10. d = (Kind(value[s]) = 2)
    BY <2>9 DEF d, isASCIIDigit
  <2> QED BY <2>7, <2>8, <2>10
<1> QED BY <1>1, <1>5, <1>6, <1>7

-----------------------------------------------------------------------------
(***************************************************************************)
(* The segments of a release.                                              *)
(***************************************************************************)
SegmentSet == [kind : {0, 1, 2}, number : Int, word : Seq(Nat)]

\* The recursion of Segments: what has been read after i characters.
ReadTo(value) ==
  CHOOSE read : read = [i \in 0..Len(value) |->
    IF i = 0 THEN <<>> ELSE Read(read[i - 1], value, i)]

LEMMA LongerIsSegment ==
  ASSUME NEW segment \in SegmentSet, NEW v \in Nat
  PROVE  Longer(segment, v) \in SegmentSet
<1>0. segment.kind \in {0, 1, 2} /\ segment.number \in Int /\ segment.word \in Seq(Nat)
  BY DEF SegmentSet
<1>1. CASE segment.kind = 2
  BY <1>1 DEF Longer, SegmentSet
<1>2. CASE segment.kind # 2
  <2>1. Append(segment.word, v) \in Seq(Nat)
    BY <1>0, AppendProperties
  <2>2. Longer(segment, v) = [segment EXCEPT !.word = Append(segment.word, v)]
    BY <1>2 DEF Longer
  <2> QED BY <2>1, <2>2 DEF SegmentSet
<1> QED BY <1>1, <1>2

LEMMA BeginsSegment ==
  ASSUME NEW kind \in {0, 1, 2} PROVE NoSegment(kind) \in SegmentSet
BY DEF NoSegment, SegmentSet

LEMMA ReadIsSegments ==
  ASSUME NEW segments \in Seq(SegmentSet), NEW value \in Seq(Nat), NEW i \in 1..Len(value)
  PROVE  Read(segments, value, i) \in Seq(SegmentSet)
<1> DEFINE last == Len(segments)
           kind == Kind(value[i])
<1>1. value[i] \in Nat /\ kind \in {0, 1, 2}
  BY Kinds
<1>2. Longer(NoSegment(kind), value[i]) \in SegmentSet
  BY <1>1, BeginsSegment, LongerIsSegment
<1>3. [segments EXCEPT ![last] = Longer(segments[last], value[i])] \in Seq(SegmentSet)
  <2>1. CASE segments = <<>>
    <3>1. ASSUME NEW x PROVE [segments EXCEPT ![last] = x] = segments
      BY <2>1
    <3> QED BY <3>1
  <2>2. CASE segments # <<>>
    <3>1. last \in 1..Len(segments) /\ segments[last] \in SegmentSet
      BY <2>2
    <3>2. Longer(segments[last], value[i]) \in SegmentSet
      BY <1>1, <3>1, LongerIsSegment
    <3> HIDE DEF SegmentSet
    <3> QED BY <3>1, <3>2, ExceptSeq
  <2> QED BY <2>1, <2>2
<1> HIDE DEF SegmentSet
<1>4. Append(segments, Longer(NoSegment(kind), value[i])) \in Seq(SegmentSet)
  BY <1>2, AppendProperties
<1> QED BY <1>3, <1>4 DEF Read

LEMMA ReadToSteps ==
  ASSUME NEW value \in Seq(Nat)
  PROVE  /\ ReadTo(value)[0] = <<>>
         /\ \A i \in 1..Len(value) : ReadTo(value)[i] = Read(ReadTo(value)[i - 1], value, i)
         /\ \A i \in 0..Len(value) : ReadTo(value)[i] \in Seq(SegmentSet)
<1> DEFINE n == Len(value)
           A == Seq(SegmentSet)
           step == [i \in 1..n |-> [segments \in A |-> Read(segments, value, i)]]
           Solves(f) == f = [i \in 0..n |-> IF i = 0 THEN <<>> ELSE Read(f[i - 1], value, i)]
<1>1. n \in Nat /\ <<>> \in A
  OBVIOUS
<1>2. \A i \in 1..n, segments \in A : Read(segments, value, i) \in A
  BY ReadIsSegments
<1> HIDE DEF A
<1>3. IsRecursion(n, A, <<>>, step)
  BY <1>1, <1>2 DEF IsRecursion
<1>4. PICK f : Follows(f, n, A, <<>>, step)
  <2> HIDE DEF n, step
  <2> QED BY <1>3, Recursion
<1>5. Solves(f)
  <2>1. f \in [0..n -> A] /\ f[0] = <<>> /\ \A i \in 1..n : f[i] = step[i][f[i - 1]]
    <3> HIDE DEF n, step
    <3> QED BY <1>4 DEF Follows
  <2>2. \A i \in 1..n, segments \in A : step[i][segments] = Read(segments, value, i)
    OBVIOUS
  <2> HIDE DEF step
  <2>3. \A i \in 1..n : f[i - 1] \in A /\ f[i] = Read(f[i - 1], value, i)
    <3>1. \A i \in 1..n : i - 1 \in 0..n
      BY <1>1
    <3> QED BY <2>1, <2>2, <3>1
  <2>4. \A i \in 0..n : i = 0 \/ i \in 1..n
    BY <1>1
  <2> HIDE DEF n
  <2> QED BY <2>1, <2>3, <2>4
<1>6. ReadTo(value) = CHOOSE g : Solves(g)
  BY DEF ReadTo
<1>7. Solves(ReadTo(value))
  <2> HIDE DEF Solves
  <2> QED BY <1>5, <1>6
<1> DEFINE F == ReadTo(value)
<1>8. F = [i \in 0..n |-> IF i = 0 THEN <<>> ELSE Read(F[i - 1], value, i)]
  BY <1>7
<1> HIDE DEF F
<1>9. F[0] = <<>> /\ \A i \in 1..n : F[i] = Read(F[i - 1], value, i)
  <2>1. F[0] = <<>>
    BY <1>1, <1>8
  <2>2. ASSUME NEW i \in 1..n PROVE F[i] = Read(F[i - 1], value, i)
    <3>1. i \in 0..n /\ i # 0
      BY <1>1
    <3> HIDE DEF n
    <3> QED BY <1>8, <3>1
  <2> QED BY <2>1, <2>2
<1> HIDE DEF n
<1>10. \A i \in 0..n : F[i] \in A
  <2> DEFINE S == {i \in 0..n : F[i] \in A}
  <2>1. 0 \in S
    BY <1>1, <1>9
  <2>2. \A i \in 1..n : i - 1 \in S => i \in S
    BY <1>1, <1>2, <1>9
  <2>3. 0..n \subseteq S
    <3> HIDE DEF S
    <3> QED BY <1>1, <2>1, <2>2, InductionUpTo
  <2> QED BY <2>3
<1> QED BY <1>9, <1>10 DEF F, A, n

LEMMA SegmentsAreReadTo ==
  ASSUME NEW value PROVE Segments(value) = ReadTo(value)[Len(value)]
BY DEF Segments, ReadTo

\* The number that digits are, read one at a time.
Reads(f, w) ==
  /\ f \in [0..Len(w) -> Int] /\ f[0] = 0
  /\ \A i \in 1..Len(w) : f[i] = 10 * f[i - 1] + (w[i] - 48)

\* The segment that a part of a kind is.
IsSegment(segment, kind, w) ==
  /\ segment \in SegmentSet /\ segment.kind = kind
  /\ kind # 2 => segment.number = 0 /\ segment.word = w
  /\ kind = 2 => segment.word = <<>> /\ \E f : Reads(f, w) /\ segment.number = f[Len(w)]

LEMMA NoSegmentYet ==
  ASSUME NEW kind \in {0, 1, 2} PROVE IsSegment(NoSegment(kind), kind, <<>>)
<1>1. Reads([i \in 0..0 |-> 0], <<>>)
  BY DEF Reads
<1> QED BY <1>1, BeginsSegment DEF IsSegment, NoSegment

\* A character more.
LEMMA SegmentGrows ==
  ASSUME NEW kind \in {1, 2}, NEW w \in Seq(Nat), NEW segment, IsSegment(segment, kind, w),
         NEW v \in Nat
  PROVE  IsSegment(Longer(segment, v), kind, Append(w, v))
<1>0. segment \in SegmentSet /\ segment.kind = kind /\ Longer(segment, v) \in SegmentSet
  BY LongerIsSegment DEF IsSegment
<1>1. CASE kind = 1
  <2>1. Longer(segment, v) = [segment EXCEPT !.word = Append(segment.word, v)]
    BY <1>0, <1>1 DEF Longer
  <2>2. segment.word = w /\ segment.number = 0
    BY <1>1 DEF IsSegment
  <2> QED BY <1>0, <1>1, <2>1, <2>2 DEF IsSegment, SegmentSet
<1>2. CASE kind = 2
  <2>1. Longer(segment, v) = [segment EXCEPT !.number = 10 * segment.number + (v - 48)]
    BY <1>0, <1>2 DEF Longer
  <2>2. PICK f : Reads(f, w) /\ segment.number = f[Len(w)] /\ segment.word = <<>>
    BY <1>2 DEF IsSegment
  <2> DEFINE n == Len(w)
             x == Append(w, v)
             g == [i \in 0..(n + 1) |-> IF i = n + 1 THEN 10 * f[n] + (v - 48) ELSE f[i]]
  <2>3. n \in Nat /\ Len(x) = n + 1 /\ x[n + 1] = v /\ \A i \in 1..n : x[i] = w[i] /\ w[i] \in Nat
    BY AppendProperties
  <2>4. f \in [0..n -> Int] /\ f[0] = 0 /\ \A i \in 1..n : f[i] = 10 * f[i - 1] + (w[i] - 48)
    BY <2>2 DEF Reads
  <2> HIDE DEF n, x
  <2>5. g \in [0..(n + 1) -> Int] /\ g[0] = 0 /\ g[n + 1] = 10 * f[n] + (v - 48)
    BY <2>3, <2>4
  <2>6. ASSUME NEW i \in 1..(n + 1) PROVE g[i] = 10 * g[i - 1] + (x[i] - 48)
    <3>1. CASE i = n + 1
      BY <2>3, <3>1
    <3>2. CASE i # n + 1
      <4>1. i \in 1..n /\ i - 1 \in 0..n
        BY <2>3, <3>2
      <4>2. g[i] = f[i] /\ g[i - 1] = f[i - 1]
        BY <2>3, <4>1
      <4>3. x[i] = w[i]
        BY <2>3, <4>1
      <4> HIDE DEF g
      <4> QED BY <2>4, <4>1, <4>2, <4>3
    <3> QED BY <3>1, <3>2
  <2> HIDE DEF g
  <2>7. Reads(g, x)
    BY <2>3, <2>5, <2>6 DEF Reads
  <2>8. Longer(segment, v).number = g[Len(x)] /\ Longer(segment, v).word = <<>>
        /\ Longer(segment, v).kind = 2
    BY <1>0, <1>2, <2>1, <2>2, <2>3, <2>5 DEF n, SegmentSet
  <2>9. \E h : Reads(h, x) /\ Longer(segment, v).number = h[Len(x)]
    BY <2>7, <2>8
  <2> QED BY <1>0, <1>2, <2>8, <2>9 DEF IsSegment, x
<1> QED BY <1>1, <1>2

\* As long as there are only separators, there is no segment.
LEMMA NothingRead ==
  ASSUME NEW value \in Seq(Nat), NEW m \in 0..Len(value), \A i \in 1..m : Kind(value[i]) = 0
  PROVE  ReadTo(value)[m] = <<>>
<1> DEFINE R == ReadTo(value)
           S == {i \in 0..m : R[i] = <<>>}
<1>0. m \in Nat /\ 1..m \subseteq 1..Len(value)
  OBVIOUS
<1>1. R[0] = <<>> /\ \A i \in 1..m : R[i] = Read(R[i - 1], value, i)
  BY <1>0, ReadToSteps
<1> HIDE DEF R
<1>2. \A i \in 1..m : R[i] = R[i - 1]
  BY <1>1 DEF Read
<1>3. 0 \in S /\ \A i \in 1..m : i - 1 \in S => i \in S
  BY <1>1, <1>2
<1>4. 0..m \subseteq S
  <2> HIDE DEF S
  <2> QED BY <1>0, <1>3, InductionUpTo
<1> QED BY <1>0, <1>4 DEF R

\* The first part is one segment.
LEMMA FirstSegment ==
  ASSUME NEW value \in Seq(Nat), NEW s, NEW e, HasPart(value, s, e)
  PROVE  \E segment : /\ ReadTo(value)[e - 1] = <<segment>>
                      /\ IsSegment(segment, Kind(value[s]), SubSeq(value, s, e - 1))
<1> DEFINE n == Len(value)
           R == ReadTo(value)
           k == Kind(value[s])
           Q(i) == \E segment : R[i] = <<segment>> /\ IsSegment(segment, k, SubSeq(value, s, i))
           S == {i \in 0..(e - 1) : i >= s => Q(i)}
<1>0. /\ n \in Nat /\ s \in 1..n /\ e \in (s + 1)..(n + 1) /\ k # 0
      /\ \A i \in 1..(s - 1) : Kind(value[i]) = 0
      /\ \A i \in s..(e - 1) : Kind(value[i]) = k
  BY DEF HasPart
<1>1. k \in {1, 2} /\ \A i \in 1..n : value[i] \in Nat
  <2>1. \A i \in 1..n : value[i] \in Nat
    BY ElementOfSeq
  <2>2. Kind(value[s]) \in {0, 1, 2}
    BY <1>0, <2>1, Kinds
  <2> QED BY <1>0, <2>1, <2>2
<1>2. \A i \in 1..n : R[i] = Read(R[i - 1], value, i)
  BY ReadToSteps
<1>3. R[s - 1] = <<>>
  BY <1>0, NothingRead
<1> HIDE DEF R, k, n
<1>4. Q(s)
  <2>1. Kind(value[s]) = k /\ (s > 1 => Kind(value[s - 1]) # k)
    BY <1>0
  <2>2. R[s] = Append(<<>>, Longer(NoSegment(k), value[s]))
    BY <1>0, <1>2, <1>3, <2>1 DEF Read
  <2>3. IsSegment(Longer(NoSegment(k), value[s]), k, Append(<<>>, value[s]))
    <3>1. IsSegment(NoSegment(k), k, <<>>) /\ <<>> \in Seq(Nat) /\ value[s] \in Nat
      BY <1>0, <1>1, NoSegmentYet
    <3> QED BY <1>1, <3>1, SegmentGrows
  <2>4. SubSeq(value, s, s) = Append(<<>>, value[s])
    <3>1. s \in 1..Len(value) /\ s \in s..Len(value) /\ s \in Int /\ s < s + 1 /\ s + 1 \in Int
      BY <1>0 DEF n
    <3>2. SubSeq(value, s, s) = <<value[s]>> \o SubSeq(value, s + 1, s)
      BY <3>1, SubSeqRecursiveFirst
    <3>3. SubSeq(value, s + 1, s) = <<>>
      BY <3>1, SubSeqEmpty
    <3>4. <<value[s]>> \in Seq({value[s]})
      OBVIOUS
    <3>5. <<value[s]>> \o <<>> = <<value[s]>>
      BY <3>4, ConcatEmptySeq
    <3>6. Append(<<>>, value[s]) = <<value[s]>>
      OBVIOUS
    <3> QED BY <3>2, <3>3, <3>5, <3>6
  <2>5. R[s] = <<Longer(NoSegment(k), value[s])>>
    BY <2>2
  <2> QED BY <2>3, <2>4, <2>5
<1>5. ASSUME NEW i \in 1..(e - 1), i > s, Q(i - 1) PROVE Q(i)
  <2>1. PICK g : R[i - 1] = <<g>> /\ IsSegment(g, k, SubSeq(value, s, i - 1))
    BY <1>5
  <2>2. Kind(value[i]) = k /\ Kind(value[i - 1]) = k /\ i > 1 /\ i \in 1..n
    BY <1>0, <1>5
  <2>3. R[i] = [<<g>> EXCEPT ![1] = Longer(g, value[i])]
    <3>1. R[i] = Read(<<g>>, value, i)
      BY <1>2, <2>1, <2>2
    <3>2. Len(<<g>>) = 1 /\ <<g>>[1] = g
      OBVIOUS
    <3> QED BY <1>0, <2>2, <3>1, <3>2 DEF Read
  <2>4. R[i] = <<Longer(g, value[i])>>
    BY <2>3
  <2>5. SubSeq(value, s, i - 1) \in Seq(Nat)
        /\ SubSeq(value, s, i) = Append(SubSeq(value, s, i - 1), value[i])
    <3>1. s \in 1..Len(value) /\ i \in s..Len(value) /\ i - 1 \in Int
      BY <1>0, <1>5, <2>2 DEF n
    <3>2. SubSeq(value, s, i) = SubSeq(value, s, i - 1) \o <<value[i]>>
      BY <3>1, SubSeqRecursiveSecond
    <3>3. \A j \in s..(i - 1) : value[j] \in Nat
      BY <1>0, <1>1, <2>2
    <3>4. SubSeq(value, s, i - 1) \in Seq(Nat)
      BY <3>1, <3>3, SubSeqProperties
    <3>5. value[i] \in Nat
      BY <1>1, <2>2
    <3> QED BY <3>2, <3>4, <3>5, AppendIsConcat
  <2>6. IsSegment(Longer(g, value[i]), k, SubSeq(value, s, i))
    BY <1>1, <2>1, <2>2, <2>5, SegmentGrows
  <2> QED BY <2>4, <2>6
<1> HIDE DEF Q
<1>6. 0 \in S /\ \A i \in 1..(e - 1) : i - 1 \in S => i \in S
  <2>1. 0 \in S
    BY <1>0
  <2>2. ASSUME NEW i \in 1..(e - 1), i - 1 \in S PROVE i \in S
    <3>1. i \in 0..(e - 1)
      BY <1>0
    <3>2. CASE i < s
      BY <1>0, <3>1, <3>2
    <3>3. CASE i = s
      BY <1>4, <3>1, <3>3
    <3>4. CASE i > s
      <4>1. Q(i - 1)
        BY <1>0, <2>2, <3>4
      <4> QED BY <1>5, <3>1, <3>4, <4>1
    <3> QED BY <1>0, <3>2, <3>3, <3>4
  <2> QED BY <2>1, <2>2
<1>7. e - 1 \in S
  <2> HIDE DEF S
  <2>1. e - 1 \in Nat
    BY <1>0
  <2>2. 0..(e - 1) \subseteq S
    BY <1>6, <2>1, InductionUpTo
  <2> QED BY <2>1, <2>2
<1>8. Q(e - 1)
  BY <1>0, <1>7
<1> QED BY <1>8 DEF Q, R, k

LEMMA Associates ==
  \A A : \A s, t, u \in Seq(A) : (s \o t) \o u = s \o (t \o u)
BY ConcatAssociative

\* Character j of the rest is character i of the value, as is what is before
\* it, where segments has been read of the rest.
IsBehind(segments, value, i, rest, j) ==
  /\ value \in Seq(Nat) /\ i \in 1..Len(value)
  /\ rest \in Seq(Nat) /\ j \in 1..Len(rest)
  /\ rest[j] = value[i]
  /\ j > 1 => i > 1 /\ rest[j - 1] = value[i - 1]
  /\ j = 1 => i = 1 \/ Kind(value[i - 1]) # Kind(value[i])
  /\ j > 1 /\ Kind(rest[j - 1]) # 0 => segments # <<>>

\* What is read with something in front of it has that in front of it.
LEMMA ReadBehind ==
  ASSUME NEW front \in Seq(SegmentSet), NEW segments \in Seq(SegmentSet),
         NEW value, NEW i, NEW rest, NEW j, IsBehind(segments, value, i, rest, j)
  PROVE  /\ Read(front \o segments, value, i) = front \o Read(segments, rest, j)
         /\ Kind(rest[j]) # 0 => Read(segments, rest, j) # <<>>
<1> DEFINE k == Kind(value[i])
           whole == front \o segments
           new == Longer(NoSegment(k), value[i])
           f == Len(front)
           last == Len(segments)
<1>0. i \in Nat \ {0} /\ j \in Nat \ {0} /\ f \in Nat /\ last \in Nat /\ value[i] \in Nat
      /\ k \in {0, 1, 2}
  <2>0. value \in Seq(Nat) /\ i \in 1..Len(value) /\ rest \in Seq(Nat) /\ j \in 1..Len(rest)
    BY DEF IsBehind
  <2>1. value[i] \in Nat /\ Len(value) \in Nat /\ Len(rest) \in Nat /\ f \in Nat /\ last \in Nat
    BY <2>0, ElementOfSeq, LenProperties
  <2>2. k \in {0, 1, 2}
    BY <2>1, Kinds
  <2> QED BY <2>0, <2>1, <2>2
<1>1. /\ whole \in Seq(SegmentSet) /\ Len(whole) = f + last
      /\ \A n \in 1..(f + last) : whole[n] = IF n <= f THEN front[n] ELSE segments[n - f]
  BY ConcatProperties
<1>2. new \in SegmentSet
  BY <1>0, BeginsSegment, LongerIsSegment
<1> HIDE DEF SegmentSet, whole, f, last, new, k
<1>3. CASE k = 0
  <2>1. Read(whole, value, i) = whole /\ Read(segments, rest, j) = segments
    BY <1>3 DEF Read, k, IsBehind
  <2> QED BY <1>3, <2>1 DEF whole, k, IsBehind
<1>4. CASE k # 0 /\ ~(j > 1 /\ Kind(rest[j - 1]) = k)
  <2>1. ~(i > 1 /\ Kind(value[i - 1]) = k)
    BY <1>0, <1>4 DEF k, IsBehind
  <2>2. Read(whole, value, i) = Append(whole, new) /\ Read(segments, rest, j) = Append(segments, new)
    BY <1>4, <2>1 DEF Read, k, new, IsBehind
  <2>3. Append(whole, new) = whole \o <<new>> /\ Append(segments, new) = segments \o <<new>>
        /\ Append(segments, new) # <<>>
    BY <1>1, <1>2, AppendIsConcat, AppendProperties
  <2>4. <<new>> \in Seq(SegmentSet)
    BY <1>2
  <2>5. whole \o <<new>> = front \o (segments \o <<new>>)
    <3>1. front \in Seq(SegmentSet) /\ segments \in Seq(SegmentSet)
      OBVIOUS
    <3>2. \A t \in Seq(SegmentSet) : (front \o segments) \o t = front \o (segments \o t)
      BY <3>1, Associates
    <3> DEFINE one == <<new>>
    <3>3. one \in Seq(SegmentSet)
      BY <2>4
    <3> HIDE DEF one
    <3>4. (front \o segments) \o one = front \o (segments \o one)
      BY <3>2, <3>3
    <3> QED BY <3>4 DEF whole, one
  <2> QED BY <2>2, <2>3, <2>5 DEF whole
<1>5. CASE k # 0 /\ j > 1 /\ Kind(rest[j - 1]) = k
  <2>1. i > 1 /\ Kind(value[i - 1]) = k /\ segments # <<>>
    BY <1>5 DEF IsBehind
  <2>2. last \in 1..last /\ f + last \in 1..(f + last) /\ whole[f + last] = segments[last]
        /\ segments[last] \in SegmentSet
    <3>1. last # 0
      BY <2>1 DEF last
    <3>2. last \in 1..last /\ f + last \in 1..(f + last) /\ ~(f + last <= f) /\ (f + last) - f = last
      BY <1>0, <3>1
    <3> QED BY <1>1, <3>2, ElementOfSeq DEF last
  <2> DEFINE x == Longer(segments[last], value[i])
             grown == [segments EXCEPT ![last] = x]
             wholeGrown == [whole EXCEPT ![f + last] = x]
  <2>3. x \in SegmentSet
    BY <1>0, <2>2, LongerIsSegment
  <2>4. Read(whole, value, i) = wholeGrown /\ Read(segments, rest, j) = grown
    BY <1>1, <1>5, <2>1, <2>2 DEF Read, k, last, IsBehind
  <2> HIDE DEF x
  <2>5. /\ grown \in Seq(SegmentSet) /\ Len(grown) = last
        /\ \A n \in 1..last : grown[n] = IF n = last THEN x ELSE segments[n]
    BY <2>2, <2>3, ExceptSeq DEF last
  <2>6. /\ wholeGrown \in Seq(SegmentSet) /\ Len(wholeGrown) = f + last
        /\ \A n \in 1..(f + last) : wholeGrown[n] = IF n = f + last THEN x ELSE whole[n]
    BY <1>1, <2>2, <2>3, ExceptSeq
  <2> HIDE DEF grown, wholeGrown
  <2>7. /\ front \o grown \in Seq(SegmentSet) /\ Len(front \o grown) = f + last
        /\ \A n \in 1..(f + last) : (front \o grown)[n] = IF n <= f THEN front[n] ELSE grown[n - f]
    BY <2>5, ConcatProperties DEF f
  <2>8. ASSUME NEW n \in 1..(f + last) PROVE wholeGrown[n] = (front \o grown)[n]
    <3>1. CASE n <= f
      <4>1. n # f + last
        BY <1>0, <2>2, <3>1
      <4>2. wholeGrown[n] = whole[n]
        BY <2>6, <4>1
      <4>3. whole[n] = front[n]
        BY <1>1, <3>1
      <4>4. (front \o grown)[n] = front[n]
        BY <2>7, <3>1
      <4> QED BY <4>2, <4>3, <4>4
    <3>2. CASE n > f
      <4>1. n - f \in 1..last /\ (n - f = last <=> n = f + last) /\ ~(n <= f)
        BY <1>0, <3>2
      <4>2. wholeGrown[n] = IF n = f + last THEN x ELSE whole[n]
        BY <2>6
      <4>3. whole[n] = segments[n - f]
        BY <1>1, <4>1
      <4>4. (front \o grown)[n] = grown[n - f]
        BY <2>7, <4>1
      <4>5. grown[n - f] = IF n - f = last THEN x ELSE segments[n - f]
        BY <2>5, <4>1
      <4> QED BY <4>1, <4>2, <4>3, <4>4, <4>5
    <3>3. n \in Nat
      BY <1>0
    <3>4. n <= f \/ n > f
      BY <1>0, <3>3
    <3> QED BY <3>1, <3>2, <3>4
  <2>9. wholeGrown = front \o grown
    BY <2>6, <2>7, <2>8, SeqEqual
  <2>10. grown # <<>>
    BY <1>0, <2>2, <2>5
  <2> QED BY <2>4, <2>9, <2>10 DEF whole
<1> QED BY <1>3, <1>4, <1>5

\* A release is its first part and the rest.
IsPart(part, k, segment) ==
  /\ part \in Seq(Nat) \ {<<>>} /\ \A i \in 1..Len(part) : Kind(part[i]) = k
  /\ k \in {1, 2} /\ IsSegment(segment, k, part)

IsRest(value, segment, rest) ==
  /\ rest \in Seq(Nat) /\ Len(rest) < Len(value)
  /\ Segments(value) = <<segment>> \o Segments(rest)

LEMMA SegmentsSplit ==
  ASSUME NEW value \in Seq(Nat), NEW s, NEW e, HasPart(value, s, e)
  PROVE  \E segment : /\ IsPart(SubSeq(value, s, e - 1), Kind(value[s]), segment)
                      /\ IsRest(value, segment, SubSeq(value, e, Len(value)))
<1> DEFINE n == Len(value)
           part == SubSeq(value, s, e - 1)
           rest == SubSeq(value, e, n)
           k == Kind(value[s])
           m == (n - e) + 1
           R == ReadTo(value)
           Q == ReadTo(rest)
<1>0. /\ n \in Nat /\ s \in 1..n /\ e \in (s + 1)..(n + 1) /\ k # 0
      /\ \A i \in s..(e - 1) : Kind(value[i]) = k
      /\ e <= n => Kind(value[e]) # k
  BY DEF HasPart
<1>1. (\A i \in 1..n : value[i] \in Nat) /\ k \in {1, 2}
  <2>1. \A i \in 1..n : value[i] \in Nat
    BY ElementOfSeq
  <2>2. Kind(value[s]) \in {0, 1, 2}
    BY <1>0, <2>1, Kinds
  <2> QED BY <1>0, <2>1, <2>2
<1>2. rest \in Seq(Nat) /\ Len(rest) = m /\ m \in Nat /\ m < n
      /\ \A j \in 1..m : rest[j] = value[(e - 1) + j]
  <2>1. e \in Int /\ n \in Int /\ m \in Nat /\ m < n /\ (e <= n <=> m # 0) /\ \A i \in e..n : value[i] \in Nat
    BY <1>0, <1>1
  <2> HIDE DEF n
  <2>2. /\ rest \in Seq(Nat) /\ Len(rest) = IF e <= n THEN m ELSE 0
        /\ \A j \in 1..m : rest[j] = value[e + j - 1]
    BY <2>1, SubSeqProperties
  <2>3. \A j \in 1..m : e + j - 1 = (e - 1) + j
    BY <1>0
  <2> QED BY <2>1, <2>2, <2>3
<1>3. /\ part \in Seq(Nat) /\ Len(part) = e - s
      /\ \A i \in 1..(e - s) : part[i] = value[s + i - 1] /\ Kind(part[i]) = k
  <2>1. s \in Int /\ e - 1 \in Int /\ s <= e - 1 /\ (e - 1) - s + 1 = e - s
        /\ \A i \in s..(e - 1) : value[i] \in Nat
    BY <1>0, <1>1
  <2>2. /\ part \in Seq(Nat) /\ Len(part) = e - s
        /\ \A i \in 1..(e - s) : part[i] = value[s + i - 1]
    BY <2>1, SubSeqProperties
  <2>3. \A i \in 1..(e - s) : s + i - 1 \in s..(e - 1)
    BY <1>0
  <2> HIDE DEF part, k
  <2> QED BY <1>0, <2>2, <2>3
<1>4. PICK segment : R[e - 1] = <<segment>> /\ IsSegment(segment, k, part)
  BY FirstSegment
<1>5. <<segment>> \in Seq(SegmentSet) /\ Len(<<segment>>) = 1
  BY <1>4 DEF IsSegment
<1>6. \A i \in 1..n : R[i] = Read(R[i - 1], value, i)
  BY ReadToSteps
<1>7. /\ Q[0] = <<>> /\ \A j \in 1..m : Q[j] = Read(Q[j - 1], rest, j)
      /\ \A j \in 0..m : Q[j] \in Seq(SegmentSet)
  BY <1>2, ReadToSteps
<1> DEFINE S == {j \in 0..m : /\ R[(e - 1) + j] = <<segment>> \o Q[j]
                              /\ j > 0 /\ Kind(rest[j]) # 0 => Q[j] # <<>>}
<1> HIDE DEF n, R, Q, rest, part, m, k
<1>8. 0 \in S
  <2>1. (e - 1) + 0 = e - 1
    BY <1>0
  <2>2. <<segment>> \o <<>> = <<segment>>
    BY <1>5, ConcatEmptySeq
  <2>3. 0 \in 0..m
    BY <1>2
  <2>4. R[(e - 1) + 0] = <<segment>> \o Q[0]
    BY <1>4, <1>7, <2>1, <2>2
  <2> QED BY <2>3, <2>4
<1>9. ASSUME NEW j \in 1..m, j - 1 \in S PROVE j \in S
  <2> DEFINE i == (e - 1) + j
  <2>1. i \in 1..n /\ i > 1 /\ i - 1 = (e - 1) + (j - 1) /\ j - 1 \in 0..m /\ j \in 0..m
    <3>1. m = (n - e) + 1 /\ j \in 1..m /\ n \in Nat /\ e \in Nat /\ e >= 2
      BY <1>0 DEF m
    <3>2. j \in Nat /\ 1 <= j /\ j <= m
      BY <1>2, <3>1
    <3> QED BY <3>1, <3>2
  <2>2. R[i - 1] = <<segment>> \o Q[j - 1] /\ (j > 1 /\ Kind(rest[j - 1]) # 0 => Q[j - 1] # <<>>)
    BY <1>9, <2>1
  <2>3. rest[j] = value[i]
    BY <1>2
  <2>4. j > 1 => rest[j - 1] = value[i - 1]
    BY <1>2, <2>1
  <2>5. j = 1 => Kind(value[i - 1]) # Kind(value[i])
    <3>1. ASSUME j = 1 PROVE i = e /\ e <= n /\ e - 1 \in s..(e - 1)
      BY <1>0, <1>2, <3>1 DEF m
    <3> QED BY <1>0, <3>1
  <2> HIDE DEF i
  <2>6. /\ Read(<<segment>> \o Q[j - 1], value, i) = <<segment>> \o Read(Q[j - 1], rest, j)
        /\ Kind(rest[j]) # 0 => Read(Q[j - 1], rest, j) # <<>>
    <3>1. Q[j - 1] \in Seq(SegmentSet) /\ i \in 1..Len(value) /\ j \in 1..Len(rest)
      BY <1>2, <1>7, <2>1 DEF n
    <3> DEFINE one == <<segment>>
               before == Q[j - 1]
    <3>2. one \in Seq(SegmentSet) /\ before \in Seq(SegmentSet)
      BY <1>5, <3>1
    <3>3. IsBehind(before, value, i, rest, j)
      BY <1>2, <2>1, <2>2, <2>3, <2>4, <2>5, <3>1 DEF IsBehind
    <3> HIDE DEF SegmentSet, one, before
    <3>4. /\ Read(one \o before, value, i) = one \o Read(before, rest, j)
          /\ Kind(rest[j]) # 0 => Read(before, rest, j) # <<>>
      BY <3>2, <3>3, ReadBehind
    <3> QED BY <3>4 DEF one, before
  <2> QED BY <1>6, <1>7, <2>1, <2>2, <2>6 DEF i
<1>10. m \in S
  <2> HIDE DEF S
  <2>1. 0..m \subseteq S
    BY <1>2, <1>8, <1>9, InductionUpTo
  <2> QED BY <1>2, <2>1
<1>11. R[n] = <<segment>> \o Q[m]
  <2>1. (e - 1) + m = n
    BY <1>0 DEF m
  <2> QED BY <1>10, <2>1
<1>12. Segments(value) = <<segment>> \o Segments(rest)
  BY <1>2, <1>11, SegmentsAreReadTo DEF R, Q, n
<1>13. part # <<>>
  BY <1>0, <1>3
<1>14. \A i \in 1..Len(part) : Kind(part[i]) = k
  BY <1>3
<1>15. IsPart(part, k, segment) /\ IsRest(value, segment, rest)
  BY <1>1, <1>2, <1>3, <1>4, <1>12, <1>13, <1>14 DEF IsPart, IsRest, n
<1> QED BY <1>15 DEF rest, part, n, k

\* A release without a part has no segment.
LEMMA NoSegments ==
  ASSUME NEW value \in Seq(Nat), HasNoPart(value) PROVE Segments(value) = <<>>
<1>1. Len(value) \in 0..Len(value) /\ \A i \in 1..Len(value) : Kind(value[i]) = 0
  BY DEF HasNoPart
<1> QED BY <1>1, NothingRead, SegmentsAreReadTo

\* And the segments of any are segments.
LEMMA SegmentsAreSegments ==
  ASSUME NEW value \in Seq(Nat) PROVE Segments(value) \in Seq(SegmentSet)
<1>1. Len(value) \in 0..Len(value)
  OBVIOUS
<1> QED BY <1>1, ReadToSteps, SegmentsAreReadTo

-----------------------------------------------------------------------------
(***************************************************************************)
(* The order of words and of numbers.                                      *)
(***************************************************************************)
Verdicts == {"less", "equal", "greater"}

LEMMA Orders ==
  ASSUME NEW a \in Int, NEW b \in Int
  PROVE  /\ Order(a, b) \in Verdicts
         /\ Order(a, b) = "equal" <=> a = b
         /\ a > b <=> Order(a, b) = "greater"
         /\ a < b <=> Order(a, b) = "less"
BY DEF Order, Verdicts

\* Words are compared by length, or at the first character that differs.
LEMMA WordsCompare ==
  ASSUME NEW a \in Seq(Nat), NEW b \in Seq(Nat)
  PROVE  \/ /\ \A i \in 1..Len(a) : i \in 1..Len(b) => a[i] = b[i]
            /\ CompareStrings(a, b) = Order(Len(a), Len(b))
         \/ \E i \in 1..Len(a) :
              /\ i \in 1..Len(b) /\ a[i] # b[i]
              /\ \A j \in 1..(i - 1) : a[j] = b[j]
              /\ CompareStrings(a, b) = Order(a[i], b[i])
<1> DEFINE differ == {i \in DOMAIN a \cap DOMAIN b : a[i] # b[i]}
<1>1. DOMAIN a = 1..Len(a) /\ DOMAIN b = 1..Len(b) /\ Len(a) \in Nat /\ Len(b) \in Nat
  BY LenProperties
<1>2. CASE differ = {}
  <2>1. CompareStrings(a, b) = Order(Len(a), Len(b))
    BY <1>2 DEF CompareStrings
  <2>2. \A i \in 1..Len(a) : i \in 1..Len(b) => a[i] = b[i]
    BY <1>1, <1>2
  <2> QED BY <2>1, <2>2
<1>3. CASE differ # {}
  <2> DEFINE i == Min(differ)
  <2>1. CompareStrings(a, b) = Order(a[i], b[i])
    BY <1>3 DEF CompareStrings
  <2>2. i \in differ /\ \A j \in differ : i <= j
    <3>1. differ \subseteq Nat
      BY <1>1
    <3> HIDE DEF differ
    <3> QED BY <1>3, <3>1, MinIsLeast
  <2> HIDE DEF i
  <2>3. i \in 1..Len(a) /\ i \in 1..Len(b) /\ a[i] # b[i]
    BY <1>1, <2>2
  <2>4. ASSUME NEW j \in 1..(i - 1) PROVE a[j] = b[j]
    <3>1. j \in DOMAIN a \cap DOMAIN b /\ ~(i <= j)
      BY <1>1, <2>3
    <3> QED BY <2>2, <3>1
  <2> QED BY <2>1, <2>3, <2>4
<1> QED BY <1>2, <1>3

LEMMA WordsAreEqual ==
  ASSUME NEW a \in Seq(Nat), NEW b \in Seq(Nat)
  PROVE  /\ CompareStrings(a, b) \in Verdicts
         /\ CompareStrings(a, b) = "equal" <=> a = b
<1>0. Len(a) \in Nat /\ Len(b) \in Nat
  BY LenProperties
<1>1. CASE /\ \A i \in 1..Len(a) : i \in 1..Len(b) => a[i] = b[i]
           /\ CompareStrings(a, b) = Order(Len(a), Len(b))
  <2>1. /\ Order(Len(a), Len(b)) \in Verdicts
        /\ Order(Len(a), Len(b)) = "equal" <=> Len(a) = Len(b)
    BY <1>0, Orders
  <2>2. Len(a) = Len(b) <=> a = b
    BY <1>1, SeqEqual
  <2> QED BY <1>1, <2>1, <2>2
<1>2. CASE \E i \in 1..Len(a) :
              /\ i \in 1..Len(b) /\ a[i] # b[i]
              /\ CompareStrings(a, b) = Order(a[i], b[i])
  <2>1. PICK i \in 1..Len(a) :
              /\ i \in 1..Len(b) /\ a[i] # b[i]
              /\ CompareStrings(a, b) = Order(a[i], b[i])
    BY <1>2
  <2>2. a[i] \in Nat /\ b[i] \in Nat
    BY <2>1, ElementOfSeq
  <2>3. Order(a[i], b[i]) \in Verdicts /\ Order(a[i], b[i]) # "equal"
    BY <2>1, <2>2, Orders
  <2> QED BY <2>1, <2>3
<1> QED BY <1>1, <1>2, WordsCompare

Digits(w) == w \in Seq(Nat) /\ \A i \in 1..Len(w) : w[i] - 48 \in 0..9

LEMMA ReadsDigits ==
  ASSUME NEW w, Digits(w), NEW f, Reads(f, w)
  PROVE  /\ Len(w) \in Nat /\ f[0] = 0
         /\ \A i \in 0..Len(w) : f[i] \in Int
         /\ \A i \in 1..Len(w) : /\ i - 1 \in 0..Len(w) /\ w[i] - 48 \in 0..9
                                 /\ f[i] = 10 * f[i - 1] + (w[i] - 48)
<1>1. Len(w) \in Nat
  BY LenProperties DEF Digits
<1>2. f[0] = 0 /\ \A i \in 0..Len(w) : f[i] \in Int
  BY DEF Reads
<1>3. ASSUME NEW i \in 1..Len(w)
      PROVE  i - 1 \in 0..Len(w) /\ w[i] - 48 \in 0..9 /\ f[i] = 10 * f[i - 1] + (w[i] - 48)
  <2>1. i - 1 \in 0..Len(w)
    BY <1>1
  <2>2. w[i] - 48 \in 0..9
    BY DEF Digits
  <2>3. f[i] = 10 * f[i - 1] + (w[i] - 48)
    BY DEF Reads
  <2> QED BY <2>1, <2>2, <2>3
<1> QED BY <1>1, <1>2, <1>3

LEMMA Leads ==
  ASSUME NEW a \in Int, NEW b \in Int, a > b, NEW d \in 0..9, NEW e \in 0..9
  PROVE  10 * a + d > 10 * b + e
OBVIOUS

\* Who leads with as many digits to come stays ahead.
LEMMA Lead ==
  ASSUME NEW x, Digits(x), NEW g, Reads(g, x), NEW y, Digits(y), NEW h, Reads(h, y),
         NEW a \in 0..Len(x), NEW b \in 0..Len(y), Len(x) - a = Len(y) - b, g[a] > h[b]
  PROVE  g[Len(x)] > h[Len(y)]
<1> DEFINE m == Len(x) - a
           S == {j \in 0..m : g[a + j] > h[b + j]}
<1>0. Len(x) \in Nat /\ Len(y) \in Nat /\ m \in Nat /\ a + m = Len(x) /\ b + m = Len(y)
  <2>1. Len(x) \in Nat /\ Len(y) \in Nat
    BY ReadsDigits
  <2> QED BY <2>1
<1>1. 0 \in S
  BY <1>0
<1>2. ASSUME NEW j \in 1..m, j - 1 \in S PROVE j \in S
  <2>1. a + j \in 1..Len(x) /\ b + j \in 1..Len(y) /\ (a + j) - 1 = a + (j - 1)
        /\ (b + j) - 1 = b + (j - 1) /\ j \in 0..m
    BY <1>0
  <2>2. /\ g[a + j] = 10 * g[a + (j - 1)] + (x[a + j] - 48) /\ x[a + j] - 48 \in 0..9
        /\ g[a + (j - 1)] \in Int
    BY <2>1, ReadsDigits
  <2>3. /\ h[b + j] = 10 * h[b + (j - 1)] + (y[b + j] - 48) /\ y[b + j] - 48 \in 0..9
        /\ h[b + (j - 1)] \in Int
    BY <2>1, ReadsDigits
  <2>4. g[a + (j - 1)] > h[b + (j - 1)]
    BY <1>2
  <2>5. g[a + j] > h[b + j]
    <3>1. 10 * g[a + (j - 1)] + (x[a + j] - 48) > 10 * h[b + (j - 1)] + (y[b + j] - 48)
      BY <2>2, <2>3, <2>4, Leads
    <3> QED BY <2>2, <2>3, <3>1
  <2> QED BY <2>1, <2>5
<1>3. 0..m \subseteq S
  <2> HIDE DEF S, m
  <2> QED BY <1>0, <1>1, <1>2, InductionUpTo
<1> HIDE DEF m
<1>4. m \in 0..m
  BY <1>0
<1>5. g[a + m] > h[b + m]
  BY <1>3, <1>4
<1> QED BY <1>0, <1>5

\* A number does not get smaller as it is read, and is positive from its first
\* digit on when that is not a zero.
LEMMA LeadingDigit ==
  ASSUME NEW x, Digits(x), NEW g, Reads(g, x), x # <<>>, x[1] # 48
  PROVE  \A i \in 1..Len(x) : g[i] > 0
<1> DEFINE n == Len(x)
           S == {i \in 0..n : i > 0 => g[i] > 0}
<1>0. n \in Nat /\ n > 0
  <2>1. x \in Seq(Nat)
    BY DEF Digits
  <2> QED BY <2>1, LenProperties, EmptySeq
<1>1. 0 \in S
  BY <1>0
<1>2. ASSUME NEW i \in 1..n, i - 1 \in S PROVE i \in S
  <2>1. /\ g[i] = 10 * g[i - 1] + (x[i] - 48) /\ x[i] - 48 \in 0..9 /\ g[i - 1] \in Int
        /\ g[0] = 0
    BY ReadsDigits
  <2>2. CASE i = 1
    BY <1>0, <2>1, <2>2
  <2>3. CASE i > 1
    <3>1. g[i - 1] > 0
      BY <1>2, <2>3
    <3>2. g[i] > 0
      BY <2>1, <3>1
    <3> QED BY <3>2
  <2> QED BY <1>0, <2>2, <2>3
<1>3. 0..n \subseteq S
  <2> HIDE DEF S, n
  <2> QED BY <1>0, <1>1, <1>2, InductionUpTo
<1>4. ASSUME NEW i \in 1..n PROVE g[i] > 0
  <2>1. i \in 0..n /\ i > 0
    BY <1>0
  <2> QED BY <1>3, <2>1
<1> QED BY <1>4

\* Without leading zeros, more digits make a number larger, and of as many the
\* first that differs decides.
ComparesDigits(x, y) ==
  IF Len(x) # Len(y) THEN Order(Len(x), Len(y)) ELSE CompareStrings(x, y)

LEMMA MoreDigits ==
  ASSUME NEW x, Digits(x), NEW g, Reads(g, x), x # <<>>, x[1] # 48,
         NEW y, Digits(y), NEW h, Reads(h, y), Len(x) > Len(y)
  PROVE  g[Len(x)] > h[Len(y)]
<1>1. Len(x) \in Nat /\ Len(y) \in Nat /\ h[0] = 0
  BY ReadsDigits
<1>2. (Len(x) - Len(y)) \in 1..Len(x) /\ (Len(x) - Len(y)) \in 0..Len(x) /\ 0 \in 0..Len(y)
      /\ Len(x) - (Len(x) - Len(y)) = Len(y) - 0
  BY <1>1
<1>3. g[Len(x) - Len(y)] > h[0]
  BY <1>1, <1>2, LeadingDigit
<1> QED BY <1>2, <1>3, Lead

LEMMA SameDigits ==
  ASSUME NEW x, Digits(x), NEW g, Reads(g, x), NEW y, Digits(y), NEW h, Reads(h, y),
         NEW m \in 0..Len(x), m <= Len(y), \A j \in 1..m : x[j] = y[j]
  PROVE  g[m] = h[m]
<1> DEFINE S == {j \in 0..m : g[j] = h[j]}
<1>0. Len(x) \in Nat /\ Len(y) \in Nat /\ m \in Nat
  <2>1. Len(x) \in Nat /\ Len(y) \in Nat
    BY ReadsDigits
  <2> QED BY <2>1
<1>1. 0 \in S
  BY <1>0, ReadsDigits
<1>2. ASSUME NEW j \in 1..m, j - 1 \in S PROVE j \in S
  <2>1. j \in 1..Len(x) /\ j \in 1..Len(y) /\ j \in 0..m
    BY <1>0
  <2>2. g[j] = 10 * g[j - 1] + (x[j] - 48) /\ h[j] = 10 * h[j - 1] + (y[j] - 48)
    BY <2>1, ReadsDigits
  <2>3. g[j - 1] = h[j - 1] /\ x[j] = y[j]
    BY <1>2
  <2> QED BY <2>1, <2>2, <2>3
<1>3. 0..m \subseteq S
  <2> HIDE DEF S
  <2> QED BY <1>0, <1>1, <1>2, InductionUpTo
<1> QED BY <1>0, <1>3

LEMMA NumbersCompare ==
  ASSUME NEW x, Digits(x), NEW g, Reads(g, x), x # <<>> => x[1] # 48,
         NEW y, Digits(y), NEW h, Reads(h, y), y # <<>> => y[1] # 48
  PROVE  ComparesDigits(x, y) = Order(g[Len(x)], h[Len(y)])
<1>0. /\ x \in Seq(Nat) /\ y \in Seq(Nat) /\ Len(x) \in Nat /\ Len(y) \in Nat
      /\ g[Len(x)] \in Int /\ h[Len(y)] \in Int
  <2>1. x \in Seq(Nat) /\ y \in Seq(Nat)
    BY DEF Digits
  <2>2. Len(x) \in Nat /\ Len(y) \in Nat
    BY <2>1, LenProperties
  <2>3. Len(x) \in 0..Len(x) /\ Len(y) \in 0..Len(y)
    BY <2>2
  <2> QED BY <2>1, <2>2, <2>3, ReadsDigits
<1>1. CASE Len(x) > Len(y)
  <2>1. x # <<>>
    BY <1>0, <1>1, EmptySeq
  <2>2. g[Len(x)] > h[Len(y)]
    BY <1>1, <2>1, MoreDigits
  <2> QED BY <1>0, <1>1, <2>2 DEF ComparesDigits, Order
<1>2. CASE Len(y) > Len(x)
  <2>1. y # <<>>
    BY <1>0, <1>2, EmptySeq
  <2>2. h[Len(y)] > g[Len(x)]
    BY <1>2, <2>1, MoreDigits
  <2> QED BY <1>0, <1>2, <2>2 DEF ComparesDigits, Order
<1>3. CASE Len(x) = Len(y)
  <2>1. ComparesDigits(x, y) = CompareStrings(x, y)
    BY <1>3 DEF ComparesDigits
  <2>2. CASE /\ \A i \in 1..Len(x) : i \in 1..Len(y) => x[i] = y[i]
             /\ CompareStrings(x, y) = Order(Len(x), Len(y))
    <3>1. x = y
      BY <1>0, <1>3, <2>2, SeqEqual
    <3>2. g[Len(x)] = h[Len(x)]
      <4>1. Len(x) \in 0..Len(x) /\ Len(x) <= Len(y) /\ \A j \in 1..Len(x) : x[j] = y[j]
        BY <1>0, <1>3, <2>2
      <4> QED BY <4>1, SameDigits
    <3> QED BY <1>0, <1>3, <2>1, <2>2, <3>2 DEF Order
  <2>3. CASE \E i \in 1..Len(x) :
              /\ i \in 1..Len(y) /\ x[i] # y[i]
              /\ \A j \in 1..(i - 1) : x[j] = y[j]
              /\ CompareStrings(x, y) = Order(x[i], y[i])
    <3>1. PICK i \in 1..Len(x) :
              /\ i \in 1..Len(y) /\ x[i] # y[i]
              /\ \A j \in 1..(i - 1) : x[j] = y[j]
              /\ CompareStrings(x, y) = Order(x[i], y[i])
      BY <2>3
    <3>2. i - 1 \in 0..Len(x) /\ i - 1 <= Len(y) /\ i \in 0..Len(x) /\ i \in 0..Len(y)
          /\ Len(x) - i = Len(y) - i
      BY <1>0, <1>3
    <3>3. g[i - 1] = h[i - 1]
      BY <3>1, <3>2, SameDigits
    <3>4. /\ g[i] = 10 * g[i - 1] + (x[i] - 48) /\ h[i] = 10 * h[i - 1] + (y[i] - 48)
          /\ g[i - 1] \in Int /\ x[i] \in Nat /\ y[i] \in Nat
      <4>1. /\ g[i] = 10 * g[i - 1] + (x[i] - 48) /\ h[i] = 10 * h[i - 1] + (y[i] - 48)
        BY <3>1, ReadsDigits
      <4>2. g[i - 1] \in Int
        BY <3>2, ReadsDigits
      <4>3. x[i] \in Nat /\ y[i] \in Nat
        BY <1>0, <3>1, ElementOfSeq
      <4> QED BY <4>1, <4>2, <4>3
    <3>5. (x[i] > y[i] => g[i] > h[i]) /\ (y[i] > x[i] => h[i] > g[i])
      <4>1. \A G \in Int, c, d \in Nat : c > d => 10 * G + (c - 48) > 10 * G + (d - 48)
        OBVIOUS
      <4>2. x[i] > y[i] => 10 * g[i - 1] + (x[i] - 48) > 10 * g[i - 1] + (y[i] - 48)
        BY <3>4, <4>1
      <4>3. y[i] > x[i] => 10 * g[i - 1] + (y[i] - 48) > 10 * g[i - 1] + (x[i] - 48)
        BY <3>4, <4>1
      <4> QED BY <3>3, <3>4, <4>2, <4>3
    <3>6. CASE x[i] > y[i]
      <4>1. g[Len(x)] > h[Len(y)]
        BY <3>2, <3>5, <3>6, Lead
      <4>2. Order(x[i], y[i]) = "greater"
        BY <3>4, <3>6 DEF Order
      <4>3. Order(g[Len(x)], h[Len(y)]) = "greater"
        BY <1>0, <4>1 DEF Order
      <4> QED BY <2>1, <3>1, <4>2, <4>3
    <3>7. CASE y[i] > x[i]
      <4>1. h[Len(y)] > g[Len(x)]
        BY <3>2, <3>5, <3>7, Lead
      <4>2. Order(x[i], y[i]) = "less"
        BY <3>4, <3>7 DEF Order
      <4>3. Order(g[Len(x)], h[Len(y)]) = "less"
        BY <1>0, <4>1 DEF Order
      <4> QED BY <2>1, <3>1, <4>2, <4>3
    <3> QED BY <3>1, <3>4, <3>6, <3>7
  <2> QED BY <1>0, <2>2, <2>3, WordsCompare
<1> QED BY <1>0, <1>1, <1>2, <1>3

\* Leading zeros do not change a number.
LEMMA ZerosAreNothing ==
  ASSUME NEW u, Digits(u), NEW f, Reads(f, u), NEW m \in 0..Len(u),
         \A i \in 1..m : u[i] = 48
  PROVE  f[m] = 0
<1> DEFINE S == {i \in 0..m : f[i] = 0}
<1>0. Len(u) \in Nat /\ m \in Nat
  <2>1. Len(u) \in Nat
    BY ReadsDigits
  <2> QED BY <2>1
<1>1. 0 \in S
  BY <1>0, ReadsDigits
<1>2. ASSUME NEW i \in 1..m, i - 1 \in S PROVE i \in S
  <2>1. i \in 1..Len(u) /\ i \in 0..m
    BY <1>0
  <2>2. f[i] = 10 * f[i - 1] + (u[i] - 48) /\ f[i - 1] = 0 /\ u[i] = 48
    BY <1>2, <2>1, ReadsDigits
  <2> QED BY <2>1, <2>2
<1>3. 0..m \subseteq S
  <2> HIDE DEF S
  <2> QED BY <1>0, <1>1, <1>2, InductionUpTo
<1> QED BY <1>0, <1>3

LEMMA Trimmed ==
  ASSUME NEW u, Digits(u), NEW f, Reads(f, u)
  PROVE  /\ Digits(TrimZeros(u))
         /\ TrimZeros(u) # <<>> => TrimZeros(u)[1] # 48
         /\ \E g : Reads(g, TrimZeros(u)) /\ g[Len(TrimZeros(u))] = f[Len(u)]
<1> DEFINE kept == {i \in DOMAIN u : u[i] # 48}
           x == TrimZeros(u)
           n == Len(u)
<1>0. u \in Seq(Nat) /\ n \in Nat /\ DOMAIN u = 1..n /\ \A i \in 1..n : u[i] \in Nat
  BY LenProperties, ElementOfSeq DEF Digits
<1>1. CASE kept = {}
  <2>1. x = <<>>
    BY <1>1 DEF TrimZeros
  <2>2. f[n] = 0
    <3>1. n \in 0..n /\ \A i \in 1..n : u[i] = 48
      BY <1>0, <1>1
    <3> QED BY <3>1, ZerosAreNothing
  <2>3. Reads([i \in 0..0 |-> 0], <<>>) /\ Len(<<>>) = 0
    BY DEF Reads
  <2>4. Digits(<<>>)
    BY DEF Digits
  <2>5. \E g : Reads(g, <<>>) /\ g[Len(<<>>)] = f[n]
    <3> DEFINE g == [i \in 0..0 |-> 0]
    <3>1. g[0] = 0
      OBVIOUS
    <3> HIDE DEF g
    <3>2. Reads(g, <<>>)
      BY <2>3 DEF g
    <3> QED BY <2>2, <2>3, <3>1, <3>2
  <2> QED BY <2>1, <2>4, <2>5
<1>2. CASE kept # {}
  <2> DEFINE z == Min(kept)
             m == (n - z) + 1
  <2>1. x = SubSeq(u, z, n)
    BY <1>2 DEF TrimZeros
  <2>2. z \in kept /\ \A i \in kept : z <= i
    <3>1. kept \subseteq Nat
      BY <1>0
    <3> HIDE DEF kept
    <3> QED BY <1>2, <3>1, MinIsLeast
  <2> HIDE DEF z
  <2>3. z \in 1..n /\ u[z] # 48 /\ m \in Nat /\ m >= 1 /\ \A i \in 1..(z - 1) : u[i] = 48
    <3>1. z \in 1..n /\ u[z] # 48
      BY <1>0, <2>2
    <3>2. ASSUME NEW i \in 1..(z - 1) PROVE u[i] = 48
      <4>1. i \in DOMAIN u /\ ~(z <= i)
        BY <1>0, <3>1
      <4> QED BY <2>2, <4>1
    <3> QED BY <1>0, <3>1, <3>2
  <2>4. /\ x \in Seq(Nat) /\ Len(x) = m
        /\ \A i \in 1..m : x[i] = u[(z - 1) + i]
    <3>1. z \in Int /\ n \in Int /\ z <= n /\ \A i \in z..n : u[i] \in Nat
      BY <1>0, <2>3
    <3> HIDE DEF n
    <3>2. /\ SubSeq(u, z, n) \in Seq(Nat) /\ Len(SubSeq(u, z, n)) = m
          /\ \A i \in 1..m : SubSeq(u, z, n)[i] = u[z + i - 1]
      BY <3>1, SubSeqProperties
    <3>3. \A i \in 1..m : z + i - 1 = (z - 1) + i
      BY <2>3
    <3> QED BY <2>1, <3>2, <3>3
  <2> HIDE DEF x, m
  <2> DEFINE g == [i \in 0..m |-> f[(z - 1) + i]]
  <2>5. \A i \in 0..m : (z - 1) + i \in 0..n
    BY <1>0, <2>3 DEF m
  <2>6. \A i \in 1..m : (z - 1) + i \in 1..n /\ ((z - 1) + i) - 1 = (z - 1) + (i - 1) /\ i - 1 \in 0..m
    BY <1>0, <2>3 DEF m
  <2>7. g \in [0..m -> Int]
    BY <2>5, ReadsDigits
  <2>8. g[0] = 0 /\ g[m] = f[n]
    <3>1. z - 1 \in 0..n
      BY <1>0, <2>3
    <3>2. f[z - 1] = 0
      BY <2>3, <3>1, ZerosAreNothing
    <3>3. (z - 1) + 0 = z - 1 /\ (z - 1) + m = n /\ 0 \in 0..m /\ m \in 0..m
      BY <1>0, <2>3 DEF m
    <3>4. g[0] = f[(z - 1) + 0] /\ g[m] = f[(z - 1) + m]
      BY <3>3
    <3> QED BY <3>2, <3>3, <3>4
  <2>9. ASSUME NEW i \in 1..m
        PROVE  g[i] = 10 * g[i - 1] + (x[i] - 48) /\ x[i] - 48 \in 0..9
    <3>1. g[i] = f[(z - 1) + i] /\ g[i - 1] = f[(z - 1) + (i - 1)]
      BY <2>3, <2>6
    <3>2. f[(z - 1) + i] = 10 * f[((z - 1) + i) - 1] + (u[(z - 1) + i] - 48)
          /\ u[(z - 1) + i] - 48 \in 0..9
      BY <2>6, ReadsDigits
    <3> HIDE DEF g
    <3> QED BY <2>4, <2>6, <3>1, <3>2
  <2> HIDE DEF g
  <2>10. Reads(g, x)
    BY <2>4, <2>7, <2>8, <2>9 DEF Reads
  <2>11. Digits(x)
    BY <2>4, <2>9 DEF Digits
  <2>12. x[1] # 48
    <3>1. 1 \in 1..m /\ (z - 1) + 1 = z
      BY <2>3
    <3> QED BY <2>3, <2>4, <3>1
  <2> QED BY <2>4, <2>8, <2>10, <2>11, <2>12 DEF x
<1> QED BY <1>1, <1>2

\* Two parts of a kind compare as the segments that they are.
LEMMA PartsCompare ==
  ASSUME NEW k, NEW u, NEW p, IsPart(u, k, p), NEW v, NEW q, IsPart(v, k, q)
  PROVE  /\ compareVersionPart(u, v, k = 2) = CompareSegments(p, q)
         /\ compareVersionPart(u, v, k = 2) \in Verdicts
         /\ compareVersionPart(u, v, k = 2) = "equal" <=> p = q
<1>0. /\ p \in SegmentSet /\ q \in SegmentSet /\ p.kind = k /\ q.kind = k /\ k \in {1, 2}
      /\ u \in Seq(Nat) /\ v \in Seq(Nat) /\ IsSegment(p, k, u) /\ IsSegment(q, k, v)
      /\ \A i \in 1..Len(u) : Kind(u[i]) = k
      /\ \A i \in 1..Len(v) : Kind(v[i]) = k
  BY DEF IsPart, IsSegment
<1>0a. p = q <=> p.number = q.number /\ p.word = q.word
  <2>1. p = [kind |-> p.kind, number |-> p.number, word |-> p.word]
    BY <1>0 DEF SegmentSet
  <2>2. q = [kind |-> q.kind, number |-> q.number, word |-> q.word]
    BY <1>0 DEF SegmentSet
  <2> QED BY <1>0, <2>1, <2>2
<1>1. CASE k = 1
  <2>1. p.number = 0 /\ q.number = 0 /\ p.word = u /\ q.word = v
    BY <1>0, <1>1 DEF IsSegment
  <2>2. compareVersionPart(u, v, k = 2) = CompareStrings(u, v)
    BY <1>1 DEF compareVersionPart
  <2>3. CompareSegments(p, q) = CompareStrings(u, v)
    BY <1>0, <1>1, <2>1 DEF CompareSegments
  <2> QED BY <1>0, <1>0a, <2>1, <2>2, <2>3, WordsAreEqual
<1>2. CASE k = 2
  <2>1. PICK f : Reads(f, u) /\ p.number = f[Len(u)] /\ p.word = <<>>
    BY <1>0, <1>2 DEF IsSegment
  <2>2. PICK h : Reads(h, v) /\ q.number = h[Len(v)] /\ q.word = <<>>
    BY <1>0, <1>2 DEF IsSegment
  <2>3. Digits(u) /\ Digits(v)
    <3>1. ASSUME NEW w \in Seq(Nat), \A i \in 1..Len(w) : Kind(w[i]) = 2 PROVE Digits(w)
      <4>1. \A i \in 1..Len(w) : w[i] \in Nat
        BY ElementOfSeq
      <4>2. \A i \in 1..Len(w) : w[i] - 48 \in 0..9
        BY <3>1, <4>1, Kinds
      <4> QED BY <4>2 DEF Digits
    <3> QED BY <1>0, <1>2, <3>1
  <2> DEFINE x == TrimZeros(u)
             y == TrimZeros(v)
  <2>4. Digits(x) /\ (x # <<>> => x[1] # 48) /\ \E g : Reads(g, x) /\ g[Len(x)] = f[Len(u)]
    BY <2>1, <2>3, Trimmed
  <2>5. Digits(y) /\ (y # <<>> => y[1] # 48) /\ \E g : Reads(g, y) /\ g[Len(y)] = h[Len(v)]
    BY <2>2, <2>3, Trimmed
  <2>6. compareVersionPart(u, v, k = 2) = ComparesDigits(x, y)
    BY <1>2 DEF compareVersionPart, ComparesDigits
  <2> HIDE DEF x, y
  <2>7. PICK g : Reads(g, x) /\ g[Len(x)] = f[Len(u)]
    BY <2>4
  <2>8. PICK j : Reads(j, y) /\ j[Len(y)] = h[Len(v)]
    BY <2>5
  <2>9. ComparesDigits(x, y) = Order(g[Len(x)], j[Len(y)])
    BY <2>4, <2>5, <2>7, <2>8, NumbersCompare
  <2>10. CompareSegments(p, q) = Order(p.number, q.number)
    BY <1>0, <1>2 DEF CompareSegments
  <2>11. p.number \in Int /\ q.number \in Int
    BY <1>0 DEF SegmentSet
  <2>12. ComparesDigits(x, y) = CompareSegments(p, q)
    BY <2>1, <2>2, <2>7, <2>8, <2>9, <2>10
  <2> QED BY <1>0a, <2>1, <2>2, <2>6, <2>10, <2>11, <2>12, Orders
<1> QED BY <1>0, <1>1, <1>2

-----------------------------------------------------------------------------
(***************************************************************************)
(* The rounds of the comparison against the reference.                     *)
(***************************************************************************)
\* What nextVersionPart takes off a release: nothing, or its first segment.
TakesSegment(value, l, k, p) ==
  l.numeric = (k = 2) /\ IsPart(l.part, k, p) /\ IsRest(value, p, l.rest)

LEMMA Takes ==
  ASSUME NEW value \in Seq(Nat)
  PROVE  \/ Segments(value) = <<>> /\ nextVersionPart(value) = NoPart
         \/ \E k, p : TakesSegment(value, nextVersionPart(value), k, p)
<1>1. CASE HasNoPart(value) /\ nextVersionPart(value) = NoPart
  BY <1>1, NoSegments
<1>2. ASSUME NEW s, NEW e, HasPart(value, s, e),
             nextVersionPart(value)
               = [part |-> SubSeq(value, s, e - 1), numeric |-> Kind(value[s]) = 2,
                  rest |-> SubSeq(value, e, Len(value))]
      PROVE  \E k, p : TakesSegment(value, nextVersionPart(value), k, p)
  <2> DEFINE k == Kind(value[s])
             part == SubSeq(value, s, e - 1)
             rest == SubSeq(value, e, Len(value))
             l == nextVersionPart(value)
  <2>1. HasPart(value, s, e)
    BY <1>2
  <2>2. PICK p : IsPart(part, k, p) /\ IsRest(value, p, rest)
    BY <2>1, SegmentsSplit
  <2>3. l = [part |-> part, numeric |-> (k = 2), rest |-> rest]
    BY <1>2, Zenon
  <2> HIDE DEF k, part, rest, l
  <2>4. l.part = part /\ l.numeric = (k = 2) /\ l.rest = rest
    BY <2>3
  <2>5. TakesSegment(value, l, k, p)
    BY <2>2, <2>4 DEF TakesSegment
  <2> QED BY <2>5 DEF l
<1> QED BY <1>1, <1>2, NextPart

First(segments) == IF segments = <<>> THEN NoSegment(0) ELSE segments[1]

LEMMA FirstOf ==
  ASSUME NEW p \in SegmentSet, NEW segments \in Seq(SegmentSet)
  PROVE  First(<<p>> \o segments) = p
<1> DEFINE one == <<p>>
<1>1. one \in Seq(SegmentSet) /\ Len(one) = 1 /\ one[1] = p
  OBVIOUS
<1> HIDE DEF one, SegmentSet
<1>2. Len(one \o segments) = 1 + Len(segments) /\ Len(segments) \in Nat
      /\ (one \o segments)[1] = p
  <2>1. Len(segments) \in Nat
    BY LenProperties
  <2>2. /\ Len(one \o segments) = Len(one) + Len(segments)
        /\ \A i \in 1..(Len(one) + Len(segments)) :
             (one \o segments)[i] = IF i <= Len(one) THEN one[i] ELSE segments[i - Len(one)]
    BY <1>1, ConcatProperties
  <2>3. 1 \in 1..(Len(one) + Len(segments)) /\ 1 <= Len(one)
    BY <1>1, <2>1
  <2> QED BY <1>1, <2>1, <2>2, <2>3
<1>3. one \o segments # <<>>
  <2>1. Len(one \o segments) # 0
    BY <1>2
  <2> QED BY <2>1
<1> QED BY <1>2, <1>3 DEF First, one

\* What a round makes of two releases: both are over, or it decides by the
\* first segment, or it takes the same segment off both.
Outcome(a, b, new) ==
  \/ /\ Segments(a) = <<>> /\ Segments(b) = <<>>
     /\ new.left = <<>> /\ new.right = <<>> /\ new.verdict = "equal"
  \/ /\ First(Segments(a)) # First(Segments(b)) /\ new.verdict # "equal"
     /\ new.verdict = CompareSegments(First(Segments(a)), First(Segments(b)))
  \/ \E p \in SegmentSet :
       /\ Segments(a) = <<p>> \o Segments(new.left)
       /\ Segments(b) = <<p>> \o Segments(new.right)
       /\ Len(new.left) < Len(a) /\ new.verdict = "equal"

States == [left : Seq(Nat), right : Seq(Nat), verdict : Verdicts]

LEMMA RoundOutcome ==
  ASSUME NEW state \in States
  PROVE  /\ Round(state) \in States
         /\ Outcome(state.left, state.right, Round(state))
<1> DEFINE a == state.left
           b == state.right
           l == nextVersionPart(a)
           r == nextVersionPart(b)
           new == Round(state)
<1>0. a \in Seq(Nat) /\ b \in Seq(Nat)
  BY DEF States
<1>1. new = [left |-> l.rest, right |-> r.rest,
      verdict |-> IF l.part = <<>> \/ r.part = <<>>
                    THEN Order(Len(l.part), Len(r.part))
                  ELSE IF l.numeric # r.numeric
                    THEN IF l.numeric THEN "greater" ELSE "less"
                  ELSE compareVersionPart(l.part, r.part, l.numeric)]
  BY DEF Round
<1>2. \/ Segments(a) = <<>> /\ l = NoPart
      \/ \E k, p : TakesSegment(a, l, k, p)
  BY <1>0, Takes
<1>3. \/ Segments(b) = <<>> /\ r = NoPart
      \/ \E k, p : TakesSegment(b, r, k, p)
  BY <1>0, Takes
<1> HIDE DEF a, b, l, r, new
<1>4. NoPart.part = <<>> /\ NoPart.rest = <<>> /\ Len(NoPart.part) = 0 /\ <<>> \in Seq(Nat)
  BY DEF NoPart
<1>5. ASSUME NEW value, NEW t, NEW k, NEW p, TakesSegment(value, t, k, p)
      PROVE  /\ k \in {1, 2} /\ t.part \in Seq(Nat) /\ t.part # <<>> /\ t.numeric = (k = 2)
             /\ t.rest \in Seq(Nat) /\ Len(t.part) \in Nat /\ Len(t.part) > 0
             /\ p \in SegmentSet /\ p.kind = k /\ First(Segments(value)) = p
             /\ First(<<>>) = NoSegment(0) /\ NoSegment(0).kind = 0
  <2>1. /\ k \in {1, 2} /\ t.part \in Seq(Nat) /\ t.part # <<>> /\ t.numeric = (k = 2)
        /\ t.rest \in Seq(Nat) /\ p \in SegmentSet /\ p.kind = k
        /\ Segments(value) = <<p>> \o Segments(t.rest)
    BY <1>5 DEF TakesSegment, IsPart, IsRest, IsSegment
  <2>2. Len(t.part) \in Nat /\ Len(t.part) > 0
    BY <2>1, LenProperties, EmptySeq
  <2>3. First(Segments(value)) = p
    <3>1. Segments(t.rest) \in Seq(SegmentSet)
      BY <2>1, SegmentsAreSegments
    <3> HIDE DEF SegmentSet
    <3> QED BY <2>1, <3>1, FirstOf
  <2>4. First(<<>>) = NoSegment(0) /\ NoSegment(0).kind = 0
    BY DEF First, NoSegment
  <2> QED BY <2>1, <2>2, <2>3, <2>4
<1>6. CASE (Segments(a) = <<>> /\ l = NoPart) /\ (Segments(b) = <<>> /\ r = NoPart)
  <2>1. new.left = <<>> /\ new.right = <<>> /\ new.verdict = "equal" /\ new \in States
    <3>1. new = [left |-> <<>>, right |-> <<>>, verdict |-> Order(0, 0)]
      BY <1>1, <1>4, <1>6
    <3>2. Order(0, 0) = "equal" /\ "equal" \in Verdicts
      BY DEF Order, Verdicts
    <3> QED BY <1>4, <3>1, <3>2 DEF States
  <2>2. Outcome(a, b, new)
    BY <1>6, <2>1 DEF Outcome
  <2> QED BY <2>1, <2>2 DEF a, b, new
<1>7. ASSUME Segments(a) = <<>>, l = NoPart, NEW k, NEW p, TakesSegment(b, r, k, p)
      PROVE  new \in States /\ Outcome(a, b, new)
  <2>1. /\ k \in {1, 2} /\ r.rest \in Seq(Nat) /\ Len(r.part) \in Nat /\ Len(r.part) > 0
        /\ p.kind = k /\ First(Segments(b)) = p /\ First(Segments(a)) = NoSegment(0)
        /\ NoSegment(0).kind = 0
    BY <1>5, <1>7
  <2>2. new.verdict = Order(0, Len(r.part)) /\ new.left = <<>> /\ new.right = r.rest
        /\ new = [left |-> new.left, right |-> new.right, verdict |-> new.verdict]
    BY <1>1, <1>4, <1>7
  <2>3. new.verdict = "less" /\ CompareSegments(NoSegment(0), p) = "less" /\ p # NoSegment(0)
    <3>1. Order(0, Len(r.part)) = "less" /\ Order(0, k) = "less"
      BY <2>1 DEF Order
    <3>2. CompareSegments(NoSegment(0), p) = Order(0, k)
      BY <2>1 DEF CompareSegments
    <3> QED BY <2>1, <2>2, <3>1, <3>2
  <2>4. new \in States
    BY <1>4, <2>1, <2>2, <2>3 DEF States, Verdicts
  <2>5. Outcome(a, b, new)
    <3>1. First(Segments(a)) # First(Segments(b)) /\ new.verdict # "equal"
      BY <2>1, <2>3
    <3>2. new.verdict = CompareSegments(First(Segments(a)), First(Segments(b)))
      BY <2>1, <2>3
    <3> QED BY <3>1, <3>2 DEF Outcome
  <2> QED BY <2>4, <2>5
<1>8. ASSUME Segments(b) = <<>>, r = NoPart, NEW k, NEW p, TakesSegment(a, l, k, p)
      PROVE  new \in States /\ Outcome(a, b, new)
  <2>1. /\ k \in {1, 2} /\ l.rest \in Seq(Nat) /\ Len(l.part) \in Nat /\ Len(l.part) > 0
        /\ p.kind = k /\ First(Segments(a)) = p /\ First(Segments(b)) = NoSegment(0)
        /\ NoSegment(0).kind = 0
    BY <1>5, <1>8
  <2>2. new.verdict = Order(Len(l.part), 0) /\ new.left = l.rest /\ new.right = <<>>
        /\ new = [left |-> new.left, right |-> new.right, verdict |-> new.verdict]
    BY <1>1, <1>4, <1>8
  <2>3. new.verdict = "greater" /\ CompareSegments(p, NoSegment(0)) = "greater" /\ p # NoSegment(0)
    <3>1. Order(Len(l.part), 0) = "greater" /\ Order(k, 0) = "greater"
      BY <2>1 DEF Order
    <3>2. CompareSegments(p, NoSegment(0)) = Order(k, 0)
      BY <2>1 DEF CompareSegments
    <3> QED BY <2>1, <2>2, <3>1, <3>2
  <2>4. new \in States
    BY <1>4, <2>1, <2>2, <2>3 DEF States, Verdicts
  <2>5. Outcome(a, b, new)
    <3>1. First(Segments(a)) # First(Segments(b)) /\ new.verdict # "equal"
      BY <2>1, <2>3
    <3>2. new.verdict = CompareSegments(First(Segments(a)), First(Segments(b)))
      BY <2>1, <2>3
    <3> QED BY <3>1, <3>2 DEF Outcome
  <2> QED BY <2>4, <2>5
<1>9. ASSUME NEW k, NEW p, TakesSegment(a, l, k, p), NEW m, NEW q, TakesSegment(b, r, m, q)
      PROVE  new \in States /\ Outcome(a, b, new)
  <2>1. /\ k \in {1, 2} /\ l.part \in Seq(Nat) /\ l.part # <<>> /\ l.numeric = (k = 2)
        /\ l.rest \in Seq(Nat) /\ p \in SegmentSet /\ p.kind = k /\ First(Segments(a)) = p
    BY <1>5, <1>9
  <2>2. /\ m \in {1, 2} /\ r.part \in Seq(Nat) /\ r.part # <<>> /\ r.numeric = (m = 2)
        /\ r.rest \in Seq(Nat) /\ q \in SegmentSet /\ q.kind = m /\ First(Segments(b)) = q
    BY <1>5, <1>9
  <2>3. new.left = l.rest /\ new.right = r.rest
        /\ new = [left |-> new.left, right |-> new.right, verdict |-> new.verdict]
    BY <1>1
  <2>4. CASE k # m
    <3>1. new.verdict = CompareSegments(p, q) /\ new.verdict \in {"less", "greater"} /\ p # q
      <4>1. CompareSegments(p, q) = Order(k, m)
        BY <2>1, <2>2, <2>4 DEF CompareSegments
      <4>2. l.numeric # r.numeric
        BY <2>1, <2>2, <2>4
      <4>3. new.verdict = IF l.numeric THEN "greater" ELSE "less"
        BY <1>1, <2>1, <2>2, <4>2
      <4>4. CASE k = 2
        <5>1. l.numeric /\ m = 1
          BY <2>1, <2>2, <2>4, <4>4
        <5>2. Order(k, m) = "greater"
          BY <4>4, <5>1 DEF Order
        <5> QED BY <2>1, <2>2, <2>4, <4>1, <4>3, <5>1, <5>2
      <4>5. CASE k = 1
        <5>1. l.numeric = FALSE /\ m = 2
          BY <2>1, <2>2, <2>4, <4>5
        <5>2. Order(k, m) = "less"
          BY <4>5, <5>1 DEF Order
        <5>3. new.verdict = "less"
          BY <4>3, <5>1
        <5> QED BY <2>1, <2>2, <2>4, <4>1, <5>2, <5>3
      <4> QED BY <2>1, <4>4, <4>5
    <3>2. new \in States
      BY <2>1, <2>2, <2>3, <3>1 DEF States, Verdicts
    <3>3. Outcome(a, b, new)
      BY <2>1, <2>2, <3>1 DEF Outcome
    <3> QED BY <3>2, <3>3
  <2>5. CASE k = m
    <3>1. new.verdict = compareVersionPart(l.part, r.part, k = 2)
      <4>1. l.numeric = r.numeric
        BY <2>1, <2>2, <2>5
      <4> QED BY <1>1, <2>1, <2>2, <4>1
    <3>2. /\ IsPart(l.part, k, p) /\ IsPart(r.part, k, q)
          /\ Segments(a) = <<p>> \o Segments(l.rest) /\ Segments(b) = <<q>> \o Segments(r.rest)
          /\ Len(l.rest) < Len(a)
      BY <1>9, <2>5 DEF TakesSegment, IsRest
    <3>3. /\ new.verdict = CompareSegments(p, q) /\ new.verdict \in Verdicts
          /\ new.verdict = "equal" <=> p = q
      <4>2. /\ compareVersionPart(l.part, r.part, k = 2) = CompareSegments(p, q)
            /\ compareVersionPart(l.part, r.part, k = 2) \in Verdicts
            /\ compareVersionPart(l.part, r.part, k = 2) = "equal" <=> p = q
        BY <3>2, PartsCompare
      <4> QED BY <3>1, <4>2, Zenon
    <3>4. new \in States
      BY <2>1, <2>2, <2>3, <3>3 DEF States
    <3>5. CASE p = q
      <4>1. new.verdict = "equal" /\ p \in SegmentSet
        BY <2>1, <3>3, <3>5
      <4>2. Segments(a) = <<p>> \o Segments(new.left) /\ Segments(b) = <<p>> \o Segments(new.right)
            /\ Len(new.left) < Len(a)
        BY <2>3, <3>2, <3>5, Zenon
      <4> QED BY <3>4, <4>1, <4>2, Zenon DEF Outcome
    <3>6. CASE p # q
      <4>1. new.verdict # "equal" /\ First(Segments(a)) = p /\ First(Segments(b)) = q
        BY <2>1, <2>2, <3>3, <3>6, Zenon
      <4> QED BY <3>3, <3>4, <3>6, <4>1, Zenon DEF Outcome
    <3> QED BY <3>4, <3>5, <3>6
  <2> QED BY <2>4, <2>5
<1>10. new \in States /\ Outcome(a, b, new)
  BY <1>2, <1>3, <1>6, <1>7, <1>8, <1>9 DEF a, b, new
<1> QED BY <1>10 DEF a, b, new

\* Behind what is the same, the reference decides by the first segment that is
\* not.
At(z, n) == IF n \in DOMAIN z THEN z[n] ELSE NoSegment(0)

LEMMA ReferenceAt ==
  ASSUME NEW a, NEW b
  PROVE  LET x == Segments(a)
             y == Segments(b)
             differ == {n \in DOMAIN x \cup DOMAIN y : At(x, n) # At(y, n)}
         IN Reference(a, b) = IF differ = {} THEN "equal"
                              ELSE CompareSegments(At(x, Min(differ)), At(y, Min(differ)))
BY DEF Reference, At

LEMMA AtBehind ==
  ASSUME NEW front \in Seq(SegmentSet), NEW z \in Seq(SegmentSet)
  PROVE  /\ DOMAIN (front \o z) = 1..(Len(front) + Len(z))
         /\ \A n \in 1..Len(front) : At(front \o z, n) = front[n]
         /\ At(front \o z, Len(front) + 1) = First(z)
         /\ Len(front) \in Nat /\ Len(z) \in Nat
         /\ z # <<>> => Len(front) + 1 \in DOMAIN (front \o z)
<1> DEFINE w == front \o z
           f == Len(front)
           n == Len(z)
<1>1. f \in Nat /\ n \in Nat /\ DOMAIN z = 1..n /\ (z = <<>> <=> n = 0)
  <2>1. f \in Nat /\ n \in Nat /\ DOMAIN z = 1..n
    BY LenProperties
  <2>2. z = <<>> <=> n = 0
    BY EmptySeq
  <2> QED BY <2>1, <2>2
<1>2. /\ w \in Seq(SegmentSet) /\ Len(w) = f + n
      /\ \A i \in 1..(f + n) : w[i] = IF i <= f THEN front[i] ELSE z[i - f]
  BY ConcatProperties
<1>3. DOMAIN w = 1..(f + n)
  BY <1>2, LenProperties
<1> HIDE DEF w, f, n, SegmentSet
<1>4. ASSUME NEW i \in 1..f PROVE At(w, i) = front[i]
  <2>1. i \in 1..(f + n) /\ i <= f
    BY <1>1
  <2> QED BY <1>2, <1>3, <2>1 DEF At
<1>5. At(w, f + 1) = First(z)
  <2>1. CASE n = 0
    <3>1. f + 1 \notin DOMAIN w /\ z = <<>>
      BY <1>1, <1>3, <2>1
    <3> QED BY <3>1 DEF At, First
  <2>2. CASE n # 0
    <3>1. f + 1 \in 1..(f + n) /\ ~(f + 1 <= f) /\ (f + 1) - f = 1 /\ z # <<>>
      BY <1>1, <2>2
    <3> QED BY <1>2, <1>3, <3>1 DEF At, First
  <2> QED BY <2>1, <2>2
<1>6. z # <<>> => f + 1 \in DOMAIN w
  BY <1>1, <1>3
<1> QED BY <1>1, <1>3, <1>4, <1>5, <1>6 DEF w, f, n

Divides(a, b, front, x, y) ==
  /\ front \in Seq(SegmentSet) /\ x \in Seq(SegmentSet) /\ y \in Seq(SegmentSet)
  /\ Segments(a) = front \o x /\ Segments(b) = front \o y /\ First(x) # First(y)

LEMMA ReferenceDecides ==
  ASSUME NEW a, NEW b, NEW front, NEW x, NEW y, Divides(a, b, front, x, y)
  PROVE  Reference(a, b) = CompareSegments(First(x), First(y))
<1> DEFINE X == front \o x
           Y == front \o y
           f == Len(front)
           differ == {n \in DOMAIN X \cup DOMAIN Y : At(X, n) # At(Y, n)}
<1>. /\ front \in Seq(SegmentSet) /\ x \in Seq(SegmentSet) /\ y \in Seq(SegmentSet)
     /\ Segments(a) = front \o x /\ Segments(b) = front \o y /\ First(x) # First(y)
  BY DEF Divides
<1>0. /\ DOMAIN X = 1..(f + Len(x)) /\ f \in Nat /\ Len(x) \in Nat
      /\ \A n \in 1..f : At(X, n) = front[n]
      /\ At(X, f + 1) = First(x) /\ (x # <<>> => f + 1 \in DOMAIN X)
  <2> HIDE DEF SegmentSet
  <2> QED BY AtBehind
<1>1. /\ DOMAIN Y = 1..(f + Len(y)) /\ Len(y) \in Nat
      /\ \A n \in 1..f : At(Y, n) = front[n]
      /\ At(Y, f + 1) = First(y) /\ (y # <<>> => f + 1 \in DOMAIN Y)
  <2> HIDE DEF SegmentSet
  <2> QED BY AtBehind
<1>2. Reference(a, b) = IF differ = {} THEN "equal"
                        ELSE CompareSegments(At(X, Min(differ)), At(Y, Min(differ)))
  BY ReferenceAt
<1> HIDE DEF X, Y, f
<1>3. x # <<>> \/ y # <<>>
  OBVIOUS
<1>4. f + 1 \in differ
  BY <1>0, <1>1, <1>3
<1>5. \A n \in differ : n \in Nat /\ f + 1 <= n
  <2> TAKE n \in differ
  <2>1. n \in Nat /\ n >= 1 /\ n \notin 1..f
    <3>1. n \in DOMAIN X \cup DOMAIN Y /\ At(X, n) # At(Y, n)
      OBVIOUS
    <3>2. n \in Nat /\ n >= 1
      BY <1>0, <1>1, <3>1
    <3>3. n \notin 1..f
      BY <1>0, <1>1, <3>1
    <3> QED BY <3>2, <3>3
  <2> QED BY <1>0, <2>1
<1> HIDE DEF differ
<1>6. Min(differ) = f + 1
  <2>1. Min(differ) \in differ /\ \A n \in differ : Min(differ) <= n
    BY <1>4, <1>5, MinIsLeast
  <2> QED BY <1>0, <1>4, <1>5, <2>1
<1> QED BY <1>0, <1>1, <1>2, <1>4, <1>6

\* What n rounds have found out about two releases.
After(a, b, n, state) ==
  /\ state \in States
  /\ state.verdict # "equal" => state.verdict = Reference(a, b)
  /\ state.verdict = "equal" =>
       \E front \in Seq(SegmentSet) :
         /\ Segments(a) = front \o Segments(state.left)
         /\ Segments(b) = front \o Segments(state.right)
         /\ \/ Len(state.left) + n <= Len(a)
            \/ state.left = <<>> /\ state.right = <<>>

LEMMA NothingBehind ==
  /\ Segments(<<>>) = <<>>
  /\ \A front \in Seq(SegmentSet) : front \o <<>> = front
<1>1. Segments(<<>>) = <<>>
  <2>1. <<>> \in Seq(Nat) /\ HasNoPart(<<>>)
    BY DEF HasNoPart
  <2> QED BY <2>1, NoSegments
<1>2. ASSUME NEW front \in Seq(SegmentSet) PROVE front \o <<>> = front
  BY ConcatEmptySeq
<1> QED BY <1>1, <1>2

LEMMA AfterRound ==
  ASSUME NEW a \in Seq(Nat), NEW b \in Seq(Nat), NEW n \in Nat, NEW state,
         After(a, b, n, state), state.verdict = "equal"
  PROVE  After(a, b, n + 1, Round(state))
<1> DEFINE l == state.left
           r == state.right
           new == Round(state)
<1>1. PICK front \in Seq(SegmentSet) :
         /\ Segments(a) = front \o Segments(l)
         /\ Segments(b) = front \o Segments(r)
         /\ \/ Len(l) + n <= Len(a)
            \/ l = <<>> /\ r = <<>>
  BY DEF After
<1>2. state \in States /\ l \in Seq(Nat) /\ r \in Seq(Nat)
  BY DEF After, States
<1>3. new \in States /\ Outcome(l, r, new)
  BY <1>2, RoundOutcome
<1> HIDE DEF l, r, new
<1>3a. new.left \in Seq(Nat) /\ new.right \in Seq(Nat)
  BY <1>3 DEF States
<1>3b. /\ Segments(l) \in Seq(SegmentSet) /\ Segments(r) \in Seq(SegmentSet)
       /\ Segments(new.left) \in Seq(SegmentSet) /\ Segments(new.right) \in Seq(SegmentSet)
  BY <1>2, <1>3a, SegmentsAreSegments
<1>4. CASE /\ Segments(l) = <<>> /\ Segments(r) = <<>>
           /\ new.left = <<>> /\ new.right = <<>> /\ new.verdict = "equal"
  <2>1. Segments(a) = front \o Segments(new.left) /\ Segments(b) = front \o Segments(new.right)
    BY <1>1, <1>4, NothingBehind
  <2> QED BY <1>3, <1>4, <2>1 DEF After, new
<1>5. CASE /\ First(Segments(l)) # First(Segments(r)) /\ new.verdict # "equal"
           /\ new.verdict = CompareSegments(First(Segments(l)), First(Segments(r)))
  <2>1. new.verdict = Reference(a, b)
    <3>1. Divides(a, b, front, Segments(l), Segments(r))
      BY <1>1, <1>3b, <1>5 DEF Divides
    <3> QED BY <1>5, <3>1, ReferenceDecides
  <2> QED BY <1>3, <1>5, <2>1 DEF After, new
<1>6. ASSUME NEW p \in SegmentSet,
             Segments(l) = <<p>> \o Segments(new.left),
             Segments(r) = <<p>> \o Segments(new.right),
             Len(new.left) < Len(l), new.verdict = "equal"
      PROVE  After(a, b, n + 1, new)
  <2> DEFINE one == <<p>>
             more == front \o one
  <2>1. one \in Seq(SegmentSet)
    OBVIOUS
  <2>2. Segments(l) = one \o Segments(new.left) /\ Segments(r) = one \o Segments(new.right)
    BY <1>6
  <2> HIDE DEF one, SegmentSet
  <2>3. more \in Seq(SegmentSet)
    BY <2>1, ConcatProperties
  <2>4. /\ Segments(a) = more \o Segments(new.left)
        /\ Segments(b) = more \o Segments(new.right)
    <3>1. \A u \in Seq(SegmentSet) : (front \o one) \o u = front \o (one \o u)
      BY <2>1, Associates
    <3>2. more \o Segments(new.left) = front \o (one \o Segments(new.left))
      BY <1>3b, <3>1
    <3>3. more \o Segments(new.right) = front \o (one \o Segments(new.right))
      BY <1>3b, <3>1
    <3> QED BY <1>1, <2>2, <3>2, <3>3
  <2>5. Len(new.left) + (n + 1) <= Len(a)
    <3>1. Len(l) \in Nat /\ Len(new.left) \in Nat /\ Len(a) \in Nat
      BY <1>2, <1>3a, LenProperties
    <3>2. l # <<>>
      BY <1>6, <3>1, EmptySeq
    <3>3. Len(l) + n <= Len(a)
      BY <1>1, <3>2
    <3>4. \A i, j, k \in Nat : i < j /\ j + n <= k => i + (n + 1) <= k
      OBVIOUS
    <3> QED BY <1>6, <3>1, <3>3, <3>4
  <2> HIDE DEF more
  <2> QED BY <1>3, <1>6, <2>3, <2>4, <2>5 DEF After
<1> QED BY <1>3, <1>4, <1>5, <1>6 DEF Outcome, new

\* The recursion of compareKernelRelease.
Rounds(left, right) ==
  CHOOSE round : round = [n \in 0 .. Len(left) + 1 |->
        IF n = 0 THEN [left |-> left, right |-> right, verdict |-> "equal"]
        ELSE IF round[n - 1].verdict = "equal" THEN Round(round[n - 1]) ELSE round[n - 1]]

LEMMA ComparisonIsRounds ==
  ASSUME NEW left, NEW right
  PROVE  compareKernelRelease(left, right) = Rounds(left, right)[Len(left) + 1].verdict
BY DEF compareKernelRelease, Rounds

Goes(state) == IF state.verdict = "equal" THEN Round(state) ELSE state

LEMMA RoundsStep ==
  ASSUME NEW a \in Seq(Nat), NEW b \in Seq(Nat)
  PROVE  /\ Rounds(a, b)[0] = [left |-> a, right |-> b, verdict |-> "equal"]
         /\ \A n \in 1..(Len(a) + 1) : Rounds(a, b)[n] = Goes(Rounds(a, b)[n - 1])
<1> DEFINE m == Len(a) + 1
           start == [left |-> a, right |-> b, verdict |-> "equal"]
           step == [n \in 1..m |-> [state \in States |-> Goes(state)]]
           Solves(f) == f = [n \in 0..m |-> IF n = 0 THEN start
                               ELSE IF f[n - 1].verdict = "equal" THEN Round(f[n - 1]) ELSE f[n - 1]]
<1>1. m \in Nat /\ start \in States
  <2>1. Len(a) \in Nat
    BY LenProperties
  <2> QED BY <2>1 DEF States, Verdicts
<1>2. \A state \in States : Goes(state) \in States
  BY RoundOutcome DEF Goes
<1> HIDE DEF start, m
<1>3. IsRecursion(m, States, start, step)
  <2>1. \A state \in States : [t \in States |-> Goes(t)][state] \in States
    BY <1>2
  <2>2. [t \in States |-> Goes(t)] \in [States -> States]
    BY <1>2
  <2>3. step \in [1..m -> [States -> States]]
    BY <2>2
  <2> QED BY <1>1, <2>3 DEF IsRecursion
<1>4. PICK f : Follows(f, m, States, start, step)
  <2> HIDE DEF step
  <2> QED BY <1>3, Recursion
<1>5. f \in [0..m -> States] /\ f[0] = start /\ \A n \in 1..m : f[n] = step[n][f[n - 1]]
  <2> HIDE DEF step
  <2> QED BY <1>4 DEF Follows
<1>6. \A n \in 1..m, state \in States : step[n][state] = Goes(state)
  OBVIOUS
<1> HIDE DEF step
<1>7. \A n \in 1..m : f[n] = Goes(f[n - 1])
  <2>1. \A n \in 1..m : n - 1 \in 0..m
    BY <1>1
  <2> QED BY <1>5, <1>6, <2>1
<1>8. Solves(f)
  <2>1. \A n \in 0..m : n = 0 \/ n \in 1..m
    BY <1>1
  <2>2. \A n \in 1..m : n # 0
    BY <1>1
  <2>3. f = [n \in 0..m |-> f[n]]
    BY <1>5
  <2>4. \A n \in 0..m : f[n] = IF n = 0 THEN start
                               ELSE IF f[n - 1].verdict = "equal" THEN Round(f[n - 1]) ELSE f[n - 1]
    BY <1>5, <1>7, <2>1 DEF Goes
  <2> QED BY <2>3, <2>4
<1>9. Rounds(a, b) = CHOOSE g : Solves(g)
  BY DEF Rounds, m, start
<1>10. Solves(Rounds(a, b))
  <2> HIDE DEF Solves
  <2> QED BY <1>8, <1>9
<1> DEFINE F == Rounds(a, b)
<1>11. F = [n \in 0..m |-> IF n = 0 THEN start
                 ELSE IF F[n - 1].verdict = "equal" THEN Round(F[n - 1]) ELSE F[n - 1]]
  BY <1>10
<1> HIDE DEF F
<1>12. F[0] = start
  <2>1. 0 \in 0..m
    BY <1>1
  <2> QED BY <1>11, <2>1
<1>13. ASSUME NEW n \in 1..m PROVE F[n] = Goes(F[n - 1])
  <2>1. n \in 0..m /\ n # 0
    BY <1>1
  <2> QED BY <1>11, <2>1 DEF Goes
<1> QED BY <1>12, <1>13 DEF F, m, start

\* The verdict is what the last round has found out.
LEMMA LastRound ==
  ASSUME NEW a \in Seq(Nat), NEW b \in Seq(Nat)
  PROVE  \E state : /\ After(a, b, Len(a) + 1, state)
                   /\ compareKernelRelease(a, b) = state.verdict
<1> DEFINE m == Len(a) + 1
           F == Rounds(a, b)
           S == {n \in 0..m : After(a, b, n, F[n])}
<1>0. Len(a) \in Nat /\ m \in Nat
  <2>1. Len(a) \in Nat
    BY LenProperties
  <2> QED BY <2>1
<1>1. /\ F[0] = [left |-> a, right |-> b, verdict |-> "equal"]
      /\ \A n \in 1..m : F[n] = Goes(F[n - 1])
  BY RoundsStep
<1> HIDE DEF F
<1>2. 0 \in S
  <2> DEFINE none == <<>>
  <2>1. F[0] \in States /\ F[0].left = a /\ F[0].right = b /\ F[0].verdict = "equal"
    BY <1>1 DEF States, Verdicts
  <2>2. none \in Seq(SegmentSet)
    OBVIOUS
  <2>3. Segments(a) = none \o Segments(a) /\ Segments(b) = none \o Segments(b)
    <3>1. Segments(a) \in Seq(SegmentSet) /\ Segments(b) \in Seq(SegmentSet)
      BY SegmentsAreSegments
    <3> HIDE DEF SegmentSet
    <3> QED BY <3>1, ConcatEmptySeq
  <2>4. Len(a) + 0 <= Len(a) /\ 0 \in 0..m
    BY <1>0
  <2> HIDE DEF none
  <2>5. After(a, b, 0, F[0])
    BY <2>1, <2>2, <2>3, <2>4 DEF After
  <2> QED BY <2>4, <2>5
<1>3. ASSUME NEW n \in 1..m, n - 1 \in S PROVE n \in S
  <2>1. n - 1 \in Nat /\ (n - 1) + 1 = n /\ n \in 0..m
    BY <1>0
  <2>2. After(a, b, n - 1, F[n - 1]) /\ F[n] = Goes(F[n - 1])
    BY <1>1, <1>3
  <2>3. CASE F[n - 1].verdict = "equal"
    <3>1. After(a, b, (n - 1) + 1, Round(F[n - 1]))
      BY <2>1, <2>2, <2>3, AfterRound
    <3> QED BY <2>1, <2>2, <2>3, <3>1 DEF Goes
  <2>4. CASE F[n - 1].verdict # "equal"
    <3>1. F[n] = F[n - 1]
      BY <2>2, <2>4 DEF Goes
    <3>2. After(a, b, n, F[n])
      BY <2>2, <2>4, <3>1 DEF After
    <3> QED BY <2>1, <3>2
  <2> QED BY <2>3, <2>4
<1>4. After(a, b, m, F[m])
  <2>1. 0..m \subseteq S
    <3> HIDE DEF S, m
    <3> QED BY <1>0, <1>2, <1>3, InductionUpTo
  <2>2. m \in 0..m
    BY <1>0
  <2> QED BY <2>1, <2>2
<1>5. compareKernelRelease(a, b) = F[m].verdict
  BY ComparisonIsRounds DEF F
<1> HIDE DEF F
<1> QED BY <1>4, <1>5

\* No difference is found exactly when the segments are the same, whatever the
\* separators and leading zeros are.
LEMMA NoRoundDecides ==
  ASSUME NEW a \in Seq(Nat), NEW b \in Seq(Nat), compareKernelRelease(a, b) = "equal"
  PROVE  Segments(a) = Segments(b)
<1>1. PICK state : /\ After(a, b, Len(a) + 1, state)
                   /\ compareKernelRelease(a, b) = state.verdict
  BY LastRound
<1>2. PICK front \in Seq(SegmentSet) :
         /\ Segments(a) = front \o Segments(state.left)
         /\ Segments(b) = front \o Segments(state.right)
         /\ \/ Len(state.left) + (Len(a) + 1) <= Len(a)
            \/ state.left = <<>> /\ state.right = <<>>
  BY <1>1 DEF After
<1>3. ~(Len(state.left) + (Len(a) + 1) <= Len(a))
  <2>1. state.left \in Seq(Nat)
    BY <1>1 DEF After, States
  <2>2. Len(state.left) \in Nat /\ Len(a) \in Nat
    BY <2>1, LenProperties
  <2>3. \A i, j \in Nat : ~(i + (j + 1) <= j)
    OBVIOUS
  <2> QED BY <2>2, <2>3
<1> QED BY <1>2, <1>3

\* The comparison of releases is the reference: the releases are compared
\* segment by segment, however many there are and however long.
THEOREM ComparisonIsReference ==
  \A a, b \in Seq(Nat) : compareKernelRelease(a, b) = Reference(a, b)
<1> SUFFICES ASSUME NEW a \in Seq(Nat), NEW b \in Seq(Nat)
             PROVE  compareKernelRelease(a, b) = Reference(a, b)
  OBVIOUS
<1>1. PICK state : /\ After(a, b, Len(a) + 1, state)
                   /\ compareKernelRelease(a, b) = state.verdict
  BY LastRound
<1>2. CASE state.verdict = "equal"
  <2>1. Segments(a) = Segments(b)
    BY <1>1, <1>2, NoRoundDecides
  <2>2. Reference(a, b) = "equal"
    BY <2>1 DEF Reference
  <2> QED BY <1>1, <1>2, <2>2
<1>3. CASE state.verdict # "equal"
  BY <1>1, <1>3 DEF After
<1> QED BY <1>2, <1>3

LEMMA SegmentsSwap ==
  ASSUME NEW p \in SegmentSet, NEW q \in SegmentSet
  PROVE  CompareSegments(p, q) = "less" <=> CompareSegments(q, p) = "greater"
<1>0. /\ p.kind \in Int /\ q.kind \in Int /\ p.number \in Int /\ q.number \in Int
      /\ p.word \in Seq(Nat) /\ q.word \in Seq(Nat)
  BY DEF SegmentSet
<1>1. \A i, j \in Int : Order(i, j) = "less" <=> Order(j, i) = "greater"
  BY DEF Order
<1>2. CompareStrings(p.word, q.word) = "less" <=> CompareStrings(q.word, p.word) = "greater"
  <2> DEFINE u == p.word
             v == q.word
             differ == {i \in DOMAIN u \cap DOMAIN v : u[i] # v[i]}
  <2>0. DOMAIN u = 1..Len(u) /\ DOMAIN v = 1..Len(v) /\ Len(u) \in Int /\ Len(v) \in Int
    BY <1>0, LenProperties
  <2>1. differ = {i \in DOMAIN v \cap DOMAIN u : v[i] # u[i]}
    OBVIOUS
  <2>2. CompareStrings(u, v) = IF differ = {} THEN Order(Len(u), Len(v))
                               ELSE Order(u[Min(differ)], v[Min(differ)])
    BY DEF CompareStrings
  <2>3. CompareStrings(v, u) = IF differ = {} THEN Order(Len(v), Len(u))
                               ELSE Order(v[Min(differ)], u[Min(differ)])
    BY <2>1 DEF CompareStrings
  <2>4. differ # {} => Min(differ) \in differ
    <3>1. differ \subseteq Nat
      BY <2>0
    <3> HIDE DEF differ
    <3> QED BY <3>1, MinIsLeast
  <2>5. \A i \in differ : u[i] \in Int /\ v[i] \in Int
    <3> TAKE i \in differ
    <3>1. i \in 1..Len(u) /\ i \in 1..Len(v)
      BY <2>0
    <3>2. u[i] \in Nat /\ v[i] \in Nat
      BY <1>0, <3>1, ElementOfSeq
    <3> QED BY <3>2
  <2> HIDE DEF differ, u, v
  <2>6. CompareStrings(u, v) = "less" <=> CompareStrings(v, u) = "greater"
    BY <1>1, <2>0, <2>2, <2>3, <2>4, <2>5
  <2> QED BY <2>6 DEF u, v
<1> QED BY <1>0, <1>1, <1>2 DEF CompareSegments

LEMMA ReferenceSwap ==
  ASSUME NEW a \in Seq(Nat), NEW b \in Seq(Nat)
  PROVE  Reference(a, b) = "less" <=> Reference(b, a) = "greater"
<1> DEFINE x == Segments(a)
           y == Segments(b)
           differ == {n \in DOMAIN x \cup DOMAIN y : At(x, n) # At(y, n)}
           m == Min(differ)
<1>1. differ = {n \in DOMAIN y \cup DOMAIN x : At(y, n) # At(x, n)}
  OBVIOUS
<1>2. Reference(a, b) = IF differ = {} THEN "equal" ELSE CompareSegments(At(x, m), At(y, m))
  BY ReferenceAt
<1>3. Reference(b, a) = IF differ = {} THEN "equal" ELSE CompareSegments(At(y, m), At(x, m))
  BY <1>1, ReferenceAt
<1>4. At(x, m) \in SegmentSet /\ At(y, m) \in SegmentSet
  <2>1. x \in Seq(SegmentSet) /\ y \in Seq(SegmentSet)
    BY SegmentsAreSegments
  <2>2. NoSegment(0) \in SegmentSet
    BY BeginsSegment
  <2> HIDE DEF x, y, m, SegmentSet
  <2>3. \A i \in DOMAIN x : x[i] \in SegmentSet
    BY <2>1, ElementOfSeq, LenProperties
  <2>4. \A i \in DOMAIN y : y[i] \in SegmentSet
    BY <2>1, ElementOfSeq, LenProperties
  <2> QED BY <2>2, <2>3, <2>4 DEF At
<1> HIDE DEF differ, x, y, m
<1> QED BY <1>2, <1>3, <1>4, SegmentsSwap

\* Who is ahead at the first character that differs, a missing one included, is
\* the later word.
Letter(w, i) == IF i \in 1..Len(w) THEN w[i] ELSE -1

Ahead(a, b, i) == /\ i \in Nat \ {0} /\ Letter(a, i) > Letter(b, i)
                  /\ \A j \in 1..(i - 1) : Letter(a, j) = Letter(b, j)

LEMMA LettersAreNumbers ==
  ASSUME NEW w \in Seq(Nat)
  PROVE  /\ Len(w) \in Nat
         /\ \A i : /\ i \in 1..Len(w) => w[i] \in Nat /\ Letter(w, i) = w[i]
                   /\ i \notin 1..Len(w) => Letter(w, i) = -1
                   /\ Letter(w, i) \in Int
<1>1. Len(w) \in Nat
  BY LenProperties
<1>2. \A i \in 1..Len(w) : w[i] \in Nat
  BY ElementOfSeq
<1> QED BY <1>1, <1>2 DEF Letter

LEMMA GreaterIsAhead ==
  ASSUME NEW a \in Seq(Nat), NEW b \in Seq(Nat)
  PROVE  CompareStrings(a, b) = "greater" <=> \E i : Ahead(a, b, i)
<1> DEFINE L(i) == Letter(a, i)
           R(i) == Letter(b, i)
<1>0. /\ Len(a) \in Nat /\ Len(b) \in Nat
      /\ \A i \in 1..Len(a) : a[i] \in Nat /\ L(i) = a[i]
      /\ \A i \in 1..Len(b) : b[i] \in Nat /\ R(i) = b[i]
      /\ \A i : i \notin 1..Len(a) => L(i) = -1
      /\ \A i : i \notin 1..Len(b) => R(i) = -1
  BY LettersAreNumbers
<1>0a. \A i : Ahead(a, b, i) <=> /\ i \in Nat \ {0} /\ L(i) > R(i)
                                 /\ \A j \in 1..(i - 1) : L(j) = R(j)
  BY DEF Ahead
<1> HIDE DEF L, R
<1>1. CASE /\ \A i \in 1..Len(a) : i \in 1..Len(b) => a[i] = b[i]
           /\ CompareStrings(a, b) = Order(Len(a), Len(b))
  <2>1. ASSUME Len(a) > Len(b) PROVE Ahead(a, b, Len(b) + 1)
    <3> DEFINE i == Len(b) + 1
    <3>1. i \in 1..Len(a) /\ i \notin 1..Len(b) /\ i \in Nat \ {0} /\ i - 1 = Len(b)
      BY <1>0, <2>1
    <3>2. L(i) > R(i)
      BY <1>0, <3>1
    <3>3. \A j \in 1..(i - 1) : L(j) = R(j)
      <4> TAKE j \in 1..(i - 1)
      <4>1. j \in 1..Len(b) /\ j \in 1..Len(a)
        BY <1>0, <2>1
      <4> QED BY <1>0, <1>1, <4>1
    <3> HIDE DEF i
    <3>4. Ahead(a, b, i)
      BY <1>0a, <3>1, <3>2, <3>3
    <3> QED BY <3>4 DEF i
  <2>2. ASSUME NEW i, Ahead(a, b, i) PROVE Len(a) > Len(b)
    <3>1. i \in Nat \ {0} /\ L(i) > R(i)
      BY <1>0a, <2>2
    <3>2. i \in 1..Len(a)
      <4>1. CASE i \notin 1..Len(a)
        <5>1. L(i) = -1 /\ (R(i) = -1 \/ R(i) \in Nat)
          BY <1>0, <4>1
        <5> QED BY <3>1, <5>1
      <4> QED BY <4>1
    <3>3. i \notin 1..Len(b)
      <4>1. CASE i \in 1..Len(b)
        <5>1. L(i) = R(i) /\ L(i) \in Nat
          BY <1>0, <1>1, <3>2, <4>1
        <5> QED BY <3>1, <5>1
      <4> QED BY <4>1
    <3> QED BY <1>0, <3>2, <3>3
  <2>3. CompareStrings(a, b) = "greater" <=> Len(a) > Len(b)
    BY <1>0, <1>1 DEF Order
  <2> QED BY <2>1, <2>2, <2>3
<1>2. ASSUME NEW i \in 1..Len(a), i \in 1..Len(b), a[i] # b[i],
             \A j \in 1..(i - 1) : a[j] = b[j],
             CompareStrings(a, b) = Order(a[i], b[i])
      PROVE  CompareStrings(a, b) = "greater" <=> \E k : Ahead(a, b, k)
  <2>0. i \in Nat \ {0} /\ L(i) = a[i] /\ R(i) = b[i] /\ a[i] \in Nat /\ b[i] \in Nat
    BY <1>0, <1>2
  <2>1. \A j \in 1..(i - 1) : L(j) = R(j)
    <3> TAKE j \in 1..(i - 1)
    <3>1. j \in 1..Len(b) /\ j \in 1..Len(a)
      BY <1>0, <1>2
    <3> QED BY <1>0, <1>2, <3>1
  <2>2. a[i] > b[i] => Ahead(a, b, i)
    BY <1>0a, <2>0, <2>1
  <2>3. ASSUME NEW k, Ahead(a, b, k) PROVE a[i] > b[i]
    <3>1. k \in Nat \ {0} /\ L(k) > R(k) /\ \A j \in 1..(k - 1) : L(j) = R(j)
      BY <1>0a, <2>3
    <3>2. ~(i < k)
      <4>1. CASE i < k
        <5>1. i \in 1..(k - 1)
          BY <2>0, <3>1, <4>1
        <5> QED BY <1>2, <2>0, <3>1, <5>1
      <4> QED BY <4>1
    <3>3. ~(k < i)
      <4>1. CASE k < i
        <5>1. k \in 1..(i - 1) /\ k \in 1..Len(a)
          BY <1>0, <2>0, <3>1, <4>1
        <5>2. L(k) = R(k) /\ L(k) \in Nat
          BY <1>0, <2>1, <5>1
        <5> QED BY <3>1, <5>2
      <4> QED BY <4>1
    <3>4. k = i
      BY <2>0, <3>1, <3>2, <3>3
    <3> QED BY <2>0, <3>1, <3>4
  <2>4. CompareStrings(a, b) = "greater" <=> a[i] > b[i]
    BY <1>2, <2>0 DEF Order
  <2> QED BY <2>2, <2>3, <2>4
<1> QED BY <1>1, <1>2, WordsCompare

LEMMA WordsFollow ==
  ASSUME NEW a \in Seq(Nat), NEW b \in Seq(Nat), NEW c \in Seq(Nat),
         CompareStrings(a, b) = "greater", CompareStrings(b, c) = "greater"
  PROVE  CompareStrings(a, c) = "greater"
<1>1. PICK i : Ahead(a, b, i)
  BY GreaterIsAhead
<1>2. PICK k : Ahead(b, c, k)
  BY GreaterIsAhead
<1>3. \A j : Letter(a, j) \in Int /\ Letter(b, j) \in Int /\ Letter(c, j) \in Int
  BY LettersAreNumbers
<1>4. CASE i <= k
  <2>1. Ahead(a, c, i)
    <3>1. \A j \in 1..(i - 1) : j \in 1..(k - 1)
      BY <1>1, <1>2, <1>4 DEF Ahead
    <3>2. Letter(b, i) >= Letter(c, i)
      <4>1. i = k \/ i \in 1..(k - 1)
        BY <1>1, <1>2, <1>4 DEF Ahead
      <4> QED BY <1>2, <1>3, <4>1 DEF Ahead
    <3>3. i \in Nat \ {0} /\ Letter(a, i) > Letter(b, i)
          /\ \A j \in 1..(i - 1) : Letter(a, j) = Letter(b, j)
      BY <1>1 DEF Ahead
    <3>4. \A j \in 1..(k - 1) : Letter(b, j) = Letter(c, j)
      BY <1>2 DEF Ahead
    <3>5. Letter(a, i) > Letter(c, i)
      BY <1>3, <3>2, <3>3
    <3> QED BY <3>1, <3>3, <3>4, <3>5 DEF Ahead
  <2> QED BY <2>1, GreaterIsAhead
<1>5. CASE k < i
  <2>1. Ahead(a, c, k)
    <3>1. \A j \in 1..(k - 1) : j \in 1..(i - 1)
      BY <1>1, <1>2, <1>5 DEF Ahead
    <3>2. Letter(a, k) = Letter(b, k)
      <4>1. k \in 1..(i - 1)
        BY <1>1, <1>2, <1>5 DEF Ahead
      <4> QED BY <1>1, <4>1 DEF Ahead
    <3> QED BY <1>1, <1>2, <1>3, <3>1, <3>2 DEF Ahead
  <2> QED BY <2>1, GreaterIsAhead
<1>6. i \in Int /\ k \in Int
  BY <1>1, <1>2 DEF Ahead
<1> QED BY <1>4, <1>5, <1>6

LEMMA SegmentsFollow ==
  ASSUME NEW p \in SegmentSet, NEW q \in SegmentSet, NEW r \in SegmentSet,
         CompareSegments(p, q) = "greater", CompareSegments(q, r) = "greater"
  PROVE  CompareSegments(p, r) = "greater"
<1>0. /\ p.kind \in Int /\ q.kind \in Int /\ r.kind \in Int
      /\ p.number \in Int /\ q.number \in Int /\ r.number \in Int
      /\ p.word \in Seq(Nat) /\ q.word \in Seq(Nat) /\ r.word \in Seq(Nat)
  BY DEF SegmentSet
<1>1. \A i, j \in Int : Order(i, j) = "greater" <=> i > j
  BY DEF Order
<1>2. CASE p.kind # q.kind \/ q.kind # r.kind
  <2>1. p.kind >= q.kind /\ q.kind >= r.kind
    BY <1>0, <1>1 DEF CompareSegments
  <2>2. p.kind > r.kind
    BY <1>0, <1>2, <2>1
  <2> QED BY <1>0, <1>1, <2>2 DEF CompareSegments
<1>3. CASE p.kind = q.kind /\ q.kind = r.kind /\ p.kind = 2
  <2>1. p.number > q.number /\ q.number > r.number
    BY <1>0, <1>1, <1>3 DEF CompareSegments
  <2>2. p.number > r.number
    BY <1>0, <2>1
  <2> QED BY <1>0, <1>1, <1>3, <2>2 DEF CompareSegments
<1>4. CASE p.kind = q.kind /\ q.kind = r.kind /\ p.kind # 2
  <2>1. CompareStrings(p.word, q.word) = "greater" /\ CompareStrings(q.word, r.word) = "greater"
    BY <1>4 DEF CompareSegments
  <2>2. CompareStrings(p.word, r.word) = "greater"
    BY <1>0, <2>1, WordsFollow
  <2> QED BY <1>4, <2>2 DEF CompareSegments
<1> QED BY <1>2, <1>3, <1>4

LEMMA SegmentIsItself ==
  ASSUME NEW p \in SegmentSet PROVE CompareSegments(p, p) # "greater"
<1>1. p.kind \in Int /\ p.number \in Int /\ p.word \in Seq(Nat)
  BY DEF SegmentSet
<1>2. CompareStrings(p.word, p.word) = "equal"
  BY <1>1, WordsAreEqual
<1> QED BY <1>1, <1>2 DEF CompareSegments, Order

\* The same for releases and their segments.
Leader(x, y, n) == /\ n \in Nat \ {0} /\ CompareSegments(At(x, n), At(y, n)) = "greater"
                   /\ \A i \in 1..(n - 1) : At(x, i) = At(y, i)

LEMMA AtIsSegment ==
  ASSUME NEW a \in Seq(Nat)
  PROVE  /\ \A n : At(Segments(a), n) \in SegmentSet
         /\ DOMAIN Segments(a) \subseteq Nat \ {0}
         /\ \A n \in DOMAIN Segments(a), i \in Nat \ {0} : i < n => i \in DOMAIN Segments(a)
         /\ \A n : n \notin DOMAIN Segments(a) => At(Segments(a), n) = NoSegment(0)
<1> DEFINE x == Segments(a)
<1>1. x \in Seq(SegmentSet) /\ NoSegment(0) \in SegmentSet
  BY SegmentsAreSegments, BeginsSegment
<1> HIDE DEF x, SegmentSet
<1>2. DOMAIN x = 1..Len(x) /\ Len(x) \in Nat
  BY <1>1, LenProperties
<1>3. \A n \in DOMAIN x : x[n] \in SegmentSet
  BY <1>1, <1>2, ElementOfSeq
<1>4. \A n : At(x, n) \in SegmentSet
  BY <1>1, <1>3 DEF At
<1>5. \A n : n \notin DOMAIN x => At(x, n) = NoSegment(0)
  BY DEF At
<1>6. \A n \in DOMAIN x, i \in Nat \ {0} : i < n => i \in DOMAIN x
  BY <1>2
<1>7. DOMAIN x \subseteq Nat \ {0}
  BY <1>2
<1> QED BY <1>4, <1>5, <1>6, <1>7 DEF x

LEMMA GreaterLeads ==
  ASSUME NEW a \in Seq(Nat), NEW b \in Seq(Nat)
  PROVE  Reference(a, b) = "greater" <=> \E n : Leader(Segments(a), Segments(b), n)
<1> DEFINE x == Segments(a)
           y == Segments(b)
           differ == {n \in DOMAIN x \cup DOMAIN y : At(x, n) # At(y, n)}
           m == Min(differ)
<1>1. Reference(a, b) = IF differ = {} THEN "equal" ELSE CompareSegments(At(x, m), At(y, m))
  BY ReferenceAt
<1>2. /\ \A n : At(x, n) \in SegmentSet /\ At(y, n) \in SegmentSet
      /\ DOMAIN x \cup DOMAIN y \subseteq Nat \ {0}
  BY AtIsSegment
<1>3. \A n : n \notin DOMAIN x \cup DOMAIN y => At(x, n) = At(y, n)
  BY AtIsSegment
<1>4. \A n : n \notin differ => At(x, n) = At(y, n)
  BY <1>3
<1>5. differ # {} => m \in differ /\ \A n \in differ : m <= n
  <2>1. differ \subseteq Nat
    BY <1>2
  <2> HIDE DEF differ
  <2> QED BY <2>1, MinIsLeast
<1>6. differ \subseteq Nat \ {0} /\ \A n \in differ : At(x, n) # At(y, n)
  BY <1>2
<1> HIDE DEF x, y, differ, m, SegmentSet
<1>7. ASSUME Reference(a, b) = "greater" PROVE Leader(x, y, m)
  <2>1. differ # {} /\ CompareSegments(At(x, m), At(y, m)) = "greater"
    BY <1>1, <1>7
  <2>2. m \in Nat \ {0} /\ \A i \in 1..(m - 1) : i \notin differ
    <3>1. m \in differ /\ m \in Nat \ {0}
      BY <1>5, <1>6, <2>1
    <3>2. ASSUME NEW i \in 1..(m - 1) PROVE i \notin differ
      <4>1. i < m /\ i \in Nat
        BY <3>1
      <4>2. ~(m <= i)
        BY <3>1, <4>1
      <4> QED BY <1>5, <2>1, <4>2
    <3> QED BY <3>1, <3>2
  <2> QED BY <1>4, <2>1, <2>2 DEF Leader
<1>8. ASSUME NEW n, Leader(x, y, n) PROVE Reference(a, b) = "greater"
  <2>1. /\ n \in Nat \ {0} /\ CompareSegments(At(x, n), At(y, n)) = "greater"
        /\ \A i \in 1..(n - 1) : At(x, i) = At(y, i)
    BY <1>8 DEF Leader
  <2>2. At(x, n) # At(y, n)
    BY <1>2, <2>1, SegmentIsItself
  <2>3. n \in differ
    BY <1>4, <2>2
  <2>4. m \in Nat \ {0} /\ m <= n /\ m \in differ
    BY <1>5, <1>6, <2>3
  <2>5. ~(m < n)
    <3>1. CASE m < n
      <4>1. m \in 1..(n - 1)
        BY <2>1, <2>4, <3>1
      <4> QED BY <1>6, <2>1, <2>4, <4>1
    <3> QED BY <3>1
  <2>6. m = n
    BY <2>1, <2>4, <2>5
  <2> QED BY <1>1, <2>1, <2>3, <2>6
<1> QED BY <1>7, <1>8 DEF x, y

LEMMA ReferenceFollows ==
  ASSUME NEW a \in Seq(Nat), NEW b \in Seq(Nat), NEW c \in Seq(Nat),
         Reference(a, b) = "greater", Reference(b, c) = "greater"
  PROVE  Reference(a, c) = "greater"
<1> DEFINE x == Segments(a)
           y == Segments(b)
           z == Segments(c)
<1>1. PICK i : Leader(x, y, i)
  BY GreaterLeads
<1>2. PICK k : Leader(y, z, k)
  BY GreaterLeads
<1>3. \A n : At(x, n) \in SegmentSet /\ At(y, n) \in SegmentSet /\ At(z, n) \in SegmentSet
  BY AtIsSegment
<1> HIDE DEF x, y, z, SegmentSet
<1>4. /\ i \in Nat \ {0} /\ CompareSegments(At(x, i), At(y, i)) = "greater"
      /\ \A n \in 1..(i - 1) : At(x, n) = At(y, n)
      /\ k \in Nat \ {0} /\ CompareSegments(At(y, k), At(z, k)) = "greater"
      /\ \A n \in 1..(k - 1) : At(y, n) = At(z, n)
  BY <1>1, <1>2 DEF Leader
<1>5. CASE i < k
  <2>1. i \in 1..(k - 1) /\ \A n \in 1..(i - 1) : n \in 1..(k - 1)
    BY <1>4, <1>5
  <2>2. Leader(x, z, i)
    BY <1>4, <2>1 DEF Leader
  <2> QED BY <2>2, GreaterLeads DEF x, z
<1>6. CASE k < i
  <2>1. k \in 1..(i - 1) /\ \A n \in 1..(k - 1) : n \in 1..(i - 1)
    BY <1>4, <1>6
  <2>2. Leader(x, z, k)
    BY <1>4, <2>1 DEF Leader
  <2> QED BY <2>2, GreaterLeads DEF x, z
<1>7. CASE k = i
  <2>1. CompareSegments(At(x, i), At(z, i)) = "greater"
    BY <1>3, <1>4, <1>7, SegmentsFollow
  <2>2. Leader(x, z, i)
    BY <1>4, <1>7, <2>1 DEF Leader
  <2> QED BY <2>2, GreaterLeads DEF x, z
<1> QED BY <1>4, <1>5, <1>6, <1>7

\* It is a total order of the releases, up to what no segment shows: two are
\* equal exactly when their segments are, one is older exactly when the other
\* is newer, and what is newer than a newer one is newer.
THEOREM ComparisonIsOrder ==
  \A a, b, c \in Seq(Nat) :
    /\ compareKernelRelease(a, b) = "equal" <=> Segments(a) = Segments(b)
    /\ compareKernelRelease(a, b) = "less" <=> compareKernelRelease(b, a) = "greater"
    /\ compareKernelRelease(a, b) = "greater" /\ compareKernelRelease(b, c) = "greater"
         => compareKernelRelease(a, c) = "greater"
<1> SUFFICES ASSUME NEW a \in Seq(Nat), NEW b \in Seq(Nat), NEW c \in Seq(Nat)
             PROVE  /\ compareKernelRelease(a, b) = "equal" <=> Segments(a) = Segments(b)
                    /\ compareKernelRelease(a, b) = "less"
                         <=> compareKernelRelease(b, a) = "greater"
                    /\ compareKernelRelease(a, b) = "greater"
                         /\ compareKernelRelease(b, c) = "greater"
                           => compareKernelRelease(a, c) = "greater"
  OBVIOUS
<1>1. Segments(a) = Segments(b) => Reference(a, b) = "equal"
  BY DEF Reference
<1>2. /\ compareKernelRelease(a, b) = Reference(a, b)
      /\ compareKernelRelease(b, a) = Reference(b, a)
      /\ compareKernelRelease(b, c) = Reference(b, c)
      /\ compareKernelRelease(a, c) = Reference(a, c)
  BY ComparisonIsReference
<1>3. Reference(a, b) = "less" <=> Reference(b, a) = "greater"
  BY ReferenceSwap
<1>4. compareKernelRelease(a, b) = "equal" => Segments(a) = Segments(b)
  BY NoRoundDecides
<1>5. Reference(a, b) = "greater" /\ Reference(b, c) = "greater" => Reference(a, c) = "greater"
  BY ReferenceFollows
<1> QED BY <1>1, <1>2, <1>3, <1>4, <1>5

-----------------------------------------------------------------------------
(***************************************************************************)
(* The invariant of a host and its checks.                                 *)
(***************************************************************************)
\* The code's view of the host: a package is dirty exactly when its time says
\* so, and a host runs a kernel there is.
HostInv ==
  /\ \A p \in Sensitive : p \in dirty <=> installedAt[p] > boot
  /\ \E k \in KernelPackages : running = k.release /\ uname = k.release \o Suffix[k.name]

\* What a check that is under way has read, and what it has been shown.
CheckInv ==
  /\ stage \in {"packages", "uname", "kernels"} => bootRead = boot
  /\ stage = "kernels" => release = uname
  /\ stage # "done" => answer = "none"
  /\ stage \notin {"idle", "done"} =>
       /\ Reasons \subseteq reasons /\ lasting \subseteq Reasons
       /\ present \subseteq NamesOf(running, kernels) /\ Foreign \subseteq foreign
  /\ stage \in {"uname", "kernels"} => lasting \cap Sensitive = {}

\* Both answers are right.
AnswersInv == PendingIsReal /\ LastingIsPending

Inv == TypeOK /\ HostInv /\ CheckInv /\ AnswersInv

-----------------------------------------------------------------------------
\* What uname says is a sequence, and unless it has a suffix it is the release
\* of the running kernel; with one, no package has that release.
LEMMA NamesAreOfRunning ==
  ASSUME TypeOK, HostInv, NamesOf(uname, kernels) # {}
  PROVE  uname = running /\ running \in {k.release : k \in KernelPackages}
<1>1. PICK b \in KernelPackages : running = b.release /\ uname = b.release \o Suffix[b.name]
  BY DEF HostInv
<1>2. PICK p \in KernelPackages : p.release = uname
  BY DEF NamesOf, Kernels, TypeOK
<1>3. Suffix[b.name] = <<>>
  BY <1>1, <1>2, SuffixAssumption
<1>4. b.release \in Seq(Nat)
  BY RebootAssumption
<1>5. b.release \o <<>> = b.release
  BY <1>4, ConcatEmptySeq, Zenon
<1> QED BY <1>1, <1>3, <1>5

LEMMA UnameType == ASSUME HostInv PROVE uname \in Seq(Nat)
<1>1. PICK b \in KernelPackages : uname = b.release \o Suffix[b.name]
  BY DEF HostInv
<1>2. b.release \in Seq(Nat) /\ Suffix[b.name] \in Seq(Nat)
  BY RebootAssumption
<1> QED BY <1>1, <1>2, ConcatProperties

LEMMA NamesType ==
  ASSUME NEW r, NEW installed
  PROVE  NamesOf(r, installed) \subseteq UNION Flavors
BY DEF NamesOf, Kernels, IsKernel

\* A newer kernel of the running flavor is later, and the other way round,
\* where the names are those of the running release.
LEMMA NewerIsLater ==
  ASSUME TypeOK, HostInv, release = uname, NamesOf(uname, kernels) # {}, NEW k \in kernels
  PROVE  Newer(k) <=> <<k.release, running>> \in Later
<1>1. uname = running /\ running \in {p.release : p \in KernelPackages}
  BY NamesAreOfRunning
<1>2. PICK p \in KernelPackages : running = p.release
  BY <1>1
<1>3. k \in KernelPackages
  BY DEF TypeOK
<1>4. compareKernelRelease(k.release, release) = Reference(k.release, running)
  <2>1. k.release \in Seq(Nat) /\ p.release \in Seq(Nat)
    BY <1>2, <1>3, RebootAssumption
  <2> QED BY <1>1, <1>2, <2>1, ComparisonIsReference
<1>5. <<k.release, running>> \in Later <=> Reference(k.release, running) = "greater"
  BY <1>2, <1>3 DEF Later
<1> QED BY <1>4, <1>5 DEF Newer

LEMMA InitInv == Init => Inv
<1> SUFFICES ASSUME Init PROVE Inv
  OBVIOUS
<1>1. PICK k \in kernels : IsKernel(k) /\ running = k.release /\ uname = k.release \o Suffix[k.name]
  BY DEF Init, Kernels
<1>2. k \in KernelPackages
  BY DEF Init
<1>3. TypeOK
  <2>1. release \in Seq(Nat)
    BY DEF Init
  <2>2. running \in {p.release : p \in KernelPackages}
    BY <1>1, <1>2
  <2>3. now \in 0..MaxTime /\ boot \in 0..now /\ installedAt \in [Sensitive -> 0..now]
    BY RebootAssumption DEF Init
  <2> QED BY <2>1, <2>2, <2>3 DEF Init, TypeOK
<1>4. HostInv
  <2>1. \A p \in Sensitive : p \in dirty <=> installedAt[p] > boot
    BY DEF Init
  <2> QED BY <1>1, <1>2, <2>1 DEF HostInv
<1>5. CheckInv /\ AnswersInv
  BY DEF Init, CheckInv, AnswersInv, PendingIsReal, LastingIsPending
<1> QED BY <1>3, <1>4, <1>5 DEF Inv

-----------------------------------------------------------------------------
(***************************************************************************)
(* The host                                                                *)
(***************************************************************************)
\* What a check has seen, after a step of the host that it observes.
LEMMA ObserveInv ==
  ASSUME Inv, Observe, UNCHANGED <<boot, running, uname, flavor, checkVars>>,
         dirty' \cup kernels' \subseteq Sensitive \cup KernelPackages
  PROVE  /\ CheckInv' /\ AnswersInv'
         /\ reasons' \subseteq Sensitive \cup KernelPackages /\ lasting' \subseteq reasons'
         /\ present' \cup foreign' \subseteq UNION Flavors
<1> USE DEF Inv
<1>1. CASE stage \in {"idle", "done"}
  BY <1>1 DEF Observe, checkVars, seenVars, TypeOK, CheckInv, AnswersInv, PendingIsReal,
              LastingIsPending
<1>2. CASE stage \notin {"idle", "done"}
  <2>1. /\ reasons' = reasons \cup Reasons' /\ lasting' = lasting \cap Reasons'
        /\ present' = present \cap NamesOf(running, kernels)'
        /\ foreign' = foreign \cup Foreign'
    BY <1>2 DEF Observe
  <2>2. Reasons' \subseteq Sensitive \cup KernelPackages /\ Foreign' \subseteq UNION Flavors
    BY NamesType DEF Reasons, Foreign
  <2>3. stage' = stage /\ answer' = "none" /\ bootRead' = bootRead /\ release' = release
    BY <1>2 DEF checkVars, CheckInv, TypeOK
  <2>4. CheckInv'
    BY <1>2, <2>1, <2>3 DEF CheckInv
  <2> QED BY <2>1, <2>2, <2>3, <2>4 DEF AnswersInv, PendingIsReal, LastingIsPending, TypeOK
<1> QED BY <1>1, <1>2

LEMMA TickInv == ASSUME Inv, Tick PROVE Inv'
<1> USE DEF Inv, Tick, checkVars, seenVars
<1>1. TypeOK'
  BY RebootAssumption DEF TypeOK
<1>2. HostInv'
  BY DEF HostInv
<1>3. Reasons' = Reasons /\ Foreign' = Foreign
  BY DEF Reasons, Foreign
<1> QED BY <1>1, <1>2, <1>3 DEF CheckInv, AnswersInv, PendingIsReal, LastingIsPending

\* What is installed now is dirty: the host was booted in an earlier second.
LEMMA InstallInv == ASSUME Inv, NEW p \in Sensitive, Install(p) PROVE Inv'
<1> USE DEF Inv, Install
<1>1. CheckInv' /\ AnswersInv'
      /\ reasons' \subseteq Sensitive \cup KernelPackages /\ lasting' \subseteq reasons'
      /\ present' \cup foreign' \subseteq UNION Flavors
  BY ObserveInv DEF TypeOK
<1>2. TypeOK'
  BY <1>1 DEF TypeOK, checkVars
<1>3. HostInv'
  BY DEF HostInv, TypeOK
<1> QED BY <1>1, <1>2, <1>3

LEMMA KernelInv ==
  ASSUME Inv, NEW k \in KernelPackages, InstallKernel(k) \/ RemoveKernel(k)
  PROVE  Inv'
<1> USE DEF Inv
<1>1. /\ kernels' \subseteq KernelPackages /\ Observe
      /\ UNCHANGED <<now, boot, running, uname, flavor, installedAt, dirty, checkVars>>
  BY DEF InstallKernel, RemoveKernel, TypeOK
<1>2. CheckInv' /\ AnswersInv'
      /\ reasons' \subseteq Sensitive \cup KernelPackages /\ lasting' \subseteq reasons'
      /\ present' \cup foreign' \subseteq UNION Flavors
  BY <1>1, ObserveInv DEF TypeOK
<1>3. TypeOK'
  BY <1>1, <1>2 DEF TypeOK, checkVars
<1>4. HostInv'
  BY <1>1 DEF HostInv
<1> QED BY <1>2, <1>3, <1>4

\* A boot is not before any installation, so it clears what they made dirty.
LEMMA RebootInv == ASSUME Inv, Reboot PROVE Inv'
<1> USE DEF Inv, Reboot
<1>1. PICK k \in Kernels(kernels) : running' = k.release /\ uname' = k.release \o Suffix[k.name]
  OBVIOUS
<1>2. k \in KernelPackages
  BY DEF Kernels, TypeOK
<1>3. TypeOK'
  <2>1. now' \in 0..MaxTime /\ boot' \in 0..now' /\ now <= now'
    BY RebootAssumption DEF TypeOK
  <2>2. installedAt' \in [Sensitive -> 0..now']
    BY <2>1 DEF TypeOK
  <2>3. <<>> \in Seq(Nat)
    OBVIOUS
  <2> QED BY <1>1, <1>2, <2>1, <2>2, <2>3 DEF TypeOK
<1>4. HostInv'
  <2>1. \A p \in Sensitive : ~ (installedAt'[p] > boot')
    BY RebootAssumption DEF TypeOK
  <2> QED BY <1>1, <1>2, <2>1 DEF HostInv
<1>5. CheckInv' /\ AnswersInv'
  BY DEF CheckInv, AnswersInv, PendingIsReal, LastingIsPending
<1> QED BY <1>3, <1>4, <1>5

-----------------------------------------------------------------------------
(***************************************************************************)
(* The check                                                               *)
(***************************************************************************)
LEMMA BeginInv == ASSUME Inv, Begin PROVE Inv'
<1> USE DEF Inv, Begin, hostVars
<1>1. Reasons \subseteq Sensitive \cup KernelPackages /\ Foreign \subseteq UNION Flavors
  BY NamesType DEF Reasons, Foreign, TypeOK
<1>2. Reasons' = Reasons /\ Foreign' = Foreign
  BY DEF Reasons, Foreign
<1>3. TypeOK'
  <2>1. <<>> \in Seq(Nat)
    OBVIOUS
  <2> QED BY <1>1, <2>1, NamesType DEF TypeOK
<1>4. HostInv'
  BY DEF HostInv
<1>5. CheckInv' /\ AnswersInv'
  BY <1>2 DEF CheckInv, AnswersInv, PendingIsReal, LastingIsPending
<1> QED BY <1>3, <1>4, <1>5

LEMMA ReadBootTimeInv == ASSUME Inv, ReadBootTime PROVE Inv'
<1> USE DEF Inv, ReadBootTime, hostVars, seenVars
<1>1. TypeOK'
  <2>1. boot \in Nat
    BY DEF TypeOK
  <2> QED BY <2>1 DEF TypeOK
<1>2. HostInv'
  BY DEF HostInv
<1>3. Reasons' = Reasons /\ Foreign' = Foreign
  BY DEF Reasons, Foreign
<1> QED BY <1>1, <1>2, <1>3 DEF CheckInv, AnswersInv, PendingIsReal, LastingIsPending

\* A time after the boot is of a dirty package, which is a reason; without one
\* nothing is dirty, and no package can be a lasting reason any more.
LEMMA ReadPackagesInv == ASSUME Inv, ReadPackages PROVE Inv'
<1> USE DEF Inv, ReadPackages, Answer, hostVars, seenVars
<1>1. SensitiveInstalled <=> dirty # {}
  BY DEF SensitiveInstalled, NewerThanBoot, CheckInv, HostInv, TypeOK
<1>2. TypeOK' /\ HostInv'
  BY DEF TypeOK, HostInv
<1>3. Reasons' = Reasons /\ Foreign' = Foreign /\ dirty \subseteq Reasons
  BY DEF Reasons, Foreign
<1>4. CASE SensitiveInstalled
  BY <1>1, <1>2, <1>3, <1>4 DEF CheckInv, AnswersInv, PendingIsReal, LastingIsPending, TypeOK
<1>5. CASE ~SensitiveInstalled
  <2>1. lasting \cap Sensitive = {}
    BY <1>1, <1>5, RebootAssumption DEF CheckInv, Reasons, TypeOK
  <2> QED BY <1>2, <1>3, <1>5, <2>1 DEF CheckInv, AnswersInv, PendingIsReal, LastingIsPending
<1> QED BY <1>4, <1>5

LEMMA ReadRunningInv == ASSUME Inv, ReadRunning PROVE Inv'
<1> USE DEF Inv, ReadRunning, hostVars, seenVars
<1>1. TypeOK' /\ HostInv'
  BY UnameType DEF TypeOK, HostInv
<1>2. Reasons' = Reasons /\ Foreign' = Foreign
  BY DEF Reasons, Foreign
<1> QED BY <1>1, <1>2 DEF CheckInv, AnswersInv, PendingIsReal, LastingIsPending

\* A newer kernel is a reason, or its name is of another flavor; and uname is
\* then the release of a package.
LEMMA NewerHasReason ==
  ASSUME Inv, stage = "kernels", NewerInstalled
  PROVE  uname = running /\ (reasons # {} \/ foreign # {})
<1> USE DEF Inv
<1>1. release = uname
  BY DEF CheckInv
<1>2. PICK k \in Kernels(kernels) : k.name \in NamesOf(uname, kernels) /\ Newer(k)
  BY <1>1 DEF NewerInstalled
<1>3. k \in kernels /\ NamesOf(uname, kernels) # {}
  BY <1>2 DEF Kernels
<1>4. uname = running /\ <<k.release, running>> \in Later
  BY <1>1, <1>2, <1>3, NewerIsLater, NamesAreOfRunning
<1>5. CASE k.name \in flavor
  <2>1. k \in Reasons
    BY <1>3, <1>4, <1>5 DEF Reasons
  <2> QED BY <1>4, <2>1 DEF CheckInv
<1>6. CASE k.name \notin flavor
  <2>1. k.name \in Foreign
    BY <1>2, <1>6 DEF Foreign
  <2> QED BY <1>4, <2>1 DEF CheckInv
<1> QED BY <1>5, <1>6

\* A lasting reason is a newer kernel, which is seen if uname prints the running
\* release and the package that has it and the newer one's name is there.
LEMMA LastingIsNewer ==
  ASSUME Inv, stage = "kernels", ~NewerInstalled, NEW reason \in lasting
  PROVE  reason \notin Sensitive /\ (uname = running => reason.name \notin present)
<1> USE DEF Inv
<1>1. release = uname /\ reason \in Reasons /\ reason \notin Sensitive
  BY DEF CheckInv, TypeOK
<1>2. /\ reason \in kernels /\ reason \in KernelPackages
      /\ <<reason.release, running>> \in Later
  BY <1>1 DEF Reasons, TypeOK
<1>3. ASSUME uname = running, reason.name \in present PROVE FALSE
  <2>1. reason.name \in NamesOf(uname, kernels)
    BY <1>3 DEF CheckInv
  <2>2. Newer(reason)
    BY <1>1, <1>2, <2>1, NewerIsLater
  <2>3. reason \in Kernels(kernels)
    BY <1>2, <2>1, NamesType DEF Kernels, IsKernel
  <2> QED BY <1>1, <2>1, <2>2, <2>3 DEF NewerInstalled
<1> QED BY <1>1, <1>3

LEMMA ReadKernelsInv == ASSUME Inv, ReadKernels PROVE Inv'
<1> USE DEF ReadKernels, Answer, hostVars, seenVars
<1>1. TypeOK' /\ HostInv' /\ CheckInv'
  BY DEF Inv, TypeOK, HostInv, CheckInv
<1>2. PendingIsReal' /\ LastingIsPending'
  <2>1. PendingIsReal'
    BY NewerHasReason DEF PendingIsReal
  <2>2. LastingIsPending'
    BY LastingIsNewer DEF LastingIsPending
  <2> QED BY <2>1, <2>2
<1> QED BY <1>1, <1>2 DEF Inv, AnswersInv

LEMMA FailsInv == ASSUME Inv, Fails PROVE Inv'
  BY DEF Inv, Fails, Answer, hostVars, seenVars, TypeOK, HostInv, CheckInv, AnswersInv,
         PendingIsReal, LastingIsPending

LEMMA StutterInv == ASSUME Inv, UNCHANGED vars PROVE Inv'
<1> USE DEF vars, hostVars, checkVars, seenVars
<1>1. Reasons' = Reasons /\ Foreign' = Foreign
  BY DEF Reasons, Foreign
<1> QED BY <1>1 DEF Inv, TypeOK, HostInv, CheckInv, AnswersInv, PendingIsReal, LastingIsPending

-----------------------------------------------------------------------------
\* The inductive invariant of a host and its checks.
THEOREM Invariance == Spec => []Inv
<1>1. ASSUME Inv, [Next]_vars PROVE Inv'
  <2>1. CASE Tick \/ Reboot \/ \E p \in Sensitive : Install(p)
    BY <1>1, <2>1, TickInv, RebootInv, InstallInv
  <2>2. CASE \E k \in KernelPackages : InstallKernel(k) \/ RemoveKernel(k)
    BY <1>1, <2>2, KernelInv
  <2>3. CASE Begin \/ ReadBootTime \/ ReadPackages \/ ReadRunning \/ ReadKernels \/ Fails
    BY <1>1, <2>3, BeginInv, ReadBootTimeInv, ReadPackagesInv, ReadRunningInv,
       ReadKernelsInv, FailsInv
  <2>4. CASE UNCHANGED vars
    BY <1>1, <2>4, StutterInv
  <2> QED BY <1>1, <2>1, <2>2, <2>3, <2>4 DEF Next
<1> QED BY <1>1, InitInv, PTL DEF Spec

\* The types of the variables.
THEOREM TypeCorrect == Spec => []TypeOK
  BY Invariance, PTL DEF Inv

\* A pending reboot has a reason at some moment of the check, or packages of
\* another flavor have the release of the running kernel; and where uname is the
\* release of no package, the reason is not a kernel.
THEOREM PendingHasReason == Spec => []PendingIsReal
<1>1. Inv => PendingIsReal
  BY DEF Inv, AnswersInv
<1> QED BY <1>1, Invariance, PTL

\* Nothing that lasts through a check is missed but newer kernels: all of them
\* where uname adds a suffix to the running release, and else those of a name
\* whose package of the running release did not stay installed.
THEOREM OnlyKernelsAreMissed == Spec => []LastingIsPending
<1>1. Inv => LastingIsPending
  BY DEF Inv, AnswersInv
<1> QED BY <1>1, Invariance, PTL

\* Any two releases are compared as their segments are ordered, which is the
\* instance of ComparisonIsReference that the runs look at.
THEOREM ReleasesAreCompared == Spec => []ComparesSegments
<1>1. ASSUME NEW a \in Releases, NEW b \in Releases
      PROVE  compareKernelRelease(a, b) = Reference(a, b)
  BY ComparisonIsReference, RebootAssumption
<1>2. ComparesSegments
  BY <1>1 DEF ComparesSegments
<1> QED BY <1>2, PTL
=============================================================================
