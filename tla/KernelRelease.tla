--------------------------- MODULE KernelRelease ---------------------------
(***************************************************************************)
(* compareKernelRelease of internal/dnf/reboot_kernel.go, against the      *)
(* order of releases that its comment names: segment by segment, numbers   *)
(* by their value and words as words, a number above a word, and a missing *)
(* segment below both.  A release is a sequence of ASCII codes.            *)
(***************************************************************************)
EXTENDS Integers, Sequences, FiniteSetsExt

isASCIIDigit(v) == v \in 48..57
isASCIILetter(v) == v \in (65..90) \cup (97..122)

InPart(v, numeric) == IF numeric THEN isASCIIDigit(v) ELSE isASCIILetter(v)

\* Where the next part starts, behind the separators, and where it is over.
PartStart(value) ==
  Min({i \in DOMAIN value : isASCIIDigit(value[i]) \/ isASCIILetter(value[i])}
        \cup {Len(value) + 1})

PartEnd(value, start) ==
  Min({i \in start..Len(value) : ~InPart(value[i], isASCIIDigit(value[start]))}
        \cup {Len(value) + 1})

NoPart == [part |-> <<>>, numeric |-> FALSE, rest |-> <<>>]

nextVersionPart(value) ==
  LET start == PartStart(value)
      end == PartEnd(value, start)
  IN IF start > Len(value) THEN NoPart
     ELSE [part |-> SubSeq(value, start, end - 1), numeric |-> isASCIIDigit(value[start]),
           rest |-> SubSeq(value, end, Len(value))]

TrimZeros(part) ==
  LET kept == {i \in DOMAIN part : part[i] # 48}
  IN IF kept = {} THEN <<>> ELSE SubSeq(part, Min(kept), Len(part))

Order(a, b) == IF a < b THEN "less" ELSE IF a > b THEN "greater" ELSE "equal"

\* strings.Compare
CompareStrings(a, b) ==
  LET differ == {i \in DOMAIN a \cap DOMAIN b : a[i] # b[i]}
  IN IF differ = {} THEN Order(Len(a), Len(b))
     ELSE Order(a[Min(differ)], b[Min(differ)])

\* Bug: leading zeros count.
compareVersionPartUntrimmed(a, b, numeric) ==
  IF numeric /\ Len(a) # Len(b) THEN Order(Len(a), Len(b)) ELSE CompareStrings(a, b)

compareVersionPart(a, b, numeric) ==
  LET x == IF numeric THEN TrimZeros(a) ELSE a
      y == IF numeric THEN TrimZeros(b) ELSE b
  IN IF numeric /\ Len(x) # Len(y) THEN Order(Len(x), Len(y)) ELSE CompareStrings(x, y)

-----------------------------------------------------------------------------
\* A round of the loop: it decides, or takes a part off both releases.
Round(state) ==
  LET l == nextVersionPart(state.left)
      r == nextVersionPart(state.right)
  IN [left |-> l.rest, right |-> r.rest,
      verdict |-> IF l.part = <<>> \/ r.part = <<>>
                    THEN Order(Len(l.part), Len(r.part))
                  ELSE IF l.numeric # r.numeric
                    THEN IF l.numeric THEN "greater" ELSE "less"
                  ELSE compareVersionPart(l.part, r.part, l.numeric)]

\* The loop goes on while the parts are equal, unless there are none.  (left
\* has a character less after every round that does not decide.)
compareKernelRelease(left, right) ==
  LET round[n \in 0 .. Len(left) + 1] ==
        IF n = 0 THEN [left |-> left, right |-> right, verdict |-> "equal"]
        ELSE IF round[n - 1].verdict = "equal" THEN Round(round[n - 1]) ELSE round[n - 1]
  IN  round[Len(left) + 1].verdict

-----------------------------------------------------------------------------
(***************************************************************************)
(* The reference: a release is the sequence of its segments, read one      *)
(* character at a time, a segment a kind with a number or a word, and      *)
(* releases are ordered lexicographically.                                 *)
(***************************************************************************)
Kind(v) == IF isASCIIDigit(v) THEN 2 ELSE IF isASCIILetter(v) THEN 1 ELSE 0

NoSegment(kind) == [kind |-> kind, number |-> 0, word |-> <<>>]

Longer(segment, v) ==
  IF segment.kind = 2 THEN [segment EXCEPT !.number = 10 * @ + (v - 48)]
  ELSE [segment EXCEPT !.word = Append(@, v)]

\* Character i continues the last segment or begins one, or is a separator.
Read(segments, value, i) ==
  LET kind == Kind(value[i])
      last == Len(segments)
  IN IF kind = 0 THEN segments
     ELSE IF i > 1 /\ Kind(value[i - 1]) = kind
       THEN [segments EXCEPT ![last] = Longer(segments[last], value[i])]
     ELSE Append(segments, Longer(NoSegment(kind), value[i]))

Segments(value) ==
  LET read[i \in 0 .. Len(value)] == IF i = 0 THEN <<>> ELSE Read(read[i - 1], value, i)
  IN  read[Len(value)]

CompareSegments(p, q) ==
  IF p.kind # q.kind THEN Order(p.kind, q.kind)
  ELSE IF p.kind = 2 THEN Order(p.number, q.number) ELSE CompareStrings(p.word, q.word)

Reference(a, b) ==
  LET x == Segments(a)
      y == Segments(b)
      at(z, n) == IF n \in DOMAIN z THEN z[n] ELSE NoSegment(0)
      differ == {n \in DOMAIN x \cup DOMAIN y : at(x, n) # at(y, n)}
  IN IF differ = {} THEN "equal" ELSE CompareSegments(at(x, Min(differ)), at(y, Min(differ)))
=============================================================================
