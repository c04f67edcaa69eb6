----------------------------- MODULE Induction -----------------------------
(***************************************************************************)
(* Induction and recursion over natural numbers, in a form without         *)
(* operators as parameters: a property is the set of the numbers that have *)
(* it, and a step of a recursion is a function.                            *)
(***************************************************************************)
EXTENDS Integers, WellFoundedInduction, TLAPS

\* A set of natural numbers that is not empty has a least element.
LEMMA LeastNumber ==
  ASSUME NEW T, T \subseteq Nat, T # {}
  PROVE  \E n \in T : \A m \in T : n <= m
<1>1. OpToRel(<, Nat) = {p \in Nat \X Nat : p[1] < p[2]}
  BY DEF OpToRel
<1>2. PICK n \in T : \A m \in T : <<m, n>> \notin OpToRel(<, Nat)
  BY WFMin, NatLessThanWellFounded, Zenon
<1>3. ASSUME NEW m \in T PROVE n <= m
  <2>1. m \in Nat /\ n \in Nat /\ ~ (m < n)
    BY <1>1, <1>2
  <2> QED BY <2>1
<1> QED BY <1>3

\* A property of zero that every number up to n inherits from the one before
\* it is a property of all of them.
LEMMA InductionUpTo ==
  ASSUME NEW n \in Nat, NEW S, 0 \in S, \A i \in 1..n : i - 1 \in S => i \in S
  PROVE  0..n \subseteq S
<1> DEFINE T == {i \in 0..n : i \notin S}
<1> SUFFICES ASSUME T # {} PROVE FALSE
  OBVIOUS
<1>1. PICK i \in T : \A j \in T : i <= j
  <2>1. T \subseteq Nat
    OBVIOUS
  <2> HIDE DEF T
  <2> QED BY <2>1, LeastNumber
<1>2. i \in 1..n /\ i - 1 \in 0..n /\ i - 1 \notin T
  BY <1>1
<1> QED BY <1>1, <1>2

\* The same for all numbers.
LEMMA InductionOnNat ==
  ASSUME NEW S, 0 \in S, \A i \in Nat : i \in S => i + 1 \in S
  PROVE  Nat \subseteq S
<1>1. ASSUME NEW n \in Nat PROVE n \in S
  <2>1. \A i \in 1..n : i - 1 \in S => i \in S
    <3> TAKE i \in 1..n
    <3>1. i - 1 \in Nat /\ (i - 1) + 1 = i
      OBVIOUS
    <3> QED BY <3>1
  <2> QED BY <2>1, InductionUpTo
<1> QED BY <1>1

\* A recursion that starts in A and takes n steps, each of which stays in A,
\* and a function that follows it.
IsRecursion(n, A, b, step) == n \in Nat /\ b \in A /\ step \in [1..n -> [A -> A]]

Follows(f, n, A, b, step) ==
  f \in [0..n -> A] /\ f[0] = b /\ \A i \in 1..n : f[i] = step[i][f[i - 1]]

\* There is such a function.
LEMMA Recursion ==
  ASSUME NEW n, NEW A, NEW b, NEW step, IsRecursion(n, A, b, step)
  PROVE  \E f : Follows(f, n, A, b, step)
<1>0. n \in Nat /\ b \in A /\ step \in [1..n -> [A -> A]]
  BY DEF IsRecursion
<1> DEFINE S == {k \in 0..n : \E f : Follows(f, k, A, b, step)}
<1>1. 0 \in S
  <2>1. Follows([i \in 0..0 |-> b], 0, A, b, step)
    BY <1>0 DEF Follows
  <2> QED BY <1>0, <2>1
<1>2. ASSUME NEW k \in 1..n, k - 1 \in S PROVE k \in S
  <2>1. PICK f : Follows(f, k - 1, A, b, step)
    BY <1>2
  <2> DEFINE g == [i \in 0..k |-> IF i = k THEN step[k][f[k - 1]] ELSE f[i]]
  <2>2. f[k - 1] \in A /\ step[k][f[k - 1]] \in A
    BY <1>0, <2>1 DEF Follows
  <2>3. g \in [0..k -> A] /\ g[0] = b
    BY <1>0, <2>1, <2>2 DEF Follows
  <2>4. ASSUME NEW i \in 1..k PROVE g[i] = step[i][g[i - 1]]
    <3>1. CASE i = k
      BY <3>1
    <3>2. CASE i # k
      BY <2>1, <3>2 DEF Follows
    <3> QED BY <3>1, <3>2
  <2>5. Follows(g, k, A, b, step)
    BY <2>3, <2>4 DEF Follows
  <2> HIDE DEF g
  <2> QED BY <2>5
<1>3. 0..n \subseteq S
  <2> HIDE DEF S
  <2> QED BY <1>0, <1>1, <1>2, InductionUpTo
<1> QED BY <1>0, <1>3
=============================================================================
