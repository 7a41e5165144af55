----------------------------- MODULE ListLemmas -----------------------------
(***************************************************************************)
(* Facts about numbers, lists and recursive functions that the proofs of   *)
(* several components need.  What holds along a list is shown by its first *)
(* place where it fails, so that none of them takes an operator.           *)
(***************************************************************************)
EXTENDS Naturals, FiniteSetsExt, WellFoundedInduction, TLAPS

(* A set of numbers has a least one.                                       *)
LEMMA LeastOf ==
  ASSUME NEW T \in SUBSET Nat, T # {}
  PROVE  \E n \in T : \A m \in T : n <= m
<1>1. PICK n \in T : \A m \in T : ~(<<m, n>> \in OpToRel(<, Nat))
  BY NatLessThanWellFounded, WFMin
<1>2. \A m \in T : ~(m < n)
  BY <1>1 DEF OpToRel
<1>. QED
  BY <1>2

(* Induction along a list, by its first place that is not good.            *)
LEMMA AllAlong ==
  ASSUME NEW N \in Nat, NEW Good, 0 \in Good, \A n \in 1..N : n - 1 \in Good => n \in Good
  PROVE  \A n \in 0..N : n \in Good
<1> DEFINE Bad == {n \in 0..N : n \notin Good}
<1> SUFFICES ASSUME Bad # {} PROVE FALSE
  OBVIOUS
<1>1. Bad \in SUBSET Nat
  OBVIOUS
<1>2. PICK n \in Bad : \A m \in Bad : n <= m
  BY <1>1, LeastOf
<1>3. \A m \in Bad : ~(m < n)
  BY <1>1, <1>2
<1>4. n \in 1..N /\ n - 1 \in 0..N /\ n - 1 < n
  <2>1. n \in 0..N /\ n \notin Good
    OBVIOUS
  <2>2. n # 0
    BY <2>1
  <2>. QED
    BY <2>1, <2>2
<1>5. n - 1 \notin Bad
  BY <1>3, <1>4
<1>. QED
  BY <1>2, <1>4, <1>5

\* One step for each place of a list, from any member of S to one.
Steps(S, N) == [1..N -> [S -> S]]

(* f takes the steps one after the other.                                  *)
Takes(f, S, N, base, step) ==
  /\ f \in [0..N -> S] /\ f[0] = base
  /\ \A n \in 1..N : f[n] = step[n][f[n - 1]]

(* A function that takes its steps from the value before exists: what the  *)
(* meaning of a recursive function definition rests on.                    *)
LEMMA StepsExist ==
  ASSUME NEW S, NEW N \in Nat, NEW base \in S, NEW step \in Steps(S, N)
  PROVE  \E f : Takes(f, S, N, base, step)
<1> DEFINE Goes(f, m) == /\ f \in [0..m -> S] /\ f[0] = base
                         /\ \A n \in 1..m : f[n] = step[n][f[n - 1]]
           Good == {m \in 0..N : \E f : Goes(f, m)}
<1>1. 0 \in Good
  <2> DEFINE f == [n \in 0..0 |-> base]
  <2>1. Goes(f, 0)
    OBVIOUS
  <2> HIDE DEF f, Goes
  <2>2. 0 \in 0..N /\ \E h : Goes(h, 0)
    BY <2>1
  <2>. QED
    BY <2>2
<1>2. ASSUME NEW m \in 1..N, m - 1 \in Good
      PROVE  m \in Good
  <2>1. PICK g : Goes(g, m - 1)
    BY <1>2
  <2> DEFINE f == [n \in 0..m |-> IF n = m THEN step[m][g[m - 1]] ELSE g[n]]
  <2>2. step[m][g[m - 1]] \in S
    <3>1. g[m - 1] \in S
      BY <2>1
    <3>. QED
      BY <3>1 DEF Steps
  <2>3. f \in [0..m -> S]
    BY <2>1, <2>2
  <2>4. f[0] = base
    BY <2>1
  <2>5. ASSUME NEW n \in 1..m PROVE f[n] = step[n][f[n - 1]]
    <3>1. f[n - 1] = g[n - 1]
      OBVIOUS
    <3>2. CASE n = m
      BY <3>1, <3>2
    <3>3. CASE n # m
      <4>1. n \in 1..(m - 1)
        BY <3>3
      <4>. QED
        BY <2>1, <3>1, <3>3, <4>1
    <3>. QED
      BY <3>2, <3>3
  <2>6. Goes(f, m)
    BY <2>3, <2>4, <2>5
  <2> HIDE DEF f, Goes
  <2>7. m \in 0..N /\ \E h : Goes(h, m)
    BY <2>6
  <2>. QED
    BY <2>7
<1>3. N \in Good
  <2> HIDE DEF Good
  <2>1. \A n \in 0..N : n \in Good
    BY <1>1, <1>2, AllAlong
  <2>. QED
    BY <2>1
<1>. QED
  BY <1>3 DEF Takes

-----------------------------------------------------------------------------
(* A greatest number is the one Max chooses.                               *)
LEMMA MaxIs ==
  ASSUME NEW S \in SUBSET Nat, NEW m \in S, \A x \in S : x <= m
  PROVE  Max(S) = m
<1>1. \A x \in S : m >= x
  OBVIOUS
<1>2. \A n \in S : (\A x \in S : n >= x) => n = m
  OBVIOUS
<1>. QED
  BY <1>1, <1>2 DEF Max

(* Where numbers are bounded there is a greatest.                          *)
LEMMA MaxOf ==
  ASSUME NEW N \in Nat, NEW S \in SUBSET (0..N), S # {}
  PROVE  Max(S) \in S /\ \A x \in S : x <= Max(S)
<1> DEFINE Below == {n \in 0..N : N - n \in S}
<1>1. Below \in SUBSET Nat /\ Below # {}
  <2>1. PICK x \in S : TRUE
    OBVIOUS
  <2> DEFINE n == N - x
  <2>2. x \in 0..N
    OBVIOUS
  <2>3. n \in 0..N /\ N - n = x
    BY <2>2
  <2> HIDE DEF n
  <2>4. n \in Below
    BY <2>3
  <2>5. Below \in SUBSET Nat
    OBVIOUS
  <2> HIDE DEF Below
  <2>. QED
    BY <2>4, <2>5
<1>2. PICK n \in Below : \A m \in Below : n <= m
  BY <1>1, LeastOf
<1> DEFINE most == N - n
<1>3. most \in S
  BY <1>2
<1>4. \A x \in S : x <= most
  <2>1. SUFFICES ASSUME NEW x \in S PROVE x <= most
    OBVIOUS
  <2> DEFINE m == N - x
  <2>2. x \in 0..N /\ n \in 0..N
    BY <1>2
  <2>3. m \in 0..N /\ N - m = x
    BY <2>2
  <2>4. m \in Below
    <3> HIDE DEF m
    <3>. QED
      BY <2>3
  <2>5. n <= m
    BY <1>2, <2>4
  <2>. QED
    BY <2>2, <2>5
<1>5. S \in SUBSET Nat
  OBVIOUS
<1> HIDE DEF most
<1>6. Max(S) = most
  BY <1>3, <1>4, <1>5, MaxIs
<1>. QED
  BY <1>3, <1>4, <1>6

(* Which of two numbers Min takes.                                         *)
LEMMA LesserIs ==
  ASSUME NEW a \in Nat, NEW b \in Nat
  PROVE  Min({a, b}) = IF a <= b THEN a ELSE b
<1> DEFINE m == IF a <= b THEN a ELSE b
<1>1. m \in {a, b} /\ \A x \in {a, b} : m <= x
  OBVIOUS
<1>2. \A m1, m2 \in {a, b} : (\A x \in {a, b} : m1 <= x) /\ (\A x \in {a, b} : m2 <= x) => m1 = m2
  OBVIOUS
<1>. QED
  BY <1>1, <1>2 DEF Min
=============================================================================
