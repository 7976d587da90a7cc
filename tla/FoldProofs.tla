------------------------------- MODULE FoldProofs -------------------------------
(***************************************************************************)
(* Induction over the naturals and along a sequence.                       *)
(*                                                                         *)
(* The library's induction theorems take the property as an operator,      *)
(* which the provers cannot instantiate.  That the order of the naturals   *)
(* is well founded is stated of sets, and gives induction as a fact about  *)
(* sets: the numbers that have the property.                               *)
(***************************************************************************)
EXTENDS Integers, Sequences, SequencesExt, WellFoundedInduction, TLAPS

\* A set of naturals that is not empty has a least element.
LEMMA Least ==
  ASSUME NEW S \in SUBSET Nat, S # {}
  PROVE  \E n \in S : \A m \in S : n <= m
<1> DEFINE Less == {ss \in Nat \X Nat : ss[1] < ss[2]}
<1>1. IsWellFoundedOn(Less, Nat)
  BY NatLessThanWellFounded DEF OpToRel
<1>2. \A m, n \in Nat : m < n => <<m, n>> \in Less
  OBVIOUS
<1> HIDE DEF Less
<1>3. PICK n \in S : \A m \in S : ~(<<m, n>> \in Less)
  BY <1>1, WFMin
<1>4. \A m \in S : m \in Nat /\ n \in Nat /\ (m < n => <<m, n>> \in Less)
  BY <1>2
<1>5. \A m \in S : ~(m < n)
  BY <1>3, <1>4
<1> QED
  BY <1>4, <1>5

\* Induction.
LEMMA Induct ==
  ASSUME NEW S \in SUBSET Nat, 0 \in S, \A n \in S : n + 1 \in S
  PROVE  S = Nat
<1> SUFFICES ASSUME Nat \ S # {} PROVE FALSE
  OBVIOUS
<1>1. PICK n \in Nat \ S : \A m \in Nat \ S : n <= m
  BY Least
<1> QED
  BY <1>1

(***************************************************************************)
(* FoldLeft of the community modules takes the largest index of a set of   *)
(* them, and goes on with the others.                                      *)
(***************************************************************************)
LEMMA Largest ==
  ASSUME NEW n \in Nat, NEW s \in SUBSET (1..n), s # {}
  PROVE  /\ Max(s) \in s
         /\ \A k \in 1..n : k \in s /\ (\A j \in s : j <= k) => Max(s) = k
<1> DEFINE Above == {m \in Nat : \A j \in s : j <= m}
<1>4. \A j \in s : j \in 1..n
  OBVIOUS
<1>1. Above \in SUBSET Nat /\ n \in Above
  BY <1>4
<1>2. PICK k \in Above : \A m \in Above : k <= m
  BY <1>1, Least
<1>5. k \in Nat /\ \A j \in s : j <= k
  BY <1>2
<1>3. k \in s
  <2> SUFFICES ASSUME k \notin s PROVE FALSE
    OBVIOUS
  <2>1. \A j \in s : j <= k - 1 /\ 1 <= j
    BY <1>4, <1>5
  <2>3. k - 1 \in Nat
    <3>1. PICK j \in s : TRUE
      OBVIOUS
    <3> QED
      BY <1>4, <1>5, <2>1, <3>1
  <2>2. k - 1 \in Above
    BY <2>1, <2>3
  <2> QED
    BY <1>2, <1>5, <2>2
<1>6. \E x \in s : \A y \in s : x >= y
  <2>1. \A j \in s : k >= j
    BY <1>4, <1>5
  <2> QED
    BY <1>3, <2>1
<1>7. Max(s) \in s /\ \A y \in s : Max(s) >= y
  BY <1>6 DEF Max
<1>8. ASSUME NEW j \in 1..n, j \in s, \A i \in s : i <= j PROVE Max(s) = j
  <2>1. Max(s) \in 1..n /\ Max(s) >= j /\ Max(s) <= j
    BY <1>4, <1>7, <1>8
  <2> QED
    BY <2>1
<1> QED
  BY <1>7, <1>8

(* g is the fold of seq, for each set of its indices: what FoldLeft is the  *)
(* value of for all of them                                                *)
Folds(g, base, op, seq, n) ==
  \A s \in SUBSET (1..n) :
    g[s] = IF s = {} THEN base ELSE op[<<g[s \ {Max(s)}], seq[Max(s)]>>]

\* The recursive definition in FoldLeft has a solution: the fold of a function
\* on a set that it does not leave.
LEMMA FoldExists ==
  ASSUME NEW T, NEW base \in T, NEW E, NEW op, NEW seq, NEW n \in Nat,
         \A a \in T, e \in E : op[<<a, e>>] \in T,
         \A k \in 1..n : seq[k] \in E
  PROVE  \E g \in [SUBSET (1..n) -> T] : Folds(g, base, op, seq, n)
<1> USE DEF Folds
<1> DEFINE Solves(g, m) == Folds(g, base, op, seq, m)
           Solvable(m) == \E g \in [SUBSET (1..m) -> T] : Solves(g, m)
           Solved == {m \in Nat : m <= n => Solvable(m)}
<1>1. 0 \in Solved
  <2>1. SUBSET (1..0) = {{}}
    OBVIOUS
  <2>2. [s \in SUBSET (1..0) |-> base] \in [SUBSET (1..0) -> T]
    OBVIOUS
  <2>3. Solves([s \in SUBSET (1..0) |-> base], 0)
    BY <2>1
  <2> QED
    BY <2>2, <2>3
<1>2. ASSUME NEW m \in Solved PROVE m + 1 \in Solved
  <2> SUFFICES ASSUME m + 1 <= n PROVE Solvable(m + 1)
    <3> HIDE DEF Solvable
    <3> QED
      BY <1>2
  <2>7. m \in Nat /\ Solvable(m)
    <3> HIDE DEF Solvable
    <3> QED
      BY <1>2
  <2>1. PICK g \in [SUBSET (1..m) -> T] : Solves(g, m)
    BY <2>7
  <2> DEFINE h == [s \in SUBSET (1..m + 1) |->
                     IF m + 1 \in s THEN op[<<g[s \ {m + 1}], seq[m + 1]>>] ELSE g[s]]
  <2>2. ASSUME NEW s \in SUBSET (1..m + 1)
        PROVE  /\ m + 1 \in s => s \ {m + 1} \in SUBSET (1..m) /\ Max(s) = m + 1
               /\ m + 1 \notin s => s \in SUBSET (1..m)
    <3>1. m + 1 \in s => Max(s) = m + 1
      BY Largest
    <3> QED
      BY <3>1
  <2>3. seq[m + 1] \in E
    OBVIOUS
  <2>4. h \in [SUBSET (1..m + 1) -> T]
    <3>1. ASSUME NEW s \in SUBSET (1..m + 1) PROVE h[s] \in T
      <4>1. CASE m + 1 \in s
        <5>1. g[s \ {m + 1}] \in T
          BY <2>1, <2>2, <4>1
        <5>2. <<g[s \ {m + 1}], seq[m + 1]>> \in T \X E
          BY <2>3, <5>1
        <5> QED
          BY <4>1, <5>2
      <4>2. CASE m + 1 \notin s
        BY <2>1, <2>2, <4>2
      <4> QED
        BY <4>1, <4>2
    <3> QED
      BY <3>1
  <2>5. ASSUME NEW s \in SUBSET (1..m + 1)
        PROVE  h[s] = IF s = {} THEN base ELSE op[<<h[s \ {Max(s)}], seq[Max(s)]>>]
    <3>1. CASE m + 1 \in s
      <4>1. Max(s) = m + 1 /\ s # {} /\ s \ {m + 1} \in SUBSET (1..m + 1) /\ m + 1 \notin s \ {m + 1}
        BY <2>2, <3>1
      <4>2. h[s \ {m + 1}] = g[s \ {m + 1}]
        BY <4>1
      <4>3. h[s] = op[<<g[s \ {m + 1}], seq[m + 1]>>]
        BY <3>1
      <4> QED
        BY <4>1, <4>2, <4>3
    <3>2. CASE m + 1 \notin s
      <4>1. s \in SUBSET (1..m) /\ h[s] = g[s]
        BY <2>2, <3>2
      <4>2. s # {} => h[s \ {Max(s)}] = g[s \ {Max(s)}]
        BY <3>2
      <4> HIDE DEF h
      <4> QED
        BY <2>1, <4>1, <4>2
    <3> QED
      BY <3>1, <3>2
  <2> HIDE DEF h
  <2>6. Solves(h, m + 1)
    BY <2>5
  <2> QED
    BY <2>4, <2>6
<1>3. n \in Solved
  <2>1. Solved \in SUBSET Nat /\ \A m \in Solved : m + 1 \in Solved
    BY <1>2
  <2> HIDE DEF Solved
  <2> QED
    BY <1>1, <2>1, Induct
<1>6. Solvable(n)
  <2> HIDE DEF Solvable
  <2> QED
    BY <1>3
<1> QED
  BY <1>6

\* The prefixes of a sequence's indices, and the last index of each.
LEMMA UpTo ==
  ASSUME NEW n \in Nat, NEW k \in 1..n
  PROVE  /\ 1..k \in SUBSET (1..n)
         /\ 1..k # {}
         /\ Max(1..k) = k
         /\ (1..k) \ {k} = 1..(k - 1)
<1>1. 1..k \in SUBSET (1..n)
  OBVIOUS
<1>2. k \in 1..k /\ \A j \in 1..k : j <= k
  OBVIOUS
<1>3. 1..k # {}
  BY <1>2
<1>4. Max(1..k) = k
  BY <1>1, <1>2, <1>3, Largest
<1>5. (1..k) \ {k} = 1..(k - 1)
  OBVIOUS
<1> QED
  BY <1>1, <1>3, <1>4, <1>5

\* What every turn of a fold keeps, its result has.
LEMMA FoldKeeps ==
  ASSUME NEW T, NEW h, NEW n \in Nat, h[{}] \in T,
         \A k \in 1..n : h[1..(k - 1)] \in T => h[1..k] \in T
  PROVE  h[1..n] \in T
<1> DEFINE Good == {k \in Nat : k <= n => h[1..k] \in T}
<1>1. 0 \in Good
  <2>1. 1..0 = {}
    OBVIOUS
  <2> QED
    BY <2>1
<1>2. ASSUME NEW k \in Good PROVE k + 1 \in Good
  <2> SUFFICES ASSUME k + 1 <= n PROVE h[1..(k + 1)] \in T
    OBVIOUS
  <2>1. k + 1 \in 1..n /\ (k + 1) - 1 = k /\ h[1..k] \in T
    OBVIOUS
  <2> HIDE DEF Good
  <2> QED
    BY <2>1
<1>3. Good \in SUBSET Nat
  OBVIOUS
<1>4. \A k \in Good : k + 1 \in Good
  BY <1>2
<1> HIDE DEF Good
<1>5. Good = Nat
  BY <1>1, <1>3, <1>4, Induct
<1> QED
  BY <1>5 DEF Good
=================================================================================
