------------------------------- MODULE SetLemmas -------------------------------
(***************************************************************************)
(* Facts about finite sets and sequences that the proofs of several        *)
(* components need: a minimum exists, the fold of a set or a sequence      *)
(* keeps what its steps keep, and what is left of a sequence when one      *)
(* element is removed.  The first two are inductions over the subsets of a *)
(* finite set, told as the absence of a smallest counterexample.           *)
(***************************************************************************)
EXTENDS Integers, SequencesExt, FiniteSetsExt, SequenceTheorems, FiniteSetTheorems, WellFoundedInduction, TLAPS

\* A set of subsets of a finite set that is not empty has a member none of
\* whose strict subsets is in it.
LEMMA SmallestSubset ==
  ASSUME NEW S, IsFiniteSet(S), NEW T \in SUBSET SUBSET S, T # {}
  PROVE  \E R \in T : \A Q \in T : Q \subseteq R => Q = R
<1>1. IsWellFoundedOn(StrictSubsetOrdering(S), SUBSET S)
  BY FS_StrictSubsetOrderingWellFounded, FS_FiniteSubsetsOfFinite
<1>2. PICK R \in T : \A Q \in T : <<Q, R>> \notin StrictSubsetOrdering(S)
  BY <1>1, WFMin
<1>3. ASSUME NEW Q \in T, Q \subseteq R, Q # R PROVE FALSE
  BY <1>2, <1>3 DEF StrictSubsetOrdering
<1> QED
  BY <1>2, <1>3

HasLeast(R) == \E m \in R : \A x \in R : m <= x

\* A finite set of integers that is not empty has a least element.
LEMMA MinExists ==
  ASSUME NEW S, IsFiniteSet(S), S \subseteq Int, S # {}
  PROVE  Min(S) \in S /\ \A x \in S : Min(S) <= x
<1>1. ASSUME NEW T, T = {R \in SUBSET S : R # {} /\ ~HasLeast(R)}, T # {} PROVE FALSE
  <2>0. T \in SUBSET SUBSET S /\ T # {}
    BY <1>1
  <2>1. PICK R \in T : \A Q \in T : Q \subseteq R => Q = R
    BY ONLY <2>0, IsFiniteSet(S), SmallestSubset
  <2>2. R \subseteq Int /\ R # {} /\ ~HasLeast(R)
    BY <1>1
  <2>3. PICK x \in R : TRUE
    BY <2>2
  <2>4. R \ {x} = {} \/ HasLeast(R \ {x})
    BY <1>1, <2>1, <2>3
  <2>5. CASE R \ {x} = {}
    BY <2>2, <2>3, <2>5 DEF HasLeast
  <2>6. CASE HasLeast(R \ {x})
    <3>1. PICK m \in R \ {x} : \A y \in R \ {x} : m <= y
      BY <2>6 DEF HasLeast
    <3>2. m \in Int /\ x \in Int
      BY <2>2, <2>3, <3>1
    <3>3. CASE m <= x
      BY <2>2, <3>1, <3>3 DEF HasLeast
    <3>4. CASE x <= m
      <4>1. \A y \in R : x <= y
        BY <2>2, <3>1, <3>2, <3>4
      <4> QED
        BY <2>2, <2>3, <4>1 DEF HasLeast
    <3> QED
      BY <3>2, <3>3, <3>4
  <2> QED
    BY <2>4, <2>5, <2>6
<1>2. HasLeast(S)
  BY <1>1
<1> QED
  BY <1>2 DEF Min, HasLeast

\* And a greatest one.
LEMMA MaxExists ==
  ASSUME NEW S, IsFiniteSet(S), S \subseteq Int, S # {}
  PROVE  Max(S) \in S /\ \A x \in S : Max(S) >= x
<1> DEFINE T == {-x : x \in S}
<1>1. IsFiniteSet(T)
  <2>1. [x \in S |-> -x] \in Surjection(S, T)
    BY DEF Surjection
  <2> QED
    BY <2>1, FS_Surjection
<1>2. T \subseteq Int /\ T # {}
  OBVIOUS
<1> HIDE DEF T
<1>3. PICK m \in T : \A y \in T : m <= y
  BY <1>1, <1>2, MinExists
<1>4. PICK x \in S : m = -x
  BY <1>3 DEF T
<1>5. \A y \in S : x >= y
  <2>1. ASSUME NEW y \in S PROVE x >= y
    <3>1. -y \in T
      BY DEF T
    <3>2. -x <= -y
      BY <1>3, <1>4, <3>1
    <3>3. x \in Int /\ y \in Int
      OBVIOUS
    <3> QED
      BY <3>2, <3>3
  <2> QED
    BY <2>1
<1> QED
  BY <1>5 DEF Max
-----------------------------------------------------------------------------
(* Folds.  The operators that fold a set or a sequence are functions f       *)
(* defined by recursion on the subsets of S: "pick" chooses the element     *)
(* taken out of each, and "step" combines it with what the rest came to.    *)

Picks(pick, S) == \A s \in SUBSET S : s # {} => pick[s] \in s

\* What holds of the empty set, and of each subset if it does of the subset without the
\* element picked, holds of every subset: all of them are in J.
LEMMA SubsetInduction ==
  ASSUME NEW S, IsFiniteSet(S), NEW pick, Picks(pick, S), NEW J, {} \in J,
         \A s \in SUBSET S : s # {} /\ s \ {pick[s]} \in J => s \in J
  PROVE  \A s \in SUBSET S : s \in J
<1>1. ASSUME NEW T, T = {s \in SUBSET S : s \notin J}, T # {} PROVE FALSE
  <2>1. T \in SUBSET SUBSET S /\ T # {}
    BY <1>1
  <2>2. PICK s \in T : \A r \in T : r \subseteq s => r = s
    BY ONLY <2>1, IsFiniteSet(S), SmallestSubset
  <2>3. s \in SUBSET S /\ s \notin J
    BY <1>1
  <2>4. s # {}
    BY <2>3
  <2>5. pick[s] \in s
    BY <2>3, <2>4 DEF Picks
  <2>6. s \ {pick[s]} \notin T
    BY <2>2, <2>5
  <2>7. s \ {pick[s]} \in J
    BY <1>1, <2>3, <2>6
  <2> QED
    BY <2>3, <2>4, <2>7
<1>2. PICK T : T = {s \in SUBSET S : s \notin J}
  OBVIOUS
<1>3. T = {}
  BY <1>1, <1>2
<1> QED
  BY <1>2, <1>3

FoldsUp(f, S, base, step, pick) ==
  f = [s \in SUBSET S |-> IF s = {} THEN base ELSE step[<<pick[s], f[s \ {pick[s]}]>>]]

\* What the recursion says of one subset.
LEMMA FoldOf ==
  ASSUME NEW S, NEW base, NEW step, NEW pick, NEW f, FoldsUp(f, S, base, step, pick), NEW s \in SUBSET S
  PROVE  f[s] = IF s = {} THEN base ELSE step[<<pick[s], f[s \ {pick[s]}]>>]
BY DEF FoldsUp

\* Two such functions agree on the subsets both are defined on.
LEMMA FoldsAgree ==
  ASSUME NEW P, IsFiniteSet(P), NEW Q, NEW base, NEW step, NEW pick, Picks(pick, P),
         NEW f, FoldsUp(f, P, base, step, pick), NEW g, FoldsUp(g, Q, base, step, pick),
         NEW u, u \subseteq P, u \subseteq Q
  PROVE  f[u] = g[u]
<1>1. ASSUME NEW T, T = {s \in SUBSET P : s \subseteq Q /\ f[s] # g[s]}, T # {} PROVE FALSE
  <2>1. T \in SUBSET SUBSET P /\ T # {}
    BY <1>1
  <2>2. PICK s \in T : \A r \in T : r \subseteq s => r = s
    BY ONLY <2>1, IsFiniteSet(P), SmallestSubset
  <2>3. s \in SUBSET P /\ s \in SUBSET Q /\ f[s] # g[s]
    BY <1>1
  <2>4. /\ f[s] = IF s = {} THEN base ELSE step[<<pick[s], f[s \ {pick[s]}]>>]
        /\ g[s] = IF s = {} THEN base ELSE step[<<pick[s], g[s \ {pick[s]}]>>]
    BY <2>3, FoldOf
  <2>5. s # {}
    BY <2>3, <2>4
  <2>6. pick[s] \in s
    BY <2>3, <2>5 DEF Picks
  <2>7. s \ {pick[s]} \notin T
    BY <2>2, <2>6
  <2>8. f[s \ {pick[s]}] = g[s \ {pick[s]}]
    BY <1>1, <2>3, <2>7
  <2> QED
    BY <2>3, <2>4, <2>5, <2>8
<1> QED
  BY <1>1

\* The recursion has a solution on every finite set.
LEMMA FoldsExist ==
  ASSUME NEW S, IsFiniteSet(S), NEW base, NEW step, NEW pick, Picks(pick, S)
  PROVE  \E f : FoldsUp(f, S, base, step, pick)
<1> DEFINE Solved(R) == \E f : FoldsUp(f, R, base, step, pick)
<1>1. ASSUME NEW T, T = {R \in SUBSET S : ~Solved(R)}, T # {} PROVE FALSE
  <2>1. T \in SUBSET SUBSET S /\ T # {}
    BY <1>1
  <2>2. PICK R \in T : \A Q \in T : Q \subseteq R => Q = R
    BY ONLY <2>1, IsFiniteSet(S), SmallestSubset
  <2>3. R \in SUBSET S /\ ~Solved(R)
    BY <1>1
  <2> DEFINE G(Q) == CHOOSE f : FoldsUp(f, Q, base, step, pick)
             last(s) == IF s = {} THEN base ELSE step[<<pick[s], G(s \ {pick[s]})[s \ {pick[s]}]>>]
             h == [s \in SUBSET R |-> IF s = R THEN last(R) ELSE G(s)[s]]
  <2>4. ASSUME NEW Q \in SUBSET R, Q # R PROVE FoldsUp(G(Q), Q, base, step, pick)
    <3>1. Q \in SUBSET S /\ Q \notin T
      BY <2>2, <2>3, <2>4
    <3>2. Solved(Q)
      BY <1>1, <3>1
    <3> QED
      BY <3>2
  <2>5. ASSUME NEW Q \in SUBSET R PROVE IsFiniteSet(Q) /\ Picks(pick, Q)
    <3>1. Q \in SUBSET S
      BY <2>3
    <3>2. IsFiniteSet(Q)
      BY <3>1, FS_Subset
    <3> QED
      BY <3>1, <3>2 DEF Picks
  <2>6. ASSUME NEW s \in SUBSET R, s # {}
        PROVE  LET t == s \ {pick[s]} IN
               /\ t \in SUBSET R /\ t # R
               /\ h[s] = step[<<pick[s], G(t)[t]>>]
    <3> DEFINE t == s \ {pick[s]}
    <3>1. pick[s] \in s
      BY <2>5, <2>6 DEF Picks
    <3>2. t \in SUBSET R /\ t # R
      BY <2>6, <3>1
    <3>3. CASE s = R
      BY <2>6, <3>2, <3>3
    <3>4. CASE s # R
      <4>1. FoldsUp(G(s), s, base, step, pick) /\ FoldsUp(G(t), t, base, step, pick)
        BY <2>4, <2>6, <3>2, <3>4
      <4>2. h[s] = G(s)[s]
        BY <2>6, <3>4
      <4>3. s \in SUBSET s /\ t \subseteq s /\ t \subseteq t
        OBVIOUS
      <4> HIDE DEF G, h
      <4>4. G(s)[s] = step[<<pick[s], G(s)[t]>>]
        BY <2>6, <4>1, <4>3, FoldOf
      <4>5. G(s)[t] = G(t)[t]
        BY <2>5, <2>6, <4>1, <4>3, FoldsAgree
      <4> QED
        BY <3>2, <4>2, <4>4, <4>5
    <3> QED
      BY <3>3, <3>4
  <2>7. ASSUME NEW s \in SUBSET R, s # R PROVE h[s] = G(s)[s]
    BY <2>7
  <2>8. ASSUME NEW s \in SUBSET R
        PROVE  h[s] = IF s = {} THEN base ELSE step[<<pick[s], h[s \ {pick[s]}]>>]
    <3>1. CASE s = {}
      <4>1. CASE s = R
        BY <3>1, <4>1
      <4>2. CASE s # R
        <5>1. FoldsUp(G(s), s, base, step, pick) /\ h[s] = G(s)[s] /\ s \in SUBSET s
          BY <2>4, <2>7, <4>2
        <5> HIDE DEF G, h
        <5>2. G(s)[s] = base
          BY <3>1, <5>1 DEF FoldsUp
        <5> QED
          BY <3>1, <5>1, <5>2
      <4> QED
        BY <4>1, <4>2
    <3>2. CASE s # {}
      <4> HIDE DEF G, h
      <4> QED
        BY <2>6, <2>7, <3>2
    <3> QED
      BY <3>1, <3>2
  <2>9. h = [s \in SUBSET R |-> h[s]]
    OBVIOUS
  <2>10. FoldsUp(h, R, base, step, pick)
    <3> HIDE DEF h
    <3> QED
      BY <2>8, <2>9 DEF FoldsUp
  <2> QED
    BY <2>3, <2>10
<1>2. Solved(S)
  BY <1>1
<1> QED
  BY <1>2

\* Taking an item out of a vector.
LEMMA RemovedAt ==
  ASSUME NEW T, NEW s \in Seq(T), NEW k \in DOMAIN s, NEW r, r = RemoveAt(s, k)
  PROVE  /\ r \in Seq(T) /\ Len(r) = Len(s) - 1
         /\ \A i \in 1..(Len(s) - 1) : r[i] = IF i < k THEN s[i] ELSE s[i + 1]
<1>1. DOMAIN s = 1..Len(s) /\ Len(s) \in Nat
  BY LenProperties
<1>2. PICK n \in Nat : n = Len(s)
  BY <1>1
<1>3. k \in 1..n /\ \A i \in 1..n : s[i] \in T
  BY <1>1, <1>2, ElementOfSeq
<1>4. PICK a : a = SubSeq(s, 1, k - 1)
  OBVIOUS
<1>5. PICK b : b = SubSeq(s, k + 1, n)
  OBVIOUS
<1>6. a \in Seq(T) /\ Len(a) = k - 1 /\ \A i \in 1..(k - 1) : a[i] = s[i]
  <2>1. \A i \in 1..(k - 1) : s[i] \in T
    BY <1>3
  <2>2. k - 1 \in Int
    BY <1>3
  <2>3. /\ a \in Seq(T) /\ Len(a) = IF 1 <= k - 1 THEN k - 1 - 1 + 1 ELSE 0
        /\ \A i \in 1..(k - 1 - 1 + 1) : a[i] = s[1 + i - 1]
    BY ONLY <1>4, <2>1, <2>2, SubSeqProperties
  <2> QED
    BY <1>3, <2>3
<1>7. b \in Seq(T) /\ Len(b) = n - k /\ \A i \in 1..(n - k) : b[i] = s[k + i]
  <2>1. \A i \in (k + 1)..n : s[i] \in T
    BY <1>3
  <2>2. k + 1 \in Int
    BY <1>3
  <2>3. /\ b \in Seq(T) /\ Len(b) = IF k + 1 <= n THEN n - (k + 1) + 1 ELSE 0
        /\ \A i \in 1..(n - (k + 1) + 1) : b[i] = s[k + 1 + i - 1]
    BY ONLY <1>5, <2>1, <2>2, n \in Nat, SubSeqProperties
  <2> QED
    BY <1>3, <2>3
<1>8. r = a \o b
  BY <1>2, <1>4, <1>5 DEF RemoveAt
<1>9. /\ r \in Seq(T) /\ Len(r) = Len(a) + Len(b)
      /\ \A i \in 1..(Len(a) + Len(b)) : r[i] = IF i <= Len(a) THEN a[i] ELSE b[i - Len(a)]
  BY ONLY <1>6, <1>7, <1>8, ConcatProperties
<1>10. Len(a) + Len(b) = n - 1
  BY <1>3, <1>6, <1>7
<1>11. ASSUME NEW i \in 1..(n - 1) PROVE r[i] = IF i < k THEN s[i] ELSE s[i + 1]
  <2>1. CASE i < k
    <3>1. i <= Len(a) /\ i \in 1..(k - 1)
      BY <1>3, <1>6, <2>1
    <3> QED
      BY <1>6, <1>9, <1>10, <2>1, <3>1
  <2>2. CASE ~(i < k)
    <3>1. ~(i <= Len(a)) /\ i - Len(a) = i - (k - 1) /\ i - (k - 1) \in 1..(n - k)
          /\ k + (i - (k - 1)) = i + 1
      BY <1>3, <1>6, <2>2
    <3>2. r[i] = b[i - (k - 1)]
      BY <1>9, <1>10, <3>1
    <3>3. b[i - (k - 1)] = s[k + (i - (k - 1))]
      BY <1>7, <3>1
    <3> QED
      BY <2>2, <3>1, <3>2, <3>3
  <2> QED
    BY <2>1, <2>2
<1> QED
  BY <1>2, <1>9, <1>10, <1>11
================================================================================
