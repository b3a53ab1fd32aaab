---------------------------- MODULE FoldTheorems -----------------------------
(***************************************************************************)
(* Induction over natural numbers and the existence of what folds compute, *)
(* with sets and functions in the place of predicates and operators: none  *)
(* of the provers knows operators as parameters.                           *)
(***************************************************************************)
EXTENDS SequencesExt, WellFoundedInduction, TLAPS

-----------------------------------------------------------------------------
(* Induction *)

\* What induction comes to where a set stands for the predicate
LEMMA LeastNatural ==
  ASSUME NEW T, T \subseteq Nat, T # {}
  PROVE  \E n \in T : \A m \in T : n <= m
<1> DEFINE R == OpToRel(<, Nat)
<1>1. IsWellFoundedOn(R, Nat)
  BY NatLessThanWellFounded
<1>2. \A m, n \in T : <<m, n>> \in R <=> m < n
  BY DEF OpToRel
<1> HIDE DEF R
<1>3. PICK n \in T : \A m \in T : ~(<<m, n>> \in R)
  BY <1>1, WFMin
<1>4. \A m \in T : ~ (m < n)
  BY <1>2, <1>3
<1>5. QED BY <1>3, <1>4

LEMMA UpTo ==
  ASSUME NEW n \in Nat, NEW T, 0 \in T, \A k \in 1..n : k - 1 \in T => k \in T
  PROVE  \A k \in 0..n : k \in T
<1> SUFFICES ASSUME {k \in 0..n : k \notin T} # {} PROVE FALSE
  OBVIOUS
<1>1. PICK k \in 0..n : k \notin T /\ \A m \in 0..n : m \notin T => k <= m
  <2> DEFINE B == {k \in 0..n : k \notin T}
  <2>1. B \subseteq Nat /\ B # {}
    OBVIOUS
  <2> HIDE DEF B
  <2>2. PICK k \in B : \A m \in B : k <= m
    BY <2>1, LeastNatural
  <2>3. QED BY <2>2 DEF B
<1>2. k \in 1..n /\ k - 1 \in 0..n /\ ~(k <= k - 1)
  BY <1>1
<1>3. QED BY <1>1, <1>2

-----------------------------------------------------------------------------
(* Folds *)

\* The index a fold takes next is the last.
LEMMA MaxOf ==
  ASSUME NEW n \in Nat, NEW s \in SUBSET (1..n), s # {}
  PROVE  Max(s) \in s /\ \A y \in s : y <= Max(s)
<1> DEFINE T == {k \in 0..n : \A t \in SUBSET (1..k) :
                                t # {} => \E x \in t : \A y \in t : x >= y}
<1>1. 0 \in T
  <2>1. \A t \in SUBSET (1..0) : t = {}
    OBVIOUS
  <2>2. \A t \in SUBSET (1..0) : t # {} => \E x \in t : \A y \in t : x >= y
    BY <2>1, Zenon
  <2>3. 0 \in 0..n
    OBVIOUS
  <2>4. QED BY <2>2, <2>3
<1>2. ASSUME NEW k \in 1..n, k - 1 \in T PROVE k \in T
  <2> SUFFICES ASSUME NEW t \in SUBSET (1..k), t # {}
               PROVE  \E x \in t : \A y \in t : x >= y
    OBVIOUS
  <2>1. CASE k \in t
    BY <2>1
  <2>2. CASE k \notin t
    <3>1. t \in SUBSET (1..(k - 1))
      BY <2>2
    <3>2. QED BY <1>2, <3>1
  <2>3. QED BY <2>1, <2>2
<1>3. n \in T
  <2> HIDE DEF T
  <2>1. QED BY <1>1, <1>2, UpTo
<1>4. \E x \in s : \A y \in s : x >= y
  BY <1>3
<1>5. Max(s) \in s /\ \A y \in s : Max(s) >= y
  BY <1>4 DEF Max
<1>6. QED BY <1>5

\* What a fold has gone through before element k
LEMMA FirstOnes ==
  ASSUME NEW n \in Nat, NEW k \in 1..n
  PROVE  /\ 1..k \in SUBSET (1..n) /\ 1..k # {} /\ Max(1..k) = k /\ (1..k) \ {k} = 1..(k - 1)
<1>1. k \in 1..k /\ 1..k \in SUBSET (1..n) /\ k \in Nat /\ (1..k) \ {k} = 1..(k - 1)
  OBVIOUS
<1>2. 1..k \in SUBSET (1..k) /\ 1..k # {}
  BY <1>1
<1>3. Max(1..k) \in 1..k /\ \A y \in 1..k : y <= Max(1..k)
  BY <1>1, <1>2, MaxOf
<1>4. QED BY <1>1, <1>2, <1>3

\* f holds the intermediate results of a fold over 1..n, as MapThenFoldSet has them.
Folds(f, n, S, base, G) ==
    /\ f \in [SUBSET (1..n) -> S]
    /\ \A s \in SUBSET (1..n) :
         f[s] = IF s = {} THEN base ELSE G[f[s \ {Max(s)}], Max(s)]

LEMMA FoldExists ==
  ASSUME NEW n \in Nat, NEW S, NEW base \in S, NEW G \in [S \X (1..n) -> S]
  PROVE  \E f : Folds(f, n, S, base, G)
<1> DEFINE Is(f, k) == Folds(f, k, S, base, G)
           T == {k \in 0..n : \E f : Is(f, k)}
<1>1. 0 \in T
  <2> DEFINE f == [s \in SUBSET (1..0) |-> base]
  <2>1. \A s \in SUBSET (1..0) : s = {}
    OBVIOUS
  <2>2. f \in [SUBSET (1..0) -> S] /\ \A s \in SUBSET (1..0) : f[s] = base
    OBVIOUS
  <2> HIDE DEF f
  <2>3. Is(f, 0)
    BY <2>1, <2>2 DEF Folds
  <2> HIDE DEF Is
  <2>4. QED BY <2>3
<1>2. ASSUME NEW k \in 1..n, k - 1 \in T PROVE k \in T
  <2>1. PICK f : Is(f, k - 1)
    BY <1>2
  <2> DEFINE h == [s \in SUBSET (1..k) |-> IF k \in s THEN G[f[s \ {k}], k] ELSE f[s]]
  <2>2. ASSUME NEW s \in SUBSET (1..k), k \notin s PROVE s \in SUBSET (1..(k - 1))
    BY <2>2
  <2>3. \A s \in SUBSET (1..k) : k \notin s => h[s] = f[s]
    OBVIOUS
  <2>4. h \in [SUBSET (1..k) -> S]
    <3> SUFFICES ASSUME NEW s \in SUBSET (1..k)
                 PROVE  (IF k \in s THEN G[f[s \ {k}], k] ELSE f[s]) \in S
      OBVIOUS
    <3>1. s \ {k} \in SUBSET (1..(k - 1))
      OBVIOUS
    <3>2. f[s \ {k}] \in S /\ k \in 1..n
      BY <2>1, <3>1 DEF Folds
    <3>3. G[f[s \ {k}], k] \in S
      BY <3>2
    <3>4. QED BY <2>1, <2>2, <3>3 DEF Folds
  <2>5. ASSUME NEW s \in SUBSET (1..k)
        PROVE  h[s] = IF s = {} THEN base ELSE G[h[s \ {Max(s)}], Max(s)]
    <3>1. CASE k \in s
      <4>1. Max(s) \in s /\ k <= Max(s) /\ Max(s) \in 1..k
        <5>1. k \in Nat /\ s # {}
          BY <3>1
        <5>2. Max(s) \in s /\ \A y \in s : y <= Max(s)
          BY <5>1, MaxOf
        <5>3. QED BY <3>1, <5>2
      <4>2. Max(s) = k
        BY <4>1
      <4>3. h[s] = G[f[s \ {k}], k] /\ h[s \ {k}] = f[s \ {k}]
        BY <3>1, <2>3
      <4>4. QED BY <3>1, <4>2, <4>3
    <3>2. CASE k \notin s
      <4>1. s \in SUBSET (1..(k - 1))
        BY <2>2, <3>2
      <4>2. f[s] = IF s = {} THEN base ELSE G[f[s \ {Max(s)}], Max(s)]
        BY <2>1, <4>1 DEF Folds
      <4>3. h[s \ {Max(s)}] = f[s \ {Max(s)}] /\ h[s] = f[s]
        BY <2>3, <3>2
      <4>4. QED BY <4>2, <4>3
    <3>3. QED BY <3>1, <3>2
  <2> HIDE DEF h
  <2>6. Is(h, k)
    BY <2>4, <2>5 DEF Folds
  <2> HIDE DEF Is
  <2>7. QED BY <2>6
<1>3. n \in T
  <2> HIDE DEF T
  <2>1. QED BY <1>1, <1>2, UpTo
<1>4. QED BY <1>3
=============================================================================
