----------------------- MODULE DatasourceContentProofs -----------------------
(***************************************************************************)
(* Theorems about DatasourceContent: what expanding variables computes for *)
(* fields of any length and any number of variables in any order, and from *)
(* it that an unchanged hash means a current data source.                  *)
(***************************************************************************)
EXTENDS DatasourceContent, FoldTheorems, FiniteSetTheorems

-----------------------------------------------------------------------------
(* Folds *)

\* The text of a field grows by one piece after the other.
LEMMA FoldRendered ==
  ASSUME NEW field, DOMAIN field = 1..Len(field), Len(field) \in Nat, NEW S, <<>> \in S,
         \A t \in S : \A i \in DOMAIN field : t \o Pattern(field[i]) \in S
  PROVE  \E g : /\ g[0] = <<>> /\ Rendered(field) = g[Len(field)]
                /\ \A k \in 1..Len(field) : g[k] = g[k - 1] \o Pattern(field[k])
<1> DEFINE n == Len(field)
           F(f) == [s \in SUBSET (1..n) |->
                      IF s = {} THEN <<>> ELSE f[s \ {Max(s)}] \o Pattern(field[Max(s)])]
           h == CHOOSE f : f = F(f)
<1>1. Rendered(field) = h[1..n]
  BY DEF Rendered, FoldLeft, MapThenFoldSet
<1>2. \E f : f = F(f)
  <2> DEFINE G == [x \in S \X (1..n) |-> x[1] \o Pattern(field[x[2]])]
  <2>1. G \in [S \X (1..n) -> S] /\ n \in Nat
    OBVIOUS
  <2>2. \A t \in S, i \in 1..n : G[t, i] = t \o Pattern(field[i])
    OBVIOUS
  <2> HIDE DEF G, n, F, h
  <2>3. PICK base \in S : base = <<>>
    OBVIOUS
  <2>4. PICK f : Folds(f, n, S, base, G)
    BY <2>1, FoldExists
  <2>5. ASSUME NEW s \in SUBSET (1..n), s # {}
        PROVE  Max(s) \in 1..n /\ s \ {Max(s)} \in SUBSET (1..n)
    BY <2>1, <2>5, MaxOf
  <2>6. ASSUME NEW s \in SUBSET (1..n)
        PROVE  f[s] = IF s = {} THEN <<>> ELSE f[s \ {Max(s)}] \o Pattern(field[Max(s)])
    BY <2>2, <2>3, <2>4, <2>5 DEF Folds
  <2>7. f = F(f)
    BY <2>4, <2>6 DEF F, Folds
  <2>8. QED BY <2>7
<1>3. h = F(h)
  <2> HIDE DEF F
  <2>1. QED BY <1>2
<1>4. ASSUME NEW s \in SUBSET (1..n)
      PROVE  h[s] = IF s = {} THEN <<>> ELSE h[s \ {Max(s)}] \o Pattern(field[Max(s)])
  <2> HIDE DEF h, n
  <2>1. QED BY <1>3
<1> DEFINE g == [k \in 0..n |-> h[1..k]]
<1> HIDE DEF h
<1>5. g[0] = <<>> /\ g[n] = h[1..n]
  <2>1. 1..0 = {} /\ {} \in SUBSET (1..n) /\ 0 \in 0..n /\ n \in 0..n
    OBVIOUS
  <2>2. QED BY <1>4, <2>1
<1>6. ASSUME NEW k \in 1..n PROVE g[k] = g[k - 1] \o Pattern(field[k])
  <2>1. /\ 1..k \in SUBSET (1..n) /\ 1..k # {} /\ Max(1..k) = k /\ (1..k) \ {k} = 1..(k - 1)
        /\ k \in 0..n /\ k - 1 \in 0..n
    BY FirstOnes
  <2>2. h[1..k] = h[1..(k - 1)] \o Pattern(field[k])
    BY <1>4, <2>1
  <2>3. QED BY <2>1, <2>2
<1> HIDE DEF g
<1>7. QED BY <1>1, <1>5, <1>6

\* The variables of the secrets, after one and the other
LEMMA FoldCollected ==
  ASSUME NEW given, DOMAIN given = 1..Len(given), Len(given) \in Nat, NEW S, <<>> \in S,
         \A m \in S : \A i \in DOMAIN given : Overridden(m, given[i]) \in S
  PROVE  \E g : /\ g[0] = <<>> /\ Collect(given) = g[Len(given)]
                /\ \A k \in 1..Len(given) : g[k] = Overridden(g[k - 1], given[k])
<1> DEFINE n == Len(given)
           F(f) == [s \in SUBSET (1..n) |->
                      IF s = {} THEN <<>> ELSE Overridden(f[s \ {Max(s)}], given[Max(s)])]
           h == CHOOSE f : f = F(f)
<1>1. Collect(given) = h[1..n]
  BY DEF Collect, FoldLeft, MapThenFoldSet
<1>2. \E f : f = F(f)
  <2> DEFINE G == [x \in S \X (1..n) |-> Overridden(x[1], given[x[2]])]
  <2>1. G \in [S \X (1..n) -> S] /\ n \in Nat
    OBVIOUS
  <2>2. \A m \in S, i \in 1..n : G[m, i] = Overridden(m, given[i])
    OBVIOUS
  <2> HIDE DEF G, n, F, h
  <2>3. PICK base \in S : base = <<>>
    OBVIOUS
  <2>4. PICK f : Folds(f, n, S, base, G)
    BY <2>1, FoldExists
  <2>5. ASSUME NEW s \in SUBSET (1..n), s # {}
        PROVE  Max(s) \in 1..n /\ s \ {Max(s)} \in SUBSET (1..n)
    BY <2>1, <2>5, MaxOf
  <2>6. ASSUME NEW s \in SUBSET (1..n)
        PROVE  f[s] = IF s = {} THEN <<>> ELSE Overridden(f[s \ {Max(s)}], given[Max(s)])
    BY <2>2, <2>3, <2>4, <2>5 DEF Folds
  <2>7. f = F(f)
    BY <2>4, <2>6 DEF F, Folds
  <2>8. QED BY <2>7
<1>3. h = F(h)
  <2> HIDE DEF F
  <2>1. QED BY <1>2
<1>4. ASSUME NEW s \in SUBSET (1..n)
      PROVE  h[s] = IF s = {} THEN <<>> ELSE Overridden(h[s \ {Max(s)}], given[Max(s)])
  <2> HIDE DEF h, n
  <2>1. QED BY <1>3
<1> DEFINE g == [k \in 0..n |-> h[1..k]]
<1> HIDE DEF h
<1>5. g[0] = <<>> /\ g[n] = h[1..n]
  <2>1. 1..0 = {} /\ {} \in SUBSET (1..n) /\ 0 \in 0..n /\ n \in 0..n
    OBVIOUS
  <2>2. QED BY <1>4, <2>1
<1>6. ASSUME NEW k \in 1..n PROVE g[k] = Overridden(g[k - 1], given[k])
  <2>1. /\ 1..k \in SUBSET (1..n) /\ 1..k # {} /\ Max(1..k) = k /\ (1..k) \ {k} = 1..(k - 1)
        /\ k \in 0..n /\ k - 1 \in 0..n
    BY FirstOnes
  <2>2. h[1..k] = Overridden(h[1..(k - 1)], given[k])
    BY <1>4, <2>1
  <2>3. QED BY <2>1, <2>2
<1> HIDE DEF g
<1>7. QED BY <1>1, <1>5, <1>6

\* g[k] is the text of a field after k of the variables.
Texts(g, n, field, order, variables) ==
    /\ g[0] = Rendered(field) /\ ExpandVariables(field, order, variables) = g[n]
    /\ \A k \in 1..n : g[k] = Expand(g[k - 1], order[k], variables[order[k]])

LEMMA FoldExpanded ==
  ASSUME NEW field, NEW variables, NEW order, NEW n \in Nat, DOMAIN order = 1..n,
         NEW S, Rendered(field) \in S,
         \A t \in S : \A i \in 1..n : Expand(t, order[i], variables[order[i]]) \in S
  PROVE  \E g : Texts(g, n, field, order, variables)
<1> DEFINE base == Rendered(field)
           Step(t, i) == Expand(t, order[i], variables[order[i]])
           F(f) == [s \in SUBSET (1..n) |->
                      IF s = {} THEN base ELSE Step(f[s \ {Max(s)}], Max(s))]
           h == CHOOSE f : f = F(f)
<1>1. ExpandVariables(field, order, variables) = h[1..n]
  BY DEF ExpandVariables, FoldLeft, MapThenFoldSet
<1>2. \E f : f = F(f)
  <2> DEFINE G == [x \in S \X (1..n) |-> Step(x[1], x[2])]
  <2>1. G \in [S \X (1..n) -> S]
    OBVIOUS
  <2>2. \A t \in S, i \in 1..n : G[t, i] = Step(t, i)
    OBVIOUS
  <2>3. base \in S
    OBVIOUS
  <2> HIDE DEF G, F, h, base, Step
  <2>4. PICK f : Folds(f, n, S, base, G)
    BY <2>1, <2>3, FoldExists
  <2>5. ASSUME NEW s \in SUBSET (1..n), s # {}
        PROVE  Max(s) \in 1..n /\ s \ {Max(s)} \in SUBSET (1..n)
    BY <2>5, MaxOf
  <2>6. ASSUME NEW s \in SUBSET (1..n)
        PROVE  f[s] = IF s = {} THEN base ELSE Step(f[s \ {Max(s)}], Max(s))
    BY <2>2, <2>4, <2>5 DEF Folds
  <2>7. f = F(f)
    BY <2>4, <2>6 DEF F, Folds
  <2>8. QED BY <2>7
<1>3. h = F(h)
  <2> HIDE DEF F
  <2>1. QED BY <1>2
<1>4. ASSUME NEW s \in SUBSET (1..n)
      PROVE  h[s] = IF s = {} THEN base ELSE Step(h[s \ {Max(s)}], Max(s))
  <2> HIDE DEF h, base, Step
  <2>1. QED BY <1>3
<1> DEFINE g == [k \in 0..n |-> h[1..k]]
<1> HIDE DEF h
<1>5. g[0] = base /\ g[n] = h[1..n]
  <2>1. 1..0 = {} /\ {} \in SUBSET (1..n) /\ 0 \in 0..n /\ n \in 0..n
    OBVIOUS
  <2> HIDE DEF base, Step
  <2>2. QED BY <1>4, <2>1
<1>6. ASSUME NEW k \in 1..n PROVE g[k] = Step(g[k - 1], k)
  <2>1. /\ 1..k \in SUBSET (1..n) /\ 1..k # {} /\ Max(1..k) = k /\ (1..k) \ {k} = 1..(k - 1)
        /\ k \in 0..n /\ k - 1 \in 0..n
    BY FirstOnes
  <2> HIDE DEF base, Step
  <2>2. h[1..k] = Step(h[1..(k - 1)], k)
    BY <1>4, <2>1
  <2>3. QED BY <2>1, <2>2
<1> HIDE DEF g
<1>7. Texts(g, n, field, order, variables)
  BY <1>1, <1>5, <1>6 DEF Texts
<1>8. QED BY <1>7

-----------------------------------------------------------------------------
(* Replacing bytes *)

\* t reads p after its first o tokens.
At(t, o, p) == o + Len(p) <= Len(t) /\ \A j \in 1..Len(p) : t[o + j] = p[j]

LEMMA Joined ==
  ASSUME NEW U, NEW t \in Seq(U), NEW q \in Seq(U)
  PROVE  /\ t \o q \in Seq(U) /\ Len(t \o q) = Len(t) + Len(q)
         /\ \A i \in 1..Len(t) : (t \o q)[i] = t[i]
         /\ \A i \in 1..Len(q) : (t \o q)[Len(t) + i] = q[i]
OBVIOUS

LEMMA Reads ==
  ASSUME NEW U, NEW t \in Seq(U), NEW p \in Seq(U), Len(p) > 0, NEW i \in 1..Len(t)
  PROVE  At(t, i - 1, p) <=> i + Len(p) <= Len(t) + 1 /\ SubSeq(t, i, i + Len(p) - 1) = p
<1> DEFINE n == Len(p)
           r == SubSeq(t, i, i + n - 1)
<1>1. n \in Nat /\ Len(t) \in Nat
  OBVIOUS
<1>2. ASSUME i + n <= Len(t) + 1
      PROVE  r \in Seq(U) /\ Len(r) = n /\ \A j \in 1..n : r[j] = t[i - 1 + j]
  BY <1>1, <1>2
<1>3. ASSUME i + n <= Len(t) + 1, \A j \in 1..n : t[i - 1 + j] = p[j] PROVE r = p
  <2> HIDE DEF r
  <2>1. QED BY <1>1, <1>2, <1>3
<1>4. QED BY <1>1, <1>2, <1>3 DEF At

\* f[i] is what becomes of t from its i-th token on.
Scans(f, t, p, v, U) ==
    /\ f \in [1..(Len(t) + Len(p)) -> Seq(U)]
    /\ \A i \in 1..(Len(t) + Len(p)) :
         f[i] = IF i > Len(t) THEN <<>>
                ELSE IF At(t, i - 1, p) THEN v \o f[i + Len(p)] ELSE <<t[i]>> \o f[i + 1]

LEMMA ScanExists ==
  ASSUME NEW U, NEW t \in Seq(U), NEW p \in Seq(U), Len(p) > 0, NEW v \in Seq(U)
  PROVE  \E f : Scans(f, t, p, v, U)
<1> DEFINE n == Len(p)
           N == Len(t) + n
           Body(f, i) == IF i > Len(t) THEN <<>>
                         ELSE IF At(t, i - 1, p) THEN v \o f[i + n] ELSE <<t[i]>> \o f[i + 1]
           T == {k \in 0..N : \E f \in [1..N -> Seq(U)] :
                                \A i \in 1..N : i > N - k => f[i] = Body(f, i)}
<1>1. n \in Nat /\ n > 0 /\ Len(t) \in Nat /\ N \in Nat /\ N = Len(t) + n
  OBVIOUS
<1>2. ASSUME NEW f \in [1..N -> Seq(U)], NEW i \in 1..N PROVE Body(f, i) \in Seq(U)
  <2>1. CASE i > Len(t)
    BY <2>1
  <2>2. CASE ~(i > Len(t))
    <3>1. t[i] \in U /\ i + n \in 1..N /\ i + 1 \in 1..N
      BY <1>1, <2>2
    <3> HIDE DEF N, n, Body, T
    <3>2. f[i + n] \in Seq(U) /\ f[i + 1] \in Seq(U)
      BY <3>1
    <3>a. <<t[i]>> \in Seq(U)
      BY <3>1
    <3>3. v \o f[i + n] \in Seq(U) /\ <<t[i]>> \o f[i + 1] \in Seq(U)
      BY <3>a, <3>2
    <3>4. QED BY <2>2, <3>3 DEF Body
  <2>3. QED BY <2>1, <2>2
<1>3. 0 \in T
  <2> DEFINE f == [i \in 1..N |-> <<>>]
  <2>1. f \in [1..N -> Seq(U)] /\ \A i \in 1..N : ~(i > N - 0)
    BY <1>1
  <2> HIDE DEF f, Body, N
  <2>2. QED BY <1>1, <2>1
<1>4. ASSUME NEW k \in 1..N, k - 1 \in T PROVE k \in T
  <2>1. PICK f \in [1..N -> Seq(U)] : \A i \in 1..N : i > N - (k - 1) => f[i] = Body(f, i)
    BY <1>4
  <2> DEFINE m == N - (k - 1)
             h == [f EXCEPT ![m] = Body(f, m)]
  <2>2. m \in 1..N
    BY <1>1
  <2>3. h \in [1..N -> Seq(U)] /\ h[m] = Body(f, m) /\ \A i \in 1..N : i # m => h[i] = f[i]
    <3> HIDE DEF Body, m, N
    <3>1. QED BY <1>2, <2>2
  <2>4. ASSUME NEW i \in 1..N, i >= m PROVE Body(h, i) = Body(f, i)
    <3> HIDE DEF h, m, N, n
    <3>1. ASSUME ~(i > Len(t)) PROVE  i + n \in 1..N /\ i + n # m /\ i + 1 \in 1..N /\ i + 1 # m
      BY <1>1, <2>2, <2>4, <3>1
    <3>2. CASE i > Len(t)
      BY <3>2
    <3>3. CASE ~(i > Len(t))
      BY <2>3, <3>1, <3>3
    <3>4. QED BY <3>2, <3>3
  <2>5. ASSUME NEW i \in 1..N, i > N - k PROVE h[i] = Body(h, i)
    <3> HIDE DEF h, Body, N, n, T
    <3>a. N \in Int /\ k \in Int /\ i \in Int /\ i > N - k
      BY <1>1, <2>5
    <3>1. i >= m /\ (i = m \/ i > N - (k - 1))
      BY <3>a
    <3>3. CASE i = m
      BY <2>2, <2>3, <2>4, <3>1, <3>3
    <3>4. CASE i # m /\ i > N - (k - 1)
      BY <2>1, <2>3, <2>4, <3>1, <3>4
    <3>5. QED BY <3>1, <3>3, <3>4
  <2> HIDE DEF h, Body, N, m
  <2>6. k \in 0..N
    BY <1>1
  <2>7. QED BY <2>3, <2>5, <2>6
<1>5. N \in T
  <2> HIDE DEF T, N
  <2>1. N \in 0..N
    BY <1>1
  <2>2. QED BY <1>1, <1>3, <1>4, <2>1, UpTo
<1>6. PICK f \in [1..N -> Seq(U)] : \A i \in 1..N : i > N - N => f[i] = Body(f, i)
  BY <1>5
<1>7. \A i \in 1..N : i > N - N
  BY <1>1
<1>8. QED BY <1>6, <1>7 DEF Scans

LEMMA ReplacedBytes ==
  ASSUME NEW U, NEW t \in Seq(U), NEW p \in Seq(U), Len(p) > 0, NEW v \in Seq(U)
  PROVE  \E f : Scans(f, t, p, v, U) /\ ReplaceBytes(t, p, v) = f[1]
<1> DEFINE n == Len(p)
           N == Len(t) + n
           F(f) == [i \in 1..N |->
                      CASE i > Len(t) -> <<>>
                        [] i + n <= Len(t) + 1 /\ SubSeq(t, i, i + n - 1) = p -> v \o f[i + n]
                        [] OTHER -> <<t[i]>> \o f[i + 1]]
           h == CHOOSE f : f = F(f)
           Body(f, i) == IF i > Len(t) THEN <<>>
                         ELSE IF At(t, i - 1, p) THEN v \o f[i + n] ELSE <<t[i]>> \o f[i + 1]
<1>1. ReplaceBytes(t, p, v) = h[1]
  BY DEF ReplaceBytes
<1>2. n \in Nat /\ n > 0 /\ Len(t) \in Nat /\ N \in Nat /\ N = Len(t) + n
  OBVIOUS
<1>3. ASSUME NEW f, NEW i \in 1..N
      PROVE  F(f)[i] = Body(f, i)
  <2>1. CASE i > Len(t)
    BY <1>2, <2>1
  <2>2. CASE ~(i > Len(t))
    <3>1. At(t, i - 1, p) <=> i + n <= Len(t) + 1 /\ SubSeq(t, i, i + n - 1) = p
      BY <1>2, <2>2, Reads
    <3>2. QED BY <2>2, <3>1
  <2>3. QED BY <2>1, <2>2
<1>4. \E f : f = F(f)
  <2>1. PICK f : Scans(f, t, p, v, U)
    BY ScanExists
  <2>2. f = [i \in 1..N |-> f[i]] /\ \A i \in 1..N : f[i] = Body(f, i)
    BY <2>1 DEF Scans
  <2>3. F(f) = [i \in 1..N |-> F(f)[i]]
    OBVIOUS
  <2> HIDE DEF F, Body, N
  <2>4. QED BY <1>3, <2>2, <2>3
<1>5. h = F(h)
  <2> HIDE DEF F
  <2>1. QED BY <1>4
<1>6. DOMAIN h = 1..N /\ h = [i \in 1..N |-> h[i]] /\ \A i \in 1..N : h[i] = Body(h, i)
  <2>1. F(h) = [i \in 1..N |-> F(h)[i]] /\ DOMAIN F(h) = 1..N
    OBVIOUS
  <2> HIDE DEF F, Body, N, h
  <2>2. QED BY <1>3, <1>5, <2>1
<1> HIDE DEF h
<1> DEFINE T == {k \in 0..N : \A i \in 1..N : i > N - k => h[i] \in Seq(U)}
<1>7. 0 \in T
  BY <1>2
<1>8. ASSUME NEW k \in 1..N, k - 1 \in T PROVE k \in T
  <2>1. ASSUME NEW i \in 1..N, i > N - k PROVE h[i] \in Seq(U)
    <3>1. CASE i > Len(t)
      <4> HIDE DEF N, F, T
      <4>1. h[i] = <<>>
        BY <1>6, <3>1
      <4>2. QED BY <4>1
    <3>2. CASE ~(i > Len(t))
      <4>1. t[i] \in U
        BY <1>2, <3>2
      <4>2. /\ i + n \in 1..N /\ i + n > N - (k - 1)
            /\ i + 1 \in 1..N /\ i + 1 > N - (k - 1)
        <5> HIDE DEF N, n, T, F, Body
        <5>1. N \in Int /\ k \in Int /\ i \in Int /\ i > N - k
          BY <1>2, <2>1
        <5>2. QED BY <1>2, <3>2, <5>1
      <4>3. h[i + n] \in Seq(U) /\ h[i + 1] \in Seq(U)
        <5> HIDE DEF N, n, F, Body
        <5>1. QED BY <1>8, <4>2
      <4> HIDE DEF N, n, F, T
      <4>4. <<t[i]>> \in Seq(U)
        BY <4>1
      <4>5. v \o h[i + n] \in Seq(U) /\ <<t[i]>> \o h[i + 1] \in Seq(U)
        BY <4>3, <4>4
      <4>6. QED BY <1>6, <3>2, <4>5
    <3>3. QED BY <3>1, <3>2
  <2> HIDE DEF N, F, Body
  <2>2. k \in 0..N
    BY <1>2
  <2>3. QED BY <2>1, <2>2
<1>9. \A i \in 1..N : h[i] \in Seq(U)
  <2> HIDE DEF T, N
  <2>1. N \in 0..N
    BY <1>2
  <2>2. N \in T
    BY <1>2, <1>7, <1>8, <2>1, UpTo
  <2>3. \A i \in 1..N : i > N - N
    BY <1>2
  <2>4. QED BY <2>2, <2>3 DEF T
<1>10. Scans(h, t, p, v, U)
  BY <1>6, <1>9 DEF Scans
<1>11. QED BY <1>1, <1>10

\* Where p does not occur, t is left as it is.
LEMMA Copied ==
  ASSUME NEW U, NEW t \in Seq(U), NEW p \in Seq(U), Len(p) > 0, NEW v \in Seq(U),
         NEW f, Scans(f, t, p, v, U), NEW o \in Nat, NEW q \in Seq(U), At(t, o, q),
         \A j \in 1..Len(q) : ~At(t, o + j - 1, p)
  PROVE  f[o + 1] = q \o f[o + Len(q) + 1]
<1> DEFINE m == Len(q)
           T == {k \in 0..m : f[o + 1] = SubSeq(q, 1, k) \o f[o + k + 1]}
<1>1. m \in Nat /\ Len(t) \in Nat /\ Len(p) \in Nat /\ o + m <= Len(t)
  BY DEF At
<1>2. ASSUME NEW k \in 0..m PROVE f[o + k + 1] \in Seq(U)
  <2>1. o + k + 1 \in 1..(Len(t) + Len(p))
    BY <1>1
  <2>2. f \in [1..(Len(t) + Len(p)) -> Seq(U)]
    BY DEF Scans
  <2> HIDE DEF T
  <2>3. QED BY <2>1, <2>2
<1>3. 0 \in T
  <2>1. SubSeq(q, 1, 0) = <<>>
    OBVIOUS
  <2>2. f[o + 0 + 1] = f[o + 1] /\ 0 \in 0..m /\ f[o + 1] \in Seq(U)
    BY <1>1, <1>2
  <2>3. <<>> \o f[o + 1] = f[o + 1]
    BY <2>2
  <2>4. QED BY <2>1, <2>2, <2>3
<1>4. ASSUME NEW k \in 1..m, k - 1 \in T PROVE k \in T
  <2>1. f[o + 1] = SubSeq(q, 1, k - 1) \o f[o + k]
    <3>1. o + (k - 1) + 1 = o + k
      BY <1>1
    <3>2. QED BY <1>4, <3>1
  <2>2. f[o + k] = <<t[o + k]>> \o f[o + k + 1]
    <3>1. o + k \in 1..(Len(t) + Len(p)) /\ ~(o + k > Len(t)) /\ ~At(t, o + k - 1, p)
      BY <1>1
    <3>2. QED BY <3>1 DEF Scans
  <2>3. t[o + k] = q[k] /\ q[k] \in U
    BY DEF At
  <2> DEFINE a == SubSeq(q, 1, k - 1)
             r == f[o + k + 1]
  <2>4. a \in Seq(U) /\ r \in Seq(U) /\ <<q[k]>> \in Seq(U)
    BY <1>1, <1>2, <2>3
  <2>5. a \o <<q[k]>> = SubSeq(q, 1, k)
    BY <1>1, <2>3
  <2> HIDE DEF a, r
  <2>6. a \o (<<q[k]>> \o r) = (a \o <<q[k]>>) \o r
    BY <2>4, SMTT(60)
  <2>7. f[o + 1] = SubSeq(q, 1, k) \o r
    BY <2>1, <2>2, <2>3, <2>5, <2>6 DEF a, r
  <2>8. QED BY <2>7 DEF r
<1>5. m \in T
  <2> HIDE DEF T, m
  <2>1. m \in 0..m
    BY <1>1
  <2>2. QED BY <1>1, <1>3, <1>4, <2>1, UpTo
<1>6. SubSeq(q, 1, m) = q
  OBVIOUS
<1>7. QED BY <1>5, <1>6

-----------------------------------------------------------------------------
(* Fields *)

\* Text and values without the "$" that references begin with; keys as Kubernetes
\* has them in a Secret, of letters, digits, "-", "_" and ".".
Plain(U) == {t \in Seq(U) : \A i \in 1..Len(t) : t[i] # Dollar}
Keys(U) == {k \in Seq(U) : k # <<>> /\ \A i \in 1..Len(k) : k[i] \notin {Dollar, Open, Close}}
Signs(U) == {Dollar, Open, Close} \subseteq U
Pieces(U) == {Text(t) : t \in Plain(U)} \cup {Braced(k) : k \in Keys(U)}

LEMMA SignsDiffer == Dollar # Open /\ Dollar # Close /\ Open # Close
BY DEF Dollar, Open, Close

LEMMA TextPattern ==
  ASSUME NEW t
  PROVE  Pattern(Text(t)) = t /\ ~Text(t).ref
BY DEF Pattern, Text

LEMMA RefPattern ==
  ASSUME NEW U, Signs(U), NEW key \in Seq(U), NEW p, p = Pattern(Ref(key))
  PROVE  /\ p \in Seq(U) /\ Len(p) = Len(key) + 1 /\ p[1] = Dollar
         /\ \A j \in 1..Len(key) : p[j + 1] = key[j]
<1>1. p = <<Dollar>> \o key
  BY DEF Pattern, Ref
<1>2. PICK a \in Seq(U) : Len(a) = 1 /\ a[1] = Dollar /\ a = <<Dollar>>
  <2>1. Dollar \in U
    BY DEF Signs
  <2>2. <<Dollar>> \in Seq(U) /\ Len(<<Dollar>>) = 1 /\ <<Dollar>>[1] = Dollar
    BY <2>1
  <2>3. QED BY <2>2, Zenon
<1>3. p = a \o key
  BY <1>1, <1>2
<1>4. /\ p \in Seq(U) /\ Len(p) = Len(a) + Len(key)
      /\ \A i \in 1..Len(a) : p[i] = a[i]
      /\ \A i \in 1..Len(key) : p[Len(a) + i] = key[i]
  BY <1>3, Joined
<1>5. 1 \in 1..Len(a) /\ Len(key) \in Nat /\ \A j \in 1..Len(key) : j + 1 = Len(a) + j
  BY <1>2
<1>6. QED BY <1>2, <1>4, <1>5

LEMMA BracedPattern ==
  ASSUME NEW U, Signs(U), NEW key \in Seq(U), NEW p, p = Pattern(Braced(key))
  PROVE  /\ p \in Seq(U) /\ Len(p) = Len(key) + 3
         /\ p[1] = Dollar /\ p[2] = Open /\ p[Len(key) + 3] = Close
         /\ \A j \in 1..Len(key) : p[j + 2] = key[j]
<1>1. p = (<<Dollar, Open>> \o key) \o <<Close>>
  BY DEF Pattern, Braced
<1>2. PICK a \in Seq(U) : Len(a) = 2 /\ a[1] = Dollar /\ a[2] = Open /\ a = <<Dollar, Open>>
  <2>1. Dollar \in U /\ Open \in U
    BY DEF Signs
  <2>2. /\ <<Dollar, Open>> \in Seq(U) /\ Len(<<Dollar, Open>>) = 2
        /\ <<Dollar, Open>>[1] = Dollar /\ <<Dollar, Open>>[2] = Open
    BY <2>1
  <2>3. QED BY <2>2, Zenon
<1>3. PICK c \in Seq(U) : Len(c) = 1 /\ c[1] = Close /\ c = <<Close>>
  <2>1. Close \in U
    BY DEF Signs
  <2>2. <<Close>> \in Seq(U) /\ Len(<<Close>>) = 1 /\ <<Close>>[1] = Close
    BY <2>1
  <2>3. QED BY <2>2, Zenon
<1>4. PICK b \in Seq(U) : b = a \o key
  BY Joined
<1>5. /\ b \in Seq(U) /\ Len(b) = Len(a) + Len(key)
      /\ \A i \in 1..Len(a) : b[i] = a[i]
      /\ \A i \in 1..Len(key) : b[Len(a) + i] = key[i]
  BY <1>4, Joined
<1>6. p = b \o c
  BY <1>1, <1>2, <1>3, <1>4
<1>7. /\ p \in Seq(U) /\ Len(p) = Len(b) + Len(c)
      /\ \A i \in 1..Len(b) : p[i] = b[i]
      /\ \A i \in 1..Len(c) : p[Len(b) + i] = c[i]
  BY <1>6, Joined
<1>8. /\ Len(key) \in Nat /\ Len(b) = Len(key) + 2 /\ Len(p) = Len(key) + 3
      /\ 1 \in 1..Len(a) /\ 2 \in 1..Len(a) /\ 1 \in 1..Len(b) /\ 2 \in 1..Len(b)
      /\ 1 \in 1..Len(c) /\ Len(key) + 3 = Len(b) + 1
      /\ \A j \in 1..Len(key) : j + 2 = Len(a) + j /\ j + 2 \in 1..Len(b)
  BY <1>2, <1>3, <1>5, <1>7
<1>9. QED BY <1>2, <1>3, <1>5, <1>7, <1>8

LEMMA PieceType ==
  ASSUME NEW U, Signs(U), NEW piece \in Pieces(U)
  PROVE  Pattern(piece) \in Seq(U)
BY TextPattern, BracedPattern DEF Pieces, Plain, Keys

\* A reference begins where a piece begins that is one.
LEMMA Begins ==
  ASSUME NEW U, Signs(U), NEW piece \in Pieces(U),
         NEW j \in 1..Len(Pattern(piece)), Pattern(piece)[j] = Dollar
  PROVE  j = 1 /\ \E k \in Keys(U) : piece = Braced(k)
<1>1. CASE \E t \in Plain(U) : piece = Text(t)
  BY <1>1, TextPattern DEF Plain
<1>2. CASE \E k \in Keys(U) : piece = Braced(k)
  <2>1. PICK k \in Keys(U) : piece = Braced(k)
    BY <1>2
  <2>2. k \in Seq(U) /\ Len(k) \in Nat /\ \A i \in 1..Len(k) : k[i] # Dollar
    BY DEF Keys
  <2> DEFINE p == Pattern(Braced(k))
  <2>3. /\ Len(p) = Len(k) + 3 /\ p[2] = Open /\ p[Len(k) + 3] = Close
        /\ \A i \in 1..Len(k) : p[i + 2] = k[i]
    BY <2>2, BracedPattern
  <2> HIDE DEF p
  <2>4. j \in 1..(Len(k) + 3) /\ p[j] = Dollar
    BY <2>1, <2>3 DEF p
  <2>5. ASSUME j # 1 PROVE FALSE
    <3>1. j = 2 \/ j = Len(k) + 3 \/ j - 2 \in 1..Len(k)
      BY <2>2, <2>4, <2>5
    <3>2. CASE j - 2 \in 1..Len(k)
      <4>1. p[(j - 2) + 2] = k[j - 2] /\ (j - 2) + 2 = j
        BY <2>3, <2>4, <3>2
      <4>2. QED BY <2>2, <2>4, <3>2, <4>1
    <3>3. QED BY <2>3, <2>4, <2>5, <3>1, <3>2, SignsDiffer
  <2>6. QED BY <2>1, <2>5
<1>3. QED BY <1>1, <1>2 DEF Pieces

\* Where one reference with braces is read, no other is.
LEMMA OneKey ==
  ASSUME NEW U, Signs(U), NEW t, NEW o \in Nat,
         NEW k \in Keys(U), NEW key \in Keys(U),
         At(t, o, Pattern(Braced(k))), At(t, o, Pattern(Braced(key)))
  PROVE  k = key
<1> DEFINE p == Pattern(Braced(k))
           q == Pattern(Braced(key))
<1>1. /\ k \in Seq(U) /\ Len(k) \in Nat /\ \A i \in 1..Len(k) : k[i] # Close
      /\ key \in Seq(U) /\ Len(key) \in Nat /\ \A i \in 1..Len(key) : key[i] # Close
  BY DEF Keys
<1>2. /\ Len(p) = Len(k) + 3 /\ p[Len(k) + 3] = Close
      /\ \A i \in 1..Len(k) : p[i + 2] = k[i]
  BY <1>1, BracedPattern
<1>3. /\ Len(q) = Len(key) + 3 /\ q[Len(key) + 3] = Close
      /\ \A i \in 1..Len(key) : q[i + 2] = key[i]
  BY <1>1, BracedPattern
<1>4. /\ \A j \in 1..Len(p) : t[o + j] = p[j]
      /\ \A j \in 1..Len(q) : t[o + j] = q[j]
  BY DEF At
<1> HIDE DEF p, q
<1>5. \A j \in 1..(Len(k) + 3) : j <= Len(key) + 3 => p[j] = q[j]
  BY <1>1, <1>2, <1>3, <1>4
<1>6. ASSUME Len(k) < Len(key) PROVE FALSE
  <2>1. Len(k) + 1 \in 1..Len(key) /\ (Len(k) + 1) + 2 = Len(k) + 3
    BY <1>1, <1>6
  <2>2. q[Len(k) + 3] = key[Len(k) + 1] /\ p[Len(k) + 3] = q[Len(k) + 3]
    BY <1>1, <1>3, <1>5, <1>6, <2>1
  <2>3. QED BY <1>1, <1>2, <2>1, <2>2
<1>7. ASSUME Len(key) < Len(k) PROVE FALSE
  <2>1. Len(key) + 1 \in 1..Len(k) /\ (Len(key) + 1) + 2 = Len(key) + 3
    BY <1>1, <1>7
  <2>2. p[Len(key) + 3] = k[Len(key) + 1] /\ p[Len(key) + 3] = q[Len(key) + 3]
    BY <1>1, <1>2, <1>5, <1>7, <2>1
  <2>3. QED BY <1>1, <1>3, <2>1, <2>2
<1>8. Len(k) = Len(key)
  BY <1>1, <1>6, <1>7
<1>9. \A i \in 1..Len(k) : k[i] = key[i]
  <2> SUFFICES ASSUME NEW i \in 1..Len(k) PROVE k[i] = key[i]
    OBVIOUS
  <2>1. i + 2 \in 1..(Len(k) + 3) /\ i + 2 <= Len(key) + 3
    BY <1>1, <1>8
  <2>2. QED BY <1>2, <1>3, <1>5, <1>8, <2>1
<1>10. QED BY <1>1, <1>8, <1>9

\* A reference is read in no piece but its own, one without braces in none.
LEMMA NotRead ==
  ASSUME NEW U, Signs(U), NEW t, NEW o \in Nat,
         NEW piece \in Pieces(U), NEW key \in Keys(U), At(t, o, Pattern(piece)),
         NEW j \in 1..Len(Pattern(piece))
  PROVE  /\ ~At(t, o + j - 1, Pattern(Ref(key)))
         /\ piece # Braced(key) => ~At(t, o + j - 1, Pattern(Braced(key)))
<1>1. key \in Seq(U) /\ Len(key) \in Nat /\ Len(key) > 0 /\ key[1] # Open
  BY DEF Keys
<1> DEFINE p == Pattern(piece)
           r == Pattern(Ref(key))
           q == Pattern(Braced(key))
<1>2. Len(r) = Len(key) + 1 /\ r[1] = Dollar /\ r[2] = key[1]
  BY <1>1, RefPattern
<1>3. Len(q) = Len(key) + 3 /\ q[1] = Dollar
  BY <1>1, BracedPattern
<1>4. p \in Seq(U) /\ \A i \in 1..Len(p) : t[o + i] = p[i]
  BY PieceType DEF At
<1>5. (o + j - 1) + 1 = o + j
  BY <1>4
<1>6. ASSUME p[j] = Dollar
      PROVE  j = 1 /\ \E k \in Keys(U) : piece = Braced(k)
  BY <1>6, Begins
<1>7. ASSUME At(t, o + j - 1, r) PROVE FALSE
  <2> HIDE DEF p, q, r
  <2>1. 1 \in 1..Len(r) /\ 2 \in 1..Len(r)
    BY <1>1, <1>2
  <2>2. t[(o + j - 1) + 1] = Dollar /\ t[(o + j - 1) + 2] = key[1]
    BY <1>2, <1>7, <2>1 DEF At
  <2>3. p[j] = Dollar
    BY <1>4, <1>5, <2>2 DEF p
  <2>4. PICK k \in Keys(U) : j = 1 /\ piece = Braced(k)
    BY <1>6, <2>3
  <2>5. k \in Seq(U) /\ Len(k) \in Nat
    BY DEF Keys
  <2>6. Len(p) = Len(k) + 3 /\ p[2] = Open
    BY <2>4, <2>5, BracedPattern DEF p
  <2>7. t[o + 2] = Open
    BY <1>4, <2>5, <2>6
  <2>8. (o + j - 1) + 2 = o + 2
    BY <2>4
  <2>9. QED BY <1>1, <2>2, <2>7, <2>8
<1>8. ASSUME piece # Braced(key), At(t, o + j - 1, q) PROVE FALSE
  <2>1. 1 \in 1..Len(q)
    BY <1>1, <1>3
  <2>2. t[(o + j - 1) + 1] = Dollar
    <3> HIDE DEF p, q, r
    <3>1. QED BY <1>3, <1>8, <2>1 DEF At
  <2>3. p[j] = Dollar
    BY <1>4, <1>5, <2>2
  <2>4. PICK k \in Keys(U) : j = 1 /\ piece = Braced(k)
    BY <1>6, <2>3
  <2>5. o + j - 1 = o
    BY <2>4
  <2>6. At(t, o, Pattern(Braced(k))) /\ At(t, o, q)
    BY <1>8, <2>4, <2>5
  <2>7. k = key
    BY <2>6, OneKey
  <2>8. QED BY <1>8, <2>4, <2>7
<1>9. QED BY <1>7, <1>8

LEMMA AtEnd ==
  ASSUME NEW U, NEW t \in Seq(U), NEW q \in Seq(U)
  PROVE  At(t \o q, Len(t), q)
BY Joined DEF At

LEMMA AtLonger ==
  ASSUME NEW U, NEW t \in Seq(U), NEW r \in Seq(U), NEW o \in Nat, NEW q \in Seq(U), At(t, o, q)
  PROVE  At(t \o r, o, q)
<1>1. /\ Len(t \o r) = Len(t) + Len(r) /\ \A i \in 1..Len(t) : (t \o r)[i] = t[i]
      /\ Len(t) \in Nat /\ Len(r) \in Nat /\ Len(q) \in Nat
  BY Joined
<1>2. o + Len(q) <= Len(t) /\ \A j \in 1..Len(q) : o + j \in 1..Len(t) /\ t[o + j] = q[j]
  BY <1>1 DEF At
<1>3. o + Len(q) <= Len(t \o r) /\ \A j \in 1..Len(q) : (t \o r)[o + j] = q[j]
  BY <1>1, <1>2
<1>4. QED BY <1>3 DEF At

\* Each piece of a field is read where the pieces before it end.
LEMMA Parts ==
  ASSUME NEW U, Signs(U), NEW field \in Seq(Pieces(U))
  PROVE  \E g : /\ g[0] = <<>> /\ Rendered(field) = g[Len(field)]
                /\ \A k \in 0..Len(field) : g[k] \in Seq(U)
                /\ \A k \in 1..Len(field) :
                     /\ g[k] = g[k - 1] \o Pattern(field[k])
                     /\ Len(g[k]) = Len(g[k - 1]) + Len(Pattern(field[k]))
                     /\ At(Rendered(field), Len(g[k - 1]), Pattern(field[k]))
<1> DEFINE n == Len(field)
<1>1. n \in Nat /\ DOMAIN field = 1..n /\ \A k \in 1..n : Pattern(field[k]) \in Seq(U)
  BY PieceType
<1>2. \A t \in Seq(U) : \A i \in DOMAIN field : t \o Pattern(field[i]) \in Seq(U)
  BY <1>1, Joined
<1>3. PICK g : /\ g[0] = <<>> /\ Rendered(field) = g[n]
               /\ \A k \in 1..n : g[k] = g[k - 1] \o Pattern(field[k])
  <2>1. <<>> \in Seq(U)
    OBVIOUS
  <2>2. QED BY <1>1, <1>2, <2>1, FoldRendered
<1> HIDE DEF n
<1> DEFINE T == {m \in 0..n : /\ g[m] \in Seq(U)
                              /\ \A k \in 1..m : /\ g[k - 1] \in Seq(U)
                                                 /\ At(g[m], Len(g[k - 1]), Pattern(field[k]))}
<1>4. 0 \in T
  <2>1. g[0] \in Seq(U)
    BY <1>3
  <2>2. 0 \in 0..n /\ \A k \in 1..0 : FALSE
    BY <1>1
  <2>3. QED BY <2>1, <2>2
<1>5. ASSUME NEW m \in 1..n, m - 1 \in T PROVE m \in T
  <2>1. g[m - 1] \in Seq(U) /\ Pattern(field[m]) \in Seq(U)
    BY <1>1, <1>5
  <2>2. g[m] = g[m - 1] \o Pattern(field[m])
    BY <1>3
  <2>3. g[m] \in Seq(U)
    BY <2>1, <2>2, Joined
  <2>4. ASSUME NEW k \in 1..m
        PROVE  g[k - 1] \in Seq(U) /\ At(g[m], Len(g[k - 1]), Pattern(field[k]))
    <3>1. CASE k = m
      <4>1. At(g[m - 1] \o Pattern(field[m]), Len(g[m - 1]), Pattern(field[m]))
        BY <2>1, AtEnd
      <4>2. QED BY <2>1, <2>2, <3>1, <4>1
    <3>2. CASE k # m
      <4>1. k \in 1..(m - 1) /\ k \in 1..n
        BY <1>1, <3>2
      <4>2. g[k - 1] \in Seq(U) /\ At(g[m - 1], Len(g[k - 1]), Pattern(field[k]))
        BY <1>5, <4>1
      <4>3. Len(g[k - 1]) \in Nat /\ Pattern(field[k]) \in Seq(U)
        BY <1>1, <4>1, <4>2
      <4>4. At(g[m - 1] \o Pattern(field[m]), Len(g[k - 1]), Pattern(field[k]))
        BY <2>1, <4>2, <4>3, AtLonger
      <4>5. QED BY <2>2, <4>2, <4>4
    <3>3. QED BY <3>1, <3>2
  <2>5. m \in 0..n
    BY <1>1
  <2>6. QED BY <2>3, <2>4, <2>5
<1>6. \A m \in 0..n : m \in T
  <2> HIDE DEF T
  <2>1. QED BY <1>1, <1>4, <1>5, UpTo
<1>7. \A k \in 0..n : g[k] \in Seq(U)
  BY <1>6
<1>8. ASSUME NEW k \in 1..n
      PROVE  /\ Len(g[k]) = Len(g[k - 1]) + Len(Pattern(field[k]))
             /\ At(Rendered(field), Len(g[k - 1]), Pattern(field[k]))
  <2>1. k - 1 \in 0..n /\ n \in 0..n
    BY <1>1
  <2>2. g[k - 1] \in Seq(U) /\ Pattern(field[k]) \in Seq(U)
    BY <1>1, <1>7, <2>1
  <2>3. Len(g[k - 1] \o Pattern(field[k])) = Len(g[k - 1]) + Len(Pattern(field[k]))
    BY <2>2, Joined
  <2>4. At(g[n], Len(g[k - 1]), Pattern(field[k]))
    BY <1>6, <2>1
  <2>5. QED BY <1>3, <2>3, <2>4
<1> HIDE DEF T
<1>9. QED BY <1>3, <1>7, <1>8 DEF n

\* Replacing p by v in a field replaces the pieces that are p, when p is read in no other.
LEMMA ReplacedField ==
  ASSUME NEW U, Signs(U), NEW field \in Seq(Pieces(U)), NEW next \in Seq(Pieces(U)),
         Len(next) = Len(field), NEW p \in Seq(U), Len(p) > 0, NEW v \in Seq(U),
         \A k \in 1..Len(field) :
           \/ Pattern(field[k]) = p /\ Pattern(next[k]) = v
           \/ /\ next[k] = field[k]
              /\ \A t, o : o \in Nat /\ At(t, o, Pattern(field[k])) =>
                          \A j \in 1..Len(Pattern(field[k])) : ~At(t, o + j - 1, p)
  PROVE  ReplaceBytes(Rendered(field), p, v) = Rendered(next)
<1> DEFINE n == Len(field)
           t == Rendered(field)
<1>1. PICK g : /\ g[0] = <<>> /\ t = g[n]
               /\ \A k \in 0..n : g[k] \in Seq(U)
               /\ \A k \in 1..n : /\ Len(g[k]) = Len(g[k - 1]) + Len(Pattern(field[k]))
                                  /\ At(t, Len(g[k - 1]), Pattern(field[k]))
  BY Parts
<1>2. PICK h : /\ h[0] = <<>> /\ Rendered(next) = h[n]
               /\ \A k \in 0..n : h[k] \in Seq(U)
               /\ \A k \in 1..n : h[k] = h[k - 1] \o Pattern(next[k])
  <2>1. PICK h : /\ h[0] = <<>> /\ Rendered(next) = h[Len(next)]
                 /\ \A k \in 0..Len(next) : h[k] \in Seq(U)
                 /\ \A k \in 1..Len(next) :
                      /\ h[k] = h[k - 1] \o Pattern(next[k])
                      /\ Len(h[k]) = Len(h[k - 1]) + Len(Pattern(next[k]))
                      /\ At(Rendered(next), Len(h[k - 1]), Pattern(next[k]))
    BY Parts
  <2>2. QED BY <2>1
<1>3. n \in Nat /\ Len(p) \in Nat /\ n \in 0..n /\ 0 \in 0..n
  OBVIOUS
<1>4. t \in Seq(U) /\ Len(t) \in Nat
  <2> HIDE DEF t
  <2>1. QED BY <1>1, <1>3
<1> HIDE DEF t, n
<1>5. PICK f : Scans(f, t, p, v, U) /\ ReplaceBytes(t, p, v) = f[1]
  BY <1>4, ReplacedBytes
<1>6. ASSUME NEW o \in Nat, o <= Len(t) PROVE f[o + 1] \in Seq(U)
  <2>1. o + 1 \in 1..(Len(t) + Len(p))
    BY <1>3, <1>4, <1>6
  <2>2. f \in [1..(Len(t) + Len(p)) -> Seq(U)]
    BY <1>5 DEF Scans
  <2>3. QED BY <2>1, <2>2
<1> DEFINE T == {k \in 0..n : f[1] = h[k] \o f[Len(g[k]) + 1]}
<1>7. 0 \in T
  <2>1. Len(g[0]) = 0 /\ f[0 + 1] \in Seq(U) /\ 0 + 1 = 1
    BY <1>1, <1>4, <1>6
  <2>2. <<>> \o f[1] = f[1]
    BY <2>1
  <2>3. Len(g[0]) + 1 = 1
    BY <2>1
  <2>4. QED BY <1>2, <1>3, <2>2, <2>3
<1>8. ASSUME NEW k \in 1..n, k - 1 \in T PROVE k \in T
  <2> DEFINE q == Pattern(field[k])
             w == Pattern(next[k])
             o == Len(g[k - 1])
             r == f[Len(g[k]) + 1]
  <2>1. k - 1 \in 0..n /\ k \in 0..n
    BY <1>3
  <2>2. field[k] \in Pieces(U) /\ next[k] \in Pieces(U)
    BY DEF n
  <2>3. q \in Seq(U) /\ w \in Seq(U) /\ Len(q) \in Nat
    BY <2>2, PieceType
  <2>4. o \in Nat /\ Len(g[k]) = o + Len(q) /\ At(t, o, q) /\ o + Len(q) <= Len(t)
    <3>1. g[k - 1] \in Seq(U) /\ Len(g[k]) = o + Len(q) /\ At(t, o, q)
      BY <1>1, <2>1
    <3>2. o \in Nat
      BY <3>1
    <3> HIDE DEF o, q
    <3>3. QED BY <3>1, <3>2 DEF At
  <2>5. r \in Seq(U)
    <3>1. Len(g[k]) \in Nat /\ Len(g[k]) <= Len(t)
      <4> HIDE DEF o, q
      <4>1. QED BY <1>4, <2>3, <2>4
    <3>2. QED BY <1>6, <3>1
  <2>6. f[1] = h[k - 1] \o f[o + 1]
    BY <1>8
  <2>7. f[o + 1] = w \o r
    <3>1. CASE q = p /\ w = v
      <4>1. o + 1 \in 1..(Len(t) + Len(p)) /\ ~(o + 1 > Len(t)) /\ (o + 1) - 1 = o
        BY <1>3, <1>4, <2>4, <3>1
      <4>2. f[o + 1] = v \o f[(o + 1) + Len(p)]
        BY <1>5, <2>4, <3>1, <4>1 DEF Scans
      <4>3. (o + 1) + Len(p) = Len(g[k]) + 1
        BY <1>3, <2>4, <3>1
      <4>4. QED BY <3>1, <4>2, <4>3
    <3>2. CASE next[k] = field[k] /\ \A j \in 1..Len(q) : ~At(t, o + j - 1, p)
      <4> HIDE DEF o, q
      <4>1. f[o + 1] = q \o f[o + Len(q) + 1]
        BY <1>4, <1>5, <2>3, <2>4, <3>2, Copied
      <4>2. QED BY <2>4, <3>2, <4>1 DEF q
    <3>3. (q = p /\ w = v) \/ (next[k] = field[k] /\ \A j \in 1..Len(q) : ~At(t, o + j - 1, p))
      BY <2>4 DEF n
    <3>4. QED BY <3>1, <3>2, <3>3
  <2>8. h[k - 1] \in Seq(U) /\ h[k] = h[k - 1] \o w
    BY <1>2, <2>1
  <2> HIDE DEF w, r
  <2>9. h[k - 1] \o (w \o r) = (h[k - 1] \o w) \o r
    <3>1. w \in Seq(U) /\ r \in Seq(U) /\ h[k - 1] \in Seq(U)
      BY <2>3, <2>5, <2>8
    <3>2. PICK x \in Seq(U), y \in Seq(U), z \in Seq(U) : x = h[k - 1] /\ y = w /\ z = r
      BY <3>1
    <3>3. x \o (y \o z) = (x \o y) \o z
      BY SMTT(60)
    <3>4. QED BY <3>2, <3>3
  <2>10. f[1] = h[k] \o r
    BY <2>6, <2>7, <2>8, <2>9
  <2>11. QED BY <2>1, <2>10 DEF r
<1>9. n \in T
  <2> HIDE DEF T
  <2>1. QED BY <1>3, <1>7, <1>8, UpTo
<1>10. f[Len(t) + 1] = <<>>
  <2>1. Len(t) + 1 \in 1..(Len(t) + Len(p)) /\ Len(t) + 1 > Len(t)
    BY <1>3, <1>4
  <2>2. QED BY <1>5, <2>1 DEF Scans
<1>11. h[n] \in Seq(U) /\ h[n] \o <<>> = h[n]
  BY <1>2, <1>3
<1>12. f[1] = h[n] \o f[Len(t) + 1]
  BY <1>1, <1>9
<1>13. QED BY <1>2, <1>5, <1>10, <1>11, <1>12 DEF t

-----------------------------------------------------------------------------
(* Expanding variables *)

\* The field with the references to keys K replaced by the values of variables
Substituted(field, variables, K) ==
    [i \in 1..Len(field) |-> IF field[i].ref /\ field[i].text \in K
                              THEN Text(variables[field[i].text]) ELSE field[i]]

LEMMA PieceCases ==
  ASSUME NEW U, NEW piece \in Pieces(U)
  PROVE  \/ ~piece.ref /\ \E t \in Plain(U) : piece = Text(t)
         \/ piece.ref /\ piece.text \in Keys(U) /\ piece = Braced(piece.text)
BY DEF Pieces, Text, Braced

LEMMA SubstitutedType ==
  ASSUME NEW U, NEW field \in Seq(Pieces(U)), NEW K, NEW variables,
         \A key \in K : variables[key] \in Plain(U)
  PROVE  /\ Substituted(field, variables, K) \in Seq(Pieces(U))
         /\ Len(Substituted(field, variables, K)) = Len(field)
         /\ DOMAIN Substituted(field, variables, K) = 1..Len(field)
<1> DEFINE next == Substituted(field, variables, K)
<1>1. DOMAIN next = 1..Len(field) /\ Len(field) \in Nat
  BY DEF Substituted
<1>2. \A i \in 1..Len(field) : next[i] \in Pieces(U)
  BY DEF Substituted, Pieces
<1>3. next = [i \in 1..Len(field) |-> next[i]]
  BY DEF Substituted
<1> HIDE DEF next
<1>4. QED BY <1>1, <1>2, <1>3 DEF next

\* Expanding one variable replaces the references to its key, and nothing else.
LEMMA ExpandedOnce ==
  ASSUME NEW U, Signs(U), NEW field \in Seq(Pieces(U)), NEW key \in Keys(U), NEW v \in Plain(U),
         NEW next \in Seq(Pieces(U)), Len(next) = Len(field),
         \A i \in 1..Len(field) : next[i] = IF field[i] = Braced(key) THEN Text(v) ELSE field[i]
  PROVE  Expand(Rendered(field), key, v) = Rendered(next)
<1>1. key \in Seq(U) /\ Len(key) \in Nat /\ v \in Seq(U)
  BY DEF Keys, Plain
<1>2. PICK r \in Seq(U) : r = Pattern(Ref(key)) /\ Len(r) > 0
  <2>1. PICK r : r = Pattern(Ref(key))
    OBVIOUS
  <2>2. r \in Seq(U) /\ Len(r) = Len(key) + 1
    BY <1>1, <2>1, RefPattern
  <2>3. QED BY <1>1, <2>1, <2>2
<1>3. PICK q \in Seq(U) : q = Pattern(Braced(key)) /\ Len(q) > 0
  <2>1. PICK q : q = Pattern(Braced(key))
    OBVIOUS
  <2>2. q \in Seq(U) /\ Len(q) = Len(key) + 3
    BY <1>1, <2>1, BracedPattern
  <2>3. QED BY <1>1, <2>1, <2>2
<1>4. \A k \in 1..Len(field) : field[k] \in Pieces(U)
  OBVIOUS
<1>5. ReplaceBytes(Rendered(field), r, v) = Rendered(field)
  <2>1. \A k \in 1..Len(field) : \A t, o :
          o \in Nat /\ At(t, o, Pattern(field[k])) =>
            \A j \in 1..Len(Pattern(field[k])) : ~At(t, o + j - 1, r)
    BY <1>2, <1>4, NotRead
  <2>2. QED BY <1>1, <1>2, <2>1, ReplacedField
<1>6. ReplaceBytes(Rendered(field), q, v) = Rendered(next)
  <2>1. \A k \in 1..Len(field) : \A t, o :
          field[k] # Braced(key) /\ o \in Nat /\ At(t, o, Pattern(field[k])) =>
            \A j \in 1..Len(Pattern(field[k])) : ~At(t, o + j - 1, q)
    BY <1>3, <1>4, NotRead
  <2>2. Pattern(Text(v)) = v
    BY TextPattern
  <2>3. ASSUME NEW k \in 1..Len(field)
        PROVE  \/ Pattern(field[k]) = q /\ Pattern(next[k]) = v
               \/ /\ next[k] = field[k]
                  /\ \A t, o : o \in Nat /\ At(t, o, Pattern(field[k])) =>
                              \A j \in 1..Len(Pattern(field[k])) : ~At(t, o + j - 1, q)
    <3>1. CASE field[k] = Braced(key)
      BY <1>3, <2>2, <3>1
    <3>2. CASE field[k] # Braced(key)
      BY <2>1, <3>2
    <3>3. QED BY <3>1, <3>2
  <2>4. QED BY <1>1, <1>3, <2>3, ReplacedField
<1>7. QED BY <1>2, <1>3, <1>5, <1>6 DEF Expand

\* In no order of the variables is anything but the references replaced.
LEMMA ExpandedAll ==
  ASSUME NEW U, Signs(U), NEW field \in Seq(Pieces(U)), NEW variables,
         IsFiniteSet(DOMAIN variables), DOMAIN variables \subseteq Keys(U),
         \A key \in DOMAIN variables : variables[key] \in Plain(U),
         NEW order \in SetToSeqs(DOMAIN variables)
  PROVE  ExpandVariables(field, order, variables) =
           Rendered(Substituted(field, variables, DOMAIN variables))
<1> DEFINE K == DOMAIN variables
           n == Cardinality(K)
           Sub(k) == Substituted(field, variables, {order[i] : i \in 1..k})
           S == {Rendered(f) : f \in Seq(Pieces(U))}
<1>1. n \in Nat
  BY FS_CardinalityType
<1>2. order \in [1..n -> K] /\ \A i, j \in 1..n : i # j => order[i] # order[j]
  BY DEF SetToSeqs
<1>3. K = {order[i] : i \in 1..n}
  <2>1. order \in Injection(1..n, K)
    BY <1>2 DEF Injection, IsInjective
  <2>2. Cardinality(1..n) = n /\ IsFiniteSet(1..n)
    BY <1>1, FS_Interval
  <2>3. order \in Surjection(1..n, K)
    BY <2>1, <2>2, FS_Injection
  <2>4. \A k \in K : \E i \in 1..n : order[i] = k
    BY <2>3 DEF Surjection
  <2>5. QED BY <1>2, <2>4, ZenonT(60)
<1> HIDE DEF n
<1>4. ASSUME NEW f \in Seq(Pieces(U)), NEW k \in 1..n
      PROVE  /\ Expand(Rendered(f), order[k], variables[order[k]]) =
                  Rendered(Substituted(f, variables, {order[k]}))
             /\ Substituted(f, variables, {order[k]}) \in Seq(Pieces(U))
  <2>1. order[k] \in Keys(U) /\ variables[order[k]] \in Plain(U)
    BY <1>2
  <2>2. PICK next : next = Substituted(f, variables, {order[k]})
    OBVIOUS
  <2>3. next \in Seq(Pieces(U)) /\ Len(next) = Len(f)
    BY <2>1, <2>2, SubstitutedType
  <2>4. ASSUME NEW i \in 1..Len(f)
        PROVE  next[i] = IF f[i] = Braced(order[k]) THEN Text(variables[order[k]]) ELSE f[i]
    <3>1. f[i] \in Pieces(U)
      OBVIOUS
    <3>2. f[i].ref /\ f[i].text = order[k] <=> f[i] = Braced(order[k])
      <4>1. Braced(order[k]).ref /\ Braced(order[k]).text = order[k]
        BY DEF Braced
      <4>2. QED BY <3>1, <4>1, PieceCases
    <3>3. QED BY <2>2, <3>2 DEF Substituted
  <2>5. PICK key \in Keys(U), v \in Plain(U) : key = order[k] /\ v = variables[order[k]]
    BY <2>1
  <2>6. \A i \in 1..Len(f) : next[i] = IF f[i] = Braced(key) THEN Text(v) ELSE f[i]
    BY <2>4, <2>5
  <2>7. Expand(Rendered(f), key, v) = Rendered(next)
    BY <2>3, <2>6, ExpandedOnce
  <2>8. QED BY <2>2, <2>3, <2>5, <2>7
<1>5. PICK g : Texts(g, n, field, order, variables)
  <2>1. Rendered(field) \in S
    OBVIOUS
  <2>2. \A t \in S : \A i \in 1..n : Expand(t, order[i], variables[order[i]]) \in S
    BY <1>4
  <2>3. DOMAIN order = 1..n
    BY <1>2
  <2> HIDE DEF S
  <2>4. QED BY <1>1, <2>1, <2>2, <2>3, FoldExpanded
<1>6. ASSUME NEW k \in 0..n
      PROVE  /\ Sub(k) \in Seq(Pieces(U)) /\ Len(Sub(k)) = Len(field)
             /\ DOMAIN Sub(k) = 1..Len(field)
  <2>1. {order[i] : i \in 1..k} \subseteq K
    BY <1>1, <1>2
  <2>2. \A key \in {order[i] : i \in 1..k} : variables[key] \in Plain(U)
    BY <2>1
  <2>3. QED BY <2>2, SubstitutedType
<1>7. ASSUME NEW k \in 1..n
      PROVE  Substituted(Sub(k - 1), variables, {order[k]}) = Sub(k)
  <2>1. k - 1 \in 0..n /\ k \in 0..n
    BY <1>1
  <2>2. {order[i] : i \in 1..k} = {order[i] : i \in 1..(k - 1)} \cup {order[k]}
    <3>1. 1..k = 1..(k - 1) \cup {k}
      BY <1>1
    <3>2. QED BY <3>1
  <2>3. ASSUME NEW i \in 1..Len(field)
        PROVE  Substituted(Sub(k - 1), variables, {order[k]})[i] = Sub(k)[i]
    <3>1. Len(Sub(k - 1)) = Len(field)
      BY <1>6, <2>1
    <3>2. ~Text(variables[field[i].text]).ref
      BY TextPattern
    <3>3. QED BY <2>2, <3>1, <3>2 DEF Substituted
  <2>4. Len(Sub(k - 1)) = Len(field)
    BY <1>6, <2>1
  <2>5. /\ Sub(k) = [i \in 1..Len(field) |-> Sub(k)[i]]
        /\ Substituted(Sub(k - 1), variables, {order[k]})
             = [i \in 1..Len(field) |-> Substituted(Sub(k - 1), variables, {order[k]})[i]]
    BY <2>4 DEF Substituted
  <2> HIDE DEF Sub
  <2>6. QED BY <2>3, <2>5
<1> DEFINE T == {k \in 0..n : g[k] = Rendered(Sub(k))}
<1>8. 0 \in T
  <2>1. Sub(0) = [i \in 1..Len(field) |-> field[i]]
    <3>1. \A key : key \notin {order[i] : i \in 1..0}
      OBVIOUS
    <3>2. QED BY <3>1 DEF Substituted
  <2>2. Sub(0) = field
    BY <2>1
  <2>3. QED BY <1>1, <1>5, <2>2 DEF Texts
<1>9. ASSUME NEW k \in 1..n, k - 1 \in T PROVE k \in T
  <2>1. k - 1 \in 0..n /\ k \in 0..n
    BY <1>1
  <2>2. g[k - 1] = Rendered(Sub(k - 1)) /\ Sub(k - 1) \in Seq(Pieces(U))
    BY <1>6, <1>9, <2>1
  <2> HIDE DEF Sub
  <2>3. g[k] = Rendered(Substituted(Sub(k - 1), variables, {order[k]}))
    BY <1>4, <1>5, <2>2 DEF Texts
  <2>4. QED BY <1>7, <2>1, <2>3
<1>10. n \in T
  <2> HIDE DEF T
  <2>1. n \in 0..n
    BY <1>1
  <2>2. QED BY <1>1, <1>8, <1>9, <2>1, UpTo
<1>11. QED BY <1>3, <1>5, <1>10 DEF Texts

-----------------------------------------------------------------------------
(* Variables of secrets *)

\* The secrets that have a key
Having(given, key) == {i \in DOMAIN given : key \in DOMAIN given[i]}

\* Of the secrets that have a key, the last one is heard.
LEMMA Collected ==
  ASSUME NEW U, NEW given, DOMAIN given = 1..Len(given), Len(given) \in Nat,
         \A i \in DOMAIN given : /\ given[i] \in [DOMAIN given[i] -> Plain(U)]
                                /\ IsFiniteSet(DOMAIN given[i]) /\ DOMAIN given[i] \subseteq Keys(U)
  PROVE  /\ IsFiniteSet(DOMAIN Collect(given)) /\ DOMAIN Collect(given) \subseteq Keys(U)
         /\ \A key \in DOMAIN Collect(given) : Collect(given)[key] \in Plain(U)
         /\ \A key : key \in DOMAIN Collect(given) <=> Having(given, key) # {}
         /\ \A key \in DOMAIN Collect(given) :
              Collect(given)[key] = given[Max(Having(given, key))][key]
<1> DEFINE n == Len(given)
           S == UNION {[K -> Plain(U)] : K \in SUBSET Keys(U)}
<1>1. <<>> \in S /\ DOMAIN <<>> = {}
  <2>1. <<>> \in [{} -> Plain(U)] /\ {} \in SUBSET Keys(U)
    OBVIOUS
  <2>2. QED BY <2>1
<1>2. ASSUME NEW m \in S, NEW i \in 1..n
      PROVE  /\ Overridden(m, given[i]) \in S
             /\ DOMAIN Overridden(m, given[i]) = DOMAIN given[i] \cup DOMAIN m
             /\ \A key \in DOMAIN given[i] : Overridden(m, given[i])[key] = given[i][key]
             /\ \A key \in DOMAIN m \ DOMAIN given[i] : Overridden(m, given[i])[key] = m[key]
  <2>1. PICK K \in SUBSET Keys(U) : m \in [K -> Plain(U)]
    OBVIOUS
  <2>2. Overridden(m, given[i]) \in [DOMAIN given[i] \cup K -> Plain(U)]
    BY <2>1 DEF Overridden
  <2>3. DOMAIN given[i] \cup K \in SUBSET Keys(U)
    OBVIOUS
  <2>4. Overridden(m, given[i]) \in S
    BY <2>2, <2>3
  <2>5. QED BY <2>4 DEF Overridden
<1>3. PICK g : /\ g[0] = <<>> /\ Collect(given) = g[n]
               /\ \A k \in 1..n : g[k] = Overridden(g[k - 1], given[k])
  <2>1. \A m \in S : \A i \in DOMAIN given : Overridden(m, given[i]) \in S
    BY <1>2
  <2> HIDE DEF S
  <2>2. QED BY <1>1, <2>1, FoldCollected
<1> HIDE DEF n
<1> DEFINE T == {k \in 0..n :
             /\ g[k] \in S /\ IsFiniteSet(DOMAIN g[k])
             /\ \A i \in 1..k : DOMAIN given[i] \subseteq DOMAIN g[k]
             /\ \A key \in DOMAIN g[k] :
                  \E i \in 1..k : /\ key \in DOMAIN given[i] /\ g[k][key] = given[i][key]
                                 /\ \A j \in 1..k : key \in DOMAIN given[j] => j <= i}
<1>4. n \in Nat /\ DOMAIN given = 1..n
  BY DEF n
<1>5. 0 \in T
  <2>1. 0 \in 0..n /\ (\A i \in 1..0 : FALSE) /\ IsFiniteSet({})
    BY <1>4, FS_EmptySet
  <2> HIDE DEF S
  <2>2. QED BY <1>1, <1>3, <2>1
<1>6. ASSUME NEW k \in 1..n, k - 1 \in T PROVE k \in T
  <2>1. k \in 0..n /\ k \in 1..k /\ \A i \in 1..k : i = k \/ i \in 1..(k - 1)
    BY <1>4
  <2>2. g[k - 1] \in S /\ g[k] = Overridden(g[k - 1], given[k])
    BY <1>3, <1>6
  <2>3. /\ g[k] \in S /\ DOMAIN g[k] = DOMAIN given[k] \cup DOMAIN g[k - 1]
        /\ \A key \in DOMAIN given[k] : g[k][key] = given[k][key]
        /\ \A key \in DOMAIN g[k - 1] \ DOMAIN given[k] : g[k][key] = g[k - 1][key]
    <3> HIDE DEF S
    <3>1. PICK m \in S : m = g[k - 1]
      BY <2>2
    <3>2. /\ Overridden(m, given[k]) \in S
          /\ DOMAIN Overridden(m, given[k]) = DOMAIN given[k] \cup DOMAIN m
          /\ \A key \in DOMAIN given[k] : Overridden(m, given[k])[key] = given[k][key]
          /\ \A key \in DOMAIN m \ DOMAIN given[k] : Overridden(m, given[k])[key] = m[key]
      BY <1>2
    <3>3. QED BY <2>2, <3>1, <3>2
  <2>4. IsFiniteSet(DOMAIN g[k])
    <3>1. IsFiniteSet(DOMAIN given[k]) /\ IsFiniteSet(DOMAIN g[k - 1])
      BY <1>4, <1>6
    <3>2. IsFiniteSet(DOMAIN given[k] \cup DOMAIN g[k - 1])
      BY <3>1, FS_Union
    <3>3. QED BY <2>3, <3>2
  <2>5. \A i \in 1..k : DOMAIN given[i] \subseteq DOMAIN g[k]
    BY <1>6, <2>1, <2>3
  <2>6. ASSUME NEW key \in DOMAIN g[k]
        PROVE  \E i \in 1..k : /\ key \in DOMAIN given[i] /\ g[k][key] = given[i][key]
                              /\ \A j \in 1..k : key \in DOMAIN given[j] => j <= i
    <3>1. CASE key \in DOMAIN given[k]
      <4>1. \A j \in 1..k : j <= k
        BY <1>4
      <4>2. QED BY <2>1, <2>3, <3>1, <4>1
    <3>2. CASE key \notin DOMAIN given[k]
      <4>1. key \in DOMAIN g[k - 1] /\ g[k][key] = g[k - 1][key]
        BY <2>3, <3>2
      <4>2. PICK i \in 1..(k - 1) :
              /\ key \in DOMAIN given[i] /\ g[k - 1][key] = given[i][key]
              /\ \A j \in 1..(k - 1) : key \in DOMAIN given[j] => j <= i
        BY <1>6, <4>1
      <4>3. i \in 1..k
        BY <1>4
      <4>4. \A j \in 1..k : key \in DOMAIN given[j] => j <= i
        BY <2>1, <3>2, <4>2
      <4>5. QED BY <4>1, <4>2, <4>3, <4>4
    <3>3. QED BY <3>1, <3>2
  <2> HIDE DEF S
  <2>7. QED BY <2>1, <2>3, <2>4, <2>5, <2>6
<1>7. n \in T
  <2> HIDE DEF T
  <2>1. n \in 0..n
    BY <1>4
  <2>2. QED BY <1>4, <1>5, <1>6, <2>1, UpTo
<1>8. Collect(given) = g[n]
  BY <1>3
<1>9. /\ IsFiniteSet(DOMAIN g[n]) /\ DOMAIN g[n] \subseteq Keys(U)
      /\ \A key \in DOMAIN g[n] : g[n][key] \in Plain(U)
  BY <1>7
<1>10. ASSUME NEW key PROVE Having(given, key) # {} => key \in DOMAIN g[n]
  BY <1>4, <1>7 DEF Having
<1>11. ASSUME NEW key \in DOMAIN g[n]
       PROVE  Having(given, key) # {} /\ g[n][key] = given[Max(Having(given, key))][key]
  <2> DEFINE having == Having(given, key)
  <2>1. PICK i \in 1..n :
          /\ key \in DOMAIN given[i] /\ g[n][key] = given[i][key]
          /\ \A j \in 1..n : key \in DOMAIN given[j] => j <= i
    BY <1>7
  <2>2. i \in having /\ having \in SUBSET (1..n) /\ having # {}
    BY <1>4, <2>1 DEF Having
  <2>3. Max(having) \in having /\ i <= Max(having)
    BY <1>4, <2>2, MaxOf
  <2>4. Max(having) <= i /\ Max(having) \in 1..n
    BY <1>4, <2>1, <2>3 DEF Having
  <2>5. Max(having) = i
    BY <1>4, <2>3, <2>4
  <2>6. QED BY <2>1, <2>2, <2>5
<1>12. \A key : key \in DOMAIN g[n] <=> Having(given, key) # {}
  BY <1>10, <1>11
<1> HIDE DEF T
<1>13. QED BY <1>8, <1>9, <1>11, <1>12

-----------------------------------------------------------------------------
(* What a resource is given *)

\* Whatever order ExpandVariables takes the variables in, a field becomes what it means:
\* every reference stands for what the last secret that has its key says.
THEOREM ExpandsAsMeant ==
  ASSUME NEW U, Signs(U), NEW field \in Seq(Pieces(U)),
         NEW given, DOMAIN given = 1..Len(given), Len(given) \in Nat,
         \A i \in DOMAIN given : /\ given[i] \in [DOMAIN given[i] -> Plain(U)]
                                /\ IsFiniteSet(DOMAIN given[i]) /\ DOMAIN given[i] \subseteq Keys(U),
         NEW order \in SetToSeqs(DOMAIN Collect(given))
  PROVE  ExpandVariables(field, order, Collect(given)) = Meant(field, given)
<1>1. PICK variables : variables = Collect(given)
  OBVIOUS
<1>2. /\ IsFiniteSet(DOMAIN variables) /\ DOMAIN variables \subseteq Keys(U)
      /\ \A key \in DOMAIN variables : variables[key] \in Plain(U)
      /\ \A key : key \in DOMAIN variables <=> Having(given, key) # {}
      /\ \A key \in DOMAIN variables : variables[key] = given[Max(Having(given, key))][key]
  BY <1>1, Collected
<1>3. ExpandVariables(field, order, variables) =
        Rendered(Substituted(field, variables, DOMAIN variables))
  BY <1>1, <1>2, ExpandedAll
<1> DEFINE Value(key) == given[Max(Having(given, key))][key]
           meant == [i \in DOMAIN field |->
                       IF field[i].ref /\ Having(given, field[i].text) # {}
                       THEN Text(Value(field[i].text)) ELSE field[i]]
<1>4. Meant(field, given) = Rendered(meant)
  BY DEF Meant, Having
<1>5. Substituted(field, variables, DOMAIN variables) = meant
  <2>1. DOMAIN field = 1..Len(field)
    OBVIOUS
  <2>2. \A key : key \in DOMAIN variables => variables[key] = Value(key)
    BY <1>2
  <2> HIDE DEF Value
  <2>3. ASSUME NEW i \in 1..Len(field)
        PROVE  (IF field[i].ref /\ field[i].text \in DOMAIN variables
                THEN Text(variables[field[i].text]) ELSE field[i])
             = (IF field[i].ref /\ Having(given, field[i].text) # {}
                THEN Text(Value(field[i].text)) ELSE field[i])
    BY <1>2, <2>2
  <2>4. QED BY <2>1, <2>3 DEF Substituted
<1> HIDE DEF meant
<1>6. QED BY <1>1, <1>3, <1>4, <1>5

\* What specifications and secrets hold: fields in which every reference has braces, and
\* values that do not bring references of their own.
PlainContent(U) ==
    /\ Signs(U)
    /\ \A s \in Specs : s.user \in Seq(Pieces(U)) /\ s.url \in Seq(Pieces(U))
    /\ \A name \in SecretNames : \A data \in Secrets[name] \ {Absent} :
         /\ data \in [DOMAIN data -> Plain(U)]
         /\ IsFiniteSet(DOMAIN data) /\ DOMAIN data \subseteq Keys(U)

\* No two specifications have one hash.
HashTellsApart == \A s, t \in Specs : Hash(s) = Hash(t) => s = t

\* Secrets appear and stay as they are.
SecretsStay == \A step \in SecretSteps : step[2] = Absent

Ask(s) == DataSource(s, Meant(s.user, Given(s.secrets)), Meant(s.url, Given(s.secrets)))

\* The inductive invariant: unless a pass has done half of its work, what is in Grafana is
\* what a specification with the hash in the status asks for, whatever the specification
\* has become since.
IInv ==
    /\ spec \in Specs /\ secrets \in AllSecrets /\ missed \in BOOLEAN
    /\ pushed # Absent /\ ~missed =>
         \E s \in Specs : /\ hash = Hash(s) /\ Absent \notin Range(Given(s.secrets))
                         /\ pushed = Ask(s)

LEMMA GivenType ==
  ASSUME NEW s \in Specs, secrets \in AllSecrets
  PROVE  LET given == Given(s.secrets)
         IN /\ DOMAIN given = 1..Len(given) /\ Len(given) \in Nat
            /\ \A i \in DOMAIN given : s.secrets[i] \in SecretNames /\ given[i] = secrets[s.secrets[i]]
            /\ \A i \in DOMAIN given : given[i] \in Secrets[s.secrets[i]]
            /\ Absent \notin Range(given) <=> \A i \in DOMAIN given : given[i] # Absent
<1> DEFINE given == Given(s.secrets)
           names == s.secrets
<1>1. names \in Seq(SecretNames)
  BY ContentAssumption DEF ContentAssumption
<1> HIDE DEF names
<1>2. given = [i \in 1..Len(names) |-> secrets[names[i]]] /\ Len(names) \in Nat
  BY <1>1 DEF Given, names
<1>3. Len(given) = Len(names) /\ DOMAIN given = 1..Len(names)
  BY <1>2
<1> HIDE DEF given
<1>4. \A i \in DOMAIN given : names[i] \in SecretNames /\ given[i] = secrets[names[i]]
  BY <1>1, <1>2, <1>3
<1>5. \A i \in DOMAIN given : given[i] \in Secrets[names[i]]
  BY <1>4 DEF AllSecrets
<1>6. Absent \notin Range(given) <=> \A i \in DOMAIN given : given[i] # Absent
  BY DEF Range
<1>7. QED BY <1>2, <1>3, <1>4, <1>5, <1>6 DEF given, names

LEMMA InitIInv == Init => IInv
BY DEF Init, IInv

LEMMA NextIInv ==
  ASSUME NEW U, PlainContent(U), HashTellsApart, SecretsStay
  PROVE  IInv /\ [Next]_vars => IInv'
<1> SUFFICES ASSUME IInv, [Next]_vars PROVE IInv'
  OBVIOUS
<1>1. CASE Push
  <2> DEFINE given == Given(spec.secrets)
             variables == Collect(given)
  <2>1. /\ Absent \notin Range(given) /\ missed' = (hash' # Hash(spec))
        /\ UNCHANGED <<spec, secrets>>
    BY <1>1 DEF Push
  <2>2. PICK order \in SetToSeqs(DOMAIN variables) :
          pushed' = DataSource(spec, ExpandVariables(spec.user, order, variables),
                                     ExpandVariables(spec.url, order, variables))
    BY <1>1 DEF Push
  <2>3. spec \in Specs /\ secrets \in AllSecrets
    BY DEF IInv
  <2>4. /\ DOMAIN given = 1..Len(given) /\ Len(given) \in Nat
        /\ \A i \in DOMAIN given : /\ given[i] \in [DOMAIN given[i] -> Plain(U)]
                                   /\ IsFiniteSet(DOMAIN given[i])
                                   /\ DOMAIN given[i] \subseteq Keys(U)
    <3>1. /\ DOMAIN given = 1..Len(given) /\ Len(given) \in Nat
          /\ \A i \in DOMAIN given : /\ spec.secrets[i] \in SecretNames
                                     /\ given[i] \in Secrets[spec.secrets[i]] \ {Absent}
      BY <2>1, <2>3, GivenType
    <3> HIDE DEF given
    <3>2. QED BY <3>1 DEF PlainContent
  <2>5. spec.user \in Seq(Pieces(U)) /\ spec.url \in Seq(Pieces(U)) /\ Signs(U)
    BY <2>3 DEF PlainContent
  <2>6. PICK g : g = given
    OBVIOUS
  <2>7. ASSUME NEW field \in Seq(Pieces(U))
        PROVE  ExpandVariables(field, order, Collect(g)) = Meant(field, g)
    <3> HIDE DEF given
    <3>1. QED BY <2>2, <2>4, <2>5, <2>6, ExpandsAsMeant
  <2>8. pushed' = Ask(spec)
    <3>1. PICK user \in Seq(Pieces(U)), url \in Seq(Pieces(U)) : user = spec.user /\ url = spec.url
      BY <2>5
    <3>2. /\ ExpandVariables(user, order, Collect(g)) = Meant(user, g)
          /\ ExpandVariables(url, order, Collect(g)) = Meant(url, g)
      BY <2>7
    <3>3. QED BY <2>2, <2>6, <3>1, <3>2 DEF Ask
  <2>9. Given(spec.secrets)' = Given(spec.secrets) /\ Ask(spec)' = Ask(spec)
    BY <2>1 DEF Given, Ask
  <2> HIDE DEF given
  <2>10. spec' \in Specs /\ secrets' \in AllSecrets
    BY <2>1, <2>3
  <2>11. /\ Absent \notin Range(Given(spec.secrets)') /\ pushed' = Ask(spec)'
         /\ missed' \in BOOLEAN /\ (~missed' => hash' = Hash(spec'))
    BY <2>1, <2>8, <2>9 DEF given
  <2>12. QED BY <2>1, <2>3, <2>10, <2>11 DEF IInv, Ask, Given
<1>2. CASE FailToPush
  <2>1. /\ UNCHANGED <<spec, secrets, pushed>> /\ missed' \in BOOLEAN
        /\ pushed' # Absent => missed'
    BY <1>2 DEF FailToPush, IInv
  <2>2. QED BY <2>1 DEF IInv
<1>3. CASE EditSpec
  BY <1>3, ContentAssumption DEF EditSpec, IInv, Ask, Given, ContentAssumption
<1>4. CASE EditSecret
  <2>1. PICK step \in SecretSteps : /\ secrets[step[1]] = step[2] /\ UNCHANGED <<spec, hash, pushed, missed>>
                                  /\ secrets' = [secrets EXCEPT ![step[1]] = step[3]]
    BY <1>4 DEF EditSecret
  <2>2. step[1] \in SecretNames /\ step[3] \in Secrets[step[1]] /\ secrets[step[1]] = Absent
    BY <2>1, ContentAssumption DEF ContentAssumption, SecretsStay
  <2>3. spec \in Specs /\ secrets \in AllSecrets /\ secrets' \in AllSecrets
    BY <2>1, <2>2 DEF IInv, AllSecrets
  <2>4. ASSUME NEW s \in Specs, Absent \notin Range(Given(s.secrets))
        PROVE  Given(s.secrets)' = Given(s.secrets)
    <3>1. \A i \in DOMAIN s.secrets : s.secrets[i] \in SecretNames /\ secrets[s.secrets[i]] # Absent
      BY <2>3, <2>4, GivenType DEF Given
    <3>2. \A i \in DOMAIN s.secrets : secrets'[s.secrets[i]] = secrets[s.secrets[i]]
      BY <2>1, <2>2, <2>3, <3>1 DEF AllSecrets
    <3>3. QED BY <3>2 DEF Given
  <2>5. ASSUME pushed' # Absent, ~missed'
        PROVE  \E s \in Specs : /\ hash' = Hash(s) /\ Absent \notin Range(Given(s.secrets)')
                               /\ pushed' = Ask(s)'
    <3>1. PICK s \in Specs : /\ hash = Hash(s) /\ Absent \notin Range(Given(s.secrets))
                            /\ pushed = Ask(s)
      BY <2>1, <2>5 DEF IInv
    <3>2. Given(s.secrets)' = Given(s.secrets)
      BY <2>4, <3>1
    <3>3. Ask(s)' = Ask(s)
      BY <3>2 DEF Ask
    <3>4. QED BY <2>1, <3>1, <3>2, <3>3
  <2>6. QED BY <2>1, <2>3, <2>5 DEF IInv
<1>5. CASE LoseDataSource
  BY <1>5 DEF LoseDataSource, IInv, Ask, Given
<1>6. CASE UNCHANGED vars
  BY <1>6 DEF vars, IInv, Ask, Given
<1>7. QED BY <1>1, <1>2, <1>3, <1>4, <1>5, <1>6 DEF Next

\* A data source that is there with the hash of the resource is what the resource asks for
\* with the secrets there are, for fields and lists of secrets of any length, in every
\* order of the variables and over every course of edits, losses and failures: unless the
\* last pass that had something to push and write did one without the other, as a pass
\* does that misses a secret (lines 205-219, 313-325).
THEOREM UnchangedMeansCurrent ==
  ASSUME NEW U, PlainContent(U), HashTellsApart, SecretsStay
  PROVE  Spec => []UnchangedIsCurrent
<1>1. IInv => UnchangedIsCurrent
  BY DEF IInv, UnchangedIsCurrent, Ask, HashTellsApart
<1>2. Init => IInv
  BY InitIInv
<1>3. IInv /\ [Next]_vars => IInv'
  BY NextIInv
<1>4. QED BY <1>1, <1>2, <1>3, PTL DEF Spec
=============================================================================
