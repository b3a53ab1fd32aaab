---------------------------- MODULE PluginsProofs ----------------------------
(***************************************************************************)
(* What the loops over lists of plugins compute, for lists of any length,  *)
(* and the theorems about Plugins that follow.                             *)
(***************************************************************************)
EXTENDS Plugins, FoldTheorems, FiniteSetTheorems, TLAPS

USE PluginsAssumption

-----------------------------------------------------------------------------
(* Folds *)

\* A fold runs through intermediate results g, one after each element.  This is said
\* once for each operator, for none of the provers knows operators as parameters.
Adds(g, base, seq) ==
    /\ g[0] = base /\ Added(base, seq) = g[Len(seq)]
    /\ \A k \in 1..Len(seq) : g[k] = Consolidated(g[k - 1], seq[k])

LEMMA FoldConsolidated ==
  ASSUME NEW seq, DOMAIN seq = 1..Len(seq), Len(seq) \in Nat, NEW S, NEW base \in S,
         \A l \in S : \A i \in DOMAIN seq : Consolidated(l, seq[i]) \in S
  PROVE  \E g : Adds(g, base, seq)
<1> DEFINE n == Len(seq)
           F(f) == [s \in SUBSET (1..n) |->
                      IF s = {} THEN base ELSE Consolidated(f[s \ {Max(s)}], seq[Max(s)])]
           h == CHOOSE f : f = F(f)
<1>1. Added(base, seq) = h[1..n]
  BY DEF Added, FoldLeft, MapThenFoldSet
<1>2. \E f : f = F(f)
  <2> DEFINE G == [x \in S \X (1..n) |-> Consolidated(x[1], seq[x[2]])]
  <2>1. G \in [S \X (1..n) -> S]
    OBVIOUS
  <2>2. \A l \in S, i \in 1..n : G[l, i] = Consolidated(l, seq[i])
    OBVIOUS
  <2>a. n \in Nat
    OBVIOUS
  <2> HIDE DEF G, n, F, h
  <2>3. PICK f : Folds(f, n, S, base, G)
    BY <2>1, <2>a, FoldExists
  <2>4. ASSUME NEW s \in SUBSET (1..n), s # {}
        PROVE  Max(s) \in 1..n /\ s \ {Max(s)} \in SUBSET (1..n)
    BY <2>4, MaxOf DEF n
  <2>5. ASSUME NEW s \in SUBSET (1..n)
        PROVE  f[s] = IF s = {} THEN base ELSE Consolidated(f[s \ {Max(s)}], seq[Max(s)])
    BY <2>2, <2>3, <2>4 DEF Folds
  <2>6. f = F(f)
    BY <2>3, <2>5 DEF F, Folds
  <2>7. QED BY <2>6
<1>3. h = F(h)
  <2> HIDE DEF F
  <2>1. QED BY <1>2
<1> DEFINE g == [k \in 0..n |-> h[1..k]]
<1>4. ASSUME NEW s \in SUBSET (1..n)
      PROVE  h[s] = IF s = {} THEN base ELSE Consolidated(h[s \ {Max(s)}], seq[Max(s)])
  <2> HIDE DEF h, n
  <2>1. QED BY <1>3
<1> HIDE DEF h
<1>5. g[0] = base
  <2>1. 1..0 = {} /\ {} \in SUBSET (1..n) /\ 0 \in 0..n
    OBVIOUS
  <2>2. h[{}] = base
    BY <1>4, <2>1
  <2>3. QED BY <2>1, <2>2
<1>6. ASSUME NEW k \in 1..n PROVE g[k] = Consolidated(g[k - 1], seq[k])
  <2>1. k \in 1..k /\ 1..k \in SUBSET (1..n) /\ k \in Nat
    OBVIOUS
  <2>2. Max(1..k) = k
    <3>1. 1..k \in SUBSET (1..k) /\ 1..k # {}
      BY <2>1
    <3>2. Max(1..k) \in 1..k /\ \A y \in 1..k : y <= Max(1..k)
      BY <2>1, <3>1, MaxOf
    <3>3. QED BY <2>1, <3>2
  <2>3. (1..k) \ {k} = 1..(k - 1)
    OBVIOUS
  <2>4. h[1..k] = Consolidated(h[1..(k - 1)], seq[k])
    BY <1>4, <2>1, <2>2, <2>3
  <2>5. QED BY <2>4
<1>7. Added(base, seq) = g[n]
  BY <1>1
<1> HIDE DEF g
<1>8. QED BY <1>5, <1>6, <1>7 DEF Adds

LEMMA FoldSanitized ==
  ASSUME NEW seq, DOMAIN seq = 1..Len(seq), Len(seq) \in Nat, NEW S, <<>> \in S,
         \A l \in S : \A i \in DOMAIN seq : Sanitized(l, seq[i]) \in S
  PROVE  \E g : /\ g[0] = <<>> /\ Sanitize(seq) = g[Len(seq)]
                /\ \A k \in 1..Len(seq) : g[k] = Sanitized(g[k - 1], seq[k])
<1> DEFINE n == Len(seq)
           F(f) == [s \in SUBSET (1..n) |->
                      IF s = {} THEN <<>> ELSE Sanitized(f[s \ {Max(s)}], seq[Max(s)])]
           h == CHOOSE f : f = F(f)
<1>1. Sanitize(seq) = h[1..n]
  BY DEF Sanitize, FoldLeft, MapThenFoldSet
<1>2. \E f : f = F(f)
  <2> DEFINE G == [x \in S \X (1..n) |-> Sanitized(x[1], seq[x[2]])]
  <2>1. G \in [S \X (1..n) -> S]
    OBVIOUS
  <2>2. \A l \in S, i \in 1..n : G[l, i] = Sanitized(l, seq[i])
    OBVIOUS
  <2>a. n \in Nat
    OBVIOUS
  <2> HIDE DEF G, n, F, h
  <2>b. PICK base \in S : base = <<>>
    OBVIOUS
  <2>3. PICK f : Folds(f, n, S, base, G)
    BY <2>1, <2>a, FoldExists
  <2>4. ASSUME NEW s \in SUBSET (1..n), s # {}
        PROVE  Max(s) \in 1..n /\ s \ {Max(s)} \in SUBSET (1..n)
    BY <2>4, MaxOf DEF n
  <2>5. ASSUME NEW s \in SUBSET (1..n)
        PROVE  f[s] = IF s = {} THEN <<>> ELSE Sanitized(f[s \ {Max(s)}], seq[Max(s)])
    BY <2>2, <2>3, <2>4, <2>b DEF Folds
  <2>6. f = F(f)
    BY <2>3, <2>5 DEF F, Folds
  <2>7. QED BY <2>6
<1>3. h = F(h)
  <2> HIDE DEF F
  <2>1. QED BY <1>2
<1> DEFINE g == [k \in 0..n |-> h[1..k]]
<1>4. ASSUME NEW s \in SUBSET (1..n)
      PROVE  h[s] = IF s = {} THEN <<>> ELSE Sanitized(h[s \ {Max(s)}], seq[Max(s)])
  <2> HIDE DEF h, n
  <2>1. QED BY <1>3
<1> HIDE DEF h
<1>5. g[0] = <<>>
  <2>1. 1..0 = {} /\ {} \in SUBSET (1..n) /\ 0 \in 0..n
    OBVIOUS
  <2>2. h[{}] = <<>>
    BY <1>4, <2>1
  <2>3. QED BY <2>1, <2>2
<1>6. ASSUME NEW k \in 1..n PROVE g[k] = Sanitized(g[k - 1], seq[k])
  <2>1. k \in 1..k /\ 1..k \in SUBSET (1..n) /\ k \in Nat
    OBVIOUS
  <2>2. Max(1..k) = k
    <3>1. 1..k \in SUBSET (1..k) /\ 1..k # {}
      BY <2>1
    <3>2. Max(1..k) \in 1..k /\ \A y \in 1..k : y <= Max(1..k)
      BY <2>1, <3>1, MaxOf
    <3>3. QED BY <2>1, <3>2
  <2>3. (1..k) \ {k} = 1..(k - 1)
    OBVIOUS
  <2>4. h[1..k] = Sanitized(h[1..(k - 1)], seq[k])
    BY <1>4, <2>1, <2>2, <2>3
  <2>5. QED BY <2>4
<1>7. Sanitize(seq) = g[n]
  BY <1>1
<1> HIDE DEF g
<1>8. QED BY <1>5, <1>6, <1>7

LEMMA FoldAdded ==
  ASSUME NEW seq, DOMAIN seq = 1..Len(seq), Len(seq) \in Nat, NEW S, <<>> \in S,
         \A l \in S : \A i \in DOMAIN seq : Added(l, seq[i]) \in S
  PROVE  \E g : /\ g[0] = <<>> /\ Consolidate(seq) = g[Len(seq)]
                /\ \A k \in 1..Len(seq) : g[k] = Added(g[k - 1], seq[k])
<1> DEFINE n == Len(seq)
           F(f) == [s \in SUBSET (1..n) |->
                      IF s = {} THEN <<>> ELSE Added(f[s \ {Max(s)}], seq[Max(s)])]
           h == CHOOSE f : f = F(f)
<1>1. Consolidate(seq) = h[1..n]
  BY DEF Consolidate, FoldLeft, MapThenFoldSet
<1>2. \E f : f = F(f)
  <2> DEFINE G == [x \in S \X (1..n) |-> Added(x[1], seq[x[2]])]
  <2>1. G \in [S \X (1..n) -> S]
    OBVIOUS
  <2>2. \A l \in S, i \in 1..n : G[l, i] = Added(l, seq[i])
    OBVIOUS
  <2>a. n \in Nat
    OBVIOUS
  <2> HIDE DEF G, n, F, h
  <2>b. PICK base \in S : base = <<>>
    OBVIOUS
  <2>3. PICK f : Folds(f, n, S, base, G)
    BY <2>1, <2>a, FoldExists
  <2>4. ASSUME NEW s \in SUBSET (1..n), s # {}
        PROVE  Max(s) \in 1..n /\ s \ {Max(s)} \in SUBSET (1..n)
    BY <2>4, MaxOf DEF n
  <2>5. ASSUME NEW s \in SUBSET (1..n)
        PROVE  f[s] = IF s = {} THEN <<>> ELSE Added(f[s \ {Max(s)}], seq[Max(s)])
    BY <2>2, <2>3, <2>4, <2>b DEF Folds
  <2>6. f = F(f)
    BY <2>3, <2>5 DEF F, Folds
  <2>7. QED BY <2>6
<1>3. h = F(h)
  <2> HIDE DEF F
  <2>1. QED BY <1>2
<1> DEFINE g == [k \in 0..n |-> h[1..k]]
<1>4. ASSUME NEW s \in SUBSET (1..n)
      PROVE  h[s] = IF s = {} THEN <<>> ELSE Added(h[s \ {Max(s)}], seq[Max(s)])
  <2> HIDE DEF h, n
  <2>1. QED BY <1>3
<1> HIDE DEF h
<1>5. g[0] = <<>>
  <2>1. 1..0 = {} /\ {} \in SUBSET (1..n) /\ 0 \in 0..n
    OBVIOUS
  <2>2. h[{}] = <<>>
    BY <1>4, <2>1
  <2>3. QED BY <2>1, <2>2
<1>6. ASSUME NEW k \in 1..n PROVE g[k] = Added(g[k - 1], seq[k])
  <2>1. k \in 1..k /\ 1..k \in SUBSET (1..n) /\ k \in Nat
    OBVIOUS
  <2>2. Max(1..k) = k
    <3>1. 1..k \in SUBSET (1..k) /\ 1..k # {}
      BY <2>1
    <3>2. Max(1..k) \in 1..k /\ \A y \in 1..k : y <= Max(1..k)
      BY <2>1, <3>1, MaxOf
    <3>3. QED BY <2>1, <3>2
  <2>3. (1..k) \ {k} = 1..(k - 1)
    OBVIOUS
  <2>4. h[1..k] = Added(h[1..(k - 1)], seq[k])
    BY <1>4, <2>1, <2>2, <2>3
  <2>5. QED BY <2>4
<1>7. Consolidate(seq) = g[n]
  BY <1>1
<1> HIDE DEF g
<1>8. QED BY <1>5, <1>6, <1>7

-----------------------------------------------------------------------------
(* Lists of plugins *)

Lists == {l \in Seq(Plugin) : Installable(l)}
LEMMA EmptyInstallable == <<>> \in Lists /\ PluginNames(<<>>) = {}
BY DEF Lists, Installable, PluginNames

LEMMA AppendNew ==
  ASSUME NEW list \in Lists, NEW p \in Plugin, p.version # BadVersion,
         ~HasSomeVersionOf(list, p)
  PROVE  Append(list, p) \in Lists /\ PluginNames(Append(list, p)) = PluginNames(list) \cup {p.name}
<1> DEFINE new == Append(list, p)
           n == Len(list)
<1>1. /\ list \in Seq(Plugin) /\ n \in Nat /\ DOMAIN list = 1..n
      /\ \A i \in 1..n : list[i].name # p.name
  BY DEF Lists, HasSomeVersionOf
<1>2. /\ new \in Seq(Plugin) /\ DOMAIN new = 1..(n + 1) /\ new[n + 1] = p
      /\ \A i \in 1..n : new[i] = list[i]
  BY <1>1
<1> HIDE DEF new, n
<1>3. \A i \in 1..(n + 1) : i \in 1..n \/ i = n + 1
  BY <1>1
<1>4. \A i, j \in DOMAIN new : new[i].name = new[j].name => i = j
  BY <1>1, <1>2, <1>3 DEF Lists, Installable
<1>5. \A i \in DOMAIN new : new[i].version # BadVersion
  BY <1>1, <1>2, <1>3 DEF Lists, Installable
<1>6. PluginNames(new) = PluginNames(list) \cup {p.name}
  <2>1. 1..(n + 1) = 1..n \cup {n + 1}
    BY <1>1
  <2>2. QED BY <1>1, <1>2, <2>1 DEF PluginNames
<1>7. QED BY <1>2, <1>4, <1>5, <1>6 DEF Lists, Installable, new

\* Among lists that Sanitize has made, the comparison of versions never fails.
LEMMA ConsolidatedOne ==
  ASSUME NEW list \in Lists, NEW p \in Plugin, p.version # BadVersion
  PROVE  /\ Consolidated(list, p) \in Lists
         /\ PluginNames(Consolidated(list, p)) = PluginNames(list) \cup {p.name}
<1>1. list # NoList
  <2>1. NoList[1].version = BadVersion /\ 1 \in DOMAIN NoList
    BY DEF NoList
  <2>2. QED BY <2>1 DEF Lists, Installable
<1>2. CASE ~HasSomeVersionOf(list, p)
  BY <1>1, <1>2, AppendNew DEF Consolidated
<1>3. CASE HasSomeVersionOf(list, p)
  <2>1. ~Incomparable(list, p)
    BY DEF Incomparable, Lists, Installable
  <2>2. Consolidated(list, p) = list
    BY <1>1, <1>3, <2>1 DEF Consolidated, Update
  <2>3. p.name \in PluginNames(list)
    BY <1>3 DEF HasSomeVersionOf, PluginNames
  <2>4. QED BY <2>2, <2>3
<1>4. QED BY <1>2, <1>3

LEMMA SanitizedOne ==
  ASSUME NEW list \in Lists, NEW p \in Plugin
  PROVE  Sanitized(list, p) \in Lists
BY AppendNew DEF Sanitized

LEMMA SanitizeInstallable ==
  ASSUME NEW list \in Seq(Plugin)
  PROVE  Sanitize(list) \in Lists
<1> DEFINE n == Len(list)
<1>1. n \in Nat /\ DOMAIN list = 1..n /\ \A k \in 1..n : list[k] \in Plugin
  OBVIOUS
<1>2. PICK g : /\ g[0] = <<>> /\ Sanitize(list) = g[n]
               /\ \A k \in 1..n : g[k] = Sanitized(g[k - 1], list[k])
  <2>1. \A l \in Lists : \A i \in DOMAIN list : Sanitized(l, list[i]) \in Lists
    BY <1>1, SanitizedOne
  <2>2. QED BY <1>1, <2>1, FoldSanitized, EmptyInstallable
<1> HIDE DEF n
<1> DEFINE T == {k \in 0..n : g[k] \in Lists}
<1>3. 0 \in T
  BY <1>1, <1>2, EmptyInstallable
<1>4. ASSUME NEW k \in 1..n, k - 1 \in T PROVE k \in T
  BY <1>1, <1>2, <1>4, SanitizedOne
<1>5. \A k \in 0..n : k \in T
  <2> HIDE DEF T
  <2>1. QED BY <1>1, <1>3, <1>4, UpTo
<1>6. g[n] \in Lists
  BY <1>1, <1>5
<1>7. QED BY <1>2, <1>6

LEMMA AddedAll ==
  ASSUME NEW list \in Lists, NEW plugins \in Lists
  PROVE  /\ Added(list, plugins) \in Lists
         /\ PluginNames(Added(list, plugins)) = PluginNames(list) \cup PluginNames(plugins)
<1> DEFINE n == Len(plugins)
<1>1. /\ n \in Nat /\ DOMAIN plugins = 1..n
      /\ \A i \in 1..n : plugins[i] \in Plugin /\ plugins[i].version # BadVersion
  BY DEF Lists, Installable
<1>2. PICK g : /\ g[0] = list /\ Added(list, plugins) = g[n]
               /\ \A k \in 1..n : g[k] = Consolidated(g[k - 1], plugins[k])
  <2>1. \A l \in Lists : \A i \in DOMAIN plugins : Consolidated(l, plugins[i]) \in Lists
    BY <1>1, ConsolidatedOne
  <2>2. DOMAIN plugins = 1..Len(plugins) /\ Len(plugins) \in Nat
    BY <1>1
  <2>3. PICK g : Adds(g, list, plugins)
    BY <2>1, <2>2, FoldConsolidated
  <2>4. QED BY <2>3 DEF Adds
<1> HIDE DEF n
<1> DEFINE First(k) == PluginNames(list) \cup {plugins[i].name : i \in 1..k}
           T == {k \in 0..n : g[k] \in Lists /\ PluginNames(g[k]) = First(k)}
<1>3. 0 \in T
  BY <1>1, <1>2
<1>4. ASSUME NEW k \in 1..n, k - 1 \in T PROVE k \in T
  <2>1. plugins[k] \in Plugin /\ plugins[k].version # BadVersion
    BY <1>1
  <2>2. /\ g[k] \in Lists
        /\ PluginNames(g[k]) = PluginNames(g[k - 1]) \cup {plugins[k].name}
    BY <1>2, <1>4, <2>1, ConsolidatedOne
  <2>3. 1..k = 1..(k - 1) \cup {k}
    BY <1>1
  <2>4. First(k) = First(k - 1) \cup {plugins[k].name}
    BY <2>3
  <2>5. QED BY <1>1, <1>4, <2>2, <2>4
<1>5. \A k \in 0..n : k \in T
  <2> HIDE DEF T
  <2>1. QED BY <1>1, <1>3, <1>4, UpTo
<1>6. g[n] \in Lists /\ PluginNames(g[n]) = First(n)
  BY <1>1, <1>5
<1>7. First(n) = PluginNames(list) \cup PluginNames(plugins)
  BY <1>1 DEF PluginNames
<1>8. QED BY <1>2, <1>6, <1>7

LEMMA ConsolidateAll ==
  ASSUME NEW lists \in Seq(Lists)
  PROVE  /\ Consolidate(lists) \in Lists
         /\ PluginNames(Consolidate(lists)) = UNION {PluginNames(lists[i]) : i \in DOMAIN lists}
<1> DEFINE n == Len(lists)
<1>1. n \in Nat /\ DOMAIN lists = 1..n /\ \A k \in 1..n : lists[k] \in Lists
  OBVIOUS
<1>2. PICK g : /\ g[0] = <<>> /\ Consolidate(lists) = g[n]
               /\ \A k \in 1..n : g[k] = Added(g[k - 1], lists[k])
  <2>1. \A l \in Lists : \A i \in DOMAIN lists : Added(l, lists[i]) \in Lists
    BY <1>1, AddedAll
  <2>2. QED BY <1>1, <2>1, FoldAdded, EmptyInstallable
<1> HIDE DEF n
<1> DEFINE First(k) == UNION {PluginNames(lists[i]) : i \in 1..k}
           T == {k \in 0..n : g[k] \in Lists /\ PluginNames(g[k]) = First(k)}
<1>3. 0 \in T
  BY <1>1, <1>2, EmptyInstallable
<1>4. ASSUME NEW k \in 1..n, k - 1 \in T PROVE k \in T
  <2>1. /\ g[k] \in Lists
        /\ PluginNames(g[k]) = PluginNames(g[k - 1]) \cup PluginNames(lists[k])
    BY <1>1, <1>2, <1>4, AddedAll
  <2>2. 1..k = 1..(k - 1) \cup {k}
    BY <1>1
  <2>3. First(k) = First(k - 1) \cup PluginNames(lists[k])
    BY <2>2
  <2>4. QED BY <1>1, <1>4, <2>1, <2>3
<1>5. \A k \in 0..n : k \in T
  <2> HIDE DEF T
  <2>1. QED BY <1>1, <1>3, <1>4, UpTo
<1>6. g[n] \in Lists /\ PluginNames(g[n]) = First(n)
  BY <1>1, <1>5
<1>7. QED BY <1>1, <1>2, <1>6

\* In no order of the keys is anything lost.
LEMMA AnyOrder ==
  ASSUME NEW data, IsFiniteSet(DOMAIN data), \A k \in DOMAIN data : data[k] \in Lists,
         NEW list \in Consolidations(data)
  PROVE  /\ list \in Lists
         /\ PluginNames(list) = UNION {PluginNames(data[k]) : k \in DOMAIN data}
<1> DEFINE D == 1..Cardinality(DOMAIN data)
<1>1. PICK order \in [D -> DOMAIN data] :
        /\ \A i, j \in D : i # j => order[i] # order[j]
        /\ list = Consolidate([i \in D |-> data[order[i]]])
  BY DEF Consolidations, SetToSeqs
<1>2. Cardinality(DOMAIN data) \in Nat
  BY FS_CardinalityType
<1>3. \A k \in DOMAIN data : \E i \in D : order[i] = k
  <2>1. order \in Injection(D, DOMAIN data)
    BY <1>1 DEF Injection, IsInjective
  <2>2. Cardinality(D) = Cardinality(DOMAIN data)
    BY <1>2, FS_Interval
  <2>3. order \in Surjection(D, DOMAIN data)
    BY <2>1, <2>2, FS_Injection
  <2>4. QED BY <2>3 DEF Surjection
<1> DEFINE lists == [i \in D |-> data[order[i]]]
<1>4. lists \in Seq(Lists) /\ DOMAIN lists = D /\ \A i \in D : lists[i] = data[order[i]]
  BY <1>1, <1>2
<1> HIDE DEF lists, D
<1>5. /\ list \in Lists
      /\ PluginNames(list) = UNION {PluginNames(lists[i]) : i \in DOMAIN lists}
  BY <1>1, <1>4, ConsolidateAll DEF lists
<1>6. {PluginNames(lists[i]) : i \in DOMAIN lists} = {PluginNames(data[k]) : k \in DOMAIN data}
  BY <1>1, <1>3, <1>4
<1>7. QED BY <1>5, <1>6

-----------------------------------------------------------------------------
(* Steps *)

LEMMA InitType == Init => TypeOK
<1>1. DOMAIN << >> = {} /\ IsFiniteSet({})
  BY FS_EmptySet
<1>2. QED BY <1>1, EmptyInstallable DEF Init, TypeOK, Lists

LEMMA KeyAdded ==
  ASSUME TypeOK, NEW r \in Resources, NEW val \in Lists,
         binaryData' = [k \in DOMAIN binaryData \cup {Key(r)} |->
                          IF k = Key(r) THEN val ELSE binaryData[k]]
  PROVE  /\ DOMAIN binaryData' \subseteq {Key(q) : q \in Resources}
         /\ IsFiniteSet(DOMAIN binaryData')
         /\ \A k \in DOMAIN binaryData' : Installable(binaryData'[k])
<1>1. IsFiniteSet(DOMAIN binaryData \cup {Key(r)})
  BY FS_AddElement DEF TypeOK
<1>2. QED BY <1>1 DEF TypeOK, Lists

\* A key is written with what is left of a list that is asked for.
LEMMA WriteType ==
  ASSUME TypeOK, NEW r \in Resources, NEW list \in Seq(Plugin), Write(r, list)
  PROVE  TypeOK'
<1>1. Sanitize(list) \in Lists
  BY SanitizeInstallable
<1>2. binaryData' = [k \in DOMAIN binaryData \cup {Key(r)} |->
                       IF k = Key(r) THEN Sanitize(list) ELSE binaryData[k]]
  BY DEF Write
<1>3. /\ DOMAIN binaryData' \subseteq {Key(q) : q \in Resources}
      /\ IsFiniteSet(DOMAIN binaryData')
      /\ \A k \in DOMAIN binaryData' : Installable(binaryData'[k])
  <2>1. PICK val \in Lists : val = Sanitize(list)
    BY <1>1
  <2>2. QED BY <1>2, <2>1, KeyAdded
<1>4. QED BY <1>3 DEF Write, TypeOK

LEMMA NextType == TypeOK /\ [Next]_vars => TypeOK'
<1> SUFFICES ASSUME TypeOK, [Next]_vars PROVE TypeOK'
  OBVIOUS
<1>1. ASSUME NEW r \in Resources, EditPlugins(r) \/ DeleteResource(r) PROVE TypeOK'
  BY <1>1 DEF EditPlugins, DeleteResource, TypeOK
<1>2. ASSUME NEW r \in Resources, ReconcilePlugins(r) PROVE TypeOK'
  <2>1. asked[r] \in Seq(Plugin)
    BY DEF TypeOK
  <2>2. QED BY <1>2, <2>1, WriteType DEF ReconcilePlugins
<1>3. ASSUME NEW r \in Resources, ClearPlugins(r) PROVE TypeOK'
  <2>1. PICK list \in Seq(Plugin) : list = <<>>
    <3>1. <<>> \in Seq(Plugin)
      OBVIOUS
    <3>2. QED BY <3>1
  <2>2. Write(r, list)
    BY <1>3, <2>1 DEF ClearPlugins
  <2>3. QED BY <2>2, WriteType
<1>4. CASE PluginsStage
  <2>1. PICK list \in Consolidations(binaryData) :
          installed' = IF list = NoList THEN installed ELSE list
    BY <1>4 DEF PluginsStage
  <2>2. list \in Lists
    BY <2>1, AnyOrder DEF TypeOK, Lists, Installable
  <2>3. QED BY <1>4, <2>1, <2>2 DEF PluginsStage, TypeOK, Lists
<1>5. CASE UNCHANGED vars
  BY <1>5 DEF vars, TypeOK
<1>6. QED BY <1>1, <1>2, <1>3, <1>4, <1>5 DEF Next

-----------------------------------------------------------------------------
(* The theorems *)

(* What is written in the ConfigMap (controller_shared.go:25-52) and what   *)
(* the stage hands on are lists that can be installed.                      *)
THEOREM PluginsTypeCorrect == Spec => []TypeOK
BY InitType, NextType, PTL DEF Spec

(* No plugin is handed to Grafana twice, however many resources ask for     *)
(* however many plugins, and in whatever order the stage reads them         *)
(* (plugins_reconciler.go:61).                                              *)
THEOREM PluginsInstalledOnce == Spec => []InstalledOnce
<1>1. TypeOK => InstalledOnce
  BY DEF TypeOK, Installable, InstalledOnce
<1>2. QED BY <1>1, PluginsTypeCorrect, PTL

(* The stage installs all plugins written in the ConfigMap and no other,    *)
(* and never fails for two lists that cannot be compared                    *)
(* (plugins_reconciler.go:69-97).                                           *)
THEOREM WrittenIsInstalled == Spec => []AllWrittenInstalled
<1>1. ASSUME TypeOK PROVE AllWrittenInstalled
  <2>1. \A k \in DOMAIN binaryData : binaryData[k] \in Lists
    BY <1>1 DEF TypeOK, Lists, Installable
  <2>2. {p.name : p \in Written} = UNION {PluginNames(binaryData[k]) : k \in DOMAIN binaryData}
    BY DEF Written, Under, PluginNames
  <2>3. QED BY <1>1, <2>1, <2>2, AnyOrder DEF TypeOK, AllWrittenInstalled
<1>2. QED BY <1>1, PluginsTypeCorrect, PTL
=============================================================================
