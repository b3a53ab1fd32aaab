---------------------------- MODULE ClusterProofs ----------------------------
(***************************************************************************)
(* Facts about Cluster that the proofs about its controllers share: the    *)
(* types of what is written, how copies age, and what a step may do to the *)
(* resources, their caches and the status lists.  A part of a controller's *)
(* invariant that speaks of these variables only is preserved by a step    *)
(* that is one of the kinds below, whatever the controller's own variables *)
(* do meanwhile.                                                           *)
(***************************************************************************)
EXTENDS Cluster, TLAPS

USE ClusterAssumption

-----------------------------------------------------------------------------
(* Types of what the actions write *)

LEMMA EmptyList == <<>> \in Seq(Uids)
OBVIOUS

LEMMA AddType ==
  ASSUME NEW list \in Seq(Uids), NEW u \in Uids
  PROVE  Add(list, u) \in Seq(Uids)
BY DEF Add

LEMMA NoSnapType == NoSnap \in GrafanaCopies
<1>1. (CHOOSE m \in Selections : TRUE) \in Selections
  OBVIOUS
<1>2. QED BY <1>1, EmptyList DEF NoSnap, GrafanaCopies, GrafanaResource

LEMMA NewType ==
  ASSUME NEW u \in 0..MaxUid, NEW c \in Contents \cup {Absent}
  PROVE  New(u, c) \in Resource /\ New(u, c).uid = u /\ New(u, c).json = c
BY DEF New, Resource

LEMMA GoneType == \A u \in 0..MaxUid : Gone(u) \in Resource /\ ~Live(Gone(u))
BY NewType DEF Gone, Live

CRTypes == /\ cr \in [Names -> Resource] /\ crcache \in [Names -> Resource]
           /\ crstale \in [Names -> SUBSET CRHolders]
           /\ LiveHasUid(cr) /\ LiveHasUid(crcache)
GrafanaTypes == /\ grafana \in GrafanaCopies /\ gcache \in GrafanaCopies
                /\ gstale \in [Grafanas -> SUBSET GrafanaHolders]
Stores == [Grafanas -> [Names -> [Uids -> Contents \cup {Absent}]]]
StoreTypes == store \in Stores /\ folders \in [Grafanas -> SUBSET Folders]
QueueTypes == /\ queue \in SUBSET Names
              /\ timer \in [Names -> {"none", "retry", "resync"}]
              /\ up \in BOOLEAN

ClusterTypes == CRTypes /\ GrafanaTypes /\ StoreTypes /\ QueueTypes

LEMMA ClusterTypesAre == ClusterTypes <=> ClusterTypeOK /\ LiveHasUid(cr) /\ LiveHasUid(crcache)
BY DEF ClusterTypes, ClusterTypeOK, CRTypes, GrafanaTypes, StoreTypes, Stores, QueueTypes,
       GrafanaCopies

LEMMA WriteCRType ==
  ASSUME CRTypes, NEW n \in Names, NEW new \in Resource, NEW by,
         Live(new) => new.uid \in Uids, WriteCR(n, new, by), UNCHANGED crcache
  PROVE  CRTypes'
<1>1. cr' \in [Names -> Resource]
  BY DEF CRTypes, WriteCR
<1>2. crstale' \in [Names -> SUBSET CRHolders]
  BY DEF CRTypes, WriteCR
<1>3. LiveHasUid(cr')
  BY DEF CRTypes, WriteCR, LiveHasUid
<1>4. QED BY <1>1, <1>2, <1>3 DEF CRTypes

LEMMA WriteGrafanaType ==
  ASSUME GrafanaTypes, NEW g \in Grafanas, NEW new \in GrafanaResource,
         WriteGrafana(g, new), UNCHANGED gcache
  PROVE  GrafanaTypes'
BY DEF GrafanaTypes, WriteGrafana, GrafanaCopies

LEMMA CopyAgeType ==
  ASSUME GrafanaTypes, NEW who \in GrafanaHolders,
         ListGrafanas(who) \/ DropGrafanas(who), UNCHANGED <<grafana, gcache>>
  PROVE  GrafanaTypes'
BY DEF GrafanaTypes, ListGrafanas, DropGrafanas, AsOldAsCache

LEMMA AddAfterType ==
  ASSUME QueueTypes, NEW n \in Names, NEW kind \in {"retry", "resync"},
         AddAfter(n, kind), UNCHANGED <<queue, up>>
  PROVE  QueueTypes'
BY DEF QueueTypes, AddAfter

LEMMA ExceptType ==
  ASSUME NEW S, NEW T, NEW f \in [S -> T], NEW x, NEW y \in T
  PROVE  [f EXCEPT ![x] = y] \in [S -> T]
OBVIOUS

LEMMA WriteStoreType ==
  ASSUME NEW st \in Stores, NEW g \in Grafanas, NEW n \in Names, NEW u,
         NEW c \in Contents \cup {Absent}
  PROVE  [st EXCEPT ![g][n][u] = c] \in Stores
<1>1. [st[g][n] EXCEPT ![u] = c] \in [Uids -> Contents \cup {Absent}]
  <2>1. st[g][n] \in [Uids -> Contents \cup {Absent}]
    BY DEF Stores
  <2>2. QED BY <2>1, ExceptType
<1>2. [st[g] EXCEPT ![n] = [st[g][n] EXCEPT ![u] = c]]
        \in [Names -> [Uids -> Contents \cup {Absent}]]
  BY <1>1 DEF Stores
<1>3. [st EXCEPT ![g][n][u] = c]
        = [st EXCEPT ![g] = [st[g] EXCEPT ![n] = [st[g][n] EXCEPT ![u] = c]]]
  BY DEF Stores
<1>4. QED BY <1>2, <1>3 DEF Stores

LEMMA ClusterInitTypes == ClusterInit => ClusterTypes
<1> SUFFICES ASSUME ClusterInit PROVE ClusterTypes
  OBVIOUS
<1> USE DEF ClusterInit
<1>1. CRTypes
  BY GoneType DEF CRTypes, CRHolders, LiveHasUid
<1>2. GrafanaTypes
  BY EmptyList DEF GrafanaTypes, GrafanaCopies, GrafanaResource, GrafanaHolders
<1>3. StoreTypes /\ QueueTypes
  BY DEF StoreTypes, Stores, QueueTypes, EmptyStore
<1>4. QED BY <1>1, <1>2, <1>3 DEF ClusterTypes

-----------------------------------------------------------------------------
(* Status lists *)

LEMMA AddEntries ==
  ASSUME NEW list \in Seq(Uids), NEW u \in Uids
  PROVE  Entries(Add(list, u)) = Entries(list) \cup {u}
<1>1. CASE u \in Entries(list)
  BY <1>1 DEF Add
<1>2. CASE u \notin Entries(list)
  <2> DEFINE longer == <<u>> \o list
  <2>1. /\ Len(list) \in Nat /\ Len(longer) = Len(list) + 1 /\ longer[1] = u
        /\ \A i \in 1..Len(list) : longer[i + 1] = list[i]
    OBVIOUS
  <2>2. \A x : x \in Entries(longer) <=> x = u \/ x \in Entries(list)
    <3>1. ASSUME NEW i \in 1..Len(longer), i # 1 PROVE longer[i] \in Entries(list)
      <4>1. i - 1 \in 1..Len(list) /\ longer[(i - 1) + 1] = list[i - 1]
        BY <2>1, <3>1
      <4>2. (i - 1) + 1 = i
        BY <3>1, <2>1
      <4>3. QED BY <4>1, <4>2 DEF Entries
    <3>2. ASSUME NEW i \in 1..Len(list) PROVE list[i] \in Entries(longer)
      <4>1. i + 1 \in 1..Len(longer) /\ longer[i + 1] = list[i]
        BY <2>1
      <4> HIDE DEF longer
      <4>2. QED BY <4>1 DEF Entries
    <3>3. u \in Entries(longer)
      <4>1. 1 \in 1..Len(longer) /\ longer[1] = u
        BY <2>1
      <4> HIDE DEF longer
      <4>2. QED BY <4>1 DEF Entries
    <3> HIDE DEF longer
    <3>4. Entries(longer) \subseteq {u} \cup Entries(list)
      BY <2>1, <3>1 DEF Entries
    <3>5. Entries(list) \subseteq Entries(longer)
      <4>1. Entries(list) = {list[i] : i \in 1..Len(list)}
        BY DEF Entries
      <4>2. QED BY <4>1, <3>2
    <3>6. QED BY <3>3, <3>4, <3>5
  <2>3. QED BY <1>2, <2>2 DEF Add
<1>3. QED BY <1>1, <1>2

LEMMA NoEntries == Entries(<<>>) = {} /\ \A list : Entries(Remove(list)) = {}
BY DEF Entries, Remove

LEMMA EntriesAreUids ==
  ASSUME NEW copies \in GrafanaCopies, NEW g \in Grafanas, NEW n \in Names
  PROVE  copies[g].list[n] \in Seq(Uids) /\ Entries(copies[g].list[n]) \subseteq Uids
<1>1. copies[g].list[n] \in Seq(Uids)
  BY DEF GrafanaCopies, GrafanaResource
<1>2. QED BY <1>1 DEF Entries

-----------------------------------------------------------------------------
(* What any step does to the resources and their cached copies *)

\* A deleted resource never comes back under the same uid ...
CRStep(n) ==
    /\ cr'[n].uid >= cr[n].uid
    /\ cr'[n].uid = cr[n].uid /\ Live(cr'[n]) => Live(cr[n])

\* ... and its cached copy stays, or becomes what the resource is before and after.
CacheStep(n) == crcache'[n] = crcache[n] \/ (crcache'[n] = cr[n] /\ cr'[n] = cr[n])

CRPart == CRTypes' /\ CacheCopyOK' /\ \A n \in Names : CRStep(n) /\ CacheStep(n)

\* The worker's copy gets no younger, and the resource does not change under it.
CRAges == \A n \in Names :
            "worker" \notin crstale'[n] =>
              /\ "worker" \notin crstale[n]
              /\ cr'[n].uid = cr[n].uid /\ cr'[n].json = cr[n].json

LEMMA CRKept ==
  ASSUME CRTypes, CacheCopyOK, UNCHANGED crVars
  PROVE  CRPart /\ CRAges
<1>1. \A n \in Names : cr[n].uid \in Int
  BY DEF CRTypes, Resource
<1>2. QED
  BY <1>1 DEF CRTypes, LiveHasUid, CacheCopyOK, crVars, CRPart, CRStep, CacheStep, CRAges

\* A copy is read or forgotten: only the ages of the worker's copies change.
LEMMA CRRead ==
  ASSUME CRTypes, CacheCopyOK, UNCHANGED <<cr, crcache>>,
         crstale' \in [Names -> SUBSET CRHolders],
         \A n \in Names : "cache" \notin crstale'[n] => "cache" \notin crstale[n]
  PROVE  CRPart
<1>1. \A n \in Names : cr[n].uid \in Int
  BY DEF CRTypes, Resource
<1>2. QED
  BY <1>1 DEF CRTypes, LiveHasUid, CacheCopyOK, CRPart, CRStep, CacheStep

\* A resource is written, and the cache falls behind unless nothing changed.
LEMMA CRChanged ==
  ASSUME CRTypes, CacheCopyOK, UNCHANGED crcache, NEW m \in Names, NEW new \in Resource,
         Live(new) => new.uid \in Uids, cr' = [cr EXCEPT ![m] = new],
         crstale' \in [Names -> SUBSET CRHolders],
         \A n \in Names : "cache" \notin crstale'[n] =>
           "cache" \notin crstale[n] /\ (n = m => new = cr[m]),
         new.uid >= cr[m].uid, new.uid = cr[m].uid /\ Live(new) => Live(cr[m])
  PROVE  CRPart
<1>1. \A n \in Names : cr[n].uid \in Int /\ cr'[n] = IF n = m THEN new ELSE cr[n]
  BY DEF CRTypes, Resource
<1>2. cr' \in [Names -> Resource] /\ LiveHasUid(cr')
  BY DEF CRTypes, LiveHasUid
<1>3. CRTypes'
  BY <1>2 DEF CRTypes
<1>4. CacheCopyOK'
  BY <1>1 DEF CacheCopyOK
<1>5. \A n \in Names : CRStep(n) /\ CacheStep(n)
  BY <1>1 DEF CRStep, CacheStep
<1>6. QED BY <1>3, <1>4, <1>5 DEF CRPart

\* What a write does to the ages
LEMMA WriteCRAges ==
  ASSUME CRTypes, NEW m \in Names, NEW new, NEW by \in SUBSET {"worker"}, WriteCR(m, new, by)
  PROVE  /\ crstale' \in [Names -> SUBSET CRHolders]
         /\ \A n \in Names : n # m => crstale'[n] = crstale[n]
         /\ \A n \in Names : "cache" \notin crstale'[n] =>
              "cache" \notin crstale[n] /\ (n = m => new = cr[m])
         /\ "worker" \notin crstale'[m] => "worker" \in by \/ ("worker" \notin crstale[m] /\ new = cr[m])
<1>1. crstale' = [crstale EXCEPT ![m] = IF new = cr[m] THEN crstale[m] ELSE CRHolders \ by]
  BY DEF WriteCR
<1>2. crstale \in [Names -> SUBSET CRHolders]
  BY DEF CRTypes
<1>3. crstale' \in [Names -> SUBSET CRHolders] /\ \A n \in Names : n # m => crstale'[n] = crstale[n]
  BY <1>1, <1>2
<1>4. crstale'[m] = IF new = cr[m] THEN crstale[m] ELSE CRHolders \ by
  BY <1>1, <1>2
<1>5. "cache" \in CRHolders \ by /\ ("worker" \in CRHolders \ by \/ "worker" \in by)
  BY DEF CRHolders
<1>6. ASSUME NEW n \in Names, "cache" \notin crstale'[n]
      PROVE  "cache" \notin crstale[n] /\ (n = m => new = cr[m])
  BY <1>3, <1>4, <1>5, <1>6
<1>7. "worker" \notin crstale'[m] => "worker" \in by \/ ("worker" \notin crstale[m] /\ new = cr[m])
  BY <1>4, <1>5
<1>8. QED BY <1>3, <1>6, <1>7

\* A write of any resource, from the ages it leaves behind
LEMMA CRWrite ==
  ASSUME CRTypes, CacheCopyOK, UNCHANGED crcache, NEW m \in Names, NEW new \in Resource,
         NEW by \in SUBSET {"worker"}, WriteCR(m, new, by),
         Live(new) => new.uid \in Uids,
         new.uid >= cr[m].uid, new.uid = cr[m].uid /\ Live(new) => Live(cr[m])
  PROVE  CRPart
<1>1. cr' = [cr EXCEPT ![m] = new]
  BY DEF WriteCR
<1>2. /\ crstale' \in [Names -> SUBSET CRHolders]
      /\ \A n \in Names : "cache" \notin crstale'[n] =>
           "cache" \notin crstale[n] /\ (n = m => new = cr[m])
  BY WriteCRAges
<1>3. QED BY <1>1, <1>2, CRChanged

\* The worker writes the status of a resource from a copy nobody overtook.
LEMMA CRWritten ==
  ASSUME CRTypes, CacheCopyOK, UNCHANGED crcache, NEW m \in Names, NEW new \in Resource,
         NEW by \in SUBSET {"worker"}, WriteCR(m, new, by), "worker" \notin crstale[m],
         Live(new), new.uid \in Uids, new.uid = cr[m].uid, new.json = cr[m].json
  PROVE  CRPart /\ CRAges
<1>1. Live(cr[m]) /\ new.uid >= cr[m].uid
  BY DEF Live, CRTypes, Resource
<1>2. CRPart
  BY <1>1, CRWrite
<1>3. \A n \in Names : n # m => crstale'[n] = crstale[n]
  BY WriteCRAges
<1>4. \A n \in Names : cr'[n] = IF n = m THEN new ELSE cr[n]
  BY DEF WriteCR, CRTypes
<1>5. CRAges
  BY <1>3, <1>4 DEF CRAges
<1>6. QED BY <1>2, <1>5

LEMMA UsersWrite ==
  ASSUME CRTypes, CacheCopyOK, NEW m \in Names, CreateCR(m) \/ EditCR(m) \/ DeleteCR(m)
  PROVE  CRPart /\ CRAges
<1>1. cr[m] \in Resource /\ cr[m].uid \in 0..MaxUid /\ (Live(cr[m]) => cr[m].uid \in Uids)
  BY DEF CRTypes, LiveHasUid, Resource
<1>2. PICK new \in Resource :
        /\ WriteCR(m, new, {}) /\ (Live(new) => new.uid \in Uids)
        /\ new.uid >= cr[m].uid /\ (new.uid = cr[m].uid /\ Live(new) => Live(cr[m]))
  <2>1. CASE CreateCR(m)
    <3>1. PICK c \in Contents : WriteCR(m, New(cr[m].uid + 1, c), {})
      BY <2>1 DEF CreateCR
    <3>2. cr[m].uid + 1 \in Uids /\ cr[m].uid + 1 \in 0..MaxUid
      BY <1>1, <2>1 DEF CreateCR, Uids
    <3>3. /\ New(cr[m].uid + 1, c) \in Resource
          /\ New(cr[m].uid + 1, c).uid = cr[m].uid + 1
      BY <3>2, NewType
    <3>4. cr[m].uid + 1 >= cr[m].uid /\ cr[m].uid + 1 # cr[m].uid
      BY <1>1
    <3>5. QED BY <3>1, <3>2, <3>3, <3>4
  <2>2. CASE EditCR(m)
    <3>1. PICK step \in EditSteps : cr[m].json = step[1]
                                    /\ WriteCR(m, [cr[m] EXCEPT !.json = step[2]], {})
      BY <2>2 DEF EditCR
    <3>2. step[1] \in Contents /\ step[2] \in Contents
      OBVIOUS
    <3>3. [cr[m] EXCEPT !.json = step[2]] \in Resource
      BY <1>1, <3>2 DEF Resource
    <3>4. [cr[m] EXCEPT !.json = step[2]].uid = cr[m].uid /\ cr[m].uid >= cr[m].uid
      BY <1>1 DEF Resource
    <3>5. Live(cr[m])
      BY <3>1, <3>2 DEF Live
    <3>6. QED BY <1>1, <3>1, <3>3, <3>4, <3>5
  <2>3. CASE DeleteCR(m)
    <3>1. Gone(cr[m].uid) \in Resource /\ ~Live(Gone(cr[m].uid)) /\ Gone(cr[m].uid).uid = cr[m].uid
      BY <1>1, GoneType DEF Gone, New
    <3>2. cr[m].uid >= cr[m].uid
      BY <1>1
    <3>3. QED BY <2>3, <3>1, <3>2 DEF DeleteCR
  <2>4. QED BY <2>1, <2>2, <2>3
<1>3. UNCHANGED crcache
  BY DEF CreateCR, EditCR, DeleteCR
<1>4. PICK by \in SUBSET {"worker"} : by = {} /\ WriteCR(m, new, by)
  BY <1>2
<1>5. /\ CRPart
      /\ \A n \in Names : n # m => crstale'[n] = crstale[n]
      /\ "worker" \notin crstale'[m] => "worker" \notin crstale[m] /\ new = cr[m]
  BY <1>2, <1>3, <1>4, CRWrite, WriteCRAges
<1>6. \A n \in Names : cr'[n] = IF n = m THEN new ELSE cr[n]
  BY <1>2 DEF WriteCR, CRTypes
<1>7. CRAges
  BY <1>5, <1>6 DEF CRAges
<1>8. QED BY <1>5, <1>7

LEMMA InformerReads ==
  ASSUME CRTypes, CacheCopyOK, NEW m \in Names, SyncCRCache(m)
  PROVE  CRPart /\ CRAges
<1>1. \A n \in Names : cr[n].uid \in Int
  BY DEF CRTypes, Resource
<1>2. crcache' \in [Names -> Resource] /\ crstale' \in [Names -> SUBSET CRHolders] /\ UNCHANGED cr
  BY DEF SyncCRCache, CRTypes
<1>3. LiveHasUid(crcache')
  BY DEF SyncCRCache, CRTypes, LiveHasUid
<1>4. CRTypes'
  BY <1>2, <1>3 DEF CRTypes, LiveHasUid
<1>5. \A n \in Names : /\ crcache'[n] = IF n = m THEN cr[m] ELSE crcache[n]
                       /\ crstale'[n] = IF n = m THEN crstale[m] \ {"cache"} ELSE crstale[n]
  BY DEF SyncCRCache, CRTypes
<1>6. CacheCopyOK' /\ CRAges /\ \A n \in Names : CRStep(n) /\ CacheStep(n)
  BY <1>1, <1>2, <1>5 DEF CacheCopyOK, CRAges, CRStep, CacheStep
<1>7. QED BY <1>4, <1>6 DEF CRPart

-----------------------------------------------------------------------------
(* What any step does to the Grafanas and their cached copies *)

GrafanaCacheStep(g) ==
    gcache'[g] = gcache[g] \/ (gcache'[g] = grafana[g] /\ grafana'[g] = grafana[g])

GrafanaPart == GrafanaTypes' /\ GrafanaCacheOK' /\ \A g \in Grafanas : GrafanaCacheStep(g)

\* A holder's copy of the Grafanas gets no younger.
Ages(who) == \A g \in Grafanas :
               who \notin gstale'[g] => who \notin gstale[g] /\ grafana'[g] = grafana[g]

\* A holder takes its copy from the cache.
Lists(who) == /\ UNCHANGED <<grafana, gcache>>
              /\ \A g \in Grafanas : who \notin gstale'[g] => "cache" \notin gstale[g]

SameLists == \A g \in Grafanas, n \in Names : grafana'[g].list[n] = grafana[g].list[n]

LEMMA GrafanaKept ==
  ASSUME GrafanaTypes, GrafanaCacheOK, UNCHANGED grafanaVars
  PROVE  GrafanaPart /\ Ages("worker") /\ Ages("sync") /\ SameLists
BY DEF GrafanaTypes, GrafanaCacheOK, grafanaVars, GrafanaPart, GrafanaCacheStep, Ages, SameLists

LEMMA GrafanaWritten ==
  ASSUME GrafanaTypes, GrafanaCacheOK, UNCHANGED gcache, NEW h \in Grafanas,
         NEW new \in GrafanaResource, WriteGrafana(h, new)
  PROVE  GrafanaPart /\ Ages("worker") /\ Ages("sync")
<1>1. GrafanaTypes'
  BY WriteGrafanaType
<1>2. /\ grafana' = [grafana EXCEPT ![h] = new]
      /\ gstale' = [gstale EXCEPT ![h] = IF new = grafana[h] THEN gstale[h] ELSE GrafanaHolders]
  BY DEF WriteGrafana
<1>3. \A g \in Grafanas :
        /\ grafana'[g] = IF g = h THEN new ELSE grafana[g]
        /\ gstale'[g] = IF g = h /\ new # grafana[h] THEN GrafanaHolders ELSE gstale[g]
  BY <1>2 DEF GrafanaTypes, GrafanaCopies
<1>4. GrafanaCacheOK' /\ Ages("worker") /\ Ages("sync")
  BY <1>3 DEF GrafanaCacheOK, Ages, GrafanaHolders
<1>5. QED BY <1>1, <1>4 DEF GrafanaPart, GrafanaCacheStep

\* Only ages change: a holder lists the Grafanas, or forgets what it listed.
LEMMA GrafanaRead ==
  ASSUME GrafanaTypes, GrafanaCacheOK, UNCHANGED <<grafana, gcache>>,
         gstale' \in [Grafanas -> SUBSET GrafanaHolders],
         \A g \in Grafanas : "cache" \notin gstale'[g] => "cache" \notin gstale[g]
  PROVE  GrafanaPart /\ SameLists
BY DEF GrafanaTypes, GrafanaCacheOK, GrafanaPart, GrafanaCacheStep, SameLists

LEMMA GrafanaListed ==
  ASSUME GrafanaTypes, GrafanaCacheOK, UNCHANGED <<grafana, gcache>>,
         NEW reader \in {"worker", "sync"}, ListGrafanas(reader)
  PROVE  /\ GrafanaPart /\ Lists(reader) /\ SameLists
         /\ \A who \in {"worker", "sync"} \ {reader} : Ages(who)
<1>1. \A g \in Grafanas : gstale'[g] = IF "cache" \in gstale[g] THEN gstale[g] \cup {reader}
                                       ELSE gstale[g] \ {reader}
  BY DEF ListGrafanas, AsOldAsCache
<1>2. GrafanaTypes'
  BY CopyAgeType DEF GrafanaHolders
<1>3. GrafanaPart /\ SameLists
  BY <1>1, <1>2, GrafanaRead DEF GrafanaTypes
<1>4. Lists(reader)
  BY <1>1, ZenonT(60) DEF Lists
<1>5. ASSUME NEW who \in {"worker", "sync"} \ {reader} PROVE Ages(who)
  <2>1. \A g \in Grafanas : who \notin gstale'[g] => who \notin gstale[g]
    BY <1>1, ZenonT(60)
  <2>2. QED BY <2>1 DEF Ages
<1>6. QED BY <1>3, <1>4, <1>5

LEMMA GrafanaDropped ==
  ASSUME GrafanaTypes, GrafanaCacheOK, UNCHANGED <<grafana, gcache>>,
         NEW reader \in {"worker", "sync"}, DropGrafanas(reader)
  PROVE  /\ GrafanaPart /\ Ages("worker") /\ Ages("sync") /\ SameLists
         /\ \A g \in Grafanas : reader \in gstale'[g]
<1>1. \A g \in Grafanas : gstale'[g] = gstale[g] \cup {reader}
  BY DEF DropGrafanas
<1>2. GrafanaTypes'
  BY CopyAgeType DEF GrafanaHolders
<1>3. GrafanaPart /\ SameLists
  BY <1>1, <1>2, GrafanaRead DEF GrafanaTypes
<1>4. Ages("worker") /\ Ages("sync")
  BY <1>1 DEF Ages
<1>5. QED BY <1>1, <1>3, <1>4

LEMMA OthersWrite ==
  ASSUME GrafanaTypes, GrafanaCacheOK, NEW h \in Grafanas, GrafanaWrite(h)
  PROVE  GrafanaPart /\ Ages("worker") /\ Ages("sync") /\ SameLists
<1>1. PICK r \in Readiness, m \in Selections : grafana' =
        [grafana EXCEPT ![h] = [ready |-> r, matches |-> m, list |-> grafana[h].list]]
  BY DEF GrafanaWrite
<1>2. [ready |-> r, matches |-> m, list |-> grafana[h].list] \in GrafanaResource
  BY DEF GrafanaTypes, GrafanaCopies, GrafanaResource
<1>3. gstale' = [gstale EXCEPT ![h] = GrafanaHolders] /\ UNCHANGED gcache
  BY DEF GrafanaWrite
<1>4. \A g \in Grafanas :
        /\ gstale'[g] = IF g = h THEN GrafanaHolders ELSE gstale[g]
        /\ g # h => grafana'[g] = grafana[g]
  BY <1>1, <1>3 DEF GrafanaTypes, GrafanaCopies
<1>5. GrafanaTypes'
  BY <1>1, <1>2, <1>3 DEF GrafanaTypes, GrafanaCopies
<1>6. GrafanaCacheOK' /\ Ages("worker") /\ Ages("sync")
  BY <1>3, <1>4 DEF GrafanaCacheOK, Ages, GrafanaHolders
<1>7. SameLists
  BY <1>1 DEF SameLists, GrafanaTypes, GrafanaCopies
<1>8. QED BY <1>3, <1>5, <1>6, <1>7 DEF GrafanaPart, GrafanaCacheStep

LEMMA InformerReadsGrafana ==
  ASSUME GrafanaTypes, GrafanaCacheOK, NEW h \in Grafanas, SyncGrafanaCache(h)
  PROVE  GrafanaPart /\ Ages("worker") /\ Ages("sync") /\ SameLists
<1>1. \A g \in Grafanas : /\ gcache'[g] = IF g = h THEN grafana[h] ELSE gcache[g]
                          /\ gstale'[g] = IF g = h THEN gstale[h] \ {"cache"} ELSE gstale[g]
  BY DEF SyncGrafanaCache, GrafanaTypes, GrafanaCopies
<1>2. UNCHANGED grafana
  BY DEF SyncGrafanaCache
<1>3. GrafanaTypes'
  BY DEF SyncGrafanaCache, GrafanaTypes, GrafanaCopies
<1>4. GrafanaCacheOK' /\ Ages("worker") /\ Ages("sync") /\ SameLists
  BY <1>1, <1>2 DEF GrafanaCacheOK, Ages, SameLists
<1>5. QED BY <1>1, <1>2, <1>3, <1>4 DEF GrafanaPart, GrafanaCacheStep

-----------------------------------------------------------------------------
(* Users, other writers, informers, timers, and the process itself *)

\* Nothing new is stored.
NoneStored == \A g \in Grafanas, n \in Names, u \in Uids :
                store'[g][n][u] # Absent => store[g][n][u] # Absent

SurroundingsPart ==
    /\ ClusterTypes' /\ CRPart /\ CRAges
    /\ GrafanaPart /\ Ages("worker") /\ Ages("sync") /\ SameLists /\ NoneStored

LEMMA OutsideStep ==
  ASSUME ClusterTypes, CacheCopyOK, GrafanaCacheOK, Outside
  PROVE  SurroundingsPart
<1> USE DEF ClusterTypes
<1>1. ASSUME UNCHANGED <<crVars, store, folders>>, GrafanaPart, Ages("worker"), Ages("sync"),
             SameLists, QueueTypes'
      PROVE  SurroundingsPart
  BY <1>1, CRKept DEF SurroundingsPart, CRPart, GrafanaPart, StoreTypes, NoneStored
<1>2. ASSUME UNCHANGED <<grafanaVars, store, folders>>, CRPart, CRAges, QueueTypes'
      PROVE  SurroundingsPart
  BY <1>2, GrafanaKept DEF SurroundingsPart, CRPart, GrafanaPart, StoreTypes, NoneStored
<1>3. ASSUME UNCHANGED <<crVars, grafanaVars, workVars>>, StoreTypes', NoneStored
      PROVE  SurroundingsPart
  BY <1>3, CRKept, GrafanaKept DEF SurroundingsPart, CRPart, GrafanaPart, QueueTypes, workVars
<1>4. ASSUME NEW n \in Names, CreateCR(n) \/ EditCR(n) \/ DeleteCR(n)
      PROVE  SurroundingsPart
  BY <1>2, <1>4, UsersWrite DEF CreateCR, EditCR, DeleteCR, grafanaVars, QueueTypes
<1>5. ASSUME NEW n \in Names, SyncCRCache(n) PROVE SurroundingsPart
  BY <1>2, <1>5, InformerReads DEF SyncCRCache, grafanaVars, QueueTypes
<1>6. ASSUME NEW n \in Names, TimerFires(n) PROVE SurroundingsPart
  BY <1>2, <1>6, CRKept DEF TimerFires, crVars, grafanaVars, QueueTypes
<1>7. ASSUME NEW g \in Grafanas, GrafanaWrite(g) PROVE SurroundingsPart
  BY <1>1, <1>7, OthersWrite DEF GrafanaWrite, crVars, QueueTypes
<1>8. ASSUME NEW g \in Grafanas, SyncGrafanaCache(g) PROVE SurroundingsPart
  BY <1>1, <1>8, InformerReadsGrafana DEF SyncGrafanaCache, crVars, QueueTypes
<1>9. ASSUME NEW g \in Grafanas, UiEdit(g) PROVE SurroundingsPart
  <2>1. PICK n \in Names, u \in Uids, c \in Contents :
          store[g][n][u] # Absent /\ store' = [store EXCEPT ![g][n][u] = c]
    BY <1>9 DEF UiEdit
  <2>2. StoreTypes' /\ NoneStored
    BY <1>9, <2>1, WriteStoreType DEF UiEdit, StoreTypes, Stores, NoneStored
  <2>3. QED BY <1>3, <1>9, <2>2 DEF UiEdit, crVars, grafanaVars, workVars
<1>10. ASSUME NEW g \in Grafanas, Wipe(g) PROVE SurroundingsPart
  <2>1. StoreTypes' /\ NoneStored
    BY <1>10 DEF Wipe, EmptyStore, StoreTypes, Stores, NoneStored
  <2>2. QED BY <1>3, <1>10, <2>1 DEF Wipe, crVars, grafanaVars, workVars
<1>11. QED
  BY <1>4, <1>5, <1>6, <1>7, <1>8, <1>9, <1>10 DEF Outside

LEMMA CrashStep ==
  ASSUME ClusterTypes, ClusterCrash
  PROVE  /\ SurroundingsPart
         /\ \A g \in Grafanas : "worker" \in gstale'[g] /\ "sync" \in gstale'[g]
<1> USE DEF ClusterTypes, ClusterCrash
<1>1. \A n \in Names : cr[n].uid \in Int
  BY DEF CRTypes, Resource
<1>2. CRPart /\ CRAges
  BY <1>1 DEF CRTypes, CRHolders, LiveHasUid, CacheCopyOK, CRPart, CRStep, CacheStep, CRAges
<1>3. GrafanaPart /\ Ages("worker") /\ Ages("sync") /\ SameLists
  BY DEF GrafanaTypes, GrafanaHolders, GrafanaCacheOK, GrafanaPart, GrafanaCacheStep, Ages, SameLists
<1>4. StoreTypes' /\ QueueTypes' /\ NoneStored
  BY DEF StoreTypes, QueueTypes, grafanaDB, NoneStored
<1>5. QED BY <1>2, <1>3, <1>4 DEF SurroundingsPart, CRPart, GrafanaPart

LEMMA StartStep ==
  ASSUME ClusterTypes, ClusterStart
  PROVE  SurroundingsPart
<1> USE DEF ClusterTypes, ClusterStart
<1>1. \A n \in Names : cr[n].uid \in Int
  BY DEF CRTypes, Resource
<1>2. CRPart /\ CRAges
  BY <1>1 DEF CRTypes, CRHolders, LiveHasUid, CacheCopyOK, CRPart, CRStep, CacheStep, CRAges
<1>3. GrafanaPart /\ Ages("worker") /\ Ages("sync") /\ SameLists
  BY DEF GrafanaTypes, GrafanaHolders, GrafanaCacheOK, GrafanaPart, GrafanaCacheStep, Ages, SameLists
<1>4. StoreTypes' /\ QueueTypes' /\ NoneStored
  BY DEF StoreTypes, QueueTypes, grafanaDB, NoneStored
<1>5. QED BY <1>2, <1>3, <1>4 DEF SurroundingsPart, CRPart, GrafanaPart

-----------------------------------------------------------------------------
(* What is known to the cache, and what is dead, after a step *)

KnownAfter(copies) ==
    \A g \in Grafanas, n \in Names : \A u \in Entries(copies[g].list[n]) : u <= crcache'[n].uid

DeadAfter(n, u) == cr'[n].uid > u \/ (cr'[n].uid = u /\ ~Live(cr'[n]))

ListedDeadAfter(copies, n) ==
    \A g \in Grafanas : \A u \in Entries(copies[g].list[n]) : DeadAfter(n, u)

LEMMA CacheAdvances ==
  ASSUME CRTypes, CacheNotAhead, CRPart
  PROVE  CacheNotAhead' /\ \A n \in Names : crcache[n].uid <= crcache'[n].uid
<1>1. \A n \in Names : /\ cr[n].uid \in Int /\ crcache[n].uid \in Int
                       /\ cr'[n].uid \in Int /\ crcache'[n].uid \in Int
  BY DEF CRPart, CRTypes, Resource
<1>2. QED BY <1>1 DEF CRPart, CacheNotAhead, CRStep, CacheStep

LEMMA KnownStays ==
  ASSUME CRTypes, CacheNotAhead, CRPart, NEW copies \in GrafanaCopies, KnownToCache(copies)
  PROVE  KnownAfter(copies)
<1> SUFFICES ASSUME NEW g \in Grafanas, NEW n \in Names, NEW u \in Entries(copies[g].list[n])
             PROVE  u <= crcache'[n].uid
  BY DEF KnownAfter
<1>1. u \in Int
  BY EntriesAreUids DEF Uids
<1>2. crcache[n].uid \in Int /\ crcache'[n].uid \in Int
  BY DEF CRPart, CRTypes, Resource
<1>3. u <= crcache[n].uid
  BY DEF KnownToCache
<1>4. crcache[n].uid <= crcache'[n].uid
  BY CacheAdvances
<1>5. QED BY <1>1, <1>2, <1>3, <1>4

LEMMA NoSnapKnown == KnownToCache(NoSnap)
BY NoEntries DEF NoSnap, KnownToCache

LEMMA StaysDead ==
  ASSUME CRTypes, CRPart, NEW n \in Names, NEW u \in Int, Dead(n, u)
  PROVE  DeadAfter(n, u)
<1>1. cr[n].uid \in Int /\ cr'[n].uid \in Int
  BY DEF CRPart, CRTypes, Resource
<1>2. QED BY <1>1 DEF CRPart, CRStep, Dead, DeadAfter

LEMMA ListedStaysDead ==
  ASSUME CRTypes, CRPart, NEW n \in Names, NEW copies \in GrafanaCopies, ListedDead(copies, n)
  PROVE  ListedDeadAfter(copies, n)
<1> SUFFICES ASSUME NEW g \in Grafanas, NEW u \in Entries(copies[g].list[n])
             PROVE  DeadAfter(n, u)
  BY DEF ListedDeadAfter
<1>1. u \in Int
  BY EntriesAreUids DEF Uids
<1>2. QED BY <1>1, StaysDead DEF ListedDead

\* Whoever the cache says is not there, nor was later, is dead.
LEMMA NotCachedListedDead ==
  ASSUME CRTypes, CacheNotAhead, NEW n \in Names, ~Live(crcache[n]),
         NEW copies \in GrafanaCopies, KnownToCache(copies)
  PROVE  ListedDead(copies, n)
<1> SUFFICES ASSUME NEW g \in Grafanas, NEW u \in Entries(copies[g].list[n])
             PROVE  Dead(n, u)
  BY DEF ListedDead
<1>1. u \in Int /\ u <= crcache[n].uid
  BY EntriesAreUids DEF KnownToCache, Uids
<1>2. /\ cr[n].uid \in Int /\ crcache[n].uid \in Int /\ crcache[n].uid <= cr[n].uid
      /\ crcache[n].uid = cr[n].uid => ~Live(cr[n])
  BY DEF CRTypes, Resource, CacheNotAhead
<1>3. QED BY <1>1, <1>2 DEF Dead

-----------------------------------------------------------------------------
(* What a step takes away *)

\* Only what is dead leaves a server ...
ErasesDead == \A g \in Grafanas, n \in Names, u \in Uids :
                store[g][n][u] # Absent /\ store'[g][n][u] = Absent => Dead(n, u)

LEMMA StoreKept == UNCHANGED store => ErasesDead /\ NoneStored
BY DEF ErasesDead, NoneStored

\* ... or a status list.
LosesDead == \A g \in Grafanas, n \in Names : \A u \in Entries(grafana[g].list[n]) :
               u \notin Entries(grafana'[g].list[n]) => Dead(n, u)
=============================================================================
