---------------------- MODULE DashboardControllerProofs ----------------------
(***************************************************************************)
(* Theorems about DashboardController, for every value of its constants:   *)
(* its types, and the safety properties from the inductive invariant IInv. *)
(*                                                                         *)
(* The types are preserved action by action.  The lemmas after them say,   *)
(* one variable at a time, what any step can do to it: to a resource       *)
(* (CRStep), to its cached copy (CacheStep), to the age of the copies, to  *)
(* the worker's request (WorkerStep), to a status list (ListStep) and to   *)
(* the dashboards (StoreStep).  Each part of IInv is then preserved        *)
(* because of these, without a look at the actions.                        *)
(***************************************************************************)
EXTENDS DashboardController, TLAPS

USE ClusterAssumption, DashboardAssumption

-----------------------------------------------------------------------------
(* Types of what the actions write *)

LEMMA EmptyList == <<>> \in Seq(Uids)
OBVIOUS

LEMMA AddType ==
  ASSUME NEW list \in Seq(Uids), NEW u \in Uids
  PROVE  Add(list, u) \in Seq(Uids)
BY DEF Add

LEMMA NoSnapType == NoSnap \in GrafanaCopies
<1>1. (CHOOSE m \in Selections : TRUE) \in Selections
  OBVIOUS
<1>2. QED BY <1>1, EmptyList DEF NoSnap, GrafanaCopies, GrafanaResource

LEMMA NewType ==
  ASSUME NEW u \in 0..MaxUid, NEW c \in Contents \cup {Absent}
  PROVE  New(u, c) \in Resource /\ New(u, c).uid = u /\ New(u, c).json = c
BY DEF New, Resource

LEMMA GoneType == \A u \in 0..MaxUid : Gone(u) \in Resource /\ ~Live(Gone(u))
BY NewType DEF Gone, Live

LEMMA IdleType == Idle \in Worker
BY NoSnapType, GoneType DEF Idle, Worker

LEMMA WaitingType == Waiting \in Syncer
BY NoSnapType DEF Waiting, Syncer

CRTypes == /\ cr \in [Names -> Resource] /\ crcache \in [Names -> Resource]
           /\ crstale \in [Names -> SUBSET CRHolders]
           /\ LiveHasUid(cr) /\ LiveHasUid(crcache)
GrafanaTypes == /\ grafana \in GrafanaCopies /\ gcache \in GrafanaCopies
                /\ gstale \in [Grafanas -> SUBSET GrafanaHolders]
Stores == [Grafanas -> [Names -> [Uids -> Contents \cup {Absent}]]]
ServerTypes == /\ store \in Stores
               /\ folders \in [Grafanas -> SUBSET Folders]
               /\ pluginReq \in [Grafanas -> SUBSET Names]
QueueTypes == /\ queue \in SUBSET Names
              /\ timer \in [Names -> {"none", "retry", "resync"}]
              /\ up \in BOOLEAN
WorkerOK == w \in Worker /\ WorkerShape
SyncOK == s \in Syncer /\ SyncShape

\* TypeOK and ShapeOK, by the variables they speak about
TS == CRTypes /\ GrafanaTypes /\ ServerTypes /\ QueueTypes /\ WorkerOK /\ SyncOK

LEMMA TSisTypeAndShape == TS <=> TypeOK /\ ShapeOK
BY DEF TS, TypeOK, ClusterTypeOK, ShapeOK, CRTypes, GrafanaTypes, ServerTypes, Stores,
       QueueTypes, WorkerOK, SyncOK, GrafanaCopies

LEMMA WriteCRType ==
  ASSUME CRTypes, NEW n \in Names, NEW new \in Resource, NEW by,
         Live(new) => new.uid \in Uids, WriteCR(n, new, by), UNCHANGED crcache
  PROVE  CRTypes'
<1>1. cr' \in [Names -> Resource]
  BY DEF CRTypes, WriteCR
<1>2. crstale' \in [Names -> SUBSET CRHolders]
  BY DEF CRTypes, WriteCR
<1>3. LiveHasUid(cr')
  BY DEF CRTypes, WriteCR, LiveHasUid
<1>4. QED BY <1>1, <1>2, <1>3 DEF CRTypes

LEMMA WriteGrafanaType ==
  ASSUME GrafanaTypes, NEW g \in Grafanas, NEW new \in GrafanaResource,
         WriteGrafana(g, new), UNCHANGED gcache
  PROVE  GrafanaTypes'
BY DEF GrafanaTypes, WriteGrafana, GrafanaCopies

LEMMA CopyAgeType ==
  ASSUME GrafanaTypes, NEW who \in GrafanaHolders,
         ListGrafanas(who) \/ DropGrafanas(who), UNCHANGED <<grafana, gcache>>
  PROVE  GrafanaTypes'
BY DEF GrafanaTypes, ListGrafanas, DropGrafanas, AsOldAsCache

LEMMA AddAfterType ==
  ASSUME QueueTypes, NEW n \in Names, NEW kind \in {"retry", "resync"},
         AddAfter(n, kind), UNCHANGED <<queue, up>>
  PROVE  QueueTypes'
BY DEF QueueTypes, AddAfter

LEMMA ExceptType ==
  ASSUME NEW S, NEW T, NEW f \in [S -> T], NEW x, NEW y \in T
  PROVE  [f EXCEPT ![x] = y] \in [S -> T]
OBVIOUS

LEMMA WriteStoreType ==
  ASSUME NEW st \in Stores, NEW g \in Grafanas, NEW n \in Names, NEW u,
         NEW c \in Contents \cup {Absent}
  PROVE  [st EXCEPT ![g][n][u] = c] \in Stores
<1>1. [st[g][n] EXCEPT ![u] = c] \in [Uids -> Contents \cup {Absent}]
  <2>1. st[g][n] \in [Uids -> Contents \cup {Absent}]
    BY DEF Stores
  <2>2. QED BY <2>1, ExceptType
<1>2. [st[g] EXCEPT ![n] = [st[g][n] EXCEPT ![u] = c]]
        \in [Names -> [Uids -> Contents \cup {Absent}]]
  BY <1>1 DEF Stores
<1>3. [st EXCEPT ![g][n][u] = c]
        = [st EXCEPT ![g] = [st[g] EXCEPT ![n] = [st[g][n] EXCEPT ![u] = c]]]
  BY DEF Stores
<1>4. QED BY <1>2, <1>3 DEF Stores

LEMMA InitTS == Init => TS
<1> SUFFICES ASSUME Init PROVE TS
  OBVIOUS
<1> USE DEF Init, ClusterInit
<1>1. CRTypes
  BY GoneType DEF CRTypes, CRHolders, LiveHasUid
<1>2. GrafanaTypes
  BY EmptyList DEF GrafanaTypes, GrafanaCopies, GrafanaResource, GrafanaHolders
<1>3. ServerTypes /\ QueueTypes
  BY DEF ServerTypes, Stores, QueueTypes, EmptyStore
<1>4. WorkerOK
  BY IdleType DEF WorkerOK, WorkerShape, Idle, CreatePCs, DeletePCs
<1>5. SyncOK
  BY WaitingType DEF SyncOK, SyncShape, Waiting
<1>6. QED BY <1>1, <1>2, <1>3, <1>4, <1>5 DEF TS

-----------------------------------------------------------------------------
(* Every step preserves types and shapes *)

LEMMA UsersTS ==
  ASSUME TS, NEW n \in Names, Env(CreateCR(n) \/ EditCR(n) \/ DeleteCR(n))
  PROVE  TS'
<1>1. PICK new \in Resource : WriteCR(n, new, {}) /\ (Live(new) => new.uid \in Uids)
  <2>1. cr[n] \in Resource /\ (Live(cr[n]) => cr[n].uid \in Uids)
    BY DEF TS, CRTypes, LiveHasUid
  <2>2. CASE CreateCR(n)
    <3>1. PICK c \in Contents : WriteCR(n, New(cr[n].uid + 1, c), {})
      BY <2>2 DEF CreateCR
    <3>2. cr[n].uid + 1 \in Uids
      BY <2>1, <2>2 DEF CreateCR, Resource, Uids
    <3>3. QED BY <3>1, <3>2, NewType DEF Uids
  <2>3. CASE EditCR(n)
    <3>1. PICK step \in EditSteps : cr[n].json = step[1]
                                    /\ WriteCR(n, [cr[n] EXCEPT !.json = step[2]], {})
      BY <2>3 DEF EditCR
    <3>2. step[1] \in Contents /\ step[2] \in Contents
      OBVIOUS
    <3>3. [cr[n] EXCEPT !.json = step[2]] \in Resource
      BY <2>1, <3>2 DEF Resource
    <3>4. [cr[n] EXCEPT !.json = step[2]].uid = cr[n].uid
      BY <2>1 DEF Resource
    <3>5. Live(cr[n])
      BY <3>1, <3>2 DEF Live
    <3>6. QED BY <2>1, <3>1, <3>3, <3>4, <3>5
  <2>4. CASE DeleteCR(n)
    <3>1. Gone(cr[n].uid) \in Resource /\ ~Live(Gone(cr[n].uid))
      BY <2>1, GoneType DEF Resource
    <3>2. QED BY <2>4, <3>1 DEF DeleteCR
  <2>5. QED BY <2>2, <2>3, <2>4 DEF Env
<1>2. UNCHANGED <<crcache, grafana, gcache, gstale, store, folders, queue, timer, up>>
  BY DEF Env, CreateCR, EditCR, DeleteCR
<1>3. UNCHANGED <<w, s, pluginReq>>
  BY DEF Env
<1>4. CRTypes'
  BY <1>1, <1>2, WriteCRType DEF TS
<1>5. QED
  BY <1>2, <1>3, <1>4 DEF TS, GrafanaTypes, ServerTypes, QueueTypes, WorkerOK, SyncOK,
     WorkerShape, SyncShape

LEMMA OutsideTS == TS /\ Env(Outside) => TS'
<1> SUFFICES ASSUME TS, Env(Outside) PROVE TS'
  OBVIOUS
<1> USE DEF Env
<1> DEFINE Rest == WorkerOK /\ SyncOK
<1>1. Rest'
  BY DEF TS, WorkerOK, SyncOK, WorkerShape, SyncShape
<1>2. CASE \E n \in Names : CreateCR(n) \/ EditCR(n) \/ DeleteCR(n)
  BY <1>2, UsersTS
<1>3. CASE \E n \in Names : SyncCRCache(n)
  <2>1. PICK n \in Names : SyncCRCache(n)
    BY <1>3
  <2>2. CRTypes'
    <3>1. crcache' \in [Names -> Resource] /\ crstale' \in [Names -> SUBSET CRHolders]
      BY <2>1 DEF SyncCRCache, TS, CRTypes
    <3>2. LiveHasUid(crcache')
      BY <2>1 DEF SyncCRCache, TS, CRTypes, LiveHasUid
    <3>3. QED BY <2>1, <3>1, <3>2 DEF SyncCRCache, TS, CRTypes, LiveHasUid
  <2>3. GrafanaTypes' /\ ServerTypes' /\ QueueTypes'
    BY <2>1 DEF SyncCRCache, TS, GrafanaTypes, ServerTypes, QueueTypes
  <2>4. QED BY <1>1, <2>2, <2>3 DEF TS
<1>4. CASE \E n \in Names : TimerFires(n)
  <2>1. PICK n \in Names : TimerFires(n)
    BY <1>4
  <2>2. CRTypes' /\ GrafanaTypes' /\ ServerTypes'
    BY <2>1 DEF TimerFires, TS, CRTypes, GrafanaTypes, ServerTypes, LiveHasUid
  <2>3. QueueTypes'
    BY <2>1 DEF TimerFires, TS, QueueTypes
  <2>4. QED BY <1>1, <2>2, <2>3 DEF TS
<1>5. CASE \E g \in Grafanas : GrafanaWrite(g)
  <2>1. PICK g \in Grafanas : GrafanaWrite(g)
    BY <1>5
  <2>2. PICK r \in Readiness, m \in Selections : grafana' =
          [grafana EXCEPT ![g] = [ready |-> r, matches |-> m, list |-> grafana[g].list]]
    BY <2>1 DEF GrafanaWrite
  <2>3. [ready |-> r, matches |-> m, list |-> grafana[g].list] \in GrafanaResource
    BY DEF TS, GrafanaTypes, GrafanaCopies, GrafanaResource
  <2>5. GrafanaTypes'
    BY <2>1, <2>2, <2>3 DEF GrafanaWrite, TS, GrafanaTypes, GrafanaCopies
  <2>6. CRTypes' /\ ServerTypes' /\ QueueTypes'
    BY <2>1 DEF GrafanaWrite, TS, CRTypes, ServerTypes, QueueTypes, LiveHasUid
  <2>7. QED BY <1>1, <2>5, <2>6 DEF TS
<1>6. CASE \E g \in Grafanas : UiEdit(g)
  <2>1. PICK g \in Grafanas, n \in Names, u \in Uids, c \in Contents :
          UiEdit(g) /\ store' = [store EXCEPT ![g][n][u] = c]
    BY <1>6 DEF UiEdit
  <2>2. ServerTypes'
    BY <2>1 DEF UiEdit, TS, ServerTypes, Stores
  <2>3. CRTypes' /\ GrafanaTypes' /\ QueueTypes'
    BY <2>1 DEF UiEdit, TS, CRTypes, GrafanaTypes, QueueTypes, LiveHasUid
  <2>4. QED BY <1>1, <2>2, <2>3 DEF TS
<1>7. CASE \E g \in Grafanas : Wipe(g)
  <2>1. PICK g \in Grafanas : Wipe(g)
    BY <1>7
  <2>2. ServerTypes'
    BY <2>1 DEF Wipe, TS, ServerTypes, Stores, EmptyStore
  <2>3. CRTypes' /\ GrafanaTypes' /\ QueueTypes'
    BY <2>1 DEF Wipe, TS, CRTypes, GrafanaTypes, QueueTypes, LiveHasUid
  <2>4. QED BY <1>1, <2>2, <2>3 DEF TS
<1>8. CASE \E g \in Grafanas : SyncGrafanaCache(g)
  <2>1. PICK g \in Grafanas : SyncGrafanaCache(g)
    BY <1>8
  <2>2. GrafanaTypes'
    BY <2>1 DEF SyncGrafanaCache, TS, GrafanaTypes, GrafanaCopies
  <2>3. CRTypes' /\ ServerTypes' /\ QueueTypes'
    BY <2>1 DEF SyncGrafanaCache, TS, CRTypes, ServerTypes, QueueTypes, LiveHasUid
  <2>4. QED BY <1>1, <2>2, <2>3 DEF TS
<1>9. QED
  BY <1>2, <1>3, <1>4, <1>5, <1>6, <1>7, <1>8 DEF Outside

-----------------------------------------------------------------------------
(* Worker *)

LEMMA DequeueTS ==
  ASSUME TS, NEW n \in Names, Dequeue(n)
  PROVE  TS'
<1>1. GrafanaTypes' /\ ServerTypes' /\ SyncOK'
  BY DEF Dequeue, TS, GrafanaTypes, ServerTypes, SyncOK, SyncShape,
         vars, clusterVars, crVars, grafanaVars, workVars, grafanaDB
<1>2. CRTypes'
  BY DEF Dequeue, TS, CRTypes, AsOldAsCache, CRHolders, LiveHasUid
<1>3. QueueTypes'
  BY DEF Dequeue, TS, QueueTypes
<1>4. WorkerOK'
  <2>1. crcache[n] \in Resource /\ (Live(crcache[n]) => crcache[n].uid \in Uids)
    BY DEF TS, CRTypes, LiveHasUid
  <2>2. CASE Live(crcache[n])
    <3>1. w' = [Idle EXCEPT !.pc = "match", !.key = n, !.cr = crcache[n]]
      BY <2>2 DEF Dequeue
    <3>2. QED BY <2>1, <2>2, <3>1, IdleType DEF WorkerOK, Worker, WorkerShape, CreatePCs, DeletePCs
  <2>3. CASE ~Live(crcache[n])
    <3>1. w' = [Idle EXCEPT !.pc = "delList", !.key = n]
      BY <2>3 DEF Dequeue
    <3>2. QED BY <3>1, IdleType DEF WorkerOK, Worker, WorkerShape, CreatePCs, DeletePCs
  <2>4. QED BY <2>2, <2>3
<1>5. QED BY <1>1, <1>2, <1>3, <1>4 DEF TS

LEMMA MatchTS ==
  ASSUME TS, NEW o \in Outcomes, GetMatchingDashboardInstances(o)
  PROVE  TS'
<1>1. ServerTypes' /\ QueueTypes' /\ SyncOK'
  BY DEF GetMatchingDashboardInstances, TS, ServerTypes, QueueTypes, SyncOK, SyncShape,
         vars, clusterVars, crVars, grafanaVars, workVars, grafanaDB
<1>2. CRTypes'
  <2>. DEFINE matching == {g \in Grafanas : w.key \in gcache[g].matches}
                new == [w.cr EXCEPT !.noMatch = (matching = {})]
  <2>1. w.key \in Names /\ new \in Resource /\ new.uid \in Uids
    BY DEF GetMatchingDashboardInstances, TS, WorkerOK, Worker, WorkerShape, CreatePCs, Resource
  <2>2. UNCHANGED <<cr, crstale>> \/ WriteCR(w.key, new, IF o = "ok" THEN {"worker"} ELSE {})
    BY DEF GetMatchingDashboardInstances
  <2>3. UNCHANGED crcache
    BY DEF GetMatchingDashboardInstances
  <2>4. CASE UNCHANGED <<cr, crstale>>
    BY <2>3, <2>4 DEF TS, CRTypes, LiveHasUid
  <2>5. CASE WriteCR(w.key, new, IF o = "ok" THEN {"worker"} ELSE {})
    <3>. HIDE DEF new
    <3>. QED BY <2>1, <2>3, <2>5, WriteCRType DEF TS
  <2>6. QED BY <2>2, <2>4, <2>5
<1>3. GrafanaTypes'
  BY CopyAgeType DEF GetMatchingDashboardInstances, TS, GrafanaHolders
<1>4. WorkerOK'
  BY ZenonT(60) DEF GetMatchingDashboardInstances, TS, GrafanaTypes, WorkerOK, Worker, WorkerShape, CreatePCs, DeletePCs, Resource, Live
<1>5. QED BY <1>1, <1>2, <1>3, <1>4 DEF TS

LEMMA FinishTS ==
  ASSUME TS, FinishReconcile
  PROVE  TS'
<1>1. ServerTypes' /\ SyncOK'
  BY DEF FinishReconcile, TS, ServerTypes, SyncOK, SyncShape,
         vars, clusterVars, crVars, grafanaVars, workVars, grafanaDB
<1>2. CRTypes'
  BY DEF FinishReconcile, TS, CRTypes, CRHolders, LiveHasUid
<1>3. GrafanaTypes'
  BY CopyAgeType DEF FinishReconcile, TS, GrafanaHolders
<1>4. QueueTypes'
  BY AddAfterType DEF FinishReconcile, TS, WorkerOK, WorkerShape
<1>5. WorkerOK'
  BY IdleType DEF FinishReconcile, WorkerOK, WorkerShape, Idle, CreatePCs, DeletePCs
<1>6. QED BY <1>1, <1>2, <1>3, <1>4, <1>5 DEF TS

LEMMA SkipTS ==
  ASSUME TS, NEW g \in Grafanas, SkipNotReady(g)
  PROVE  TS'
<1>1. CRTypes' /\ GrafanaTypes' /\ ServerTypes' /\ QueueTypes' /\ SyncOK'
  BY DEF SkipNotReady, TS, CRTypes, LiveHasUid, GrafanaTypes, ServerTypes, QueueTypes, SyncOK, SyncShape,
         vars, clusterVars, crVars, grafanaVars, workVars, grafanaDB
<1>2. WorkerOK'
  BY DEF SkipNotReady, TS, WorkerOK, Worker, WorkerShape, CreatePCs, DeletePCs, Continue
<1>3. QED BY <1>1, <1>2 DEF TS

LEMMA StartTS ==
  ASSUME TS, NEW o \in Outcomes, NEW g \in Grafanas, StartInstance(g, o)
  PROVE  TS'
<1>1. CRTypes' /\ GrafanaTypes' /\ QueueTypes' /\ SyncOK'
  BY DEF StartInstance, TS, CRTypes, LiveHasUid, GrafanaTypes, QueueTypes, SyncOK, SyncShape,
         vars, clusterVars, crVars, grafanaVars, workVars, grafanaDB
<1>2. ServerTypes'
  <2>1. w.key \in Names
    BY DEF StartInstance, TS, WorkerOK, WorkerShape
  <2>2. ReconcilePlugins(g, w.key, w.key \in PluginUsers, o)
    BY DEF StartInstance
  <2>3. UNCHANGED <<store, folders>>
    BY DEF StartInstance, clusterVars
  <2>4. QED BY <2>1, <2>2, <2>3 DEF TS, ServerTypes, ReconcilePlugins, PluginsAfter
<1>3. WorkerOK'
  BY DEF StartInstance, TS, WorkerOK, Worker, WorkerShape, CreatePCs, DeletePCs, Continue
<1>4. QED BY <1>1, <1>2, <1>3 DEF TS

LEMMA ExistsTS ==
  ASSUME TS, NEW o \in Outcomes, Exists(o)
  PROVE  TS'
<1>1. CRTypes' /\ GrafanaTypes' /\ ServerTypes' /\ QueueTypes' /\ SyncOK'
  BY DEF Exists, TS, CRTypes, LiveHasUid, GrafanaTypes, ServerTypes, QueueTypes, SyncOK, SyncShape,
         vars, clusterVars, crVars, grafanaVars, workVars, grafanaDB
<1>2. WorkerOK'
  BY DEF Exists, TS, WorkerOK, Worker, WorkerShape, CreatePCs, DeletePCs, Continue
<1>3. QED BY <1>1, <1>2 DEF TS

LEMMA FolderTS ==
  ASSUME TS, NEW o \in Outcomes, GetOrCreateFolder(o)
  PROVE  TS'
<1>1. CRTypes' /\ GrafanaTypes' /\ QueueTypes' /\ SyncOK'
  BY DEF GetOrCreateFolder, TS, CRTypes, LiveHasUid, GrafanaTypes, QueueTypes, SyncOK, SyncShape,
         vars, clusterVars, crVars, grafanaVars, workVars, grafanaDB
<1>2. ServerTypes'
  BY DEF GetOrCreateFolder, TS, ServerTypes, WorkerOK, WorkerShape, CreatePCs,
         workVars, crVars, grafanaVars
<1>3. WorkerOK'
  BY DEF GetOrCreateFolder, TS, WorkerOK, Worker, WorkerShape, CreatePCs, DeletePCs, Continue
<1>4. QED BY <1>1, <1>2, <1>3 DEF TS

LEMMA PushTS ==
  ASSUME TS, NEW o \in Outcomes, NewDashboard(o)
  PROVE  TS'
<1>1. CRTypes' /\ GrafanaTypes' /\ QueueTypes' /\ SyncOK'
  BY DEF NewDashboard, TS, CRTypes, LiveHasUid, GrafanaTypes, QueueTypes, SyncOK, SyncShape,
         vars, clusterVars, crVars, grafanaVars, workVars, grafanaDB
<1>2. ServerTypes'
  <2>1. w.cr.json \in Contents \cup {Absent} /\ w.g \in Grafanas /\ w.key \in Names
    BY DEF NewDashboard, TS, WorkerOK, Worker, WorkerShape, CreatePCs, Resource
  <2>2. UNCHANGED store \/ store' = [store EXCEPT ![w.g][w.key][w.cr.uid] = w.cr.json]
    BY DEF NewDashboard
  <2>3. UNCHANGED <<folders, pluginReq>>
    BY DEF NewDashboard
  <2>4. CASE UNCHANGED store
    BY <2>3, <2>4 DEF TS, ServerTypes
  <2>5. CASE store' = [store EXCEPT ![w.g][w.key][w.cr.uid] = w.cr.json]
    <3>1. store \in Stores
      BY DEF TS, ServerTypes
    <3>2. [store EXCEPT ![w.g][w.key][w.cr.uid] = w.cr.json] \in Stores
      BY <2>1, <3>1, WriteStoreType
    <3>3. QED BY <2>3, <2>5, <3>2 DEF TS, ServerTypes
  <2>6. QED BY <2>2, <2>4, <2>5
<1>3. WorkerOK'
  BY DEF NewDashboard, TS, WorkerOK, Worker, WorkerShape, CreatePCs, DeletePCs, Continue
<1>4. QED BY <1>1, <1>2, <1>3 DEF TS

LEMMA RecordTS ==
  ASSUME TS, NEW o \in Outcomes, RecordDashboard(o)
  PROVE  TS'
<1>1. CRTypes' /\ ServerTypes' /\ QueueTypes' /\ SyncOK'
  BY DEF RecordDashboard, TS, CRTypes, LiveHasUid, ServerTypes, QueueTypes, SyncOK, SyncShape,
         vars, clusterVars, crVars, grafanaVars, workVars, grafanaDB
<1>2. GrafanaTypes'
  <2>1. w.snap[w.g] \in GrafanaResource /\ w.g \in Grafanas /\ w.key \in Names
    BY DEF RecordDashboard, TS, WorkerOK, Worker, WorkerShape, GrafanaCopies, CreatePCs, DeletePCs
  <2>2. w.snap[w.g].list[w.key] \in Seq(Uids)
    BY <2>1 DEF GrafanaResource
  <2>3. Add(w.snap[w.g].list[w.key], w.cr.uid) \in Seq(Uids)
    BY <2>2, AddType DEF RecordDashboard, TS, WorkerOK, WorkerShape, CreatePCs
  <2>4. [w.snap[w.g] EXCEPT !.list[w.key] = Add(w.snap[w.g].list[w.key], w.cr.uid)] \in GrafanaResource
    BY <2>1, <2>2, <2>3 DEF GrafanaResource
  <2>5. UNCHANGED <<grafana, gstale>>
        \/ WriteGrafana(w.g, [w.snap[w.g] EXCEPT !.list[w.key] = Add(w.snap[w.g].list[w.key], w.cr.uid)])
    BY DEF RecordDashboard, WriteList
  <2>6. UNCHANGED gcache
    BY DEF RecordDashboard
  <2>7. QED BY <2>1, <2>4, <2>5, <2>6, WriteGrafanaType DEF TS, GrafanaTypes
<1>3. WorkerOK'
  BY DEF RecordDashboard, TS, WorkerOK, Worker, WorkerShape, CreatePCs, DeletePCs, Continue
<1>4. QED BY <1>1, <1>2, <1>3 DEF TS

LEMMA HashTS ==
  ASSUME TS, NEW o \in Outcomes, UpdateStatus(o)
  PROVE  TS'
<1>1. GrafanaTypes' /\ ServerTypes' /\ QueueTypes' /\ SyncOK'
  BY DEF UpdateStatus, TS, GrafanaTypes, ServerTypes, QueueTypes, SyncOK, SyncShape,
         vars, clusterVars, crVars, grafanaVars, workVars, grafanaDB
<1>2. CRTypes'
  <2>. DEFINE new == [w.cr EXCEPT !.hash = Hash(w.cr.json)]
  <2>1. w.key \in Names /\ new \in Resource /\ new.uid \in Uids
    BY DEF UpdateStatus, TS, WorkerOK, Worker, WorkerShape, CreatePCs, Resource, Live
  <2>2. UNCHANGED <<cr, crstale>> \/ WriteCR(w.key, new, IF o = "ok" THEN {"worker"} ELSE {})
    BY DEF UpdateStatus
  <2>3. UNCHANGED crcache
    BY DEF UpdateStatus
  <2>4. CASE UNCHANGED <<cr, crstale>>
    BY <2>3, <2>4 DEF TS, CRTypes, LiveHasUid
  <2>5. CASE WriteCR(w.key, new, IF o = "ok" THEN {"worker"} ELSE {})
    <3>. HIDE DEF new
    <3>. QED BY <2>1, <2>3, <2>5, WriteCRType DEF TS
  <2>6. QED BY <2>2, <2>4, <2>5
<1>3. WorkerOK'
  <2>. DEFINE new == [w.cr EXCEPT !.hash = Hash(w.cr.json)]
  <2>1. new \in Resource /\ new.uid = w.cr.uid /\ new.json = w.cr.json
    BY DEF UpdateStatus, TS, WorkerOK, Worker, WorkerShape, CreatePCs, Resource, Live
  <2>2. w.pc = "hash" /\ w' = [Continue EXCEPT !.cr = new]
    BY DEF UpdateStatus
  <2>3. QED BY <2>1, <2>2 DEF TS, WorkerOK, Worker, WorkerShape, CreatePCs, DeletePCs, Continue, Live
<1>4. QED BY <1>1, <1>2, <1>3 DEF TS

LEMMA ListForDeleteTS ==
  ASSUME TS, ListForDelete
  PROVE  TS'
<1>1. CRTypes' /\ ServerTypes' /\ QueueTypes' /\ SyncOK'
  BY DEF ListForDelete, TS, CRTypes, LiveHasUid, ServerTypes, QueueTypes, SyncOK, SyncShape,
         vars, clusterVars, crVars, grafanaVars, workVars, grafanaDB
<1>2. GrafanaTypes'
  BY CopyAgeType DEF ListForDelete, TS, GrafanaHolders
<1>3. WorkerOK'
  BY DEF ListForDelete, TS, WorkerOK, Worker, WorkerShape, CreatePCs, DeletePCs, Continue, GrafanaTypes
<1>4. QED BY <1>1, <1>2, <1>3 DEF TS

LEMMA ReadTS ==
  ASSUME TS, NEW o \in Outcomes, NEW g \in Grafanas, ReadDashboard(g, o)
  PROVE  TS'
<1>1. CRTypes' /\ GrafanaTypes' /\ ServerTypes' /\ QueueTypes' /\ SyncOK'
  BY DEF ReadDashboard, TS, CRTypes, LiveHasUid, GrafanaTypes, ServerTypes, QueueTypes, SyncOK, SyncShape,
         vars, clusterVars, crVars, grafanaVars, workVars, grafanaDB
<1>2. WorkerOK'
  <2> DEFINE found == store[g][w.key][FoundUid(g)] # Absent
  <2>1. /\ w.pc = "delNext" /\ g \in w.todo
        /\ w' = [w EXCEPT !.pc = IF o = "ok" THEN "delDash" ELSE "error",
                         !.todo = w.todo \ {g}, !.g = g, !.dash = found]
    BY DEF ReadDashboard
  <2>2. found \in BOOLEAN
    OBVIOUS
  <2> HIDE DEF found
  <2>3. w' \in Worker
    BY <2>1, <2>2 DEF TS, WorkerOK, Worker, DeletePCs
  <2>4. WorkerShape'
    BY <2>1 DEF TS, WorkerOK, Worker, WorkerShape, CreatePCs, DeletePCs
  <2>5. QED BY <2>3, <2>4 DEF WorkerOK
<1>3. QED BY <1>1, <1>2 DEF TS

LEMMA DeleteDashboardTS ==
  ASSUME TS, NEW o \in Outcomes, DeleteDashboard(o)
  PROVE  TS'
<1>1. CRTypes' /\ GrafanaTypes' /\ QueueTypes' /\ SyncOK'
  BY DEF DeleteDashboard, TS, CRTypes, LiveHasUid, GrafanaTypes, QueueTypes, SyncOK, SyncShape,
         vars, clusterVars, crVars, grafanaVars, workVars, grafanaDB
<1>2. ServerTypes'
  <2>1. w.g \in Grafanas /\ w.key \in Names
    BY DEF DeleteDashboard, TS, WorkerOK, WorkerShape, DeletePCs
  <2>2. UNCHANGED store \/ store' = [store EXCEPT ![w.g][w.key][FoundUid(w.g)] = Absent]
    BY DEF DeleteDashboard
  <2>3. UNCHANGED <<folders, pluginReq>>
    BY DEF DeleteDashboard
  <2>4. CASE UNCHANGED store
    BY <2>3, <2>4 DEF TS, ServerTypes
  <2>5. CASE store' = [store EXCEPT ![w.g][w.key][FoundUid(w.g)] = Absent]
    <3>1. store \in Stores
      BY DEF TS, ServerTypes
    <3>2. [store EXCEPT ![w.g][w.key][FoundUid(w.g)] = Absent] \in Stores
      BY <2>1, <3>1, WriteStoreType
    <3>3. QED BY <2>3, <2>5, <3>2 DEF TS, ServerTypes
  <2>6. QED BY <2>2, <2>4, <2>5
<1>3. WorkerOK'
  BY DEF DeleteDashboard, TS, WorkerOK, Worker, WorkerShape, CreatePCs, DeletePCs, Continue
<1>4. QED BY <1>1, <1>2, <1>3 DEF TS

LEMMA CheckFolderTS ==
  ASSUME TS, NEW o \in Outcomes, CheckFolder(o)
  PROVE  TS'
<1>1. CRTypes' /\ GrafanaTypes' /\ ServerTypes' /\ QueueTypes' /\ SyncOK'
  BY DEF CheckFolder, TS, CRTypes, LiveHasUid, GrafanaTypes, ServerTypes, QueueTypes, SyncOK, SyncShape,
         vars, clusterVars, crVars, grafanaVars, workVars, grafanaDB
<1>2. WorkerOK'
  BY DEF CheckFolder, TS, WorkerOK, Worker, WorkerShape, CreatePCs, DeletePCs, Continue
<1>3. QED BY <1>1, <1>2 DEF TS

LEMMA DeleteFolderTS ==
  ASSUME TS, NEW o \in Outcomes, DeleteFolder(o)
  PROVE  TS'
<1>1. CRTypes' /\ GrafanaTypes' /\ QueueTypes' /\ SyncOK'
  BY DEF DeleteFolder, TS, CRTypes, LiveHasUid, GrafanaTypes, QueueTypes, SyncOK, SyncShape,
         vars, clusterVars, crVars, grafanaVars, workVars, grafanaDB
<1>2. ServerTypes'
  <2>1. w.g \in Grafanas
    BY DEF DeleteFolder, TS, WorkerOK, WorkerShape, DeletePCs
  <2>. DEFINE f == FolderOf[w.key]
             purged == [n \in Names |-> [u \in Uids |-> IF <<n, u>> \in InFolder(w.g, f)
                                                     THEN Absent ELSE store[w.g][n][u]]]
  <2>2. purged \in [Names -> [Uids -> Contents \cup {Absent}]]
    BY <2>1 DEF TS, ServerTypes, Stores
  <2>3. \/ UNCHANGED <<store, folders>>
        \/ folders' = [folders EXCEPT ![w.g] = @ \ {f}] /\ store' = [store EXCEPT ![w.g] = purged]
    BY DEF DeleteFolder, grafanaDB
  <2>4. UNCHANGED pluginReq
    BY DEF DeleteFolder
  <2>. HIDE DEF purged
  <2>5. store' \in [Grafanas -> [Names -> [Uids -> Contents \cup {Absent}]]]
    BY <2>2, <2>3 DEF TS, ServerTypes, Stores
  <2>6. folders' \in [Grafanas -> SUBSET Folders]
    <3>1. folders \in [Grafanas -> SUBSET Folders] /\ folders[w.g] \ {f} \in SUBSET Folders
      BY <2>1 DEF TS, ServerTypes
    <3>2. QED BY <2>3, <3>1, ExceptType
  <2>7. QED BY <2>4, <2>5, <2>6 DEF TS, ServerTypes, Stores
<1>3. WorkerOK'
  BY DEF DeleteFolder, TS, WorkerOK, Worker, WorkerShape, CreatePCs, DeletePCs, Continue
<1>4. QED BY <1>1, <1>2, <1>3 DEF TS

LEMMA ClearPluginsTS ==
  ASSUME TS, NEW o \in Outcomes, ClearPlugins(o)
  PROVE  TS'
<1>1. CRTypes' /\ GrafanaTypes' /\ QueueTypes' /\ SyncOK'
  BY DEF ClearPlugins, TS, CRTypes, LiveHasUid, GrafanaTypes, QueueTypes, SyncOK, SyncShape,
         vars, clusterVars, crVars, grafanaVars, workVars, grafanaDB
<1>2. ServerTypes'
  BY DEF ClearPlugins, TS, ServerTypes, ReconcilePlugins, PluginsAfter, WorkerOK, WorkerShape, CreatePCs, DeletePCs, clusterVars
<1>3. WorkerOK'
  BY DEF ClearPlugins, TS, WorkerOK, Worker, WorkerShape, CreatePCs, DeletePCs, Continue
<1>4. QED BY <1>1, <1>2, <1>3 DEF TS

LEMMA RemoveRecordTS ==
  ASSUME TS, NEW o \in Outcomes, RemoveRecord(o)
  PROVE  TS'
<1>1. CRTypes' /\ ServerTypes' /\ QueueTypes' /\ SyncOK'
  BY DEF RemoveRecord, TS, CRTypes, LiveHasUid, ServerTypes, QueueTypes, SyncOK, SyncShape,
         vars, clusterVars, crVars, grafanaVars, workVars, grafanaDB
<1>2. GrafanaTypes'
  <2>1. w.snap[w.g] \in GrafanaResource /\ w.g \in Grafanas /\ w.key \in Names
    BY DEF RemoveRecord, TS, WorkerOK, Worker, WorkerShape, GrafanaCopies, CreatePCs, DeletePCs
  <2>2. w.snap[w.g].list[w.key] \in Seq(Uids)
    BY <2>1 DEF GrafanaResource
  <2>3. Remove(w.snap[w.g].list[w.key]) \in Seq(Uids)
    BY EmptyList DEF Remove
  <2>4. [w.snap[w.g] EXCEPT !.list[w.key] = Remove(w.snap[w.g].list[w.key])] \in GrafanaResource
    BY <2>1, <2>2, <2>3 DEF GrafanaResource
  <2>5. UNCHANGED <<grafana, gstale>>
        \/ WriteGrafana(w.g, [w.snap[w.g] EXCEPT !.list[w.key] = Remove(w.snap[w.g].list[w.key])])
    BY DEF RemoveRecord, WriteList
  <2>6. UNCHANGED gcache
    BY DEF RemoveRecord
  <2>7. QED BY <2>1, <2>4, <2>5, <2>6, WriteGrafanaType DEF TS, GrafanaTypes
<1>3. WorkerOK'
  <2>1. w.key \in Names /\ w \in Worker /\ w.todo = w.todo
    BY DEF RemoveRecord, TS, WorkerOK, WorkerShape
  <2>2. \A h \in w.todo : Listed(w.snap[h].list[w.key])
    BY DEF RemoveRecord, TS, WorkerOK, WorkerShape, DeletePCs
  <2>3. w' = [w EXCEPT !.pc = IF o = "ok" THEN "delNext" ELSE "error",
                       !.g = Absent, !.dash = FALSE]
    BY DEF RemoveRecord
  <2>4. w' \in Worker
    BY <2>1, <2>3 DEF Worker, DeletePCs
  <2>5. /\ w'.pc \in {"delNext", "error"} /\ w'.key = w.key
        /\ w'.todo = w.todo /\ w'.snap = w.snap
    BY <2>1, <2>3 DEF Worker
  <2>6. QED BY <2>1, <2>2, <2>4, <2>5 DEF WorkerOK, WorkerShape, CreatePCs, DeletePCs
<1>4. QED BY <1>1, <1>2, <1>3 DEF TS

LEMMA FinishDeleteTS ==
  ASSUME TS, FinishDelete
  PROVE  TS'
<1>1. CRTypes' /\ ServerTypes' /\ SyncOK'
  BY DEF FinishDelete, TS, CRTypes, LiveHasUid, ServerTypes, SyncOK, SyncShape,
         vars, clusterVars, crVars, grafanaVars, workVars, grafanaDB
<1>2. GrafanaTypes'
  BY CopyAgeType DEF FinishDelete, TS, GrafanaHolders
<1>3. QueueTypes'
  BY AddAfterType DEF FinishDelete, TS, WorkerOK, WorkerShape, QueueTypes
<1>4. WorkerOK'
  BY IdleType DEF FinishDelete, WorkerOK, WorkerShape, Idle, CreatePCs, DeletePCs
<1>5. QED BY <1>1, <1>2, <1>3, <1>4 DEF TS

-----------------------------------------------------------------------------
(* Sync goroutine and process *)

LEMMA SyncListGrafanasTS ==
  ASSUME TS, SyncListGrafanas
  PROVE  TS'
<1>1. CRTypes' /\ ServerTypes' /\ QueueTypes' /\ WorkerOK'
  BY DEF SyncListGrafanas, TS, CRTypes, LiveHasUid, ServerTypes, QueueTypes, WorkerOK, WorkerShape,
         vars, clusterVars, crVars, grafanaVars, workVars, grafanaDB
<1>2. GrafanaTypes'
  BY CopyAgeType DEF SyncListGrafanas, TS, GrafanaHolders
<1>3. SyncOK'
  BY DEF SyncListGrafanas, TS, SyncOK, Syncer, SyncShape, GrafanaTypes
<1>4. QED BY <1>1, <1>2, <1>3 DEF TS

LEMMA SyncListDashboardsTS ==
  ASSUME TS, SyncListDashboards
  PROVE  TS'
<1>1. CRTypes' /\ GrafanaTypes' /\ ServerTypes' /\ QueueTypes' /\ WorkerOK'
  BY DEF SyncListDashboards, TS, CRTypes, LiveHasUid, GrafanaTypes, ServerTypes, QueueTypes, WorkerOK, WorkerShape,
         vars, clusterVars, crVars, grafanaVars, workVars, grafanaDB
<1>2. SyncOK'
  BY DEF SyncListDashboards, TS, SyncOK, Syncer, SyncShape
<1>3. QED BY <1>1, <1>2 DEF TS

LEMMA SyncStartTS ==
  ASSUME TS, NEW g \in Grafanas, SyncStart(g)
  PROVE  TS'
<1>1. CRTypes' /\ GrafanaTypes' /\ ServerTypes' /\ QueueTypes' /\ WorkerOK'
  BY DEF SyncStart, TS, CRTypes, LiveHasUid, GrafanaTypes, ServerTypes, QueueTypes, WorkerOK, WorkerShape,
         vars, clusterVars, crVars, grafanaVars, workVars, grafanaDB
<1>2. SyncOK'
  BY DEF SyncStart, TS, SyncOK, Syncer, SyncShape
<1>3. QED BY <1>1, <1>2 DEF TS

LEMMA SyncDeleteTS ==
  ASSUME TS, NEW o \in Outcomes, NEW e \in Names \X Uids, SyncDelete(e, o)
  PROVE  TS'
<1>1. CRTypes' /\ GrafanaTypes' /\ QueueTypes' /\ WorkerOK'
  BY DEF SyncDelete, TS, CRTypes, LiveHasUid, GrafanaTypes, QueueTypes, WorkerOK, WorkerShape,
         vars, clusterVars, crVars, grafanaVars, workVars, grafanaDB
<1>2. ServerTypes'
  <2>1. s.g \in Grafanas /\ e[1] \in Names
    BY DEF SyncDelete, TS, SyncOK, SyncShape
  <2>2. UNCHANGED store \/ store' = [store EXCEPT ![s.g][e[1]][e[2]] = Absent]
    BY DEF SyncDelete
  <2>3. UNCHANGED <<folders, pluginReq>>
    BY DEF SyncDelete
  <2>4. CASE UNCHANGED store
    BY <2>3, <2>4 DEF TS, ServerTypes
  <2>5. CASE store' = [store EXCEPT ![s.g][e[1]][e[2]] = Absent]
    <3>1. store \in Stores
      BY DEF TS, ServerTypes
    <3>2. [store EXCEPT ![s.g][e[1]][e[2]] = Absent] \in Stores
      BY <2>1, <3>1, WriteStoreType
    <3>3. QED BY <2>3, <2>5, <3>2 DEF TS, ServerTypes
  <2>6. QED BY <2>2, <2>4, <2>5
<1>3. SyncOK'
  <2>1. s \in Syncer /\ (s.pc = "delete" => s.g \in Grafanas)
    BY DEF TS, SyncOK, SyncShape
  <2>2. CASE s' = [s EXCEPT !.left = @ \ {e}, !.count = @ + 1]
    <3>1. s.count + 1 \in Nat /\ s.left \ {e} \in SUBSET (Names \X Uids)
      BY <2>1 DEF Syncer
    <3>2. QED BY <2>1, <2>2, <3>1 DEF SyncOK, Syncer, SyncShape
  <2>3. CASE s' = [s EXCEPT !.pc = "again"]
    BY <2>1, <2>3 DEF SyncOK, Syncer, SyncShape
  <2>4. QED BY <2>2, <2>3 DEF SyncDelete
<1>4. QED BY <1>1, <1>2, <1>3 DEF TS

LEMMA SyncUpdateTS ==
  ASSUME TS, NEW o \in Outcomes, SyncUpdate(o)
  PROVE  TS'
<1>1. CRTypes' /\ ServerTypes' /\ QueueTypes' /\ WorkerOK'
  BY DEF SyncUpdate, TS, CRTypes, LiveHasUid, ServerTypes, QueueTypes, WorkerOK, WorkerShape,
         vars, clusterVars, crVars, grafanaVars, workVars, grafanaDB
<1>2. GrafanaTypes'
  <2>. DEFINE new == [s.seen[s.g] EXCEPT !.list = [n \in Names |->
                        IF n \in s.gone THEN Remove(@[n]) ELSE @[n]]]
  <2>1. s.g \in Grafanas /\ s.seen[s.g] \in GrafanaResource
    BY DEF SyncUpdate, TS, SyncOK, Syncer, SyncShape, GrafanaCopies
  <2>2. new \in GrafanaResource
    BY <2>1, EmptyList DEF GrafanaResource, Remove
  <2>3. UNCHANGED <<grafana, gstale>> \/ WriteGrafana(s.g, new)
    BY DEF SyncUpdate
  <2>4. UNCHANGED gcache
    BY DEF SyncUpdate
  <2>5. QED BY <2>1, <2>2, <2>3, <2>4, WriteGrafanaType DEF TS, GrafanaTypes
<1>3. SyncOK'
  BY DEF SyncUpdate, TS, SyncOK, Syncer, SyncShape
<1>4. QED BY <1>1, <1>2, <1>3 DEF TS

LEMMA SyncReturnTS ==
  ASSUME TS, SyncReturn
  PROVE  TS'
<1>1. CRTypes' /\ ServerTypes' /\ QueueTypes' /\ WorkerOK'
  BY DEF SyncReturn, TS, CRTypes, LiveHasUid, ServerTypes, QueueTypes, WorkerOK, WorkerShape,
         vars, clusterVars, crVars, grafanaVars, workVars, grafanaDB
<1>2. GrafanaTypes'
  BY CopyAgeType DEF SyncReturn, TS, GrafanaHolders
<1>3. SyncOK'
  BY WaitingType DEF SyncReturn, SyncOK, Syncer, SyncShape, Waiting
<1>4. QED BY <1>1, <1>2, <1>3 DEF TS

LEMMA CrashTS ==
  ASSUME TS, Crash
  PROVE  TS'
<1>1. ServerTypes'
  BY DEF Crash, ClusterCrash, TS, ServerTypes,
         vars, clusterVars, crVars, grafanaVars, workVars, grafanaDB
<1>2. CRTypes'
  BY DEF Crash, ClusterCrash, TS, CRTypes, CRHolders, LiveHasUid
<1>3. GrafanaTypes'
  BY DEF Crash, ClusterCrash, TS, GrafanaTypes, GrafanaHolders
<1>4. QueueTypes'
  BY DEF Crash, ClusterCrash, QueueTypes
<1>5. WorkerOK'
  BY IdleType DEF Crash, ClusterCrash, WorkerOK, WorkerShape, Idle, CreatePCs, DeletePCs
<1>6. SyncOK'
  BY WaitingType DEF Crash, ClusterCrash, SyncOK, SyncShape, Waiting
<1>7. QED BY <1>1, <1>2, <1>3, <1>4, <1>5, <1>6 DEF TS

LEMMA StartOperatorTS ==
  ASSUME TS, Start
  PROVE  TS'
<1>1. ServerTypes' /\ WorkerOK' /\ SyncOK'
  BY DEF Start, ClusterStart, TS, ServerTypes, WorkerOK, WorkerShape, SyncOK, SyncShape,
         vars, clusterVars, crVars, grafanaVars, workVars, grafanaDB
<1>2. CRTypes'
  BY DEF Start, ClusterStart, TS, CRTypes, LiveHasUid
<1>3. GrafanaTypes'
  BY DEF Start, ClusterStart, TS, GrafanaTypes
<1>4. QueueTypes'
  BY DEF Start, ClusterStart, TS, QueueTypes
<1>5. QED BY <1>1, <1>2, <1>3, <1>4 DEF TS

LEMMA NextTS == TS /\ [Next]_vars => TS'
<1>1. ASSUME TS, UNCHANGED vars PROVE TS'
  BY <1>1 DEF TS, vars, clusterVars, CRTypes, LiveHasUid, GrafanaTypes, ServerTypes, QueueTypes,
     WorkerOK, WorkerShape, SyncOK, SyncShape
<1>2. ASSUME TS, LocalStep PROVE TS'
  BY <1>2, DequeueTS, SkipTS, FinishTS, ListForDeleteTS, FinishDeleteTS DEF LocalStep
<1>3. ASSUME TS, SyncLocalStep PROVE TS'
  BY <1>3, SyncListGrafanasTS, SyncListDashboardsTS, SyncReturnTS, SyncStartTS DEF SyncLocalStep
<1>4. ASSUME TS, NEW o \in Outcomes, CreateStep(o) PROVE TS'
  BY <1>4, MatchTS, StartTS, ExistsTS, FolderTS, PushTS, RecordTS, HashTS DEF CreateStep
<1>5. ASSUME TS, NEW o \in Outcomes, DeleteStep(o) PROVE TS'
  BY <1>5, ReadTS, DeleteDashboardTS, CheckFolderTS, DeleteFolderTS, ClearPluginsTS,
     RemoveRecordTS DEF DeleteStep
<1>6. ASSUME TS, NEW o \in Outcomes, SyncStep(o) PROVE TS'
  BY <1>6, SyncDeleteTS, SyncUpdateTS DEF SyncStep
<1>7. QED
  BY <1>1, <1>2, <1>3, <1>4, <1>5, <1>6, OutsideTS, CrashTS, StartOperatorTS
  DEF Next, Controller

(* Every variable keeps its type, whatever the order of the steps of the   *)
(* worker, the sync goroutine, the users and the process: in particular no *)
(* status list ever holds a uid that was not issued, and the uid a pass    *)
(* writes is one.                                                          *)
THEOREM TypeCorrect == Spec => []TypeOK
<1>1. Spec => []TS
  BY InitTS, NextTS, PTL DEF Spec
<1>2. TS => TypeOK
  BY TSisTypeAndShape
<1>3. QED BY <1>1, <1>2, PTL

-----------------------------------------------------------------------------
(* Which actions change which variables *)

LEMMA ChangesCRVars ==
  ASSUME [Next]_vars
  PROVE  \/ UNCHANGED crVars
         \/ \E n \in Names : \/ Env(CreateCR(n)) \/ Env(EditCR(n)) \/ Env(DeleteCR(n))
                           \/ Env(SyncCRCache(n)) \/ Dequeue(n)
         \/ \E o \in Outcomes : GetMatchingDashboardInstances(o) \/ UpdateStatus(o)
         \/ FinishReconcile \/ Crash \/ Start
<1> USE DEF vars, clusterVars, crVars, grafanaVars, workVars, grafanaDB
<1>1. CASE UNCHANGED vars
  BY <1>1
<1>2. CASE LocalStep
  BY <1>2 DEF LocalStep, SkipNotReady, ListForDelete, FinishDelete
<1>3. CASE SyncLocalStep
  BY <1>3, ZenonT(60) DEF SyncLocalStep, SyncListGrafanas, SyncListDashboards, SyncReturn, SyncStart
<1>4. CASE \E o \in Outcomes : CreateStep(o)
  BY <1>4 DEF CreateStep, StartInstance, Exists, GetOrCreateFolder, NewDashboard, RecordDashboard
<1>5. CASE \E o \in Outcomes : DeleteStep(o)
  BY <1>5 DEF DeleteStep, ReadDashboard, DeleteDashboard, CheckFolder, DeleteFolder,
     ClearPlugins, RemoveRecord
<1>6. CASE \E o \in Outcomes : SyncStep(o)
  BY <1>6 DEF SyncStep, SyncDelete, SyncUpdate
<1>7. CASE Env(Outside)
  BY <1>7 DEF Env, Outside, TimerFires, GrafanaWrite, UiEdit, Wipe, SyncGrafanaCache
<1>8. QED
  BY <1>1, <1>2, <1>3, <1>4, <1>5, <1>6, <1>7 DEF Next, Controller

LEMMA ChangesGrafanaVars ==
  ASSUME [Next]_vars
  PROVE  \/ UNCHANGED grafanaVars
         \/ \E g \in Grafanas : Env(GrafanaWrite(g)) \/ Env(SyncGrafanaCache(g))
         \/ \E o \in Outcomes : \/ GetMatchingDashboardInstances(o) \/ RecordDashboard(o)
                              \/ RemoveRecord(o) \/ SyncUpdate(o)
         \/ FinishReconcile \/ ListForDelete \/ FinishDelete
         \/ SyncListGrafanas \/ SyncReturn \/ Crash \/ Start
<1> USE DEF vars, clusterVars, crVars, grafanaVars, workVars, grafanaDB
<1>1. CASE UNCHANGED vars
  BY <1>1
<1>2. CASE LocalStep
  BY <1>2 DEF LocalStep, Dequeue, SkipNotReady
<1>3. CASE SyncLocalStep
  BY <1>3, ZenonT(60) DEF SyncLocalStep, SyncListDashboards, SyncStart
<1>4. CASE \E o \in Outcomes : CreateStep(o)
  BY <1>4 DEF CreateStep, UpdateStatus, StartInstance, Exists, GetOrCreateFolder, NewDashboard
<1>5. CASE \E o \in Outcomes : DeleteStep(o)
  BY <1>5 DEF DeleteStep, ReadDashboard, DeleteDashboard, CheckFolder, DeleteFolder, ClearPlugins
<1>6. CASE \E o \in Outcomes : SyncStep(o)
  BY <1>6 DEF SyncStep, SyncDelete
<1>7. CASE Env(Outside)
  BY <1>7 DEF Env, Outside, CreateCR, EditCR, DeleteCR, SyncCRCache, TimerFires, UiEdit, Wipe
<1>8. QED
  BY <1>1, <1>2, <1>3, <1>4, <1>5, <1>6, <1>7 DEF Next, Controller

LEMMA ControllerChangesStore ==
  ASSUME Controller
  PROVE  \/ UNCHANGED store
         \/ \E o \in Outcomes : NewDashboard(o) \/ DeleteDashboard(o) \/ DeleteFolder(o)
         \/ \E o \in Outcomes : \E e \in Names \X Uids : SyncDelete(e, o)
<1> USE DEF vars, clusterVars, crVars, grafanaVars, workVars, grafanaDB
<1>1. CASE LocalStep
  BY <1>1 DEF LocalStep, Dequeue, SkipNotReady, FinishReconcile, ListForDelete, FinishDelete
<1>2. CASE SyncLocalStep
  BY <1>2 DEF SyncLocalStep, SyncListGrafanas, SyncListDashboards, SyncReturn, SyncStart
<1>3. CASE \E o \in Outcomes : CreateStep(o)
  BY <1>3 DEF CreateStep, GetMatchingDashboardInstances, UpdateStatus, StartInstance, Exists,
     GetOrCreateFolder, RecordDashboard
<1>4. CASE \E o \in Outcomes : DeleteStep(o)
  BY <1>4 DEF DeleteStep, ReadDashboard, CheckFolder, ClearPlugins, RemoveRecord
<1>5. CASE \E o \in Outcomes : SyncStep(o)
  BY <1>5 DEF SyncStep, SyncUpdate
<1>6. QED
  BY <1>1, <1>2, <1>3, <1>4, <1>5 DEF Controller

LEMMA ChangesStore ==
  ASSUME [Next]_vars
  PROVE  \/ UNCHANGED store
         \/ Controller
         \/ \E g \in Grafanas : Env(UiEdit(g)) \/ Env(Wipe(g))
<1> USE DEF vars, clusterVars, grafanaDB
<1>1. CASE Crash \/ Start \/ UNCHANGED vars
  BY <1>1 DEF Crash, ClusterCrash, Start, ClusterStart
<1>2. CASE Env(Outside)
  BY <1>2 DEF Env, Outside, CreateCR, EditCR, DeleteCR, SyncCRCache, TimerFires, GrafanaWrite,
     SyncGrafanaCache
<1>3. QED
  BY <1>1, <1>2 DEF Next

LEMMA ChangesSync ==
  ASSUME [Next]_vars
  PROVE  \/ UNCHANGED s
         \/ Crash \/ SyncLocalStep
         \/ \E o \in Outcomes : SyncStep(o)
<1> USE DEF vars
<1>1. CASE UNCHANGED vars
  BY <1>1
<1>2. CASE LocalStep
  BY <1>2, ZenonT(60) DEF LocalStep, Dequeue, SkipNotReady, FinishReconcile, ListForDelete, FinishDelete
<1>3. CASE \E o \in Outcomes : CreateStep(o)
  BY <1>3 DEF CreateStep, GetMatchingDashboardInstances, UpdateStatus, StartInstance, Exists,
     GetOrCreateFolder, NewDashboard, RecordDashboard
<1>4. CASE \E o \in Outcomes : DeleteStep(o)
  BY <1>4 DEF DeleteStep, ReadDashboard, DeleteDashboard, CheckFolder, DeleteFolder, ClearPlugins,
     RemoveRecord
<1>5. CASE Start \/ Env(Outside)
  BY <1>5 DEF Start, ClusterStart, Env
<1>6. QED
  BY <1>1, <1>2, <1>3, <1>4, <1>5 DEF Next, Controller

LEMMA ChangesWorker ==
  ASSUME [Next]_vars
  PROVE  \/ UNCHANGED w
         \/ Crash \/ LocalStep
         \/ \E o \in Outcomes : CreateStep(o) \/ DeleteStep(o)
<1>1. CASE UNCHANGED vars
  BY <1>1 DEF vars
<1>2. CASE SyncLocalStep
  BY <1>2 DEF SyncLocalStep, SyncListGrafanas, SyncListDashboards, SyncReturn, SyncStart
<1>3. CASE \E o \in Outcomes : SyncStep(o)
  BY <1>3 DEF SyncStep, SyncDelete, SyncUpdate
<1>4. CASE Start \/ Env(Outside)
  BY <1>4 DEF Start, ClusterStart, Env
<1>5. QED
  BY <1>1, <1>2, <1>3, <1>4 DEF Next, Controller

-----------------------------------------------------------------------------
(* What a step can do to a resource and to its copies *)

\* The worker holds, or is about to write, a hash for resource n.
HashAtHand(n) == /\ w.key = n /\ w.pc \in CreatePCs
                 /\ w.cr.hash # Absent \/ w.pc = "hash"

CRStep(n) ==
    /\ cr'[n].uid >= cr[n].uid
    /\ cr'[n].uid = cr[n].uid /\ Live(cr'[n]) => Live(cr[n])
    /\ cr'[n].hash # Absent =>
         /\ cr'[n].uid = cr[n].uid
         /\ cr[n].hash # Absent \/ (HashAtHand(n) /\ w.cr.uid = cr[n].uid)

LEMMA WorkerTypes ==
  ASSUME TS, w.pc \in CreatePCs
  PROVE  /\ w.key \in Names /\ w.cr \in Resource /\ Live(w.cr) /\ w.cr.uid \in Uids
         /\ w.pc \notin {"match", "next"} => w.g \in Grafanas
BY DEF TS, WorkerOK, Worker, WorkerShape, CreatePCs

\* What the worker writes is the resource it writes over, but for the status.
LEMMA WorkerWrite ==
  ASSUME TS, CopiesOK, w.pc \in CreatePCs, "worker" \notin crstale[w.key],
         NEW new \in Resource, new.uid = w.cr.uid, new.json = w.cr.json,
         new.hash # Absent => w.cr.hash # Absent \/ w.pc = "hash",
         NEW by, WriteCR(w.key, new, by)
  PROVE  \A n \in Names : CRStep(n)
<1>1. w.key \in Names /\ cr \in [Names -> Resource]
  BY WorkerTypes DEF TS, CRTypes
<1>2. cr[w.key].uid = new.uid /\ cr[w.key].json = new.json
  BY DEF CopiesOK
<1>3. cr' = [cr EXCEPT ![w.key] = new]
  BY DEF WriteCR
<1>4. TAKE n \in Names
<1>5. cr[n].uid \in Int /\ cr'[n] = IF n = w.key THEN new ELSE cr[n]
  BY <1>1, <1>3 DEF Resource
<1>6. CASE n = w.key
  BY <1>2, <1>5, <1>6 DEF CRStep, Live, HashAtHand
<1>7. CASE n # w.key
  BY <1>5, <1>7 DEF CRStep
<1>8. QED BY <1>6, <1>7

LEMMA CRSteps ==
  ASSUME TS, CopiesOK, [Next]_vars
  PROVE  \A n \in Names : CRStep(n)
<1>1. cr \in [Names -> Resource] /\ \A n \in Names : cr[n].uid \in 0..MaxUid
  BY DEF TS, CRTypes, Resource
<1>2. CASE UNCHANGED cr
  BY <1>1, <1>2 DEF CRStep
<1>3. ASSUME NEW o \in Outcomes, GetMatchingDashboardInstances(o) PROVE \A n \in Names : CRStep(n)
  <2> DEFINE none == {g \in Grafanas : w.key \in gcache[g].matches} = {}
             new == [w.cr EXCEPT !.noMatch = none]
  <2>1. w.pc \in CreatePCs /\ w.pc = "match"
    BY <1>3 DEF GetMatchingDashboardInstances, CreatePCs
  <2>2. new \in Resource /\ new.uid = w.cr.uid /\ new.json = w.cr.json /\ new.hash = w.cr.hash
    BY <2>1, WorkerTypes DEF Resource
  <2>3. CASE o = "fail"
    BY <1>2, <1>3, <2>3 DEF GetMatchingDashboardInstances
  <2>4. CASE o # "fail"
    <3>1. "worker" \notin crstale[w.key]
      BY <1>3, <2>4 DEF GetMatchingDashboardInstances, KubeOutcomes
    <3>2. \E by : WriteCR(w.key, new, by)
      BY <1>3, <2>4 DEF GetMatchingDashboardInstances
    <3>3. QED BY <2>1, <2>2, <3>1, <3>2, WorkerWrite
  <2>5. QED BY <2>3, <2>4
<1>4. ASSUME NEW o \in Outcomes, UpdateStatus(o) PROVE \A n \in Names : CRStep(n)
  <2> DEFINE new == [w.cr EXCEPT !.hash = Hash(w.cr.json)]
  <2>1. w.pc \in CreatePCs /\ w.pc = "hash"
    BY <1>4 DEF UpdateStatus, CreatePCs
  <2>2. new \in Resource /\ new.uid = w.cr.uid /\ new.json = w.cr.json
    BY <2>1, WorkerTypes DEF Resource, Live
  <2>3. CASE o = "fail"
    BY <1>2, <1>4, <2>3 DEF UpdateStatus
  <2>4. CASE o # "fail"
    <3>1. "worker" \notin crstale[w.key]
      BY <1>4, <2>4 DEF UpdateStatus, KubeOutcomes
    <3>2. \E by : WriteCR(w.key, new, by)
      BY <1>4, <2>4 DEF UpdateStatus
    <3>3. QED BY <2>1, <2>2, <3>1, <3>2, WorkerWrite
  <2>5. QED BY <2>3, <2>4
<1>5. ASSUME NEW m \in Names, CreateCR(m) PROVE \A n \in Names : CRStep(n)
  <2>1. PICK c \in Contents : cr' = [cr EXCEPT ![m] = New(cr[m].uid + 1, c)]
    BY <1>5 DEF CreateCR, WriteCR
  <2>2. New(cr[m].uid + 1, c).uid = cr[m].uid + 1 /\ New(cr[m].uid + 1, c).hash = Absent
    BY DEF New
  <2>3. QED BY <1>1, <2>1, <2>2 DEF CRStep
<1>6. ASSUME NEW m \in Names, EditCR(m) PROVE \A n \in Names : CRStep(n)
  <2>1. PICK step \in EditSteps : cr[m].json = step[1] /\ cr' = [cr EXCEPT ![m] = [cr[m] EXCEPT !.json = step[2]]]
    BY <1>6 DEF EditCR, WriteCR
  <2>2. Live(cr[m])
    <3>1. step[1] \in Contents
      OBVIOUS
    <3>2. QED BY <2>1, <3>1 DEF Live
  <2>3. /\ [cr[m] EXCEPT !.json = step[2]].uid = cr[m].uid
        /\ [cr[m] EXCEPT !.json = step[2]].hash = cr[m].hash
    BY <1>1 DEF Resource
  <2>4. TAKE n \in Names
  <2>5. CASE n = m
    BY <1>1, <2>1, <2>2, <2>3, <2>5 DEF CRStep
  <2>6. CASE n # m
    BY <1>1, <2>1, <2>6 DEF CRStep
  <2>7. QED BY <2>5, <2>6
<1>7. ASSUME NEW m \in Names, DeleteCR(m) PROVE \A n \in Names : CRStep(n)
  <2>1. cr' = [cr EXCEPT ![m] = Gone(cr[m].uid)]
    BY <1>7 DEF DeleteCR, WriteCR
  <2>2. Gone(cr[m].uid).uid = cr[m].uid /\ Gone(cr[m].uid).hash = Absent /\ ~Live(Gone(cr[m].uid))
    BY DEF Gone, New, Live
  <2>3. QED BY <1>1, <2>1, <2>2 DEF CRStep
<1>8. ASSUME NEW m \in Names, SyncCRCache(m) \/ Dequeue(m) PROVE UNCHANGED cr
  BY <1>8 DEF SyncCRCache, Dequeue
<1>9. CASE FinishReconcile \/ Crash \/ Start
  BY <1>2, <1>9 DEF FinishReconcile, Crash, ClusterCrash, Start, ClusterStart
<1>10. QED
  BY <1>2, <1>3, <1>4, <1>5, <1>6, <1>7, <1>8, <1>9, ChangesCRVars DEF Env, crVars

\* Once deleted, deleted for good.
LEMMA DeadForGood ==
  ASSUME TS, TS', NEW n \in Names, CRStep(n), NEW u \in Int, Dead(n, u)
  PROVE  Dead(n, u)'
<1>1. cr[n].uid \in Int /\ cr'[n].uid \in Int
  BY DEF TS, CRTypes, Resource
<1>2. QED BY <1>1 DEF CRStep, Dead

\* The cached copy stays, or becomes what the resource is before and after.
CacheStep(n) == crcache'[n] = crcache[n] \/ (crcache'[n] = cr[n] /\ cr'[n] = cr[n])

LEMMA CacheSteps ==
  ASSUME TS, [Next]_vars
  PROVE  \A n \in Names : CacheStep(n)
<1>1. CASE Crash \/ Start
  BY <1>1 DEF Crash, ClusterCrash, Start, ClusterStart, CacheStep
<1>2. ASSUME NEW m \in Names, SyncCRCache(m) PROVE \A n \in Names : CacheStep(n)
  BY <1>2 DEF SyncCRCache, CacheStep, TS, CRTypes
<1>3. ASSUME UNCHANGED crcache PROVE \A n \in Names : CacheStep(n)
  BY <1>3 DEF CacheStep
<1>4. ASSUME NEW m \in Names, CreateCR(m) \/ EditCR(m) \/ DeleteCR(m) \/ Dequeue(m)
      PROVE  UNCHANGED crcache
  BY <1>4 DEF CreateCR, EditCR, DeleteCR, Dequeue
<1>5. ASSUME NEW o \in Outcomes, GetMatchingDashboardInstances(o) \/ UpdateStatus(o)
      PROVE  UNCHANGED crcache
  BY <1>5 DEF GetMatchingDashboardInstances, UpdateStatus
<1>6. CASE FinishReconcile
  BY <1>3, <1>6 DEF FinishReconcile
<1>7. QED
  BY <1>1, <1>2, <1>3, <1>4, <1>5, <1>6, ChangesCRVars DEF Env, crVars

-----------------------------------------------------------------------------
(* Copies nobody has overtaken *)

SnapOK == \A g \in Grafanas :
            "worker" \notin gstale[g] => w.pc # "idle" /\ w.snap[g] = grafana[g]
SeenOK == \A g \in Grafanas : "sync" \notin gstale[g] => s.seen[g] = grafana[g]
WorkerCopyOK == w.pc \in CreatePCs /\ "worker" \notin crstale[w.key] =>
                  w.cr.json = cr[w.key].json /\ w.cr.uid = cr[w.key].uid

LEMMA CopiesParts ==
  CopiesOK <=> CacheCopyOK /\ GrafanaCacheOK /\ SnapOK /\ SeenOK /\ WorkerCopyOK
BY DEF CopiesOK, CacheCopyOK, GrafanaCacheOK, SnapOK, SeenOK, WorkerCopyOK

\* A write leaves those who do not get its version behind, unless nothing changed.
LEMMA WriteCRAges ==
  ASSUME TS, NEW m \in Names, NEW new, NEW by \in SUBSET {"worker"}, WriteCR(m, new, by)
  PROVE  \A n \in Names :
           /\ "cache" \notin crstale'[n] => "cache" \notin crstale[n] /\ cr'[n] = cr[n]
           /\ "worker" \notin crstale'[n] =>
                \/ n = m /\ cr'[n] = new /\ "worker" \in by
                \/ "worker" \notin crstale[n] /\ cr'[n] = cr[n]
<1>1. /\ cr' = [cr EXCEPT ![m] = new]
      /\ crstale' = [crstale EXCEPT ![m] = IF new = cr[m] THEN crstale[m] ELSE CRHolders \ by]
  BY DEF WriteCR
<1>2. cr \in [Names -> Resource] /\ crstale \in [Names -> SUBSET CRHolders]
  BY DEF TS, CRTypes
<1>3. TAKE n \in Names
<1>4. CASE n # m
  BY <1>1, <1>2, <1>4
<1>5. CASE n = m /\ new = cr[m]
  BY <1>1, <1>2, <1>5
<1>6. CASE n = m /\ new # cr[m]
  <2>1. crstale'[n] = CRHolders \ by /\ cr'[n] = new
    BY <1>1, <1>2, <1>6
  <2>2. QED BY <1>6, <2>1 DEF CRHolders
<1>7. QED BY <1>4, <1>5, <1>6

LEMMA WriteGrafanaAges ==
  ASSUME TS, NEW g \in Grafanas, NEW new, WriteGrafana(g, new), NEW who \in GrafanaHolders
  PROVE  \A h \in Grafanas :
           who \notin gstale'[h] => who \notin gstale[h] /\ grafana'[h] = grafana[h]
<1>1. /\ grafana' = [grafana EXCEPT ![g] = new]
      /\ gstale' = [gstale EXCEPT ![g] = IF new = grafana[g] THEN gstale[g] ELSE GrafanaHolders]
  BY DEF WriteGrafana
<1>2. grafana \in GrafanaCopies /\ gstale \in [Grafanas -> SUBSET GrafanaHolders]
  BY DEF TS, GrafanaTypes
<1>3. QED BY <1>1, <1>2 DEF GrafanaCopies

\* Users' writes
LEMMA UserWrites ==
  ASSUME NEW n \in Names, CreateCR(n) \/ EditCR(n) \/ DeleteCR(n)
  PROVE  \E new : WriteCR(n, new, {})
BY DEF CreateCR, EditCR, DeleteCR

LEMMA CacheCopyStep ==
  ASSUME TS, CacheCopyOK, [Next]_vars
  PROVE  CacheCopyOK'
<1>1. ASSUME NEW m \in Names, NEW new, NEW by \in SUBSET {"worker"}, WriteCR(m, new, by),
             UNCHANGED crcache
      PROVE  CacheCopyOK'
  BY <1>1, WriteCRAges DEF CacheCopyOK
<1>2. CASE UNCHANGED crVars
  BY <1>2 DEF CacheCopyOK, crVars
<1>3. ASSUME NEW n \in Names, CreateCR(n) \/ EditCR(n) \/ DeleteCR(n) PROVE CacheCopyOK'
  <2>1. UNCHANGED crcache
    BY <1>3 DEF CreateCR, EditCR, DeleteCR
  <2>2. PICK new : WriteCR(n, new, {})
    BY <1>3, UserWrites
  <2>3. QED BY <1>1, <2>1, <2>2
<1>4. ASSUME NEW n \in Names, SyncCRCache(n) PROVE CacheCopyOK'
  BY <1>4 DEF SyncCRCache, CacheCopyOK, TS, CRTypes
<1>5. ASSUME NEW n \in Names, Dequeue(n) PROVE CacheCopyOK'
  BY <1>5 DEF Dequeue, CacheCopyOK, AsOldAsCache, TS, CRTypes
<1>6. ASSUME NEW o \in Outcomes, GetMatchingDashboardInstances(o) \/ UpdateStatus(o)
      PROVE  CacheCopyOK'
  <2>1. w.key \in Names /\ UNCHANGED crcache
    BY <1>6, WorkerTypes DEF GetMatchingDashboardInstances, UpdateStatus, CreatePCs
  <2>2. UNCHANGED <<cr, crstale>> \/ \E new : \E by \in SUBSET {"worker"} : WriteCR(w.key, new, by)
    BY <1>6 DEF GetMatchingDashboardInstances, UpdateStatus
  <2>3. QED BY <1>1, <1>2, <2>1, <2>2 DEF crVars
<1>7. CASE FinishReconcile
  BY <1>7 DEF FinishReconcile, CacheCopyOK, TS, CRTypes, WorkerOK, WorkerShape
<1>8. CASE Crash \/ Start
  BY <1>8 DEF Crash, ClusterCrash, Start, ClusterStart, CacheCopyOK
<1>9. QED
  BY <1>2, <1>3, <1>4, <1>5, <1>6, <1>7, <1>8, ChangesCRVars DEF Env

\* How a holder's copy of the Grafanas ages
Ages(who) == \A g \in Grafanas :
               who \notin gstale'[g] => who \notin gstale[g] /\ grafana'[g] = grafana[g]

\* The worker, or the sync, lists the Grafanas.
Lists(who) == /\ UNCHANGED <<grafana, gcache>>
              /\ \A g \in Grafanas : who \notin gstale'[g] => "cache" \notin gstale[g]

LEMMA ListGrafanasAges ==
  ASSUME TS, NEW reader \in {"worker", "sync"}, ListGrafanas(reader), UNCHANGED <<grafana, gcache>>
  PROVE  Lists(reader) /\ \A who \in GrafanaHolders \ {reader} : Ages(who)
BY DEF Lists, Ages, ListGrafanas, AsOldAsCache, GrafanaHolders, TS, GrafanaTypes

LEMMA DropGrafanasAges ==
  ASSUME TS, NEW reader \in {"worker", "sync"}, DropGrafanas(reader), UNCHANGED <<grafana, gcache>>
  PROVE  \A who \in GrafanaHolders : Ages(who)
BY DEF Ages, DropGrafanas, GrafanaHolders, TS, GrafanaTypes

\* The steps that write a Grafana resource
LEMMA WritersAge ==
  ASSUME TS, NEW who \in GrafanaHolders, NEW o \in Outcomes,
         RecordDashboard(o) \/ RemoveRecord(o) \/ SyncUpdate(o)
  PROVE  Ages(who)
<1>1. RecordDashboard(o) \/ RemoveRecord(o) => w.g \in Grafanas
  BY DEF RecordDashboard, RemoveRecord, TS, WorkerOK, WorkerShape, CreatePCs, DeletePCs
<1>2. SyncUpdate(o) => s.g \in Grafanas
  BY DEF SyncUpdate, TS, SyncOK, SyncShape
<1>3. UNCHANGED <<grafana, gstale>> \/ \E g \in Grafanas : \E new : WriteGrafana(g, new)
  BY <1>1, <1>2 DEF RecordDashboard, RemoveRecord, SyncUpdate, WriteList
<1>4. QED BY <1>3, WriteGrafanaAges DEF Ages

LEMMA GrafanaAges ==
  ASSUME TS, [Next]_vars, NEW who \in GrafanaHolders
  PROVE  \/ Ages(who)
         \/ who = "cache" /\ ((\E g \in Grafanas : Env(SyncGrafanaCache(g))) \/ Crash \/ Start)
         \/ who = "worker" /\ Lists(who)
            /\ (ListForDelete \/ \E o \in Outcomes : GetMatchingDashboardInstances(o))
         \/ who = "sync" /\ Lists(who) /\ SyncListGrafanas
<1>1. CASE UNCHANGED grafanaVars
  BY <1>1 DEF grafanaVars, Ages
<1>2. CASE \E g \in Grafanas : GrafanaWrite(g)
  BY <1>2 DEF GrafanaWrite, Ages, TS, GrafanaTypes, GrafanaCopies
<1>3. ASSUME who # "cache", NEW g \in Grafanas, SyncGrafanaCache(g) PROVE Ages(who)
  BY <1>3 DEF SyncGrafanaCache, Ages, TS, GrafanaTypes
<1>4. CASE ListForDelete \/ \E o \in Outcomes : GetMatchingDashboardInstances(o)
  BY <1>4, ListGrafanasAges, ZenonT(60) DEF ListForDelete, GetMatchingDashboardInstances
<1>5. CASE SyncListGrafanas
  BY <1>5, ListGrafanasAges DEF SyncListGrafanas
<1>6. CASE FinishReconcile \/ FinishDelete \/ SyncReturn
  BY <1>6, DropGrafanasAges DEF FinishReconcile, FinishDelete, SyncReturn
<1>7. CASE Crash \/ Start
  BY <1>7 DEF Crash, ClusterCrash, Start, ClusterStart, Ages, GrafanaHolders, TS, GrafanaTypes
<1>8. QED
  BY <1>1, <1>2, <1>3, <1>4, <1>5, <1>6, <1>7, WritersAge, ChangesGrafanaVars DEF Env, GrafanaHolders

LEMMA GrafanaCacheStep ==
  ASSUME TS, GrafanaCacheOK, [Next]_vars
  PROVE  GrafanaCacheOK'
<1>1. CASE Crash \/ Start
  BY <1>1 DEF Crash, ClusterCrash, Start, ClusterStart, GrafanaCacheOK
<1>2. ASSUME NEW g \in Grafanas, SyncGrafanaCache(g) PROVE GrafanaCacheOK'
  BY <1>2 DEF SyncGrafanaCache, GrafanaCacheOK, TS, GrafanaTypes, GrafanaCopies
<1>3. CASE Ages("cache") /\ UNCHANGED gcache
  BY <1>3 DEF Ages, GrafanaCacheOK
<1>4. UNCHANGED gcache \/ Crash \/ Start \/ \E g \in Grafanas : SyncGrafanaCache(g)
  BY ChangesGrafanaVars DEF Env, grafanaVars, GrafanaWrite, GetMatchingDashboardInstances,
     RecordDashboard, RemoveRecord, SyncUpdate, FinishReconcile, ListForDelete, FinishDelete,
     SyncListGrafanas, SyncReturn
<1>5. QED
  BY <1>1, <1>2, <1>3, <1>4, GrafanaAges DEF Env, GrafanaHolders

\* The worker's list of Grafanas is kept until it lists anew or returns.
SnapStep == \/ w'.snap = w.snap /\ (w.pc # "idle" => w'.pc # "idle")
            \/ w.pc = "idle" /\ Ages("worker")
            \/ \A g \in Grafanas : "worker" \in gstale'[g]

LEMMA SnapSteps ==
  ASSUME TS, [Next]_vars,
         ~ListForDelete, ~\E o \in Outcomes : GetMatchingDashboardInstances(o)
  PROVE  SnapStep
<1>1. w \in Worker /\ gstale \in [Grafanas -> SUBSET GrafanaHolders]
  BY DEF TS, WorkerOK, GrafanaTypes
<1>2. CASE UNCHANGED w
  BY <1>2 DEF SnapStep
<1>3. CASE Crash
  BY <1>3 DEF Crash, ClusterCrash, SnapStep
<1>4. CASE LocalStep
  <2>1. CASE FinishReconcile \/ FinishDelete
    BY <1>1, <2>1 DEF FinishReconcile, FinishDelete, DropGrafanas, SnapStep
  <2>2. ASSUME NEW n \in Names, Dequeue(n) PROVE SnapStep
    BY <2>2 DEF Dequeue, SnapStep, Ages, grafanaVars
  <2>3. ASSUME NEW g \in Grafanas, SkipNotReady(g) PROVE SnapStep
    BY <1>1, <2>3 DEF SkipNotReady, SnapStep, Worker
  <2>4. QED BY <1>4, <2>1, <2>2, <2>3 DEF LocalStep
<1>5. ASSUME NEW o \in Outcomes, CreateStep(o) PROVE SnapStep
  <2>1. ASSUME NEW g \in Grafanas, StartInstance(g, o) PROVE SnapStep
    BY <1>1, <2>1 DEF StartInstance, SnapStep, Worker
  <2>2. CASE Exists(o)
    BY <1>1, <2>2 DEF Exists, SnapStep, Worker, Continue
  <2>3. CASE GetOrCreateFolder(o)
    BY <1>1, <2>3 DEF GetOrCreateFolder, SnapStep, Worker, Continue
  <2>4. CASE NewDashboard(o)
    BY <1>1, <2>4 DEF NewDashboard, SnapStep, Worker, Continue
  <2>5. CASE RecordDashboard(o)
    BY <1>1, <2>5 DEF RecordDashboard, SnapStep, Worker, Continue
  <2>6. CASE UpdateStatus(o)
    BY <1>1, <2>6 DEF UpdateStatus, SnapStep, Worker, Continue
  <2>7. QED BY <1>5, <2>1, <2>2, <2>3, <2>4, <2>5, <2>6 DEF CreateStep
<1>6. ASSUME NEW o \in Outcomes, DeleteStep(o) PROVE SnapStep
  <2>1. ASSUME NEW g \in Grafanas, ReadDashboard(g, o) PROVE SnapStep
    BY <1>1, <2>1 DEF ReadDashboard, SnapStep, Worker
  <2>2. CASE DeleteDashboard(o)
    BY <1>1, <2>2 DEF DeleteDashboard, SnapStep, Worker
  <2>3. CASE CheckFolder(o)
    BY <1>1, <2>3 DEF CheckFolder, SnapStep, Worker
  <2>4. CASE DeleteFolder(o)
    BY <1>1, <2>4 DEF DeleteFolder, SnapStep, Worker
  <2>5. CASE ClearPlugins(o)
    BY <1>1, <2>5 DEF ClearPlugins, SnapStep, Worker
  <2>6. CASE RemoveRecord(o)
    BY <1>1, <2>6 DEF RemoveRecord, SnapStep, Worker
  <2>7. QED BY <1>6, <2>1, <2>2, <2>3, <2>4, <2>5, <2>6 DEF DeleteStep
<1>7. QED BY <1>2, <1>3, <1>4, <1>5, <1>6, ChangesWorker

LEMMA SnapOKStep ==
  ASSUME TS, SnapOK, GrafanaCacheOK, [Next]_vars
  PROVE  SnapOK'
<1>1. CASE ListForDelete \/ \E o \in Outcomes : GetMatchingDashboardInstances(o)
  <2> w \in Worker
    BY DEF TS, WorkerOK
  <2>1. w'.snap = gcache /\ w'.pc # "idle"
    <3>1. ListForDelete => w'.snap = gcache /\ w'.pc = "delNext"
      BY DEF ListForDelete, Worker
    <3>2. ASSUME NEW o \in Outcomes, GetMatchingDashboardInstances(o)
          PROVE  w'.snap = gcache /\ w'.pc = "next"
      BY <3>2 DEF GetMatchingDashboardInstances, Worker
    <3>3. QED BY <1>1, <3>1, <3>2
  <2>2. ListGrafanas("worker") /\ UNCHANGED <<grafana, gcache>>
    BY <1>1 DEF ListForDelete, GetMatchingDashboardInstances
  <2>3. Lists("worker")
    BY <2>2, ListGrafanasAges
  <2>4. QED BY <2>1, <2>3 DEF Lists, SnapOK, GrafanaCacheOK
<1>2. CASE ~(ListForDelete \/ \E o \in Outcomes : GetMatchingDashboardInstances(o))
  <2>1. SnapStep /\ Ages("worker")
    BY <1>2, SnapSteps, GrafanaAges DEF GrafanaHolders
  <2>2. QED BY <2>1 DEF SnapStep, Ages, SnapOK
<1>3. QED BY <1>1, <1>2

LEMMA SeenOKStep ==
  ASSUME TS, SeenOK, GrafanaCacheOK, [Next]_vars
  PROVE  SeenOK'
<1>1. s \in Syncer /\ gstale \in [Grafanas -> SUBSET GrafanaHolders]
  BY DEF TS, SyncOK, GrafanaTypes
<1>2. CASE SyncListGrafanas
  <2>1. s'.seen = gcache
    BY <1>1, <1>2 DEF SyncListGrafanas, Syncer
  <2>2. Lists("sync")
    BY <1>2, ListGrafanasAges DEF SyncListGrafanas
  <2>3. QED BY <2>1, <2>2 DEF Lists, SeenOK, GrafanaCacheOK
<1>3. CASE SyncReturn \/ Crash
  BY <1>1, <1>3 DEF SyncReturn, Crash, ClusterCrash, DropGrafanas, SeenOK
<1>4. CASE ~SyncListGrafanas /\ ~SyncReturn /\ ~Crash
  <2>1. Ages("sync")
    BY <1>4, GrafanaAges DEF GrafanaHolders
  <2>2. s'.seen = s.seen
    <3>1. SyncListDashboards => s'.seen = s.seen
      BY <1>1 DEF SyncListDashboards, Syncer
    <3>2. ASSUME NEW g \in Grafanas, SyncStart(g) PROVE s'.seen = s.seen
      BY <1>1, <3>2 DEF SyncStart, Syncer
    <3>3. ASSUME NEW o \in Outcomes, NEW e \in Names \X Uids, SyncDelete(e, o)
          PROVE  s'.seen = s.seen
      BY <1>1, <3>3 DEF SyncDelete, Syncer
    <3>4. ASSUME NEW o \in Outcomes, SyncUpdate(o) PROVE s'.seen = s.seen
      BY <1>1, <3>4 DEF SyncUpdate, Syncer
    <3>5. QED BY <1>4, <3>1, <3>2, <3>3, <3>4, ChangesSync DEF SyncLocalStep, SyncStep
  <2>3. QED BY <2>1, <2>2 DEF Ages, SeenOK
<1>5. QED BY <1>2, <1>3, <1>4

-----------------------------------------------------------------------------
(* What a step can do to the request the worker handles *)

LEMMA AddEntries ==
  ASSUME NEW list \in Seq(Uids), NEW u \in Uids
  PROVE  Entries(Add(list, u)) = Entries(list) \cup {u}
<1>1. CASE u \in Entries(list)
  BY <1>1 DEF Add
<1>2. CASE u \notin Entries(list)
  <2> DEFINE longer == <<u>> \o list
  <2>1. /\ Len(list) \in Nat /\ Len(longer) = Len(list) + 1 /\ longer[1] = u
        /\ \A i \in 1..Len(list) : longer[i + 1] = list[i]
    OBVIOUS
  <2>2. \A x : x \in Entries(longer) <=> x = u \/ x \in Entries(list)
    <3>1. ASSUME NEW i \in 1..Len(longer), i # 1 PROVE longer[i] \in Entries(list)
      <4>1. i - 1 \in 1..Len(list) /\ longer[(i - 1) + 1] = list[i - 1]
        BY <2>1, <3>1
      <4>2. (i - 1) + 1 = i
        BY <3>1, <2>1
      <4>3. QED BY <4>1, <4>2 DEF Entries
    <3>2. ASSUME NEW i \in 1..Len(list) PROVE list[i] \in Entries(longer)
      <4>1. i + 1 \in 1..Len(longer) /\ longer[i + 1] = list[i]
        BY <2>1
      <4> HIDE DEF longer
      <4>2. QED BY <4>1 DEF Entries
    <3>3. u \in Entries(longer)
      <4>1. 1 \in 1..Len(longer) /\ longer[1] = u
        BY <2>1
      <4> HIDE DEF longer
      <4>2. QED BY <4>1 DEF Entries
    <3> HIDE DEF longer
    <3>4. Entries(longer) \subseteq {u} \cup Entries(list)
      BY <2>1, <3>1 DEF Entries
    <3>5. Entries(list) \subseteq Entries(longer)
      <4>1. Entries(list) = {list[i] : i \in 1..Len(list)}
        BY DEF Entries
      <4>2. QED BY <4>1, <3>2
    <3>6. QED BY <3>3, <3>4, <3>5
  <2>3. QED BY <1>2, <2>2 DEF Add
<1>3. QED BY <1>1, <1>2

LEMMA NoEntries == Entries(<<>>) = {} /\ \A list : Entries(Remove(list)) = {}
BY DEF Entries, Remove

LEMMA EntriesAreUids ==
  ASSUME NEW copies \in GrafanaCopies, NEW g \in Grafanas, NEW n \in Names
  PROVE  copies[g].list[n] \in Seq(Uids) /\ Entries(copies[g].list[n]) \subseteq Uids
<1>1. copies[g].list[n] \in Seq(Uids)
  BY DEF GrafanaCopies, GrafanaResource
<1>2. QED BY <1>1 DEF Entries

SameRequest == w'.key = w.key /\ w'.cr.uid = w.cr.uid /\ w'.cr.json = w.cr.json

DequeueStep ==
    /\ \E n \in Names : Dequeue(n)
    /\ w.pc = "idle" /\ UNCHANGED <<cr, crcache, grafana, gcache, store>>
    /\ w'.key \in Names /\ w'.snap = NoSnap
    /\ \/ Live(crcache[w'.key]) /\ w'.pc = "match" /\ w'.cr = crcache[w'.key]
       \/ ~Live(crcache[w'.key]) /\ w'.pc = "delList"

CreateContinues ==
    /\ w.pc \in CreatePCs /\ w'.pc \in CreatePCs /\ SameRequest
    /\ w'.snap = w.snap \/ w'.snap = gcache
    /\ w'.cr.hash # Absent \/ w'.pc = "hash" =>
         \/ w.cr.hash # Absent \/ w.pc = "hash"
         \/ w.pc = "record" /\ Recorded(w.key, w.cr.uid)'

DeleteContinues ==
    /\ w.pc \in DeletePCs /\ w'.pc \in DeletePCs \ {"delList"} /\ w'.key = w.key
    /\ \/ w.pc = "delList" /\ w'.snap = gcache
       \/ w.pc # "delList" /\ w'.snap = w.snap

WorkerStep == UNCHANGED w \/ w' = Idle \/ DequeueStep \/ CreateContinues \/ DeleteContinues

LEMMA RecordedByWorker ==
  ASSUME TS, NEW o \in Outcomes, RecordDashboard(o), o # "fail"
  PROVE  Recorded(w.key, w.cr.uid)'
<1> DEFINE new == [w.snap[w.g] EXCEPT !.list[w.key] = Add(w.snap[w.g].list[w.key], w.cr.uid)]
<1>1. w.key \in Names /\ w.g \in Grafanas /\ w.cr.uid \in Uids /\ w.snap \in GrafanaCopies
  BY WorkerTypes DEF RecordDashboard, CreatePCs, TS, WorkerOK, Worker
<1>2. grafana' = [grafana EXCEPT ![w.g] = new]
  BY DEF RecordDashboard, WriteList, WriteGrafana
<1>3. grafana'[w.g] = new
  BY <1>1, <1>2 DEF TS, GrafanaTypes, GrafanaCopies
<1>4. new.list[w.key] = Add(w.snap[w.g].list[w.key], w.cr.uid)
  BY <1>1 DEF GrafanaCopies, GrafanaResource
<1> HIDE DEF new
<1>5. w.cr.uid \in Entries(grafana'[w.g].list[w.key])
  BY <1>1, <1>3, <1>4, AddEntries, EntriesAreUids
<1>6. w'.key = w.key /\ w'.cr.uid = w.cr.uid
  BY DEF RecordDashboard, Continue, TS, WorkerOK, Worker
<1>7. QED BY <1>1, <1>5, <1>6 DEF Recorded

LEMMA WorkerSteps ==
  ASSUME TS, [Next]_vars
  PROVE  WorkerStep
<1>1. w \in Worker
  BY DEF TS, WorkerOK
<1>2. CASE UNCHANGED w
  BY <1>2 DEF WorkerStep
<1>3. CASE Crash
  BY <1>3 DEF Crash, ClusterCrash, WorkerStep
<1>4. CASE LocalStep
  <2>1. CASE FinishReconcile \/ FinishDelete
    BY <2>1 DEF FinishReconcile, FinishDelete, WorkerStep
  <2>2. ASSUME NEW n \in Names, Dequeue(n) PROVE DequeueStep
    <3>1. Idle \in Worker
      BY IdleType
    <3>2. /\ w.pc = "idle" /\ UNCHANGED <<cr, crcache, grafana, gcache, store>>
          /\ IF Live(crcache[n])
               THEN w' = [Idle EXCEPT !.pc = "match", !.key = n, !.cr = crcache[n]]
               ELSE w' = [Idle EXCEPT !.pc = "delList", !.key = n]
      BY <2>2 DEF Dequeue, grafanaVars, grafanaDB
    <3>3. w'.key = n
      BY <3>1, <3>2 DEF Worker
    <3>4. w'.snap = NoSnap
      BY <3>2 DEF Idle
    <3>5. CASE Live(crcache[n])
      <4>1. w'.pc = "match" /\ w'.cr = crcache[n]
        BY <3>2, <3>5 DEF Idle
      <4>2. QED BY <2>2, <3>2, <3>3, <3>4, <3>5, <4>1 DEF DequeueStep
    <3>6. CASE ~Live(crcache[n])
      <4>1. w'.pc = "delList"
        BY <3>2, <3>6 DEF Idle
      <4>2. QED BY <2>2, <3>2, <3>3, <3>4, <3>6, <4>1 DEF DequeueStep
    <3>7. QED BY <3>5, <3>6
  <2>3. ASSUME NEW g \in Grafanas, SkipNotReady(g) PROVE CreateContinues
    BY <1>1, <2>3 DEF SkipNotReady, CreateContinues, SameRequest, Worker, CreatePCs
  <2>4. CASE ListForDelete
    BY <1>1, <2>4 DEF ListForDelete, WorkerStep, DeleteContinues, Worker, DeletePCs
  <2>5. QED BY <1>4, <2>1, <2>2, <2>3, <2>4 DEF LocalStep, WorkerStep
<1>5. ASSUME NEW o \in Outcomes, CreateStep(o) PROVE CreateContinues
  <2> USE DEF CreateContinues, SameRequest, Worker, CreatePCs, Continue
  <2>1. ASSUME NEW g \in Grafanas, StartInstance(g, o) PROVE CreateContinues
    BY <1>1, <2>1 DEF StartInstance
  <2>2. CASE Exists(o)
    BY <1>1, <2>2 DEF Exists
  <2>3. CASE GetOrCreateFolder(o)
    BY <1>1, <2>3 DEF GetOrCreateFolder
  <2>4. CASE NewDashboard(o)
    BY <1>1, <2>4 DEF NewDashboard
  <2>5. CASE RecordDashboard(o)
    <3>1. o = "ok" => Recorded(w.key, w.cr.uid)'
      BY <2>5, RecordedByWorker
    <3>2. w.pc = "record" /\ w' = IF o = "ok" THEN [w EXCEPT !.pc = "hash"] ELSE Continue
      BY <2>5 DEF RecordDashboard
    <3>3. QED BY <1>1, <3>1, <3>2
  <2>6. CASE UpdateStatus(o)
    <3>1. w.pc = "hash" /\ w' = [Continue EXCEPT !.cr = [w.cr EXCEPT !.hash = Hash(w.cr.json)]]
      BY <2>6 DEF UpdateStatus
    <3>2. QED BY <1>1, <3>1 DEF Resource
  <2>7. CASE GetMatchingDashboardInstances(o)
    <3> DEFINE none == {g \in Grafanas : w.key \in gcache[g].matches} = {}
    <3>1. /\ w.pc = "match" /\ w'.pc = "next" /\ w'.key = w.key /\ w'.snap = gcache
          /\ w'.cr = [w.cr EXCEPT !.noMatch = none]
      BY <1>1, <2>7 DEF GetMatchingDashboardInstances
    <3> HIDE DEF none
    <3>2. w.cr \in Resource
      BY <1>1
    <3>3. QED BY <3>1, <3>2 DEF Resource
  <2>8. QED BY <1>5, <2>1, <2>2, <2>3, <2>4, <2>5, <2>6, <2>7 DEF CreateStep
<1>6. ASSUME NEW o \in Outcomes, DeleteStep(o) PROVE DeleteContinues
  <2> USE DEF DeleteContinues, Worker, DeletePCs
  <2>1. ASSUME NEW g \in Grafanas, ReadDashboard(g, o) PROVE DeleteContinues
    BY <1>1, <2>1 DEF ReadDashboard
  <2>2. CASE DeleteDashboard(o)
    BY <1>1, <2>2 DEF DeleteDashboard
  <2>3. CASE CheckFolder(o)
    BY <1>1, <2>3 DEF CheckFolder
  <2>4. CASE DeleteFolder(o)
    BY <1>1, <2>4 DEF DeleteFolder
  <2>5. CASE ClearPlugins(o)
    BY <1>1, <2>5 DEF ClearPlugins
  <2>6. CASE RemoveRecord(o)
    BY <1>1, <2>6 DEF RemoveRecord
  <2>7. QED BY <1>6, <2>1, <2>2, <2>3, <2>4, <2>5, <2>6 DEF DeleteStep
<1>7. QED BY <1>2, <1>3, <1>4, <1>5, <1>6, ChangesWorker DEF WorkerStep

LEMMA WorkerCopyStep ==
  ASSUME TS, CacheCopyOK, WorkerCopyOK, [Next]_vars
  PROVE  WorkerCopyOK'
<1>1. w \in Worker /\ crstale \in [Names -> SUBSET CRHolders] /\ cr \in [Names -> Resource]
  BY DEF TS, WorkerOK, CRTypes
<1>2. w'.key \in Names \/ w'.pc \notin CreatePCs
  BY NextTS DEF TS, WorkerOK, WorkerShape, CreatePCs
<1>3. ASSUME NEW n \in Names, Dequeue(n) PROVE WorkerCopyOK'
  <2>1. CASE ~Live(crcache[n])
    <3>1. w' = [Idle EXCEPT !.pc = "delList", !.key = n]
      BY <1>3, <2>1 DEF Dequeue
    <3>2. w'.pc = "delList"
      BY <3>1, IdleType DEF Worker
    <3>3. QED BY <3>2 DEF WorkerCopyOK, CreatePCs
  <2>2. CASE Live(crcache[n])
    <3>1. /\ w' = [Idle EXCEPT !.pc = "match", !.key = n, !.cr = crcache[n]]
          /\ crstale' = [crstale EXCEPT ![n] = AsOldAsCache(crstale[n], "worker")]
          /\ UNCHANGED cr
      BY <1>3, <2>2 DEF Dequeue
    <3>2. w'.key = n /\ w'.cr = crcache[n]
      BY <3>1, IdleType DEF Worker
    <3>3. "worker" \notin crstale'[n] => "cache" \notin crstale[n]
      BY <1>1, <3>1 DEF AsOldAsCache
    <3>4. QED BY <3>1, <3>2, <3>3 DEF WorkerCopyOK, CacheCopyOK
  <2>3. QED BY <2>1, <2>2
<1>4. ASSUME NEW o \in Outcomes, GetMatchingDashboardInstances(o) \/ UpdateStatus(o)
      PROVE  WorkerCopyOK'
  <2>1. w.pc \in CreatePCs /\ w.key \in Names
    BY <1>4, WorkerTypes DEF GetMatchingDashboardInstances, UpdateStatus, CreatePCs
  <2>2. \E new : /\ w'.cr = new /\ w'.key = w.key
                 /\ new.uid = w.cr.uid /\ new.json = w.cr.json
                 /\ \/ UNCHANGED <<cr, crstale>>
                    \/ \E by \in SUBSET {"worker"} : WriteCR(w.key, new, by)
    <3>1. CASE GetMatchingDashboardInstances(o)
      <4> DEFINE none == {g \in Grafanas : w.key \in gcache[g].matches} = {}
                 new == [w.cr EXCEPT !.noMatch = none]
      <4>1. /\ UNCHANGED <<cr, crstale>> \/ \E by \in SUBSET {"worker"} : WriteCR(w.key, new, by)
            /\ w'.cr = new /\ w'.key = w.key
        BY <1>1, <3>1 DEF GetMatchingDashboardInstances, Worker
      <4>2. new.uid = w.cr.uid /\ new.json = w.cr.json
        BY <1>1 DEF Worker, Resource
      <4>3. QED BY <4>1, <4>2
    <3>2. CASE UpdateStatus(o)
      <4> DEFINE new == [w.cr EXCEPT !.hash = Hash(w.cr.json)]
      <4>1. /\ UNCHANGED <<cr, crstale>> \/ \E by \in SUBSET {"worker"} : WriteCR(w.key, new, by)
            /\ w' = [Continue EXCEPT !.cr = new]
        BY <3>2 DEF UpdateStatus
      <4>2. w'.cr = new /\ w'.key = w.key
        BY <1>1, <4>1 DEF Continue, Worker
      <4>3. new.uid = w.cr.uid /\ new.json = w.cr.json
        BY <1>1 DEF Worker, Resource
      <4>4. QED BY <4>1, <4>2, <4>3
    <3>3. QED BY <1>4, <3>1, <3>2
  <2>3. QED BY <2>1, <2>2, WriteCRAges DEF WorkerCopyOK
<1>5. ASSUME w'.pc = "idle" PROVE WorkerCopyOK'
  BY <1>5 DEF WorkerCopyOK, CreatePCs
<1>6. ASSUME UNCHANGED w, \A n \in Names : "worker" \notin crstale'[n] =>
                            "worker" \notin crstale[n] /\ cr'[n] = cr[n]
      PROVE  WorkerCopyOK'
  BY <1>2, <1>6 DEF WorkerCopyOK
<1>7. ASSUME NEW n \in Names, Env(CreateCR(n)) \/ Env(EditCR(n)) \/ Env(DeleteCR(n))
      PROVE  WorkerCopyOK'
  <2>1. PICK new : WriteCR(n, new, {})
    BY <1>7, UserWrites DEF Env
  <2>2. QED BY <1>6, <1>7, <2>1, WriteCRAges DEF Env
<1>8. ASSUME NEW n \in Names, Env(SyncCRCache(n)) PROVE WorkerCopyOK'
  BY <1>1, <1>6, <1>8 DEF Env, SyncCRCache
<1>9. CASE Start
  BY <1>6, <1>9 DEF Start, ClusterStart
<1>10. CASE FinishReconcile \/ Crash
  <2>1. w' = Idle
    BY <1>10 DEF FinishReconcile, Crash, ClusterCrash
  <2>2. QED BY <1>5, <2>1 DEF Idle
<1>11. CASE UNCHANGED crVars /\ ~\E n \in Names : Dequeue(n)
  <2>1. CASE UNCHANGED w
    BY <1>6, <1>11, <2>1 DEF crVars
  <2>2. CASE CreateContinues
    BY <1>11, <2>2 DEF CreateContinues, SameRequest, WorkerCopyOK, crVars
  <2>3. CASE DeleteContinues
    BY <2>3 DEF DeleteContinues, WorkerCopyOK, CreatePCs, DeletePCs
  <2>4. CASE DequeueStep
    BY <1>11, <2>4 DEF DequeueStep
  <2>5. CASE w' = Idle
    BY <1>5, <2>5 DEF Idle
  <2>6. QED BY <2>1, <2>2, <2>3, <2>4, <2>5, WorkerSteps DEF WorkerStep
<1>12. QED
  BY <1>3, <1>4, <1>7, <1>8, <1>9, <1>10, <1>11, ChangesCRVars

LEMMA CopiesStep ==
  ASSUME TS, CopiesOK, [Next]_vars
  PROVE  CopiesOK'
<1>1. CacheCopyOK' /\ GrafanaCacheOK' /\ SnapOK' /\ SeenOK' /\ WorkerCopyOK'
  BY CopiesParts, CacheCopyStep, GrafanaCacheStep, SnapOKStep, SeenOKStep, WorkerCopyStep
<1>2. QED
  BY <1>1 DEF CopiesOK, CacheCopyOK, GrafanaCacheOK, SnapOK, SeenOK, WorkerCopyOK

-----------------------------------------------------------------------------
(* What a step can do to the status lists and to their copies *)

ListStep(g, n) ==
    /\ \A u \in Entries(grafana'[g].list[n]) :
         u \in Entries(grafana[g].list[n]) \/ (w.pc = "record" /\ n = w.key /\ u = w.cr.uid)
    /\ \A u \in Entries(grafana[g].list[n]) :
         u \in Entries(grafana'[g].list[n]) \/ Dead(n, u)

LEMMA WorkerListStep ==
  ASSUME TS, SnapOK, DeleteOK, NEW o \in Outcomes, RecordDashboard(o) \/ RemoveRecord(o)
  PROVE  \A g \in Grafanas, n \in Names : ListStep(g, n)
<1>1. /\ w.g \in Grafanas /\ w.key \in Names /\ grafana \in GrafanaCopies
      /\ RecordDashboard(o) => w.cr.uid \in Uids
  BY WorkerTypes DEF RecordDashboard, RemoveRecord, TS, GrafanaTypes, WorkerOK, WorkerShape,
     CreatePCs, DeletePCs
<1>2. CASE o = "fail"
  BY <1>2 DEF RecordDashboard, RemoveRecord, WriteList, ListStep
<1>3. CASE o # "fail"
  <2>1. w.snap[w.g] = grafana[w.g]
    BY <1>1, <1>3 DEF RecordDashboard, RemoveRecord, KubeOutcomes, SnapOK
  <2> DEFINE old == grafana[w.g].list[w.key]
  <2>2. PICK list : /\ grafana' = [grafana EXCEPT ![w.g] = [grafana[w.g] EXCEPT !.list[w.key] = list]]
                    /\ \/ RecordDashboard(o) /\ list = Add(old, w.cr.uid)
                       \/ RemoveRecord(o) /\ list = Remove(old)
    BY <1>3, <2>1 DEF RecordDashboard, RemoveRecord, WriteList, WriteGrafana
  <2>3. \A g \in Grafanas, n \in Names :
          grafana'[g].list[n] = IF g = w.g /\ n = w.key THEN list ELSE grafana[g].list[n]
    BY <1>1, <2>2 DEF GrafanaCopies, GrafanaResource
  <2>4. CASE RecordDashboard(o) /\ list = Add(old, w.cr.uid)
    <3>1. w.pc = "record" /\ Entries(list) = Entries(old) \cup {w.cr.uid}
      BY <1>1, <2>4, AddEntries, EntriesAreUids DEF RecordDashboard
    <3>2. QED BY <2>3, <3>1 DEF ListStep
  <2>5. CASE RemoveRecord(o) /\ list = Remove(old)
    <3>1. w.pc \in DeletePCs /\ Entries(list) = {}
      BY <2>5, NoEntries DEF RemoveRecord, DeletePCs
    <3>2. \A u \in Entries(old) : Dead(w.key, u)
      BY <1>1, <3>1 DEF DeleteOK
    <3>3. QED BY <2>3, <3>1, <3>2 DEF ListStep
  <2>6. QED BY <2>2, <2>4, <2>5
<1>4. QED BY <1>2, <1>3

LEMMA SyncListStep ==
  ASSUME TS, SeenOK, DeleteOK, NEW o \in Outcomes, SyncUpdate(o)
  PROVE  \A g \in Grafanas, n \in Names : ListStep(g, n)
<1>1. s.g \in Grafanas /\ s.pc = "delete" /\ grafana \in GrafanaCopies
  BY DEF SyncUpdate, TS, GrafanaTypes, SyncOK, SyncShape
<1>2. CASE o = "fail"
  BY <1>2 DEF SyncUpdate, ListStep
<1>3. CASE o # "fail"
  <2>1. s.seen[s.g] = grafana[s.g]
    BY <1>1, <1>3 DEF SyncUpdate, KubeOutcomes, SeenOK
  <2>2. grafana' = [grafana EXCEPT ![s.g] = [grafana[s.g] EXCEPT !.list = [n \in Names |->
                      IF n \in s.gone THEN Remove(grafana[s.g].list[n]) ELSE grafana[s.g].list[n]]]]
    <3>1. s.seen[s.g] \in GrafanaResource
      BY <1>1 DEF TS, SyncOK, Syncer, GrafanaCopies
    <3>2. QED BY <1>3, <2>1, <3>1 DEF SyncUpdate, WriteGrafana, GrafanaResource
  <2>3. \A g \in Grafanas, n \in Names :
          grafana'[g].list[n] = IF g = s.g /\ n \in s.gone THEN <<>> ELSE grafana[g].list[n]
    BY <1>1, <2>2 DEF GrafanaCopies, GrafanaResource, Remove
  <2>4. \A n \in s.gone : \A u \in Entries(grafana[s.g].list[n]) : Dead(n, u)
    BY <1>1, <2>1 DEF DeleteOK
  <2>5. QED BY <2>3, <2>4, NoEntries DEF ListStep
<1>4. QED BY <1>2, <1>3

LEMMA ListSteps ==
  ASSUME TS, SnapOK, SeenOK, DeleteOK, [Next]_vars
  PROVE  \A g \in Grafanas, n \in Names : ListStep(g, n)
<1>1. CASE UNCHANGED grafana
  BY <1>1 DEF ListStep
<1>2. ASSUME NEW h \in Grafanas, GrafanaWrite(h)
      PROVE  \A g \in Grafanas, n \in Names : ListStep(g, n)
  BY <1>2 DEF GrafanaWrite, ListStep, TS, GrafanaTypes, GrafanaCopies
<1>3. QED
  BY <1>1, <1>2, WorkerListStep, SyncListStep, ChangesGrafanaVars
  DEF Env, grafanaVars, SyncGrafanaCache, GetMatchingDashboardInstances, FinishReconcile,
      ListForDelete, FinishDelete, SyncListGrafanas, SyncReturn, Crash, ClusterCrash, Start, ClusterStart

\* The cached copy stays, or becomes what the resource is before and after.
LEMMA GrafanaCacheSteps ==
  ASSUME TS, [Next]_vars
  PROVE  \A g \in Grafanas :
           gcache'[g] = gcache[g] \/ (gcache'[g] = grafana[g] /\ grafana'[g] = grafana[g])
<1>1. CASE UNCHANGED gcache
  BY <1>1
<1>2. ASSUME NEW h \in Grafanas, SyncGrafanaCache(h)
      PROVE  \A g \in Grafanas :
               gcache'[g] = gcache[g] \/ (gcache'[g] = grafana[g] /\ grafana'[g] = grafana[g])
  BY <1>2 DEF SyncGrafanaCache, TS, GrafanaTypes, GrafanaCopies
<1>3. CASE Crash \/ Start
  BY <1>3 DEF Crash, ClusterCrash, Start, ClusterStart
<1>4. QED
  BY <1>1, <1>2, <1>3, ChangesGrafanaVars
  DEF Env, grafanaVars, GrafanaWrite, GetMatchingDashboardInstances, RecordDashboard, RemoveRecord,
      SyncUpdate, FinishReconcile, ListForDelete, FinishDelete, SyncListGrafanas, SyncReturn

\* The steps of the sync goroutine, in the order of its life
SyncEnds == s'.pc \notin {"next", "delete"}
SyncCompares == /\ s'.pc = "next" /\ s'.gone = {n \in Names : ~Live(crcache[n])}
                /\ s'.seen = s.seen /\ UNCHANGED <<cr, crcache>>
SyncStarts == /\ s.pc = "next" /\ s'.pc = "delete" /\ s'.gone = s.gone /\ s'.seen = s.seen
              /\ \A e \in s'.left : /\ e[1] \in s.gone /\ e[2] \in Uids
                                    /\ e[2] \in Entries(s.seen[s'.g].list[e[1]])
              /\ s'.g \in Grafanas
SyncContinues == /\ s.pc = "delete" /\ s'.pc \in {"next", "delete"}
                 /\ s'.gone = s.gone /\ s'.seen = s.seen /\ s'.left \subseteq s.left
SyncSeen == s'.seen = s.seen \/ s'.seen = gcache \/ s'.seen = NoSnap

LEMMA SyncSteps ==
  ASSUME TS, [Next]_vars
  PROVE  /\ UNCHANGED s \/ SyncEnds \/ SyncCompares \/ SyncStarts \/ SyncContinues
         /\ SyncSeen
<1> USE DEF SyncSeen
<1>1. s \in Syncer
  BY DEF TS, SyncOK
<1>2. CASE UNCHANGED s
  BY <1>2
<1>3. CASE Crash
  BY <1>3 DEF Crash, ClusterCrash, SyncEnds, Waiting
<1>4. CASE SyncReturn
  BY <1>4, WaitingType DEF SyncReturn, SyncEnds, Waiting, Syncer
<1>5. CASE SyncListGrafanas
  BY <1>1, <1>5 DEF SyncListGrafanas, SyncEnds, Syncer
<1>6. CASE SyncListDashboards
  BY <1>1, <1>6 DEF SyncListDashboards, SyncCompares, Syncer, clusterVars
<1>7. ASSUME NEW g \in Grafanas, SyncStart(g) PROVE SyncStarts /\ SyncSeen
  BY <1>1, <1>7 DEF SyncStart, SyncStarts, Syncer
<1>8. ASSUME NEW o \in Outcomes, NEW e \in Names \X Uids, SyncDelete(e, o)
      PROVE  (SyncContinues \/ SyncEnds) /\ SyncSeen
  BY <1>1, <1>8 DEF SyncDelete, SyncContinues, SyncEnds, Syncer
<1>9. ASSUME NEW o \in Outcomes, SyncUpdate(o) PROVE (SyncContinues \/ SyncEnds) /\ SyncSeen
  BY <1>1, <1>9 DEF SyncUpdate, SyncContinues, SyncEnds, Syncer
<1>10. QED
  BY <1>2, <1>3, <1>4, <1>5, <1>6, <1>7, <1>8, <1>9, ChangesSync DEF SyncLocalStep, SyncStep

-----------------------------------------------------------------------------
(* What a step can do to the dashboards *)

Wrote(g, n, u) == store[g][n][u] = Absent /\ store'[g][n][u] # Absent
Erased(g, n, u) == store[g][n][u] # Absent /\ store'[g][n][u] = Absent

StoreStep ==
    \A g \in Grafanas, n \in Names, u \in Uids :
      /\ Wrote(g, n, u) => w.pc = "push" /\ n = w.key /\ u = w.cr.uid
      /\ Controller /\ Erased(g, n, u) => Dead(n, u)

\* The dashboards DeleteFolder erases are those in the folder.
LEMMA FolderErases ==
  ASSUME TS, FolderOK, NEW o \in Outcomes, DeleteFolder(o)
  PROVE  \A g \in Grafanas, n \in Names, u \in Uids : store'[g][n][u] = store[g][n][u]
<1>1. w.g \in Grafanas /\ w.pc = "rmFolder" /\ InFolder(w.g, FolderOf[w.key]) = {}
  BY DEF DeleteFolder, TS, WorkerOK, WorkerShape, DeletePCs, FolderOK
<1>2. CASE UNCHANGED store
  BY <1>2
<1>3. CASE ~UNCHANGED store
  <2>1. store' = [store EXCEPT ![w.g] = [n \in Names |-> [u \in Uids |->
                    IF <<n, u>> \in InFolder(w.g, FolderOf[w.key]) THEN Absent
                    ELSE store[w.g][n][u]]]]
    BY <1>3 DEF DeleteFolder, grafanaDB
  <2>2. QED BY <1>1, <2>1 DEF TS, ServerTypes, Stores
<1>4. QED BY <1>2, <1>3

LEMMA StoreSteps ==
  ASSUME TS, DeleteOK, FolderOK, [Next]_vars
  PROVE  StoreStep
<1> USE DEF StoreStep, Wrote, Erased
<1>1. store \in [Grafanas -> [Names -> [Uids -> Contents \cup {Absent}]]]
  BY DEF TS, ServerTypes, Stores
<1>2. CASE UNCHANGED store
  BY <1>2
<1>4. ASSUME NEW o \in Outcomes, NewDashboard(o) PROVE StoreStep
  <2>1. w.key \in Names /\ w.g \in Grafanas /\ w.cr.uid \in Uids /\ w.cr.json # Absent
    BY <1>4, WorkerTypes DEF NewDashboard, CreatePCs, Live
  <2>2. CASE store' = [store EXCEPT ![w.g][w.key][w.cr.uid] = w.cr.json]
    <3>1. \A g \in Grafanas, n \in Names, u \in Uids :
            store'[g][n][u] = IF g = w.g /\ n = w.key /\ u = w.cr.uid
                              THEN w.cr.json ELSE store[g][n][u]
      BY <1>1, <2>1, <2>2
    <3>2. QED BY <1>4, <2>1, <3>1 DEF NewDashboard
  <2>3. QED BY <1>2, <1>4, <2>2 DEF NewDashboard
<1>5. ASSUME NEW o \in Outcomes, DeleteDashboard(o) PROVE StoreStep
  <2>1. w.key \in Names /\ w.g \in Grafanas /\ Listed(w.snap[w.g].list[w.key]) /\ w.pc = "delDash"
    BY <1>5 DEF DeleteDashboard, TS, WorkerOK, WorkerShape, DeletePCs
  <2>2. w.snap \in GrafanaCopies
    BY DEF TS, WorkerOK, Worker
  <2>3. FoundUid(w.g) \in Entries(w.snap[w.g].list[w.key])
    <3>1. w.snap[w.g].list[w.key] \in Seq(Uids)
      BY <2>1, <2>2, EntriesAreUids
    <3>2. QED BY <2>1, <3>1 DEF FoundUid, Find, Listed, Entries
  <2>4. Dead(w.key, FoundUid(w.g)) /\ FoundUid(w.g) \in Uids
    BY <2>1, <2>2, <2>3, EntriesAreUids DEF DeleteOK, DeletePCs
  <2>5. CASE store' = [store EXCEPT ![w.g][w.key][FoundUid(w.g)] = Absent]
    <3>1. \A g \in Grafanas, n \in Names, u \in Uids :
            store'[g][n][u] = IF g = w.g /\ n = w.key /\ u = FoundUid(w.g)
                              THEN Absent ELSE store[g][n][u]
      BY <1>1, <2>1, <2>4, <2>5
    <3>2. QED BY <2>4, <3>1
  <2>6. QED BY <1>2, <1>5, <2>5 DEF DeleteDashboard
<1>6. ASSUME NEW o \in Outcomes, NEW e \in Names \X Uids, SyncDelete(e, o) PROVE StoreStep
  <2>1. s.g \in Grafanas /\ e[1] \in Names /\ e[2] \in Uids /\ Dead(e[1], e[2])
    BY <1>6 DEF SyncDelete, TS, SyncOK, SyncShape, DeleteOK
  <2>2. CASE store' = [store EXCEPT ![s.g][e[1]][e[2]] = Absent]
    <3>1. \A g \in Grafanas, n \in Names, u \in Uids :
            store'[g][n][u] = IF g = s.g /\ n = e[1] /\ u = e[2] THEN Absent ELSE store[g][n][u]
      BY <1>1, <2>1, <2>2
    <3>2. QED BY <2>1, <3>1
  <2>3. QED BY <1>2, <1>6, <2>2 DEF SyncDelete
<1>7. ASSUME NEW o \in Outcomes, DeleteFolder(o) PROVE StoreStep
  BY <1>7, FolderErases
<1>8. ASSUME NEW h \in Grafanas, UiEdit(h) PROVE
        \A g \in Grafanas, n \in Names, u \in Uids :
          store'[g][n][u] # Absent => store[g][n][u] # Absent
  <2>1. PICK m \in Names, v \in Uids, c \in Contents :
          store[h][m][v] # Absent /\ store' = [store EXCEPT ![h][m][v] = c]
    BY <1>8 DEF UiEdit
  <2>2. QED BY <1>1, <2>1
<1>9. ASSUME NEW h \in Grafanas, Wipe(h) PROVE
        \A g \in Grafanas, n \in Names, u \in Uids :
          store'[g][n][u] # Absent => store[g][n][u] # Absent
  BY <1>1, <1>9 DEF Wipe, EmptyStore
<1>10. CASE Controller
  BY <1>2, <1>4, <1>5, <1>6, <1>7, <1>10, ControllerChangesStore
<1>11. CASE ~Controller
  BY <1>8, <1>9, <1>11, ChangesStore DEF Env
<1>12. QED BY <1>10, <1>11

-----------------------------------------------------------------------------
(* The order of the caches *)

\* The worker's list of Grafanas is the old one, a fresh one or none.
LEMMA SnapChanges ==
  ASSUME TS, [Next]_vars
  PROVE  w'.snap = w.snap \/ w'.snap = gcache \/ w'.snap = NoSnap
BY WorkerSteps DEF WorkerStep, Idle, DequeueStep, CreateContinues, DeleteContinues

LEMMA UidTypes ==
  ASSUME TS
  PROVE  /\ \A n \in Names : cr[n].uid \in Int /\ crcache[n].uid \in Int
         /\ w.cr.uid \in Int
BY DEF TS, CRTypes, WorkerOK, Worker, Resource

\* Whoever the cache says is not there, nor was later, is dead.
LEMMA NotCachedDead ==
  ASSUME TS, CacheOrderOK, NEW n \in Names, ~Live(crcache[n]), NEW u \in Int, u <= crcache[n].uid
  PROVE  Dead(n, u)
<1>1. /\ cr[n].uid \in Int /\ crcache[n].uid \in Int /\ crcache[n].uid <= cr[n].uid
      /\ crcache[n].uid = cr[n].uid => ~Live(cr[n])
  BY UidTypes DEF CacheOrderOK
<1>2. QED BY <1>1 DEF Dead

LEMMA NoSnapKnown == KnownToCache(NoSnap)
BY NoEntries DEF NoSnap, KnownToCache

LEMMA CacheOrderStep ==
  ASSUME TS, CopiesOK, CacheOrderOK, DeleteOK, FolderOK, [Next]_vars
  PROVE  CacheOrderOK'
<1>1. TS'
  BY NextTS
<1>2. /\ \A n \in Names : CRStep(n) /\ CacheStep(n)
      /\ \A g \in Grafanas, n \in Names : ListStep(g, n)
      /\ StoreStep
  BY CRSteps, CacheSteps, ListSteps, StoreSteps, CopiesParts
<1>3. \A n \in Names : /\ cr[n].uid \in Int /\ crcache[n].uid \in Int
                       /\ cr'[n].uid \in Int /\ crcache'[n].uid \in Int
  BY <1>1 DEF TS, CRTypes, Resource
<1>4. \A n \in Names : crcache[n].uid <= crcache'[n].uid /\ crcache'[n].uid <= cr'[n].uid
  BY <1>2, <1>3 DEF CacheOrderOK, CacheStep, CRStep
<1>5. \A n \in Names : crcache'[n].uid = cr'[n].uid /\ ~Live(crcache'[n]) => ~Live(cr'[n])
  BY <1>2, <1>3 DEF CacheOrderOK, CacheStep, CRStep
<1>6. w'.pc \in CreatePCs => w'.cr.uid <= crcache'[w'.key].uid /\ w'.key \in Names
  <2> SUFFICES ASSUME w'.pc \in CreatePCs PROVE w'.cr.uid <= crcache'[w'.key].uid /\ w'.key \in Names
    OBVIOUS
  <2>1. w'.key \in Names /\ w'.cr.uid \in Int
    BY <1>1 DEF TS, WorkerOK, Worker, WorkerShape, CreatePCs, Resource
  <2>2. CASE UNCHANGED w
    BY <1>3, <1>4, <2>1, <2>2 DEF CacheOrderOK
  <2>3. CASE DequeueStep
    BY <1>3, <1>4, <2>1, <2>3 DEF DequeueStep, CreatePCs
  <2>4. CASE CreateContinues
    <3>1. w.pc \in CreatePCs /\ w.key = w'.key /\ w.cr.uid = w'.cr.uid
      BY <2>4 DEF CreateContinues, SameRequest
    <3>2. QED BY <1>3, <1>4, <2>1, <3>1 DEF CacheOrderOK
  <2>5. QED
    BY <2>2, <2>3, <2>4, WorkerSteps DEF WorkerStep, DeleteContinues, Idle, CreatePCs, DeletePCs
<1>7. /\ KnownToCache(grafana) /\ KnownToCache(gcache)
      /\ KnownToCache(w.snap) /\ KnownToCache(s.seen)
  BY DEF KnownToCache, CacheOrderOK
<1>8. \A g \in Grafanas, n \in Names : \A u \in Entries(grafana'[g].list[n]) : u <= crcache'[n].uid
  <2> SUFFICES ASSUME NEW g \in Grafanas, NEW n \in Names, NEW u \in Entries(grafana'[g].list[n])
               PROVE  u <= crcache'[n].uid
    OBVIOUS
  <2>1. u \in Int
    BY <1>1, EntriesAreUids DEF TS, GrafanaTypes, Uids
  <2>2. CASE u \in Entries(grafana[g].list[n])
    BY <1>3, <1>4, <1>7, <2>1, <2>2 DEF KnownToCache
  <2>3. CASE w.pc = "record" /\ n = w.key /\ u = w.cr.uid
    BY <1>3, <1>4, <2>1, <2>3 DEF CacheOrderOK, CreatePCs
  <2>4. QED BY <1>2, <2>2, <2>3 DEF ListStep
<1>9. ASSUME NEW copies \in GrafanaCopies, KnownToCache(copies)
      PROVE  \A g \in Grafanas, n \in Names : \A u \in Entries(copies[g].list[n]) : u <= crcache'[n].uid
  <2> SUFFICES ASSUME NEW g \in Grafanas, NEW n \in Names, NEW u \in Entries(copies[g].list[n])
               PROVE  u <= crcache'[n].uid
    OBVIOUS
  <2>1. u \in Int
    BY EntriesAreUids DEF Uids
  <2>2. QED BY <1>3, <1>4, <1>9, <2>1 DEF KnownToCache
<1>10. \A g \in Grafanas, n \in Names : \A u \in Entries(gcache'[g].list[n]) : u <= crcache'[n].uid
  BY <1>7, <1>9, GrafanaCacheSteps DEF TS, GrafanaTypes
<1>11. \A g \in Grafanas, n \in Names : \A u \in Entries(w'.snap[g].list[n]) : u <= crcache'[n].uid
  BY <1>7, <1>9, SnapChanges, NoSnapKnown, NoSnapType DEF TS, GrafanaTypes, WorkerOK, Worker
<1>12. \A g \in Grafanas, n \in Names : \A u \in Entries(s'.seen[g].list[n]) : u <= crcache'[n].uid
  BY <1>7, <1>9, SyncSteps, NoSnapKnown, NoSnapType DEF SyncSeen, TS, GrafanaTypes, SyncOK, Syncer
<1>13. \A g \in Grafanas, n \in Names, u \in Uids : store'[g][n][u] # Absent => u <= crcache'[n].uid
  <2> SUFFICES ASSUME NEW g \in Grafanas, NEW n \in Names, NEW u \in Uids, store'[g][n][u] # Absent
               PROVE  u <= crcache'[n].uid
    OBVIOUS
  <2>1. CASE store[g][n][u] # Absent
    BY <1>3, <1>4, <2>1 DEF CacheOrderOK, Uids
  <2>2. CASE store[g][n][u] = Absent
    <3>1. w.pc = "push" /\ n = w.key /\ u = w.cr.uid
      BY <1>2, <2>2 DEF StoreStep, Wrote
    <3>2. QED BY <1>3, <1>4, <3>1 DEF CacheOrderOK, CreatePCs, Uids
  <2>3. QED BY <2>1, <2>2
<1>14. QED
  BY <1>4, <1>5, <1>6, <1>8, <1>10, <1>11, <1>12, <1>13 DEF CacheOrderOK

-----------------------------------------------------------------------------
(* What the delete paths may touch *)

LEMMA StaysDead ==
  ASSUME TS, CopiesOK, [Next]_vars
  PROVE  \A n \in Names : \A u \in Int : Dead(n, u) => Dead(n, u)'
BY NextTS, CRSteps, DeadForGood

LEMMA NotCachedListedDead ==
  ASSUME TS, CacheOrderOK, NEW n \in Names, ~Live(crcache[n]),
         NEW copies \in GrafanaCopies, KnownToCache(copies)
  PROVE  ListedDead(copies, n)
<1> SUFFICES ASSUME NEW g \in Grafanas, NEW u \in Entries(copies[g].list[n])
             PROVE  Dead(n, u)
  BY DEF ListedDead
<1>1. u \in Int /\ u <= crcache[n].uid
  BY EntriesAreUids DEF KnownToCache, Uids
<1>2. QED BY <1>1, NotCachedDead

LEMMA ListedStaysDead ==
  ASSUME TS, CopiesOK, [Next]_vars, NEW n \in Names
  PROVE  /\ ListedDead(grafana, n) =>
              \A g \in Grafanas : \A u \in Entries(grafana[g].list[n]) : Dead(n, u)'
         /\ ListedDead(gcache, n) =>
              \A g \in Grafanas : \A u \in Entries(gcache[g].list[n]) : Dead(n, u)'
         /\ ListedDead(w.snap, n) =>
              \A g \in Grafanas : \A u \in Entries(w.snap[g].list[n]) : Dead(n, u)'
<1>1. grafana \in GrafanaCopies /\ gcache \in GrafanaCopies /\ w.snap \in GrafanaCopies
  BY DEF TS, GrafanaTypes, WorkerOK, Worker
<1>2. ASSUME NEW g \in Grafanas
      PROVE  /\ Entries(grafana[g].list[n]) \subseteq Int
             /\ Entries(gcache[g].list[n]) \subseteq Int
             /\ Entries(w.snap[g].list[n]) \subseteq Int
  BY <1>1, EntriesAreUids DEF Uids
<1>3. QED BY <1>2, StaysDead DEF ListedDead

LEMMA WorkerDeleteStep ==
  ASSUME TS, CopiesOK, CacheOrderOK, DeleteOK, [Next]_vars,
         NEW n \in Names, w'.key = n, w'.pc \in DeletePCs
  PROVE  \A g \in Grafanas :
           /\ \A u \in Entries(grafana'[g].list[n]) : Dead(n, u)'
           /\ \A u \in Entries(gcache'[g].list[n]) : Dead(n, u)'
           /\ w'.pc # "delList" => \A u \in Entries(w'.snap[g].list[n]) : Dead(n, u)'
<1>1. grafana \in GrafanaCopies /\ gcache \in GrafanaCopies /\ w.snap \in GrafanaCopies
  BY DEF TS, GrafanaTypes, WorkerOK, Worker
<1>2. /\ w.pc # "record" /\ ListedDead(grafana, n) /\ ListedDead(gcache, n)
      /\ w'.pc # "delList" => \/ w'.snap = gcache
                              \/ w'.snap = w.snap /\ ListedDead(w.snap, n)
  <2>1. CASE UNCHANGED w \/ DeleteContinues
    BY <2>1 DEF DeleteContinues, DeleteOK, ListedDead, DeletePCs
  <2>2. CASE DequeueStep
    <3>1. w.pc = "idle" /\ ~Live(crcache[n]) /\ w'.pc = "delList"
      BY <2>2 DEF DequeueStep, DeletePCs
    <3>2. KnownToCache(grafana) /\ KnownToCache(gcache)
      BY DEF KnownToCache, CacheOrderOK
    <3>3. QED BY <1>1, <3>1, <3>2, NotCachedListedDead
  <2>3. QED
    BY <2>1, <2>2, WorkerSteps DEF WorkerStep, CreateContinues, Idle, CreatePCs, DeletePCs
<1>3. \A g \in Grafanas : /\ \A u \in Entries(grafana[g].list[n]) : Dead(n, u)'
                          /\ \A u \in Entries(gcache[g].list[n]) : Dead(n, u)'
  BY <1>1, <1>2, ListedStaysDead
<1>4. w'.pc # "delList" => \A g \in Grafanas : \A u \in Entries(w'.snap[g].list[n]) : Dead(n, u)'
  BY <1>1, <1>2, <1>3, ListedStaysDead
<1>5. \A g \in Grafanas : \A u \in Entries(grafana'[g].list[n]) : u \in Entries(grafana[g].list[n])
  BY <1>2, ListSteps, CopiesParts DEF ListStep
<1>6. QED BY <1>3, <1>4, <1>5, GrafanaCacheSteps

LEMMA SyncDeleteStep ==
  ASSUME TS, CopiesOK, CacheOrderOK, DeleteOK, [Next]_vars
  PROVE  /\ s'.pc \in {"next", "delete"} => \A g \in Grafanas, n \in s'.gone :
              \A u \in Entries(s'.seen[g].list[n]) : Dead(n, u)'
         /\ s'.pc = "delete" => \A e \in s'.left : Dead(e[1], e[2])'
<1>1. s \in Syncer /\ s' \in Syncer
  BY NextTS DEF TS, SyncOK
<1>2. s'.pc \in {"next", "delete"} => s'.seen = s.seen /\ \A n \in s'.gone : ListedDead(s.seen, n)
  <2>1. CASE UNCHANGED s \/ SyncStarts \/ SyncContinues
    BY <1>1, <2>1 DEF SyncStarts, SyncContinues, DeleteOK, ListedDead, Syncer
  <2>2. CASE SyncCompares
    <3>1. KnownToCache(s.seen) /\ s.seen \in GrafanaCopies
      BY <1>1 DEF KnownToCache, CacheOrderOK, Syncer
    <3>2. QED BY <2>2, <3>1, NotCachedListedDead DEF SyncCompares
  <2>3. QED BY <2>1, <2>2, SyncSteps DEF SyncEnds
<1>3. s'.pc = "delete" => \A e \in s'.left : Dead(e[1], e[2])
  <2>1. CASE UNCHANGED s \/ SyncContinues
    BY <1>1, <2>1 DEF SyncContinues, DeleteOK, Syncer
  <2>2. CASE SyncStarts
    BY <1>1, <1>2, <2>2 DEF SyncStarts, ListedDead
  <2>3. QED BY <2>1, <2>2, SyncSteps DEF SyncEnds, SyncCompares
<1>4. /\ \A g \in Grafanas, n \in s'.gone : n \in Names /\ Entries(s'.seen[g].list[n]) \subseteq Int
      /\ \A e \in s'.left : e[1] \in Names /\ e[2] \in Int
  <2>1. s'.seen \in GrafanaCopies /\ s'.gone \subseteq Names /\ s'.left \subseteq Names \X Uids
    BY <1>1 DEF Syncer
  <2>2. QED BY <2>1, EntriesAreUids DEF Uids
<1>5. s'.pc \in {"next", "delete"} => \A g \in Grafanas, n \in s'.gone :
        \A u \in Entries(s'.seen[g].list[n]) : Dead(n, u)'
  BY <1>2, <1>4, StaysDead DEF ListedDead
<1>6. s'.pc = "delete" => \A e \in s'.left : Dead(e[1], e[2])'
  BY <1>3, <1>4, StaysDead
<1>7. QED BY <1>5, <1>6

LEMMA DeleteStepOK ==
  ASSUME TS, CopiesOK, CacheOrderOK, DeleteOK, [Next]_vars
  PROVE  DeleteOK'
<1>1. w'.pc \in DeletePCs => \A g \in Grafanas :
         /\ \A u \in Entries(grafana'[g].list[w'.key]) : Dead(w.key, u)'
         /\ \A u \in Entries(gcache'[g].list[w'.key]) : Dead(w.key, u)'
         /\ w'.pc # "delList" => \A u \in Entries(w'.snap[g].list[w'.key]) : Dead(w.key, u)'
  <2>1. w'.pc \in DeletePCs => \E n \in Names : n = w'.key
    BY NextTS DEF TS, WorkerOK, WorkerShape, DeletePCs
  <2>2. QED BY <2>1, WorkerDeleteStep DEF Dead
<1>2. QED BY <1>1, SyncDeleteStep DEF DeleteOK

-----------------------------------------------------------------------------
(* Hashes follow records, and an empty folder stays empty *)

RecordedOrDead(n, u) == Recorded(n, u) \/ Dead(n, u)

LEMMA RecordedStep ==
  ASSUME TS, CopiesOK, DeleteOK, [Next]_vars, NEW n \in Names, NEW u \in Int,
         RecordedOrDead(n, u)
  PROVE  RecordedOrDead(n, u)'
<1>1. CASE Dead(n, u)
  BY <1>1, StaysDead DEF RecordedOrDead
<1>2. CASE Recorded(n, u)
  <2>1. PICK g \in Grafanas : u \in Entries(grafana[g].list[n])
    BY <1>2 DEF Recorded
  <2>2. u \in Entries(grafana'[g].list[n]) \/ Dead(n, u)
    BY <2>1, ListSteps, CopiesParts DEF ListStep
  <2>3. QED BY <1>1, <2>2 DEF RecordedOrDead, Recorded
<1>3. QED BY <1>1, <1>2 DEF RecordedOrDead

LEMMA HashStep ==
  ASSUME TS, CopiesOK, DeleteOK, HashOK, [Next]_vars
  PROVE  HashOK'
<1>1. ASSUME NEW n \in Names, NEW u \in Int, u = cr'[n].uid, cr'[n].hash # Absent
      PROVE  RecordedOrDead(n, u)'
  <2>1. CRStep(n)
    BY CRSteps
  <2>2. RecordedOrDead(n, u)
    BY <1>1, <2>1 DEF CRStep, HashAtHand, HashOK, RecordedOrDead
  <2>3. QED BY <2>2, RecordedStep
<1>2. ASSUME NEW n \in Names, NEW u \in Int, u = crcache'[n].uid, crcache'[n].hash # Absent
      PROVE  RecordedOrDead(n, u)'
  <2>1. RecordedOrDead(n, u)
    BY <1>2, CacheSteps DEF CacheStep, HashOK, RecordedOrDead
  <2>2. QED BY <2>1, RecordedStep
<1>3. ASSUME NEW n \in Names, NEW u \in Int, n = w'.key, u = w'.cr.uid,
             w'.pc \in CreatePCs, w'.cr.hash # Absent \/ w'.pc = "hash"
      PROVE  RecordedOrDead(n, u)'
  <2>1. CASE UNCHANGED w
    <3>1. RecordedOrDead(n, u)
      BY <1>3, <2>1 DEF HashOK, RecordedOrDead
    <3>2. QED BY <3>1, RecordedStep
  <2>2. CASE DequeueStep
    <3>1. RecordedOrDead(n, u)
      BY <1>3, <2>2 DEF DequeueStep, CreatePCs, HashOK, RecordedOrDead
    <3>2. QED BY <3>1, RecordedStep
  <2>3. CASE CreateContinues
    <3>1. CASE w.cr.hash # Absent \/ w.pc = "hash"
      <4>1. RecordedOrDead(n, u)
        BY <1>3, <2>3, <3>1 DEF CreateContinues, SameRequest, HashOK, RecordedOrDead
      <4>2. QED BY <4>1, RecordedStep
    <3>2. CASE Recorded(w.key, w.cr.uid)'
      BY <1>3, <3>2 DEF RecordedOrDead, Recorded
    <3>3. QED BY <1>3, <2>3, <3>1, <3>2 DEF CreateContinues
  <2>4. QED
    BY <1>3, <2>1, <2>2, <2>3, WorkerSteps
    DEF WorkerStep, DeleteContinues, Idle, CreatePCs, DeletePCs
<1>4. /\ \A n \in Names : cr'[n].uid \in Int /\ crcache'[n].uid \in Int
      /\ w'.cr.uid \in Int
      /\ w'.pc \in CreatePCs => w'.key \in Names
  BY NextTS DEF TS, CRTypes, WorkerOK, Worker, WorkerShape, Resource, CreatePCs
<1> USE DEF RecordedOrDead, Recorded, Dead
<1>5. \A n \in Names : cr'[n].hash # Absent => RecordedOrDead(n, cr[n].uid)'
  BY <1>1, <1>4
<1>6. \A n \in Names : crcache'[n].hash # Absent => RecordedOrDead(n, crcache[n].uid)'
  BY <1>2, <1>4
<1>7. w'.pc \in CreatePCs /\ (w'.cr.hash # Absent \/ w'.pc = "hash")
        => RecordedOrDead(w.key, w.cr.uid)'
  <2> SUFFICES ASSUME w'.pc \in CreatePCs, w'.cr.hash # Absent \/ w'.pc = "hash"
               PROVE  RecordedOrDead(w.key, w.cr.uid)'
    OBVIOUS
  <2>1. PICK n \in Names, u \in Int : n = w'.key /\ u = w'.cr.uid
    BY <1>4
  <2>2. RecordedOrDead(n, u)'
    BY <1>3, <2>1
  <2>3. QED BY <2>1, <2>2
<1>8. QED BY <1>5, <1>6, <1>7 DEF HashOK

LEMMA FolderStep ==
  ASSUME TS, DeleteOK, FolderOK, [Next]_vars
  PROVE  FolderOK'
<1>1. w \in Worker
  BY DEF TS, WorkerOK
<1>2. w'.pc = "rmFolder" => UNCHANGED w \/ \E o \in Outcomes : CheckFolder(o)
  <2> SUFFICES ASSUME w'.pc = "rmFolder", ~UNCHANGED w
               PROVE  \E o \in Outcomes : CheckFolder(o)
    OBVIOUS
  <2>1. w.pc \in DeletePCs
    BY WorkerSteps DEF WorkerStep, DequeueStep, CreateContinues, DeleteContinues, Idle, CreatePCs
  <2>2. ~Crash /\ ~FinishReconcile /\ ~FinishDelete
    BY DEF Crash, ClusterCrash, FinishReconcile, FinishDelete, Idle
  <2>3. ~ListForDelete
    BY <1>1 DEF ListForDelete, Worker
  <2>4. ASSUME NEW o \in Outcomes, DeleteStep(o), ~CheckFolder(o) PROVE FALSE
    <3>1. ASSUME NEW g \in Grafanas PROVE ~ReadDashboard(g, o)
      <4> DEFINE found == store[g][w.key][FoundUid(g)] # Absent
      <4>1. ReadDashboard(g, o) =>
              w' = [w EXCEPT !.pc = IF o = "ok" THEN "delDash" ELSE "error",
                             !.todo = w.todo \ {g}, !.g = g, !.dash = found]
        BY DEF ReadDashboard
      <4> HIDE DEF found
      <4>2. QED BY <1>1, <4>1 DEF Worker
    <3>2. ~DeleteDashboard(o)
      BY <1>1 DEF DeleteDashboard, Worker
    <3>3. ~DeleteFolder(o)
      BY <1>1 DEF DeleteFolder, Worker
    <3>4. ~ClearPlugins(o)
      BY <1>1 DEF ClearPlugins, Worker
    <3>5. ~RemoveRecord(o)
      <4>1. RemoveRecord(o) =>
              w' = [w EXCEPT !.pc = IF o = "ok" THEN "delNext" ELSE "error",
                             !.g = Absent, !.dash = FALSE]
        BY ZenonT(60) DEF RemoveRecord
      <4>2. QED BY <1>1, <4>1 DEF Worker
    <3>6. QED BY <2>4, <3>1, <3>2, <3>3, <3>4, <3>5 DEF DeleteStep
  <2>5. ASSUME NEW o \in Outcomes, CreateStep(o) PROVE w.pc \in CreatePCs
    BY <2>5 DEF CreateStep, GetMatchingDashboardInstances, StartInstance, Exists, GetOrCreateFolder,
       NewDashboard, RecordDashboard, UpdateStatus, CreatePCs
  <2>6. (\A n \in Names : Dequeue(n) => FALSE) /\ (\A g \in Grafanas : SkipNotReady(g) => FALSE)
    BY <2>1 DEF Dequeue, SkipNotReady, DeletePCs
  <2>7. QED
    BY <2>1, <2>2, <2>3, <2>4, <2>5, <2>6, ChangesWorker DEF LocalStep, CreatePCs, DeletePCs
<1>3. CASE UNCHANGED w
  <2> SUFFICES ASSUME w.pc = "rmFolder", NEW e \in InFolder(w.g, FolderOf[w.key])'
               PROVE  FALSE
    BY <1>3 DEF FolderOK
  <2>1. e \in Names \X Uids /\ FolderOf[e[1]] = FolderOf[w.key] /\ store'[w.g][e[1]][e[2]] # Absent
    BY <1>3 DEF InFolder
  <2>2. w.g \in Grafanas
    BY DEF TS, WorkerOK, WorkerShape, DeletePCs
  <2>3. store[w.g][e[1]][e[2]] # Absent
    BY <2>1, <2>2, StoreSteps DEF StoreStep, Wrote
  <2>4. e \in InFolder(w.g, FolderOf[w.key])
    BY <2>1, <2>3 DEF InFolder
  <2>5. QED BY <2>4 DEF FolderOK
<1>4. ASSUME NEW o \in Outcomes, CheckFolder(o) PROVE FolderOK'
  <2> SUFFICES ASSUME w'.pc = "rmFolder" PROVE InFolder(w.g, FolderOf[w.key])' = {}
    BY DEF FolderOK
  <2>1. w'.g = w.g /\ w'.key = w.key /\ UNCHANGED store /\ InFolder(w.g, FolderOf[w.key]) = {}
    BY <1>1, <1>4 DEF CheckFolder, clusterVars, Worker
  <2>2. QED BY <2>1 DEF InFolder
<1>5. QED BY <1>2, <1>3, <1>4 DEF FolderOK

-----------------------------------------------------------------------------
(* The inductive invariant and what follows from it *)

LEMMA InitIInv == Init => IInv
<1> SUFFICES ASSUME Init PROVE IInv
  OBVIOUS
<1>1. ShapeOK
  BY InitTS, TSisTypeAndShape
<1>2. /\ cr = [n \in Names |-> Gone(0)] /\ crcache = cr /\ w = Idle /\ s = Waiting
      /\ grafana \in GrafanaCopies /\ gcache = grafana
      /\ crstale = [n \in Names |-> {"worker"}]
      /\ gstale = [g \in Grafanas |-> {"worker", "sync"}]
      /\ \A g \in Grafanas, n \in Names : grafana[g].list[n] = <<>>
      /\ \A g \in Grafanas, n \in Names, u \in Uids : store[g][n][u] = Absent
  <2>1. grafana \in GrafanaCopies
    BY InitTS DEF TS, GrafanaTypes
  <2>2. \A g \in Grafanas, n \in Names : grafana[g].list[n] = <<>>
    BY DEF Init, ClusterInit
  <2>3. \A g \in Grafanas, n \in Names, u \in Uids : store[g][n][u] = Absent
    BY DEF Init, ClusterInit, EmptyStore
  <2>4. QED BY <2>1, <2>2, <2>3 DEF Init, ClusterInit
<1>3. /\ w.pc = "idle" /\ w.snap = NoSnap /\ s.pc = "wait" /\ s.seen = NoSnap
  BY <1>2 DEF Idle, Waiting
<1>4. Gone(0).uid = 0 /\ Gone(0).hash = Absent /\ ~Live(Gone(0))
  BY DEF Gone, New, Live
<1>5. CopiesOK
  BY <1>2, <1>3 DEF CopiesOK, CacheCopyOK, GrafanaCacheOK, CreatePCs
<1>6. CacheOrderOK
  <2>1. \A g \in Grafanas, n \in Names :
          /\ Entries(grafana[g].list[n]) = {} /\ Entries(gcache[g].list[n]) = {}
          /\ Entries(w.snap[g].list[n]) = {} /\ Entries(s.seen[g].list[n]) = {}
    BY <1>2, <1>3, NoEntries DEF NoSnap
  <2>2. \A n \in Names : cr[n].uid = 0 /\ crcache[n].uid = 0 /\ ~Live(cr[n])
    BY <1>2, <1>4
  <2>3. w.pc \notin CreatePCs
    BY <1>3 DEF CreatePCs
  <2>4. \A g \in Grafanas, n \in Names, u \in Uids : store[g][n][u] = Absent
    BY <1>2
  <2> SUFFICES ASSUME NEW n \in Names
               PROVE  /\ crcache[n].uid <= cr[n].uid /\ ~Live(cr[n])
                      /\ \A g \in Grafanas :
                           /\ \A u \in Entries(grafana[g].list[n]) : u <= crcache[n].uid
                           /\ \A u \in Entries(gcache[g].list[n]) : u <= crcache[n].uid
                           /\ \A u \in Entries(w.snap[g].list[n]) : u <= crcache[n].uid
                           /\ \A u \in Entries(s.seen[g].list[n]) : u <= crcache[n].uid
                           /\ \A u \in Uids : store[g][n][u] # Absent => u <= crcache[n].uid
    BY <2>3 DEF CacheOrderOK
  <2>5. crcache[n].uid <= cr[n].uid /\ ~Live(cr[n])
    BY <2>2
  <2>6. ASSUME NEW g \in Grafanas
        PROVE  /\ \A u \in Entries(grafana[g].list[n]) : u <= crcache[n].uid
               /\ \A u \in Entries(gcache[g].list[n]) : u <= crcache[n].uid
               /\ \A u \in Entries(w.snap[g].list[n]) : u <= crcache[n].uid
               /\ \A u \in Entries(s.seen[g].list[n]) : u <= crcache[n].uid
    BY <2>1
  <2>7. QED BY <2>4, <2>5, <2>6
<1>7. DeleteOK /\ HashOK /\ FolderOK
  BY <1>2, <1>3, <1>4 DEF DeleteOK, HashOK, FolderOK, CreatePCs, DeletePCs
<1>8. QED BY <1>1, <1>5, <1>6, <1>7 DEF IInv

LEMMA NextIInv == TS /\ IInv /\ [Next]_vars => IInv'
<1> SUFFICES ASSUME TS, IInv, [Next]_vars PROVE IInv'
  OBVIOUS
<1>1. ShapeOK'
  BY NextTS, TSisTypeAndShape DEF TS, ShapeOK, CRTypes, WorkerOK, SyncOK
<1>2. CopiesOK' /\ CacheOrderOK' /\ DeleteOK' /\ HashOK' /\ FolderOK'
  BY CopiesStep, CacheOrderStep, DeleteStepOK, HashStep, FolderStep DEF IInv
<1>3. QED BY <1>1, <1>2 DEF IInv

(* The invariant the properties below rest on: copies nobody overtook      *)
(* equal their object, no cache runs ahead, whatever the worker or the     *)
(* sync goroutine is about to delete belongs to a deleted resource, and a  *)
(* hash is never ahead of the record in a status list.                     *)
THEOREM Invariance == Spec => []IInv
<1>1. Init => TS /\ IInv
  BY InitTS, InitIInv
<1>2. (TS /\ IInv) /\ [Next]_vars => (TS /\ IInv)'
  BY NextTS, NextIInv
<1>3. QED BY <1>1, <1>2, PTL DEF Spec

(* A resource whose status hash is set is recorded in the status of at     *)
(* least one Grafana (lines 354-360), for any number of Grafanas, names    *)
(* and incarnations, and whatever fails or restarts on the way.            *)
THEOREM HashIsRecorded == Spec => []HashImpliesRecorded
<1>1. TS /\ IInv => HashImpliesRecorded
  <2> SUFFICES ASSUME TS, IInv, NEW n \in Names, Live(cr[n]), cr[n].hash # Absent
               PROVE  Recorded(n, cr[n].uid)
    BY DEF HashImpliesRecorded
  <2>1. Recorded(n, cr[n].uid) \/ Dead(n, cr[n].uid)
    BY DEF IInv, HashOK
  <2>2. ~Dead(n, cr[n].uid)
    BY UidTypes DEF Dead
  <2>3. QED BY <2>1, <2>2
<1>2. Spec => []TS
  BY InitTS, NextTS, PTL DEF Spec
<1>3. QED BY <1>1, <1>2, Invariance, PTL

(* The operator erases no dashboard of a living resource, neither in       *)
(* onDashboardDeleted nor by deleting a folder nor in syncDashboards, for  *)
(* every number of Grafanas, names, folders and incarnations.              *)
THEOREM NoLiveDashboardDeleted == Spec => LiveNotDeleted
<1> DEFINE Spares == Controller => \A g \in Grafanas, n \in Names, u \in Uids :
                       store[g][n][u] # Absent /\ store'[g][n][u] = Absent => Dead(n, u)
<1>1. TS /\ IInv /\ [Next]_vars => [Spares]_vars
  BY StoreSteps DEF IInv, StoreStep, Erased
<1>2. Spec => []TS
  BY InitTS, NextTS, PTL DEF Spec
<1>3. Spec => [][Spares]_vars
  BY <1>1, <1>2, Invariance, PTL DEF Spec
<1>4. QED BY <1>3 DEF LiveNotDeleted

(* No step drops the entry of a living dashboard from a status list,       *)
(* although every writer rewrites the whole list from a copy of its own.   *)
THEOREM NoLiveEntryForgotten == Spec => LiveNotForgotten
<1> DEFINE Keeps == \A g \in Grafanas, n \in Names, u \in Uids :
                      u \in Entries(grafana[g].list[n]) /\ u \notin Entries(grafana'[g].list[n])
                      => Dead(n, u)
<1>1. TS /\ IInv /\ [Next]_vars => [Keeps]_vars
  BY ListSteps, CopiesParts DEF IInv, ListStep
<1>2. Spec => []TS
  BY InitTS, NextTS, PTL DEF Spec
<1>3. Spec => [][Keeps]_vars
  BY <1>1, <1>2, Invariance, PTL DEF Spec
<1>4. QED BY <1>3 DEF LiveNotForgotten

-----------------------------------------------------------------------------
(***************************************************************************)
(* DashboardController implements ContentLedger, for every value of the    *)
(* constants.  A step of the controller or of its environment changes      *)
(* resources, status lists or dashboards, and never two of them at a time; *)
(* each kind of change is a step of the ledger, or none.                   *)
(***************************************************************************)

(* What a step does to a resource *)

Becomes(n, new) == cr' = [cr EXCEPT ![n] = new]

Born(n) == \E new \in Resource :
    Becomes(n, new) /\ ~Live(cr[n]) /\ Live(new) /\ new.uid = cr[n].uid + 1 /\ new.hash = Absent
Dies(n) == \E new \in Resource :
    Becomes(n, new) /\ Live(cr[n]) /\ ~Live(new) /\ new.uid = cr[n].uid /\ new.hash = Absent
Rewritten(n) == \E new \in Resource :
    Becomes(n, new) /\ Live(cr[n]) /\ Live(new) /\ new.uid = cr[n].uid

LEMMA WorkerRewrites ==
  ASSUME TS, CopiesOK, w.pc \in CreatePCs, "worker" \notin crstale[w.key],
         NEW new \in Resource, new.uid = w.cr.uid, new.json = w.cr.json,
         NEW by, WriteCR(w.key, new, by)
  PROVE  \E n \in Names : Rewritten(n)
<1>1. w.key \in Names /\ Live(w.cr)
  BY WorkerTypes
<1>2. cr[w.key].uid = new.uid /\ cr[w.key].json = new.json
  BY DEF CopiesOK
<1>3. Becomes(w.key, new)
  BY DEF WriteCR, Becomes
<1>4. QED BY <1>1, <1>2, <1>3 DEF Rewritten, Live

LEMMA CRChanges ==
  ASSUME TS, CopiesOK, [Next]_vars
  PROVE  \/ UNCHANGED cr
         \/ /\ UNCHANGED <<grafana, store>>
            /\ \E n \in Names : Born(n) \/ Dies(n) \/ Rewritten(n)
<1>1. cr \in [Names -> Resource]
  BY DEF TS, CRTypes
<1>2. ASSUME NEW o \in Outcomes, GetMatchingDashboardInstances(o), cr' # cr
      PROVE  UNCHANGED <<grafana, store>> /\ \E n \in Names : Rewritten(n)
  <2> DEFINE none == {g \in Grafanas : w.key \in gcache[g].matches} = {}
             new == [w.cr EXCEPT !.noMatch = none]
  <2>1. w.pc \in CreatePCs /\ o # "fail" /\ UNCHANGED <<grafana, store>>
    BY <1>2 DEF GetMatchingDashboardInstances, CreatePCs, grafanaDB
  <2>2. new \in Resource /\ new.uid = w.cr.uid /\ new.json = w.cr.json
    BY <2>1, WorkerTypes DEF Resource
  <2>3. "worker" \notin crstale[w.key]
    BY <1>2, <2>1 DEF GetMatchingDashboardInstances, KubeOutcomes
  <2>4. \E by : WriteCR(w.key, new, by)
    BY <1>2, <2>1 DEF GetMatchingDashboardInstances
  <2>5. QED BY <2>1, <2>2, <2>3, <2>4, WorkerRewrites
<1>3. ASSUME NEW o \in Outcomes, UpdateStatus(o), cr' # cr
      PROVE  UNCHANGED <<grafana, store>> /\ \E n \in Names : Rewritten(n)
  <2> DEFINE new == [w.cr EXCEPT !.hash = Hash(w.cr.json)]
  <2>1. w.pc \in CreatePCs /\ o # "fail" /\ UNCHANGED <<grafana, store>>
    BY <1>3 DEF UpdateStatus, CreatePCs, grafanaDB, grafanaVars
  <2>2. new \in Resource /\ new.uid = w.cr.uid /\ new.json = w.cr.json
    BY <2>1, WorkerTypes DEF Resource, Live
  <2>3. "worker" \notin crstale[w.key]
    BY <1>3, <2>1 DEF UpdateStatus, KubeOutcomes
  <2>4. \E by : WriteCR(w.key, new, by)
    BY <1>3, <2>1 DEF UpdateStatus
  <2>5. QED BY <2>1, <2>2, <2>3, <2>4, WorkerRewrites
<1>4. ASSUME NEW n \in Names, CreateCR(n) PROVE UNCHANGED <<grafana, store>> /\ Born(n)
  <2>1. PICK c \in Contents : Becomes(n, New(cr[n].uid + 1, c))
    BY <1>4 DEF CreateCR, WriteCR, Becomes
  <2>2. cr[n].uid \in 0..MaxUid /\ ~Live(cr[n]) /\ cr[n].uid < MaxUid
    BY <1>1, <1>4 DEF CreateCR, Resource
  <2>3. New(cr[n].uid + 1, c) \in Resource /\ Live(New(cr[n].uid + 1, c))
    <3>1. cr[n].uid + 1 \in 0..MaxUid /\ c \in Contents \cup {Absent} /\ c # Absent
      BY <2>2 DEF ClusterAssumption
    <3>2. QED BY <3>1 DEF New, Resource, Live
  <2>4. QED BY <1>4, <2>1, <2>2, <2>3 DEF Born, New, CreateCR
<1>5. ASSUME NEW n \in Names, EditCR(n) PROVE UNCHANGED <<grafana, store>> /\ Rewritten(n)
  <2>1. PICK step \in EditSteps : cr[n].json = step[1] /\ Becomes(n, [cr[n] EXCEPT !.json = step[2]])
    BY <1>5 DEF EditCR, WriteCR, Becomes
  <2>2. step[1] \in Contents /\ step[2] \in Contents
    BY DEF ClusterAssumption
  <2> DEFINE new == [cr[n] EXCEPT !.json = step[2]]
  <2>3. new \in Resource /\ new.uid = cr[n].uid /\ Live(cr[n]) /\ Live(new)
    BY <1>1, <2>1, <2>2 DEF Resource, Live
  <2>4. QED BY <1>5, <2>1, <2>3 DEF Rewritten, EditCR
<1>6. ASSUME NEW n \in Names, DeleteCR(n) PROVE UNCHANGED <<grafana, store>> /\ Dies(n)
  <2>1. Becomes(n, Gone(cr[n].uid)) /\ Live(cr[n])
    BY <1>6 DEF DeleteCR, WriteCR, Becomes
  <2>2. Gone(cr[n].uid) \in Resource /\ ~Live(Gone(cr[n].uid))
    BY <1>1 DEF Gone, New, Resource, Live
  <2>3. QED BY <1>6, <2>1, <2>2 DEF Dies, Gone, New, DeleteCR
<1>7. ASSUME NEW n \in Names, SyncCRCache(n) \/ Dequeue(n) PROVE UNCHANGED cr
  BY <1>7 DEF SyncCRCache, Dequeue
<1>8. CASE FinishReconcile \/ Crash \/ Start
  BY <1>8 DEF FinishReconcile, Crash, ClusterCrash, Start, ClusterStart
<1>9. QED
  BY <1>2, <1>3, <1>4, <1>5, <1>6, <1>7, <1>8, ChangesCRVars DEF Env, crVars

\* A resource that is gone has no hash.
GoneHasNoHash == \A n \in Names : ~Live(cr[n]) => cr[n].hash = Absent

LEMMA GoneHasNoHashInit == Init => GoneHasNoHash
  BY DEF Init, ClusterInit, GoneHasNoHash, Gone, New

LEMMA GoneHasNoHashStep ==
  ASSUME TS, CopiesOK, GoneHasNoHash, [Next]_vars
  PROVE  GoneHasNoHash'
<1>1. CASE UNCHANGED cr
  BY <1>1 DEF GoneHasNoHash, Live
<1>2. ASSUME NEW m \in Names, Born(m) \/ Dies(m) \/ Rewritten(m) PROVE GoneHasNoHash'
  <2>1. PICK new \in Resource : Becomes(m, new) /\ (Live(new) \/ new.hash = Absent)
    BY <1>2 DEF Born, Dies, Rewritten
  <2>2. cr \in [Names -> Resource]
    BY DEF TS, CRTypes
  <2>3. \A n \in Names : cr'[n] = IF n = m THEN new ELSE cr[n]
    BY <2>1, <2>2 DEF Becomes
  <2>4. QED BY <2>1, <2>3 DEF GoneHasNoHash, Live
<1>3. QED BY <1>1, <1>2, CRChanges

-----------------------------------------------------------------------------
(* One Grafana at a time *)

\* Nothing but the value at g changes.
OnlyAt(f, new, g) == \A h \in Grafanas \ {g} : new[h] = f[h]

LEMMA GrafanaChanges ==
  ASSUME TS, [Next]_vars
  PROVE  \/ UNCHANGED grafana
         \/ /\ UNCHANGED <<cr, store>>
            /\ \E g \in Grafanas : OnlyAt(grafana, grafana', g)
<1>1. grafana \in [Grafanas -> GrafanaResource]
  BY DEF TS, GrafanaTypes, GrafanaCopies
<1>2. ASSUME NEW g \in Grafanas, NEW new, grafana' = [grafana EXCEPT ![g] = new]
      PROVE  OnlyAt(grafana, grafana', g)
  BY <1>1, <1>2 DEF OnlyAt
<1>3. ASSUME NEW g \in Grafanas, GrafanaWrite(g)
      PROVE  UNCHANGED <<cr, store>> /\ OnlyAt(grafana, grafana', g)
  BY <1>2, <1>3 DEF GrafanaWrite
<1>4. ASSUME NEW o \in Outcomes, RecordDashboard(o) \/ RemoveRecord(o)
      PROVE  /\ UNCHANGED <<cr, store>>
             /\ UNCHANGED grafana \/ \E g \in Grafanas : OnlyAt(grafana, grafana', g)
  <2>1. w.g \in Grafanas
    BY <1>4 DEF RecordDashboard, RemoveRecord, TS, WorkerOK, WorkerShape, CreatePCs, DeletePCs
  <2>2. UNCHANGED <<cr, store>>
    BY <1>4 DEF RecordDashboard, RemoveRecord, crVars, grafanaDB
  <2>3. UNCHANGED grafana \/ \E new : grafana' = [grafana EXCEPT ![w.g] = new]
    BY <1>4 DEF RecordDashboard, RemoveRecord, WriteList, WriteGrafana
  <2>4. QED BY <1>2, <2>1, <2>2, <2>3
<1>5. ASSUME NEW o \in Outcomes, SyncUpdate(o)
      PROVE  /\ UNCHANGED <<cr, store>>
             /\ UNCHANGED grafana \/ \E g \in Grafanas : OnlyAt(grafana, grafana', g)
  <2>1. s.g \in Grafanas
    BY <1>5 DEF SyncUpdate, TS, SyncOK, SyncShape
  <2>2. UNCHANGED <<cr, store>>
    BY <1>5 DEF SyncUpdate, crVars, grafanaDB
  <2>3. UNCHANGED grafana \/ \E new : grafana' = [grafana EXCEPT ![s.g] = new]
    BY <1>5 DEF SyncUpdate, WriteGrafana
  <2>4. QED BY <1>2, <2>1, <2>2, <2>3
<1>6. QED
  BY <1>3, <1>4, <1>5, ChangesGrafanaVars
  DEF Env, grafanaVars, SyncGrafanaCache, GetMatchingDashboardInstances, FinishReconcile,
      ListForDelete, FinishDelete, SyncListGrafanas, SyncReturn, Crash, ClusterCrash, Start, ClusterStart

LEMMA StoreChanges ==
  ASSUME TS, [Next]_vars
  PROVE  \/ UNCHANGED store
         \/ /\ UNCHANGED <<cr, grafana>>
            /\ \E g \in Grafanas : /\ OnlyAt(store, store', g)
                                   /\ Controller \/ Env(UiEdit(g)) \/ Env(Wipe(g))
<1>1. store \in [Grafanas -> [Names -> [Uids -> Contents \cup {Absent}]]]
  BY DEF TS, ServerTypes, Stores
<1>2. ASSUME NEW g \in Grafanas, NEW new, store' = [store EXCEPT ![g] = new]
      PROVE  OnlyAt(store, store', g)
  BY <1>1, <1>2 DEF OnlyAt
<1>3. ASSUME NEW g \in Grafanas, UiEdit(g) \/ Wipe(g)
      PROVE  UNCHANGED <<cr, grafana>> /\ OnlyAt(store, store', g)
  <2>1. \E new : store' = [store EXCEPT ![g] = new]
    BY <1>3 DEF UiEdit, Wipe
  <2>2. QED BY <1>2, <1>3, <2>1 DEF UiEdit, Wipe
<1>4. ASSUME NEW o \in Outcomes, NewDashboard(o) \/ DeleteDashboard(o) \/ DeleteFolder(o)
      PROVE  /\ UNCHANGED <<cr, grafana>>
             /\ UNCHANGED store \/ \E g \in Grafanas : OnlyAt(store, store', g)
  <2>1. w.g \in Grafanas
    BY <1>4 DEF NewDashboard, DeleteDashboard, DeleteFolder, TS, WorkerOK, WorkerShape, CreatePCs, DeletePCs
  <2>2. UNCHANGED <<cr, grafana>>
    BY <1>4 DEF NewDashboard, DeleteDashboard, DeleteFolder, crVars, grafanaVars
  <2>3. UNCHANGED store \/ \E new : store' = [store EXCEPT ![w.g] = new]
    BY <1>4 DEF NewDashboard, DeleteDashboard, DeleteFolder, grafanaDB
  <2>4. QED BY <1>2, <2>1, <2>2, <2>3
<1>5. ASSUME NEW o \in Outcomes, NEW e \in Names \X Uids, SyncDelete(e, o)
      PROVE  /\ UNCHANGED <<cr, grafana>>
             /\ UNCHANGED store \/ \E g \in Grafanas : OnlyAt(store, store', g)
  <2>1. s.g \in Grafanas
    BY <1>5 DEF SyncDelete, TS, SyncOK, SyncShape
  <2>2. UNCHANGED <<cr, grafana>>
    BY <1>5 DEF SyncDelete, crVars, grafanaVars
  <2>3. UNCHANGED store \/ \E new : store' = [store EXCEPT ![s.g] = new]
    BY <1>5 DEF SyncDelete
  <2>4. QED BY <1>2, <2>1, <2>2, <2>3
<1>6. QED
  BY <1>3, <1>4, <1>5, ChangesStore, ControllerChangesStore DEF Env

-----------------------------------------------------------------------------
(* The ledger's variables *)

LifeOf(c, u) == IF c.uid > u \/ (c.uid = u /\ ~Live(c)) THEN "dead"
                ELSE IF c.uid = u THEN "live" ELSE "unborn"

LEMMA LifeIs ==
  /\ Life = [i \in Items |-> LifeOf(cr[i[1]], i[2])]
  /\ Life' = [i \in Items |-> LifeOf(cr'[i[1]], i[2])]
BY DEF Life, LifeOf, Dead, Live

LEMMA LedgerInit == Init => Ledger!Init
<1> SUFFICES ASSUME Init PROVE Ledger!Init
  OBVIOUS
<1>1. \A n \in Names : cr[n].uid = 0 /\ cr[n].hash = Absent /\ \A u \in Uids : u > 0
  BY DEF Init, ClusterInit, Gone, New, Uids, ClusterAssumption
<1>2. Life = [i \in Items |-> "unborn"]
  BY <1>1, LifeIs DEF LifeOf, Items, Uids
<1>3. Stored = [g \in Grafanas |-> {}]
  BY DEF Init, ClusterInit, Stored, Items, EmptyStore
<1>4. ListedItems = [g \in Grafanas |-> {}]
  <2>1. \A g \in Grafanas, n \in Names : Entries(grafana[g].list[n]) = {}
    BY NoEntries DEF Init, ClusterInit
  <2>2. QED BY <2>1 DEF ListedItems, Items
<1>5. Settled = {}
  BY <1>1 DEF Settled, Items, Uids
<1>6. QED BY <1>2, <1>3, <1>4, <1>5 DEF Ledger!Init

LEMMA ListsAndStoresStay ==
  /\ UNCHANGED store => UNCHANGED Stored
  /\ UNCHANGED grafana => UNCHANGED ListedItems
BY DEF Stored, ListedItems

LEMMA ResourcesStay == UNCHANGED cr => UNCHANGED <<Life, Settled>>
BY DEF Life, Settled, Dead, Live

\* A hash belongs to a living item that some Grafana lists.
SettledOK ==
    Settled \subseteq {i \in Items : Life[i] = "live" /\ \E g \in Grafanas : i \in ListedItems[g]}

LEMMA SettledItems ==
  ASSUME TS, GoneHasNoHash, HashOK
  PROVE  SettledOK
<1> SUFFICES ASSUME NEW i \in Settled
             PROVE  i \in Items /\ Life[i] = "live" /\ \E g \in Grafanas : i \in ListedItems[g]
  BY DEF SettledOK
<1>1. i \in Items /\ i[1] \in Names /\ cr[i[1]].uid = i[2] /\ cr[i[1]].hash # Absent
  BY DEF Settled, Items
<1>2. Live(cr[i[1]]) /\ cr[i[1]].uid \in Int
  BY <1>1, UidTypes DEF GoneHasNoHash
<1>3. ~Dead(i[1], i[2])
  BY <1>1, <1>2 DEF Dead
<1>4. Recorded(i[1], i[2])
  BY <1>1, <1>3 DEF HashOK
<1>5. \E g \in Grafanas : i \in ListedItems[g]
  BY <1>1, <1>4 DEF Recorded, ListedItems
<1>6. QED BY <1>1, <1>3, <1>5 DEF Life

-----------------------------------------------------------------------------
(* The ledger's steps *)

LEMMA BornIsCreate ==
  ASSUME TS, GoneHasNoHash, NEW n \in Names, Born(n), UNCHANGED <<grafana, store>>
  PROVE  \E i \in Items : Ledger!Create(i)
<1>1. PICK new \in Resource : /\ Becomes(n, new) /\ ~Live(cr[n]) /\ Live(new)
                              /\ new.uid = cr[n].uid + 1 /\ new.hash = Absent
  BY DEF Born
<1>2. /\ cr \in [Names -> Resource] /\ cr[n].uid \in Int /\ cr[n].uid >= 0 /\ new.uid <= MaxUid
      /\ cr[n].hash = Absent
  BY <1>1 DEF TS, CRTypes, Resource, ClusterAssumption, GoneHasNoHash
<1>3. \A m \in Names : cr'[m] = IF m = n THEN new ELSE cr[m]
  BY <1>1, <1>2 DEF Becomes
<1> DEFINE i == <<n, new.uid>>
<1>4. i \in Items /\ i[1] = n /\ i[2] = new.uid
  BY <1>1, <1>2 DEF Items, Uids, ClusterAssumption
<1>5. \A u \in Uids : LifeOf(new, u) = IF u = new.uid THEN "live" ELSE LifeOf(cr[n], u)
  BY <1>1, <1>2 DEF LifeOf, Uids, ClusterAssumption
<1>6. \A j \in Items : LifeOf(cr'[j[1]], j[2]) = IF j = i THEN "live" ELSE LifeOf(cr[j[1]], j[2])
  BY <1>3, <1>5 DEF Items
<1>7. Life' = [Life EXCEPT ![i] = "live"] /\ Life[i] = "unborn"
  <2>1. LifeOf(cr[n], new.uid) = "unborn"
    BY <1>1, <1>2 DEF LifeOf
  <2> HIDE DEF i
  <2>2. QED BY <1>4, <1>6, <2>1, LifeIs
<1>8. UNCHANGED Settled
  BY <1>1, <1>2, <1>3 DEF Settled, Items
<1>9. QED
  BY <1>4, <1>7, <1>8, ListsAndStoresStay DEF Ledger!Create

LEMMA DiesIsDelete ==
  ASSUME TS, NEW n \in Names, Dies(n), UNCHANGED <<grafana, store>>
  PROVE  \E i \in Items : Ledger!Delete(i)
<1>1. PICK new \in Resource : /\ Becomes(n, new) /\ Live(cr[n]) /\ ~Live(new)
                              /\ new.uid = cr[n].uid /\ new.hash = Absent
  BY DEF Dies
<1>2. cr \in [Names -> Resource] /\ cr[n].uid \in Int /\ cr[n].uid \in Uids
  BY <1>1, UidTypes DEF TS, CRTypes, LiveHasUid
<1>3. \A m \in Names : cr'[m] = IF m = n THEN new ELSE cr[m]
  BY <1>1, <1>2 DEF Becomes
<1> DEFINE i == <<n, new.uid>>
<1>4. i \in Items /\ i[1] = n /\ i[2] = new.uid
  BY <1>1, <1>2 DEF Items
<1>5. \A u \in Uids : LifeOf(new, u) = IF u = new.uid THEN "dead" ELSE LifeOf(cr[n], u)
  BY <1>1, <1>2 DEF LifeOf, Uids, ClusterAssumption
<1>6. \A j \in Items : LifeOf(cr'[j[1]], j[2]) = IF j = i THEN "dead" ELSE LifeOf(cr[j[1]], j[2])
  BY <1>3, <1>5 DEF Items
<1>7. Life' = [Life EXCEPT ![i] = "dead"] /\ Life[i] = "live"
  <2>1. LifeOf(cr[n], new.uid) = "live"
    BY <1>1, <1>2 DEF LifeOf
  <2> HIDE DEF i
  <2>2. QED BY <1>4, <1>6, <2>1, LifeIs
<1>8. Settled' = Settled \ {i}
  BY <1>1, <1>2, <1>3 DEF Settled, Items
<1>9. QED
  BY <1>4, <1>7, <1>8, ListsAndStoresStay DEF Ledger!Delete

LEMMA RewrittenIsSettle ==
  ASSUME TS, SettledOK', NEW n \in Names, Rewritten(n), UNCHANGED <<grafana, store>>
  PROVE  Ledger!Settle
<1>1. PICK new \in Resource : /\ Becomes(n, new) /\ Live(cr[n]) /\ Live(new) /\ new.uid = cr[n].uid
  BY DEF Rewritten
<1>2. cr \in [Names -> Resource]
  BY DEF TS, CRTypes
<1>3. \A m \in Names : cr'[m] = IF m = n THEN new ELSE cr[m]
  BY <1>1, <1>2 DEF Becomes
<1>4. \A m \in Names, u \in Uids : LifeOf(cr'[m], u) = LifeOf(cr[m], u)
  BY <1>1, <1>3 DEF LifeOf
<1>5. UNCHANGED Life
  BY <1>4, LifeIs DEF Items
<1>6. Settled' \in SUBSET {i \in Items : Life[i] = "live" /\ \E g \in Grafanas : i \in ListedItems[g]}
  BY <1>5, ListsAndStoresStay DEF SettledOK
<1>7. QED
  BY <1>5, <1>6, ListsAndStoresStay DEF Ledger!Settle

LEMMA ListStepIsList ==
  ASSUME TS, CacheOrderOK, NEW g \in Grafanas, OnlyAt(grafana, grafana', g),
         \A n \in Names : ListStep(g, n), UNCHANGED <<cr, store>>
  PROVE  Ledger!List(g)
<1> DEFINE old == {i \in Items : i[2] \in Entries(grafana[g].list[i[1]])}
           new == {i \in Items : i[2] \in Entries(grafana'[g].list[i[1]])}
<1>1. ListedItems[g] = old /\ ListedItems' = [ListedItems EXCEPT ![g] = new]
  <2> DEFINE items(lists) == {i \in Items : i[2] \in Entries(lists[i[1]])}
  <2>1. \A h \in Grafanas \ {g} : items(grafana'[h].list) = items(grafana[h].list)
    BY DEF OnlyAt
  <2>2. /\ ListedItems = [h \in Grafanas |-> items(grafana[h].list)]
        /\ ListedItems' = [h \in Grafanas |-> items(grafana'[h].list)]
        /\ items(grafana[g].list) = old /\ items(grafana'[g].list) = new
    BY DEF ListedItems
  <2> HIDE DEF items, old, new
  <2>3. QED BY <2>1, <2>2
<1>2. ASSUME NEW i \in new \ old PROVE Life[i] # "unborn"
  <2>1. i \in Items /\ i[1] \in Names /\ w.pc = "record" /\ i[1] = w.key /\ i[2] = w.cr.uid
    BY <1>2 DEF ListStep, Items
  <2>2. i[2] <= crcache[i[1]].uid /\ crcache[i[1]].uid <= cr[i[1]].uid
    BY <2>1 DEF CacheOrderOK, CreatePCs
  <2>3. i[2] <= cr[i[1]].uid
    BY <2>1, <2>2, UidTypes
  <2>4. LifeOf(cr[i[1]], i[2]) # "unborn"
    BY <2>1, <2>3, UidTypes DEF LifeOf
  <2>5. QED BY <2>1, <2>4, LifeIs
<1>3. ASSUME NEW i \in old \ new PROVE Life[i] = "dead"
  <2>1. i \in Items /\ i[1] \in Names /\ Dead(i[1], i[2])
    BY <1>3 DEF ListStep, Items
  <2>2. QED BY <2>1 DEF Life
<1>4. Ledger!MayBecome(old, new)
  BY <1>2, <1>3 DEF Ledger!MayBecome, Ledger!Born, Ledger!Dead
<1>5. new \in SUBSET Items
  OBVIOUS
<1> HIDE DEF old, new
<1>6. QED BY <1>1, <1>4, <1>5, ListsAndStoresStay, ResourcesStay DEF Ledger!List

LEMMA StoreStepIsStore ==
  ASSUME TS, CacheOrderOK, NEW g \in Grafanas, OnlyAt(store, store', g),
         StoreStep, Controller, UNCHANGED <<cr, grafana>>
  PROVE  Ledger!Store(g)
<1> DEFINE old == {i \in Items : store[g][i[1]][i[2]] # Absent}
           new == {i \in Items : store'[g][i[1]][i[2]] # Absent}
<1>1. Stored[g] = old /\ Stored' = [Stored EXCEPT ![g] = new]
  <2> DEFINE items(db) == {i \in Items : db[i[1]][i[2]] # Absent}
  <2>1. \A h \in Grafanas \ {g} : items(store'[h]) = items(store[h])
    BY DEF OnlyAt
  <2>2. /\ Stored = [h \in Grafanas |-> items(store[h])]
        /\ Stored' = [h \in Grafanas |-> items(store'[h])]
        /\ items(store[g]) = old /\ items(store'[g]) = new
    BY DEF Stored
  <2> HIDE DEF items, old, new
  <2>3. QED BY <2>1, <2>2
<1>2. ASSUME NEW i \in new \ old PROVE Life[i] # "unborn"
  <2>1. i \in Items /\ i[1] \in Names /\ w.pc = "push" /\ i[1] = w.key /\ i[2] = w.cr.uid
    BY <1>2 DEF StoreStep, Wrote, Items
  <2>2. i[2] <= crcache[i[1]].uid /\ crcache[i[1]].uid <= cr[i[1]].uid
    BY <2>1 DEF CacheOrderOK, CreatePCs
  <2>3. i[2] <= cr[i[1]].uid
    BY <2>1, <2>2, UidTypes
  <2>4. LifeOf(cr[i[1]], i[2]) # "unborn"
    BY <2>1, <2>3, UidTypes DEF LifeOf
  <2>5. QED BY <2>1, <2>4, LifeIs
<1>3. ASSUME NEW i \in old \ new PROVE Life[i] = "dead"
  <2>1. i \in Items /\ i[1] \in Names /\ Dead(i[1], i[2])
    BY <1>3 DEF StoreStep, Erased, Items
  <2>2. QED BY <2>1 DEF Life
<1>4. Ledger!MayBecome(old, new)
  BY <1>2, <1>3 DEF Ledger!MayBecome, Ledger!Born, Ledger!Dead
<1>5. new \in SUBSET Items
  OBVIOUS
<1> HIDE DEF old, new
<1>6. QED BY <1>1, <1>4, <1>5, ListsAndStoresStay, ResourcesStay DEF Ledger!Store

LEMMA UiEditStutters ==
  ASSUME TS, NEW g \in Grafanas, UiEdit(g)
  PROVE  UNCHANGED <<Life, Stored, ListedItems, Settled>>
<1>1. PICK n \in Names, u \in Uids, c \in Contents :
        store[g][n][u] # Absent /\ store' = [store EXCEPT ![g][n][u] = c]
  BY DEF UiEdit
<1>2. UNCHANGED <<cr, grafana>> /\ c # Absent
  BY DEF UiEdit, ClusterAssumption
<1>3. \A h \in Grafanas, m \in Names, v \in Uids :
        (store'[h][m][v] # Absent) <=> (store[h][m][v] # Absent)
  BY <1>1, <1>2 DEF TS, ServerTypes, Stores
<1>4. UNCHANGED Stored
  BY <1>3 DEF Stored, Items
<1>5. QED BY <1>2, <1>4, ListsAndStoresStay, ResourcesStay

LEMMA WipeIsLose ==
  ASSUME TS, NEW g \in Grafanas, Wipe(g)
  PROVE  Ledger!Lose(g)
<1>1. store' = [store EXCEPT ![g] = EmptyStore] /\ UNCHANGED <<cr, grafana>>
  BY DEF Wipe
<1>2. Stored' = [Stored EXCEPT ![g] = {}]
  <2> DEFINE items(db) == {i \in Items : db[i[1]][i[2]] # Absent}
  <2>1. \A h \in Grafanas : store'[h] = IF h = g THEN EmptyStore ELSE store[h]
    BY <1>1 DEF TS, ServerTypes, Stores
  <2>2. items(EmptyStore) = {}
    BY DEF EmptyStore, Items
  <2>3. \A h \in Grafanas : items(store'[h]) = IF h = g THEN {} ELSE items(store[h])
    BY <2>1, <2>2
  <2>4. /\ Stored = [h \in Grafanas |-> items(store[h])]
        /\ Stored' = [h \in Grafanas |-> items(store'[h])]
    BY DEF Stored
  <2> HIDE DEF items
  <2>5. QED BY <2>3, <2>4
<1>3. QED BY <1>1, <1>2, ListsAndStoresStay, ResourcesStay DEF Ledger!Lose

LEMMA LedgerNext ==
  ASSUME TS, IInv, GoneHasNoHash, SettledOK', [Next]_vars
  PROVE  [Ledger!Next]_(Ledger!vars)
<1>1. CopiesOK /\ CacheOrderOK /\ SnapOK /\ SeenOK /\ DeleteOK /\ FolderOK
  BY CopiesParts DEF IInv
<1>2. CASE cr' # cr
  BY <1>1, <1>2, CRChanges, BornIsCreate, DiesIsDelete, RewrittenIsSettle DEF Ledger!Next
<1>3. CASE grafana' # grafana
  <2>1. PICK g \in Grafanas : OnlyAt(grafana, grafana', g) /\ UNCHANGED <<cr, store>>
    BY <1>3, GrafanaChanges
  <2>2. \A n \in Names : ListStep(g, n)
    BY <1>1, ListSteps
  <2>3. QED BY <1>1, <2>1, <2>2, ListStepIsList DEF Ledger!Next
<1>4. CASE store' # store
  <2>1. PICK g \in Grafanas : /\ OnlyAt(store, store', g) /\ UNCHANGED <<cr, grafana>>
                              /\ Controller \/ Env(UiEdit(g)) \/ Env(Wipe(g))
    BY <1>4, StoreChanges
  <2>2. CASE Controller
    BY <1>1, <2>1, <2>2, StoreSteps, StoreStepIsStore DEF Ledger!Next
  <2>3. CASE Env(UiEdit(g))
    BY <2>3, UiEditStutters DEF Env, Ledger!vars
  <2>4. CASE Env(Wipe(g))
    BY <2>4, WipeIsLose DEF Env, Ledger!Next
  <2>5. QED BY <2>1, <2>2, <2>3, <2>4
<1>5. CASE UNCHANGED <<cr, grafana, store>>
  BY <1>5, ListsAndStoresStay, ResourcesStay DEF Ledger!vars
<1>6. QED BY <1>2, <1>3, <1>4, <1>5

(* To a ledger that knows neither calls nor caches nor restarts, each step *)
(* of the controller (lines 61-555) and of its surroundings is one of its  *)
(* own or none: living items leave no server and no list, and none is      *)
(* settled before it is listed.                                            *)
THEOREM LedgerImplemented == Spec => ImplementsLedger
<1>1. Init => TS /\ IInv /\ GoneHasNoHash
  BY InitTS, InitIInv, GoneHasNoHashInit
<1>2. (TS /\ IInv /\ GoneHasNoHash) /\ [Next]_vars => (TS /\ IInv /\ GoneHasNoHash)'
  BY NextTS, NextIInv, GoneHasNoHashStep DEF IInv
<1>3. TS /\ IInv /\ GoneHasNoHash => SettledOK
  BY SettledItems DEF IInv
<1>4. TS /\ IInv /\ GoneHasNoHash /\ SettledOK' /\ [Next]_vars => [Ledger!Next]_(Ledger!vars)
  BY LedgerNext
<1>5. QED
  BY <1>1, <1>2, <1>3, <1>4, LedgerInit, PTL DEF Spec, ImplementsLedger, Ledger!Spec

-----------------------------------------------------------------------------
(***************************************************************************)
(* What a current hash of a dashboard means: HashVouches, for every value  *)
(* of the constants that the property is for.                              *)
(***************************************************************************)
USE HashAssumption

(* The order of contents *)

LEMMA OrderLaws ==
  ASSUME NEW before, EditsForward(before)
  PROVE  /\ \A c, d, e \in Contents :
              NotNewer(before, c, d) /\ NotNewer(before, d, e) => NotNewer(before, c, e)
         /\ \A c, d \in Contents : NotNewer(before, c, d) /\ NotNewer(before, d, c) => c = d
         /\ \A step \in EditSteps : /\ step[1] \in Contents /\ step[2] \in Contents
                                    /\ NotNewer(before, step[1], step[2])
<1>1. \A c, d, e \in Contents : before[c, d] /\ before[d, e] => before[c, e]
  BY DEF EditsForward, GoesForward, GoesForward, IsStrictlyPartiallyOrdered, IsTransitive
<1>2. \A c, d \in Contents : before[c, d] /\ before[d, c] => c = d
  BY DEF EditsForward, GoesForward, GoesForward, IsStrictlyPartiallyOrdered, IsAntiSymmetric
<1>3. \A step \in EditSteps : step[1] \in Contents /\ step[2] \in Contents
  OBVIOUS
<1>4. \A step \in EditSteps : NotNewer(before, step[1], step[2])
  BY DEF EditsForward, GoesForward, GoesForward, NotNewer
<1>5. QED BY <1>1, <1>2, <1>3, <1>4 DEF NotNewer

-----------------------------------------------------------------------------
(* What a step can do to a resource, to the dashboards and to the worker *)

Keeps(n) == cr'[n].uid = cr[n].uid /\ cr'[n].json = cr[n].json /\ cr'[n].hash = cr[n].hash
GetsHash(n) == /\ w.pc = "hash" /\ w.key = n /\ w.cr.uid = cr[n].uid /\ w.cr.json = cr[n].json
               /\ cr'[n].uid = cr[n].uid /\ cr'[n].json = cr[n].json
               /\ cr'[n].hash = Hash(cr[n].json)
IsEdited(n) == /\ cr'[n].uid = cr[n].uid /\ cr'[n].hash = cr[n].hash /\ Live(cr[n])
               /\ \E step \in EditSteps : cr[n].json = step[1] /\ cr'[n].json = step[2]
IsNew(n) == cr'[n].uid > cr[n].uid /\ cr'[n].hash = Absent

ResourceMove(n) == Keeps(n) \/ GetsHash(n) \/ IsEdited(n) \/ IsNew(n) \/ ~Live(cr'[n])

LEMMA ResourceMoves ==
  ASSUME TS, CopiesOK, PushedOK, [Next]_vars
  PROVE  \A n \in Names : ResourceMove(n)
<1> USE DEF ResourceMove
<1>1. cr \in [Names -> Resource] /\ \A n \in Names : cr[n].uid \in 0..MaxUid
  BY DEF TS, CRTypes, Resource
<1>2. CASE UNCHANGED cr
  BY <1>2 DEF Keeps
<1>3. ASSUME NEW m \in Names, NEW new, cr' = [cr EXCEPT ![m] = new]
      PROVE  \A n \in Names : cr'[n] = IF n = m THEN new ELSE cr[n]
  BY <1>1, <1>3
<1>4. ASSUME NEW m \in Names, CreateCR(m) PROVE \A n \in Names : ResourceMove(n)
  <2>1. PICK c \in Contents : cr' = [cr EXCEPT ![m] = New(cr[m].uid + 1, c)]
    BY <1>4 DEF CreateCR, WriteCR
  <2>2. \A n \in Names : cr'[n] = IF n = m THEN New(cr[m].uid + 1, c) ELSE cr[n]
    BY <1>3, <2>1
  <2>3. New(cr[m].uid + 1, c).uid > cr[m].uid /\ New(cr[m].uid + 1, c).hash = Absent
    BY <1>1 DEF New
  <2>4. QED BY <2>2, <2>3 DEF Keeps, IsNew
<1>5. ASSUME NEW m \in Names, EditCR(m) PROVE \A n \in Names : ResourceMove(n)
  <2>1. PICK step \in EditSteps : /\ cr[m].json = step[1]
                                  /\ cr' = [cr EXCEPT ![m] = [cr[m] EXCEPT !.json = step[2]]]
    BY <1>5 DEF EditCR, WriteCR
  <2> DEFINE new == [cr[m] EXCEPT !.json = step[2]]
  <2>2. \A n \in Names : cr'[n] = IF n = m THEN new ELSE cr[n]
    BY <1>1, <2>1
  <2>3. new.uid = cr[m].uid /\ new.hash = cr[m].hash /\ new.json = step[2]
    BY <1>1 DEF Resource
  <2>4. step[1] # Absent
    <3>1. step[1] \in Contents
      OBVIOUS
    <3>2. QED BY <3>1
  <2> HIDE DEF new
  <2>5. QED BY <2>1, <2>2, <2>3, <2>4 DEF Keeps, IsEdited, Live
<1>6. ASSUME NEW m \in Names, DeleteCR(m) PROVE \A n \in Names : ResourceMove(n)
  <2>1. \A n \in Names : cr'[n] = IF n = m THEN Gone(cr[m].uid) ELSE cr[n]
    BY <1>3, <1>6 DEF DeleteCR, WriteCR
  <2>2. ~Live(Gone(cr[m].uid))
    BY DEF Gone, New, Live
  <2>3. QED BY <2>1, <2>2 DEF Keeps
<1>7. ASSUME NEW o \in Outcomes, GetMatchingDashboardInstances(o), cr' # cr
      PROVE  \A n \in Names : ResourceMove(n)
  <2> DEFINE none == {g \in Grafanas : w.key \in gcache[g].matches} = {}
             new == [w.cr EXCEPT !.noMatch = none]
  <2>1. w.pc = "match" /\ o # "fail" /\ w.key \in Names /\ w.cr \in Resource
    BY <1>7, WorkerTypes DEF GetMatchingDashboardInstances, CreatePCs
  <2>2. "worker" \notin crstale[w.key]
    BY <1>7, <2>1 DEF GetMatchingDashboardInstances, KubeOutcomes
  <2>3. \A n \in Names : cr'[n] = IF n = w.key THEN new ELSE cr[n]
    BY <1>3, <1>7, <2>1 DEF GetMatchingDashboardInstances, WriteCR
  <2>4. new.uid = w.cr.uid /\ new.json = w.cr.json /\ new.hash = w.cr.hash
    BY <2>1 DEF Resource
  <2> HIDE DEF new
  <2>5. w.cr.uid = cr[w.key].uid /\ w.cr.json = cr[w.key].json /\ w.cr.hash = cr[w.key].hash
    BY <2>1, <2>2 DEF CopiesOK, PushedOK, CreatePCs
  <2>6. QED BY <2>3, <2>4, <2>5 DEF Keeps
<1>8. ASSUME NEW o \in Outcomes, UpdateStatus(o), cr' # cr
      PROVE  \A n \in Names : ResourceMove(n)
  <2> DEFINE new == [w.cr EXCEPT !.hash = Hash(w.cr.json)]
  <2>1. w.pc = "hash" /\ o # "fail" /\ w.key \in Names /\ w.cr \in Resource
    BY <1>8, WorkerTypes DEF UpdateStatus, CreatePCs
  <2>2. "worker" \notin crstale[w.key]
    BY <1>8, <2>1 DEF UpdateStatus, KubeOutcomes
  <2>3. \A n \in Names : cr'[n] = IF n = w.key THEN new ELSE cr[n]
    BY <1>3, <1>8, <2>1 DEF UpdateStatus, WriteCR
  <2>4. new.uid = w.cr.uid /\ new.json = w.cr.json /\ new.hash = Hash(w.cr.json)
    BY <2>1 DEF Resource
  <2> HIDE DEF new
  <2>5. w.cr.uid = cr[w.key].uid /\ w.cr.json = cr[w.key].json
    BY <2>1, <2>2 DEF CopiesOK, CreatePCs
  <2>6. QED BY <2>1, <2>3, <2>4, <2>5 DEF Keeps, GetsHash
<1>9. ASSUME NEW m \in Names, SyncCRCache(m) \/ Dequeue(m) PROVE UNCHANGED cr
  BY <1>9 DEF SyncCRCache, Dequeue
<1>10. CASE FinishReconcile \/ Crash \/ Start
  BY <1>2, <1>10 DEF FinishReconcile, Crash, ClusterCrash, Start, ClusterStart
<1>11. QED
  BY <1>2, <1>4, <1>5, <1>6, <1>7, <1>8, <1>9, <1>10, ChangesCRVars DEF Env, crVars

StoreMove(g, n, u) ==
    \/ store'[g][n][u] \in {store[g][n][u], Absent}
    \/ w.pc = "push" /\ n = w.key /\ u = w.cr.uid /\ store'[g][n][u] = w.cr.json

LEMMA StoreMoves ==
  ASSUME TS, ~UiEdits, [Next]_vars
  PROVE  \A g \in Grafanas, n \in Names, u \in Uids : StoreMove(g, n, u)
<1> USE DEF StoreMove
<1>1. store \in [Grafanas -> [Names -> [Uids -> Contents \cup {Absent}]]]
  BY DEF TS, ServerTypes, Stores
<1>2. CASE UNCHANGED store
  BY <1>2
<1>3. ASSUME NEW h \in Grafanas, NEW m \in Names, NEW v \in Uids, NEW c,
             store' = [store EXCEPT ![h][m][v] = c]
      PROVE  \A g \in Grafanas, n \in Names, u \in Uids :
               store'[g][n][u] = IF g = h /\ n = m /\ u = v THEN c ELSE store[g][n][u]
  BY <1>1, <1>3
<1>4. ASSUME NEW o \in Outcomes, NewDashboard(o), store' # store
      PROVE  \A g \in Grafanas, n \in Names, u \in Uids : StoreMove(g, n, u)
  <2>1. w.key \in Names /\ w.g \in Grafanas /\ w.cr.uid \in Uids /\ w.pc = "push"
    BY <1>4, WorkerTypes DEF NewDashboard, CreatePCs
  <2>2. store' = [store EXCEPT ![w.g][w.key][w.cr.uid] = w.cr.json]
    BY <1>4 DEF NewDashboard
  <2>3. QED BY <1>3, <2>1, <2>2
<1>5. ASSUME NEW o \in Outcomes, DeleteDashboard(o), store' # store
      PROVE  \A g \in Grafanas, n \in Names, u \in Uids : StoreMove(g, n, u)
  <2>1. w.key \in Names /\ w.g \in Grafanas /\ Listed(w.snap[w.g].list[w.key]) /\ w.snap \in GrafanaCopies
    BY <1>5 DEF DeleteDashboard, TS, WorkerOK, Worker, WorkerShape, DeletePCs
  <2>2. FoundUid(w.g) \in Uids
    BY <2>1 DEF FoundUid, Find, Listed, GrafanaCopies, GrafanaResource
  <2>3. store' = [store EXCEPT ![w.g][w.key][FoundUid(w.g)] = Absent]
    BY <1>5 DEF DeleteDashboard
  <2>4. QED BY <1>3, <2>1, <2>2, <2>3
<1>6. ASSUME NEW o \in Outcomes, NEW e \in Names \X Uids, SyncDelete(e, o), store' # store
      PROVE  \A g \in Grafanas, n \in Names, u \in Uids : StoreMove(g, n, u)
  <2>1. s.g \in Grafanas /\ e[1] \in Names /\ e[2] \in Uids
    BY <1>6 DEF SyncDelete, TS, SyncOK, SyncShape
  <2>2. store' = [store EXCEPT ![s.g][e[1]][e[2]] = Absent]
    BY <1>6 DEF SyncDelete
  <2>3. QED BY <1>3, <2>1, <2>2
<1>7. ASSUME NEW o \in Outcomes, DeleteFolder(o), store' # store
      PROVE  \A g \in Grafanas, n \in Names, u \in Uids : StoreMove(g, n, u)
  <2>1. w.g \in Grafanas
    BY <1>7 DEF DeleteFolder, TS, WorkerOK, WorkerShape, DeletePCs
  <2>2. store' = [store EXCEPT ![w.g] = [n \in Names |-> [u \in Uids |->
                    IF <<n, u>> \in InFolder(w.g, FolderOf[w.key]) THEN Absent
                    ELSE store[w.g][n][u]]]]
    BY <1>7 DEF DeleteFolder, grafanaDB
  <2>3. QED BY <1>1, <2>1, <2>2
<1>8. ASSUME NEW h \in Grafanas, Wipe(h)
      PROVE  \A g \in Grafanas, n \in Names, u \in Uids : StoreMove(g, n, u)
  BY <1>1, <1>8 DEF Wipe, EmptyStore
<1>9. ASSUME NEW h \in Grafanas, UiEdit(h) PROVE FALSE
  BY <1>9 DEF UiEdit
<1>10. CASE Controller
  BY <1>2, <1>4, <1>5, <1>6, <1>7, <1>10, ControllerChangesStore
<1>11. CASE ~Controller
  BY <1>2, <1>8, <1>9, <1>11, ChangesStore DEF Env
<1>12. QED BY <1>10, <1>11

\* How the worker comes to the steps PushedOK is about
LEMMA WorkerArrives ==
  ASSUME TS, [Next]_vars, ~UNCHANGED w
  PROVE  /\ w'.pc = "match" => \E n \in Names : Dequeue(n)
         /\ w'.pc = "record" => \E o \in Outcomes : NewDashboard(o) /\ o = "ok"
         /\ w'.pc = "hash" => \E o \in Outcomes : RecordDashboard(o) /\ o = "ok"
<1>1. w \in Worker
  BY DEF TS, WorkerOK
<1>2. CASE Crash
  BY <1>2 DEF Crash, ClusterCrash, Idle
<1>3. CASE LocalStep
  <2>1. CASE FinishReconcile \/ FinishDelete
    BY <2>1 DEF FinishReconcile, FinishDelete, Idle
  <2>2. ASSUME NEW g \in Grafanas, SkipNotReady(g) PROVE w'.pc = "next"
    BY <1>1, <2>2 DEF SkipNotReady, Worker
  <2>3. CASE ListForDelete
    BY <1>1, <2>3 DEF ListForDelete, Worker
  <2>4. ASSUME NEW n \in Names, Dequeue(n) PROVE w'.pc \in {"match", "delList"}
    BY <2>4 DEF Dequeue, Idle
  <2>5. QED BY <1>3, <2>1, <2>2, <2>3, <2>4 DEF LocalStep
<1>4. ASSUME NEW o \in Outcomes, CreateStep(o)
      PROVE  /\ w'.pc # "match"
             /\ w'.pc = "record" => NewDashboard(o) /\ o = "ok"
             /\ w'.pc = "hash" => RecordDashboard(o) /\ o = "ok"
  <2> USE DEF Worker, Continue
  <2>1. ASSUME NEW g \in Grafanas, StartInstance(g, o) PROVE w'.pc \in {"next", "exists"}
    BY <1>1, <2>1 DEF StartInstance
  <2>2. ASSUME Exists(o) PROVE w'.pc \in {"next", "folder"}
    BY <1>1, <2>2 DEF Exists
  <2>3. ASSUME GetOrCreateFolder(o) PROVE w'.pc \in {"next", "push"}
    BY <1>1, <2>3 DEF GetOrCreateFolder
  <2>4. ASSUME NewDashboard(o) PROVE w'.pc = IF o = "ok" THEN "record" ELSE "next"
    BY <1>1, <2>4 DEF NewDashboard
  <2>5. ASSUME RecordDashboard(o) PROVE w'.pc = IF o = "ok" THEN "hash" ELSE "next"
    BY <1>1, <2>5 DEF RecordDashboard
  <2>6. ASSUME UpdateStatus(o) PROVE w'.pc = "next"
    BY <1>1, <2>6 DEF UpdateStatus
  <2>7. ASSUME GetMatchingDashboardInstances(o) PROVE w'.pc = "next"
    BY <1>1, <2>7 DEF GetMatchingDashboardInstances
  <2>8. QED BY <1>4, <2>1, <2>2, <2>3, <2>4, <2>5, <2>6, <2>7 DEF CreateStep
<1>5. ASSUME NEW o \in Outcomes, DeleteStep(o) PROVE w'.pc \in DeletePCs
  <2> USE DEF Worker, DeletePCs
  <2>1. ASSUME NEW g \in Grafanas, ReadDashboard(g, o) PROVE w'.pc \in DeletePCs
    BY <1>1, <2>1 DEF ReadDashboard
  <2>2. CASE DeleteDashboard(o)
    BY <1>1, <2>2 DEF DeleteDashboard
  <2>3. CASE CheckFolder(o)
    BY <1>1, <2>3 DEF CheckFolder
  <2>4. CASE DeleteFolder(o)
    BY <1>1, <2>4 DEF DeleteFolder
  <2>5. CASE ClearPlugins(o)
    BY <1>1, <2>5 DEF ClearPlugins
  <2>6. CASE RemoveRecord(o)
    BY <1>1, <2>6 DEF RemoveRecord
  <2>7. QED BY <1>5, <2>1, <2>2, <2>3, <2>4, <2>5, <2>6 DEF DeleteStep
<1>6. QED BY <1>2, <1>3, <1>4, <1>5, ChangesWorker DEF DeletePCs

-----------------------------------------------------------------------------
(* The contents of the copies trail the resource's *)

CacheBehind(before, n) ==
    Live(cr[n]) /\ crcache[n].uid = cr[n].uid => NotNewer(before, crcache[n].json, cr[n].json)
WorkerBehind(before, n) ==
    w.key = n /\ w.pc \in CreatePCs /\ Live(crcache[n]) /\ w.cr.uid = crcache[n].uid =>
      NotNewer(before, w.cr.json, crcache[n].json)
HashBehind(before, n) ==
    Live(cr[n]) /\ cr[n].hash # Absent =>
      \E c \in Contents : cr[n].hash = Hash(c) /\ NotNewer(before, c, cr[n].json)

LEMMA OrderParts ==
  ASSUME NEW before
  PROVE  ContentOrderOK(before) <=>
           \A n \in Names : CacheBehind(before, n) /\ WorkerBehind(before, n) /\ HashBehind(before, n)
BY DEF ContentOrderOK, CacheBehind, WorkerBehind, HashBehind

LEMMA ContentTypes ==
  ASSUME TS, NEW n \in Names
  PROVE  /\ cr[n].uid \in Int /\ crcache[n].uid \in Int
         /\ Live(cr[n]) => cr[n].json \in Contents
         /\ Live(crcache[n]) => crcache[n].json \in Contents
BY DEF TS, CRTypes, Resource, Live

\* A living resource is behind a living copy of the same incarnation.
LEMMA CopyLives ==
  ASSUME CacheOrderOK, NEW n \in Names, Live(cr[n]), crcache[n].uid = cr[n].uid
  PROVE  Live(crcache[n])
BY DEF CacheOrderOK

\* If the worker's copy is of the current incarnation, so is the cached one.
LEMMA BetweenCopies ==
  ASSUME TS, CacheOrderOK, w.pc \in CreatePCs, w.cr.uid = cr[w.key].uid
  PROVE  w.key \in Names /\ crcache[w.key].uid = cr[w.key].uid
<1>1. w.key \in Names /\ w.cr.uid \in Int
  BY WorkerTypes DEF Resource
<1>2. w.cr.uid <= crcache[w.key].uid /\ crcache[w.key].uid <= cr[w.key].uid
  BY <1>1 DEF CacheOrderOK
<1>3. QED BY <1>1, <1>2, ContentTypes

LEMMA CacheBehindStep ==
  ASSUME TS, CacheOrderOK, NEW before, EditsForward(before), NEW n \in Names,
         CacheBehind(before, n), ResourceMove(n), CacheStep(n)
  PROVE  CacheBehind(before, n)'
<1> SUFFICES ASSUME Live(cr'[n]), crcache'[n].uid = cr'[n].uid, crcache'[n] = crcache[n]
             PROVE  NotNewer(before, crcache'[n].json, cr'[n].json)
  BY DEF CacheBehind, CacheStep, NotNewer
<1>1. CASE Keeps(n) \/ GetsHash(n)
  BY <1>1 DEF Keeps, GetsHash, CacheBehind, Live
<1>2. CASE IsEdited(n)
  <2>1. PICK step \in EditSteps : cr[n].json = step[1] /\ cr'[n].json = step[2]
    BY <1>2 DEF IsEdited
  <2>2. Live(cr[n]) /\ crcache[n].uid = cr[n].uid
    BY <1>2 DEF IsEdited
  <2>3. NotNewer(before, crcache[n].json, step[1]) /\ crcache[n].json \in Contents
    BY <2>1, <2>2, CopyLives, ContentTypes DEF CacheBehind
  <2>4. QED BY <2>1, <2>3, OrderLaws
<1>3. CASE IsNew(n)
  <2>1. crcache[n].uid <= cr[n].uid
    BY DEF CacheOrderOK
  <2>2. cr'[n].uid > cr[n].uid /\ crcache[n].uid = cr'[n].uid
    BY <1>3 DEF IsNew
  <2>3. QED BY <2>1, <2>2, ContentTypes
<1>4. QED BY <1>1, <1>2, <1>3 DEF ResourceMove

LEMMA WorkerBehindStep ==
  ASSUME TS, CacheOrderOK, NEW before, EditsForward(before), NEW n \in Names,
         CacheBehind(before, n), WorkerBehind(before, n), CacheStep(n), WorkerStep
  PROVE  WorkerBehind(before, n)'
<1> SUFFICES ASSUME w'.key = n, w'.pc \in CreatePCs, Live(crcache'[n]), w'.cr.uid = crcache'[n].uid
             PROVE  NotNewer(before, w'.cr.json, crcache'[n].json)
  BY DEF WorkerBehind
<1>1. CASE DequeueStep
  <2>1. w'.cr = crcache[n] /\ crcache'[n] = crcache[n]
    BY <1>1 DEF DequeueStep, CreatePCs
  <2>2. QED BY <2>1, Zenon DEF NotNewer
<1>2. ASSUME SameRequest, w.pc \in CreatePCs
      PROVE  NotNewer(before, w'.cr.json, crcache'[n].json)
  <2>1. w.key = n /\ w.cr.uid = crcache'[n].uid /\ w'.cr.json = w.cr.json
    BY <1>2 DEF SameRequest
  <2>2. CASE crcache'[n] = crcache[n]
    BY <1>2, <2>1, <2>2 DEF WorkerBehind
  <2>3. CASE crcache'[n] = cr[n]
    <3>1. crcache[n].uid = cr[n].uid /\ Live(cr[n])
      BY <1>2, <2>1, <2>3, BetweenCopies
    <3>2. NotNewer(before, crcache[n].json, cr[n].json) /\ Live(crcache[n])
      BY <3>1, CopyLives DEF CacheBehind
    <3>3. NotNewer(before, w.cr.json, crcache[n].json)
      BY <1>2, <2>1, <2>3, <3>1, <3>2 DEF WorkerBehind
    <3>4. w.cr.json \in Contents
      BY <1>2, WorkerTypes DEF Live, Resource
    <3>5. QED BY <2>1, <2>3, <3>1, <3>2, <3>3, <3>4, ContentTypes, OrderLaws
  <2>4. QED BY <2>2, <2>3 DEF CacheStep
<1>3. CASE UNCHANGED w
  BY <1>2, <1>3 DEF SameRequest
<1>4. CASE CreateContinues
  BY <1>2, <1>4 DEF CreateContinues
<1>5. CASE w' = Idle \/ DeleteContinues
  BY <1>5 DEF Idle, DeleteContinues, CreatePCs, DeletePCs
<1>6. QED BY <1>1, <1>3, <1>4, <1>5 DEF WorkerStep

LEMMA HashBehindStep ==
  ASSUME TS, TS', NEW before, EditsForward(before), NEW n \in Names,
         HashBehind(before, n), ResourceMove(n)
  PROVE  HashBehind(before, n)'
<1> SUFFICES ASSUME Live(cr'[n]), cr'[n].hash # Absent
             PROVE  \E c \in Contents : cr'[n].hash = Hash(c) /\ NotNewer(before, c, cr'[n].json)
  BY DEF HashBehind
<1>1. CASE Keeps(n)
  BY <1>1 DEF Keeps, HashBehind, Live
<1>2. CASE GetsHash(n)
  BY <1>2, ContentTypes DEF GetsHash, NotNewer, Live
<1>3. CASE IsEdited(n)
  <2>1. PICK step \in EditSteps : cr[n].json = step[1] /\ cr'[n].json = step[2]
    BY <1>3 DEF IsEdited
  <2>2. PICK c \in Contents : cr[n].hash = Hash(c) /\ NotNewer(before, c, step[1])
    BY <1>3, <2>1 DEF IsEdited, HashBehind
  <2>3. NotNewer(before, c, step[2])
    BY <2>2, OrderLaws
  <2>4. QED BY <1>3, <2>1, <2>2, <2>3 DEF IsEdited
<1>4. CASE IsNew(n)
  BY <1>4 DEF IsNew
<1>5. QED BY <1>1, <1>2, <1>3, <1>4 DEF ResourceMove

LEMMA ContentOrderStep ==
  ASSUME TS, TS', CopiesOK, CacheOrderOK, PushedOK, NEW before, EditsForward(before),
         ContentOrderOK(before), [Next]_vars
  PROVE  ContentOrderOK(before)'
<1>1. WorkerStep /\ \A n \in Names : ResourceMove(n) /\ CacheStep(n)
  BY ResourceMoves, CacheSteps, WorkerSteps
<1>2. \A n \in Names : CacheBehind(before, n) /\ WorkerBehind(before, n) /\ HashBehind(before, n)
  BY OrderParts
<1>3. ASSUME NEW n \in Names
      PROVE  CacheBehind(before, n)' /\ WorkerBehind(before, n)' /\ HashBehind(before, n)'
  BY <1>1, <1>2, CacheBehindStep, WorkerBehindStep, HashBehindStep
<1>4. QED BY <1>3 DEF ContentOrderOK, CacheBehind, WorkerBehind, HashBehind

-----------------------------------------------------------------------------
(* What the worker sends back *)

LEMMA PushedStep ==
  ASSUME TS, TS', CopiesOK, ~UiEdits, PushedOK, [Next]_vars
  PROVE  PushedOK'
<1>1. /\ w \in Worker /\ w' \in Worker /\ crstale \in [Names -> SUBSET CRHolders]
      /\ w'.pc \in {"match", "record", "hash"} => w'.key \in Names /\ w'.cr.uid \in Uids
      /\ w'.pc \in {"record", "hash"} => w'.g \in Grafanas
  BY DEF TS, CRTypes, WorkerOK, WorkerShape, CreatePCs
<1>2. ASSUME w'.pc = "match", "worker" \notin crstale'[w'.key]
      PROVE  w'.cr.hash = cr'[w'.key].hash
  <2>1. ASSUME NEW n \in Names, Dequeue(n) PROVE w'.cr.hash = cr'[w'.key].hash
    <3>1. Live(crcache[n])
      BY <1>2, <2>1, IdleType DEF Dequeue, Worker
    <3>2. /\ w' = [Idle EXCEPT !.pc = "match", !.key = n, !.cr = crcache[n]]
          /\ crstale' = [crstale EXCEPT ![n] = AsOldAsCache(crstale[n], "worker")]
          /\ UNCHANGED cr
      BY <2>1, <3>1 DEF Dequeue
    <3>3. w'.key = n /\ w'.cr = crcache[n]
      BY <3>2, IdleType DEF Worker
    <3>4. "cache" \notin crstale[n]
      BY <1>1, <1>2, <3>2, <3>3 DEF AsOldAsCache
    <3>5. QED BY <3>2, <3>3, <3>4 DEF CopiesOK, CacheCopyOK
  <2>2. ASSUME UNCHANGED w, "worker" \notin crstale[w.key], cr'[w.key] = cr[w.key]
        PROVE  w'.cr.hash = cr'[w'.key].hash
    BY <1>2, <2>2 DEF PushedOK
  <2>3. ASSUME UNCHANGED w PROVE w'.cr.hash = cr'[w'.key].hash
    <3>1. w.pc = "match" /\ w.key \in Names
      BY <1>1, <1>2, <2>3
    <3>2. CASE UNCHANGED crVars
      BY <1>2, <2>2, <2>3, <3>2 DEF crVars
    <3>3. ASSUME NEW n \in Names, Env(CreateCR(n)) \/ Env(EditCR(n)) \/ Env(DeleteCR(n))
          PROVE  w'.cr.hash = cr'[w'.key].hash
      <4>1. PICK new : WriteCR(n, new, {})
        BY <3>3, UserWrites DEF Env
      <4>2. QED BY <1>2, <2>2, <2>3, <3>1, <4>1, WriteCRAges
    <3>4. ASSUME NEW n \in Names, Env(SyncCRCache(n)) PROVE w'.cr.hash = cr'[w'.key].hash
      BY <1>1, <1>2, <2>2, <2>3, <3>1, <3>4 DEF Env, SyncCRCache
    <3>5. ASSUME NEW o \in Outcomes, GetMatchingDashboardInstances(o) \/ UpdateStatus(o) PROVE FALSE
      BY <1>1, <2>3, <3>1, <3>5 DEF GetMatchingDashboardInstances, UpdateStatus, Worker
    <3>6. CASE FinishReconcile \/ Crash
      BY <2>3, <3>1, <3>6 DEF FinishReconcile, Crash, Idle
    <3>7. CASE Start
      BY <1>1, <1>2, <2>2, <2>3, <3>1, <3>7 DEF Start, ClusterStart
    <3>8. QED
      BY <2>1, <3>2, <3>3, <3>4, <3>5, <3>6, <3>7, ChangesCRVars
  <2>4. QED BY <1>2, <2>1, <2>3, WorkerArrives
<1>3. ASSUME w'.pc \in {"record", "hash"}
      PROVE  store'[w'.g][w'.key][w'.cr.uid] \in {Absent, w'.cr.json}
  <2>1. CASE UNCHANGED w
    <3>1. StoreMove(w.g, w.key, w.cr.uid) /\ w.pc # "push"
      BY <1>1, <1>3, <2>1, StoreMoves
    <3>2. QED BY <1>3, <2>1, <3>1 DEF StoreMove, PushedOK
  <2>2. ASSUME NewDashboard("ok") PROVE store'[w'.g][w'.key][w'.cr.uid] \in {Absent, w'.cr.json}
    <3>1. /\ store' = [store EXCEPT ![w.g][w.key][w.cr.uid] = w.cr.json]
          /\ w'.g = w.g /\ w'.key = w.key /\ w'.cr = w.cr
      BY <1>1, <2>2 DEF NewDashboard, Worker
    <3>2. w.g \in Grafanas /\ w.key \in Names /\ w.cr.uid \in Uids
      BY <1>1, <1>3, <3>1
    <3>3. QED BY <3>1, <3>2 DEF TS, ServerTypes, Stores
  <2>3. ASSUME RecordDashboard("ok") PROVE store'[w'.g][w'.key][w'.cr.uid] \in {Absent, w'.cr.json}
    <3>1. UNCHANGED store /\ w.pc = "record" /\ w'.g = w.g /\ w'.key = w.key /\ w'.cr = w.cr
      BY <1>1, <2>3 DEF RecordDashboard, Worker, grafanaDB
    <3>2. QED BY <3>1 DEF PushedOK
  <2>4. QED BY <1>3, <2>1, <2>2, <2>3, WorkerArrives
<1>4. QED BY <1>2, <1>3 DEF PushedOK

-----------------------------------------------------------------------------
(* A hash that is current has been seen by everybody *)

SeenByAll(n) ==
    /\ crcache[n].uid = cr[n].uid /\ crcache[n].json = cr[n].json
    /\ w.key = n /\ w.pc \in CreatePCs /\ w.cr.uid = cr[n].uid => w.cr.json = cr[n].json
    /\ \A g \in Grafanas : store[g][n][cr[n].uid] \in {Absent, cr[n].json}

\* Only a status update makes a hash current, and then it is nobody's news.
LEMMA SeenBefore ==
  ASSUME TS, TS', CacheOrderOK, PushedOK, CurrentOK,
         NEW before, EditsForward(before), ContentOrderOK(before),
         \A g, h \in Grafanas : g = h,
         NEW n \in Names, ResourceMove(n), Live(cr'[n]), Unchanged(cr'[n])
  PROVE  SeenByAll(n) /\ Live(cr[n]) /\ cr'[n].uid = cr[n].uid /\ cr'[n].json = cr[n].json
<1>1. cr'[n].json \in Contents /\ cr'[n].hash = Hash(cr'[n].json)
  BY ContentTypes DEF Unchanged, TS, CRTypes, Resource, Live
<1>2. cr'[n].hash # Absent
  BY <1>1
<1>3. CASE Keeps(n)
  BY <1>3 DEF Keeps, Live, Unchanged, CurrentOK, SeenByAll
<1>4. CASE IsEdited(n)
  <2>1. PICK step \in EditSteps : cr[n].json = step[1] /\ cr'[n].json = step[2]
    BY <1>4 DEF IsEdited
  <2>2. /\ cr'[n].uid = cr[n].uid /\ cr'[n].hash = cr[n].hash /\ Live(cr[n])
    BY <1>4 DEF IsEdited
  <2>3. PICK c \in Contents : cr[n].hash = Hash(c) /\ NotNewer(before, c, step[1])
    BY <1>2, <2>1, <2>2 DEF ContentOrderOK
  <2>4. c = step[2]
    BY <1>1, <2>1, <2>2, <2>3 DEF Hash
  <2>5. step[1] = step[2]
    BY <2>3, <2>4, OrderLaws
  <2>6. Unchanged(cr[n])
    BY <1>1, <2>1, <2>2, <2>5 DEF Unchanged
  <2>7. QED BY <2>1, <2>2, <2>5, <2>6 DEF CurrentOK, SeenByAll
<1>5. CASE GetsHash(n)
  <2>1. /\ w.pc = "hash" /\ w.key = n /\ w.cr.uid = cr[n].uid /\ w.cr.json = cr[n].json
        /\ cr'[n].uid = cr[n].uid /\ cr'[n].json = cr[n].json /\ Live(cr[n])
    BY <1>5 DEF GetsHash, Live
  <2>2. crcache[n].uid = cr[n].uid /\ Live(crcache[n])
    BY <2>1, BetweenCopies, CopyLives DEF CreatePCs
  <2>3. NotNewer(before, w.cr.json, crcache[n].json) /\ NotNewer(before, crcache[n].json, cr[n].json)
    BY <2>1, <2>2 DEF ContentOrderOK, CreatePCs
  <2>4. crcache[n].json = cr[n].json
    BY <2>1, <2>2, <2>3, ContentTypes, OrderLaws
  <2>5. \A g \in Grafanas : g = w.g
    BY <2>1, WorkerTypes DEF CreatePCs
  <2>6. \A g \in Grafanas : store[g][n][cr[n].uid] \in {Absent, cr[n].json}
    BY <2>1, <2>5 DEF PushedOK
  <2>7. QED BY <2>1, <2>2, <2>4, <2>6 DEF SeenByAll
<1>6. CASE IsNew(n)
  BY <1>2, <1>6 DEF IsNew
<1>7. QED BY <1>3, <1>4, <1>5, <1>6 DEF ResourceMove

LEMMA SeenStep ==
  ASSUME TS, TS', CacheOrderOK, NEW n \in Names, SeenByAll(n), Live(cr[n]),
         cr'[n].uid = cr[n].uid, cr'[n].json = cr[n].json,
         CacheStep(n), WorkerStep, \A g \in Grafanas, u \in Uids : StoreMove(g, n, u)
  PROVE  SeenByAll(n)'
<1>1. crcache'[n].uid = cr'[n].uid /\ crcache'[n].json = cr'[n].json
  BY DEF SeenByAll, CacheStep
<1>2. ASSUME w'.key = n, w'.pc \in CreatePCs, w'.cr.uid = cr'[n].uid
      PROVE  w'.cr.json = cr'[n].json
  <2>1. CASE DequeueStep
    BY <1>2, <2>1 DEF DequeueStep, SeenByAll, CreatePCs
  <2>2. CASE UNCHANGED w
    BY <1>2, <2>2 DEF SeenByAll
  <2>3. CASE CreateContinues
    BY <1>2, <2>3 DEF CreateContinues, SameRequest, SeenByAll
  <2>4. CASE w' = Idle \/ DeleteContinues
    BY <1>2, <2>4 DEF Idle, DeleteContinues, CreatePCs, DeletePCs
  <2>5. QED BY <2>1, <2>2, <2>3, <2>4 DEF WorkerStep
<1>3. ASSUME NEW g \in Grafanas PROVE store'[g][n][cr'[n].uid] \in {Absent, cr'[n].json}
  <2>1. cr[n].uid \in Uids
    BY TSisTypeAndShape DEF ShapeOK, LiveHasUid
  <2>2. StoreMove(g, n, cr[n].uid)
    BY <2>1
  <2>3. w.pc = "push" /\ n = w.key /\ cr[n].uid = w.cr.uid => w.cr.json = cr[n].json
    BY DEF SeenByAll, CreatePCs
  <2>4. QED BY <2>2, <2>3 DEF StoreMove, SeenByAll
<1>4. QED BY <1>1, <1>2, <1>3 DEF SeenByAll

LEMMA CurrentStep ==
  ASSUME TS, TS', CopiesOK, CacheOrderOK, ~UiEdits, \A g, h \in Grafanas : g = h,
         NEW before, EditsForward(before), ContentInv(before), [Next]_vars
  PROVE  CurrentOK'
<1>1. ContentOrderOK(before) /\ PushedOK /\ CurrentOK
  BY DEF ContentInv
<1>2. /\ WorkerStep /\ \A n \in Names : ResourceMove(n) /\ CacheStep(n)
      /\ \A g \in Grafanas, n \in Names, u \in Uids : StoreMove(g, n, u)
  BY <1>1, ResourceMoves, CacheSteps, WorkerSteps, StoreMoves
<1>3. ASSUME NEW n \in Names, Live(cr'[n]), Unchanged(cr'[n]) PROVE SeenByAll(n)'
  <2>1. SeenByAll(n) /\ Live(cr[n]) /\ cr'[n].uid = cr[n].uid /\ cr'[n].json = cr[n].json
    BY <1>1, <1>2, <1>3, SeenBefore
  <2>2. QED BY <1>2, <2>1, SeenStep
<1>4. QED BY <1>3 DEF CurrentOK, SeenByAll

-----------------------------------------------------------------------------
(* The invariant *)

LEMMA InitContentInv ==
  ASSUME NEW before
  PROVE  Init => ContentInv(before)
<1> SUFFICES ASSUME Init PROVE ContentInv(before)
  OBVIOUS
<1>1. w.pc = "idle" /\ \A n \in Names : ~Live(cr[n])
  BY DEF Init, ClusterInit, Idle, Gone, New, Live
<1>2. QED BY <1>1 DEF ContentInv, ContentOrderOK, PushedOK, CurrentOK, CreatePCs

LEMMA NextContentInv ==
  ASSUME ~UiEdits, \A g, h \in Grafanas : g = h, NEW before, EditsForward(before)
  PROVE  TS /\ TS' /\ IInv /\ ContentInv(before) /\ [Next]_vars => ContentInv(before)'
<1> SUFFICES ASSUME TS, TS', IInv, ContentInv(before), [Next]_vars PROVE ContentInv(before)'
  OBVIOUS
<1>1. CopiesOK /\ CacheOrderOK /\ ContentOrderOK(before) /\ PushedOK
  BY DEF IInv, ContentInv
<1>2. ContentOrderOK(before)'
  BY <1>1, ContentOrderStep
<1>3. PushedOK' /\ CurrentOK'
  BY <1>1, PushedStep, CurrentStep
<1>4. QED BY <1>2, <1>3 DEF ContentInv

(* A dashboard that is left alone because its hash is current is what its  *)
(* resource asks for: with one Grafana, nobody editing in its UI, and      *)
(* edits that follow some order of the contents and never go back in it,   *)
(* no stale copy the worker pushed from and no lost answer leaves a hash   *)
(* that vouches for another content than the one there.                    *)
THEOREM CurrentHashVouches ==
  ASSUME ~UiEdits, \A g, h \in Grafanas : g = h, NEW before, EditsForward(before)
  PROVE  Spec => []HashVouches
<1>1. Spec => []TS
  BY InitTS, NextTS, PTL DEF Spec
<1>2. Init => ContentInv(before)
  BY InitContentInv
<1>3. TS /\ TS' /\ IInv /\ ContentInv(before) /\ [Next]_vars => ContentInv(before)'
  BY NextContentInv
<1>4. Spec => []ContentInv(before)
  BY <1>1, <1>2, <1>3, Invariance, PTL DEF Spec
<1>5. ContentInv(before) => HashVouches
  BY DEF ContentInv, CurrentOK, HashVouches
<1>6. QED BY <1>4, <1>5, PTL

(* With one Grafana and nobody editing in its UI, the cached resource, the *)
(* worker's copy, what it pushed and the hash in the status trail the      *)
(* resource in that order: the order of every forward-going sequence of    *)
(* edits (lines 162, 319, 409).                                            *)
THEOREM ContentsTrail ==
  ASSUME ~UiEdits, \A g, h \in Grafanas : g = h
  PROVE  Spec => []ContentTrails
<1>1. Spec => []TS
  BY InitTS, NextTS, PTL DEF Spec
<1>2. \A before \in EditOrders : EditsForward(before)
  BY DEF EditOrders
<1>3. ASSUME Init PROVE ContentTrails
  <2>1. ASSUME NEW before \in EditOrders PROVE ContentInv(before)
    BY <1>2, <1>3, InitContentInv
  <2>2. QED BY <2>1 DEF ContentTrails
<1>4. ASSUME TS, TS', IInv, ContentTrails, [Next]_vars PROVE ContentTrails'
  <2>1. ASSUME NEW before \in EditOrders PROVE ContentInv(before)'
    <3>1. EditsForward(before) /\ ContentInv(before)
      BY <1>2, <1>4 DEF ContentTrails
    <3>2. QED BY <1>4, <3>1, NextContentInv
  <2>2. QED BY <2>1 DEF ContentTrails
<1>5. /\ Init => ContentTrails
      /\ TS /\ TS' /\ IInv /\ ContentTrails /\ [Next]_vars => ContentTrails'
  BY <1>3, <1>4
<1>6. QED BY <1>1, <1>5, Invariance, PTL DEF Spec
=============================================================================
