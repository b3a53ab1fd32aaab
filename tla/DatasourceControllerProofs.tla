---------------------- MODULE DatasourceControllerProofs ----------------------
(***************************************************************************)
(* Theorems about DatasourceController, for every value of its constants:  *)
(* its types and its safety properties.  One lemma per action says what    *)
(* its steps do (StepFacts); the invariant is then carried over such       *)
(* steps, whichever action took them.                                      *)
(***************************************************************************)
EXTENDS DatasourceController, ClusterProofs

USE ClusterAssumption, DatasourceAssumption

-----------------------------------------------------------------------------
(* Types *)

LEMMA IdleType == Idle \in Worker
BY NoSnapType, GoneType DEF Idle, Worker

LEMMA WaitingType == Waiting \in Syncer
BY NoSnapType DEF Waiting, Syncer

WorkerOK == w \in Worker /\ WorkerShape
SyncOK == s \in Syncer /\ SyncShape
OwnTypes == message \in [Names -> BOOLEAN] /\ pluginReq \in [Grafanas -> SUBSET Names]

\* TypeOK and ShapeOK, by the variables they speak about
TS == ClusterTypes /\ WorkerOK /\ SyncOK /\ OwnTypes

LEMMA TSisTypeAndShape == TS <=> TypeOK /\ ShapeOK
BY ClusterTypesAre DEF TS, TypeOK, ShapeOK, WorkerOK, SyncOK, OwnTypes

LEMMA IdleOK == w' = Idle => WorkerOK'
BY IdleType DEF WorkerOK, WorkerShape, Idle, CreatePCs

LEMMA InitTS == Init => TS
BY ClusterInitTypes, IdleType, WaitingType
   DEF Init, TS, WorkerOK, WorkerShape, SyncOK, SyncShape, OwnTypes, Idle, Waiting, CreatePCs

LEMMA PluginsType ==
  ASSUME OwnTypes, NEW g, NEW n \in Names, NEW wanted, NEW o
  PROVE  PluginsAfter(pluginReq, g, n, wanted, o) \in [Grafanas -> SUBSET Names]
BY DEF PluginsAfter, OwnTypes

\* The worker moves on within a pass, with the resource and the list it has.
Moves(pc, todo, g, ok, err, id) ==
    w' = [w EXCEPT !.pc = pc, !.todo = todo, !.g = g, !.ok = ok, !.err = err, !.id = id]

LEMMA MovesType ==
  ASSUME w \in Worker, NEW pc \in CreatePCs \cup DeletePCs, NEW todo \in SUBSET Grafanas,
         NEW g \in Grafanas \cup {Absent}, NEW ok \in BOOLEAN, NEW err \in BOOLEAN,
         NEW id \in BOOLEAN, Moves(pc, todo, g, ok, err, id)
  PROVE  /\ w' \in Worker /\ w'.pc = pc /\ w'.g = g
         /\ w'.key = w.key /\ w'.cr = w.cr /\ w'.snap = w.snap
<1> DEFINE w1 == [w EXCEPT !.pc = pc]
           w2 == [w1 EXCEPT !.todo = todo]
           w3 == [w2 EXCEPT !.g = g]
           w4 == [w3 EXCEPT !.ok = ok]
           w5 == [w4 EXCEPT !.err = err]
           w6 == [w5 EXCEPT !.id = id]
<1>1. w' = w6
  BY DEF Moves
<1>2. w1 \in Worker /\ w1.pc = pc /\ w1.key = w.key /\ w1.cr = w.cr /\ w1.snap = w.snap
  BY DEF Worker
<1> HIDE DEF w1
<1>3. w2 \in Worker /\ w2.pc = pc /\ w2.key = w.key /\ w2.cr = w.cr /\ w2.snap = w.snap
  BY <1>2 DEF Worker
<1> HIDE DEF w2
<1>4. /\ w3 \in Worker /\ w3.pc = pc /\ w3.g = g
      /\ w3.key = w.key /\ w3.cr = w.cr /\ w3.snap = w.snap
  BY <1>3 DEF Worker
<1> HIDE DEF w3
<1>5. /\ w4 \in Worker /\ w4.pc = pc /\ w4.g = g
      /\ w4.key = w.key /\ w4.cr = w.cr /\ w4.snap = w.snap
  BY <1>4 DEF Worker
<1> HIDE DEF w4
<1>6. /\ w5 \in Worker /\ w5.pc = pc /\ w5.g = g
      /\ w5.key = w.key /\ w5.cr = w.cr /\ w5.snap = w.snap
  BY <1>5 DEF Worker
<1> HIDE DEF w5
<1>7. /\ w6 \in Worker /\ w6.pc = pc /\ w6.g = g
      /\ w6.key = w.key /\ w6.cr = w.cr /\ w6.snap = w.snap
  BY <1>6 DEF Worker
<1>8. QED BY <1>1, <1>7

-----------------------------------------------------------------------------
(* What a step does *)

\* The worker goes on with the same resource ...
SameRequest == /\ w'.key = w.key /\ w'.cr.uid = w.cr.uid /\ w'.cr.json = w.cr.json
               /\ w'.snap \in {w.snap, gcache}

Creates == w.pc \in CreatePCs /\ w'.pc \in CreatePCs /\ SameRequest
Deletes == /\ w.pc \in DeletePCs /\ w'.pc \in DeletePCs /\ SameRequest
           /\ w'.snap = gcache \/ (w.pc # "delList" /\ w'.snap = w.snap)

\* ... or takes another from the queue.
Takes == \E n \in Names :
           /\ w.pc = "idle" /\ w'.key = n /\ w'.snap = NoSnap
           /\ UNCHANGED <<crcache, grafanaVars, s>>
           /\ \/ w'.pc = "match" /\ w'.cr = crcache[n]
              \/ w'.pc = "delList" /\ ~Live(crcache[n])

WorkerMoves == UNCHANGED w \/ w' = Idle \/ Takes \/ Creates \/ Deletes

\* The sync waits, though what the id it holds names may change, ...
SyncWaits == s'.pc = s.pc /\ s'.seen = s.seen /\ s'.gone = s.gone

\* ... or it starts anew, asks which resources are gone, or goes on with those.
SyncMoves ==
    \/ SyncWaits
    \/ s'.pc \notin {"next", "delete"} /\ s'.seen \in {s.seen, gcache, NoSnap}
    \/ s'.seen = s.seen /\ UNCHANGED crVars /\ \A n \in s'.gone : n \in Names /\ ~Live(crcache[n])
    \/ s.pc \in {"next", "delete"} /\ s'.seen = s.seen /\ s'.gone = s.gone

\* Lists lose only what is dead, and only the worker's record adds to them.
Shrinks == \A g \in Grafanas, n \in Names :
             Entries(grafana'[g].list[n]) \subseteq Entries(grafana[g].list[n])
Records == /\ w.pc = "record" /\ w'.pc \in CreatePCs
           /\ \A g \in Grafanas, n \in Names : \A u \in Entries(grafana'[g].list[n]) :
                u \in Entries(grafana[g].list[n]) \/ (n = w.key /\ u = w.cr.uid)

\* Only what is dead leaves a server, or what the sync's id names by now.
SparesLive == \A g \in Grafanas, n \in Names, u \in Uids :
                store[g][n][u] # Absent /\ store'[g][n][u] = Absent =>
                  \/ Dead(n, u)
                  \/ g \in Internal /\ s.named = <<n, u>> /\ s.e # s.named /\ UNCHANGED w

LEMMA DeadIsSpared == ErasesDead => SparesLive
BY DEF ErasesDead, SparesLive

StepFacts ==
    /\ TS' /\ CRPart /\ GrafanaPart
    /\ SnapOK' /\ SeenOK' /\ WorkerCopyOK'
    /\ WorkerMoves /\ SyncMoves
    /\ Shrinks \/ Records
    /\ LosesDead

-----------------------------------------------------------------------------
(* How the copies of the worker and of the sync age *)

LEMMA SnapKept ==
  ASSUME SnapOK, Ages("worker"), w'.snap = w.snap, w.pc # "idle" => w'.pc # "idle"
  PROVE  SnapOK'
BY DEF SnapOK, Ages

LEMMA SnapDropped ==
  ASSUME \A g \in Grafanas : "worker" \in gstale'[g]
  PROVE  SnapOK'
BY DEF SnapOK

LEMMA SnapListed ==
  ASSUME GrafanaCacheOK, Lists("worker"), w'.snap = gcache, w'.pc # "idle"
  PROVE  SnapOK'
BY DEF SnapOK, GrafanaCacheOK, Lists

LEMMA SeenKept ==
  ASSUME SeenOK, Ages("sync"), s'.seen = s.seen
  PROVE  SeenOK'
BY DEF SeenOK, Ages

LEMMA SeenDropped ==
  ASSUME \A g \in Grafanas : "sync" \in gstale'[g]
  PROVE  SeenOK'
BY DEF SeenOK

LEMMA SeenListed ==
  ASSUME GrafanaCacheOK, Lists("sync"), s'.seen = gcache
  PROVE  SeenOK'
BY DEF SeenOK, GrafanaCacheOK, Lists

LEMMA CopyKept ==
  ASSUME WorkerOK, WorkerCopyOK, CRAges,
         w'.pc \in CreatePCs => w.pc \in CreatePCs /\ SameRequest
  PROVE  WorkerCopyOK'
<1> SUFFICES ASSUME w'.pc \in CreatePCs, "worker" \notin crstale'[w'.key]
             PROVE  w'.cr.json = cr'[w'.key].json /\ w'.cr.uid = cr'[w'.key].uid
  BY DEF WorkerCopyOK
<1>1. w.pc \in CreatePCs /\ SameRequest /\ w.key \in Names
  BY DEF WorkerOK, WorkerShape, CreatePCs
<1>2. QED BY <1>1 DEF WorkerCopyOK, CRAges, SameRequest

LEMMA SameListsShrink == SameLists => Shrinks /\ LosesDead
BY DEF SameLists, Shrinks, LosesDead

\* A step of the worker that writes to no resource
LEMMA WorkerLocal ==
  ASSUME TS, IInv, UNCHANGED <<crVars, grafanaVars, workVars>>, StoreTypes', OwnTypes',
         SyncOK', SyncWaits, WorkerOK', w'.snap = w.snap, Creates \/ Deletes
  PROVE  StepFacts
<1> USE DEF IInv, CopiesOK
<1>1. CRPart /\ CRAges /\ GrafanaPart /\ Ages("worker") /\ Ages("sync") /\ SameLists
  BY CRKept, GrafanaKept DEF TS, ClusterTypes
<1>2. w.pc # "idle" /\ w'.pc # "idle"
  BY DEF Creates, Deletes, CreatePCs, DeletePCs
<1>3. SnapOK' /\ SeenOK'
  BY <1>1, <1>2, SnapKept, SeenKept DEF SyncWaits
<1>4. w'.pc \in CreatePCs => w.pc \in CreatePCs /\ SameRequest
  BY DEF Creates, Deletes, CreatePCs, DeletePCs
<1>5. WorkerCopyOK'
  BY <1>1, <1>4, CopyKept DEF TS
<1>6. QueueTypes'
  BY DEF TS, ClusterTypes, QueueTypes, workVars
<1>7. TS'
  BY <1>1, <1>6 DEF TS, ClusterTypes, CRPart, GrafanaPart
<1>8. QED
  BY <1>1, <1>3, <1>5, <1>7, SameListsShrink DEF StepFacts, WorkerMoves, SyncMoves

-----------------------------------------------------------------------------
(* The worker's steps that write to no resource *)

LEMMA WorkerFields ==
  ASSUME TS
  PROVE  /\ w \in Worker /\ w.todo \in SUBSET Grafanas /\ w.g \in Grafanas \cup {Absent}
         /\ w.ok \in BOOLEAN /\ w.err \in BOOLEAN /\ w.id \in BOOLEAN
         /\ w.snap \in GrafanaCopies /\ w.cr \in Resource
         /\ w.pc # "idle" => w.key \in Names
BY DEF TS, WorkerOK, WorkerShape, Worker

\* At most one server changes, and the plugins' requests.
AtServer ==
    /\ UNCHANGED <<crVars, grafanaVars, workVars>> /\ StoreTypes' /\ OwnTypes'
    /\ SyncOK' /\ SyncWaits /\ ErasesDead

LEMMA SyncUnmoved == SyncOK /\ UNCHANGED s => SyncOK' /\ SyncWaits
BY DEF SyncOK, SyncShape, SyncWaits

LEMMA ReadsOnly ==
  ASSUME TS, UNCHANGED <<crVars, grafanaVars, workVars, s, store, folders>>, OwnTypes'
  PROVE  AtServer
BY StoreKept, SyncUnmoved DEF TS, ClusterTypes, StoreTypes, AtServer

\* The id the sync holds names something else, or nothing any more.
SyncRenamed(new) == s' = [s EXCEPT !.named = new]

LEMMA RenamedOK ==
  ASSUME SyncOK, s.e # Absent, NEW new \in Items \cup {Absent, Free}, SyncRenamed(new),
         new \in {s.e, Absent} \/ s.g \in Internal
  PROVE  SyncOK' /\ SyncWaits
<1>1. /\ s' \in Syncer /\ s'.named = new /\ s'.e = s.e /\ s'.g = s.g /\ s'.left = s.left
      /\ SyncWaits
  BY DEF SyncRenamed, SyncWaits, SyncOK, Syncer
<1>2. QED BY <1>1 DEF SyncOK, SyncShape, SyncWaits

LEMMA OwnKept ==
  ASSUME TS, UNCHANGED <<message, pluginReq>>
  PROVE  OwnTypes'
BY DEF TS, OwnTypes

\* The step leaves the API server, the caches and the servers alone.
LEMMA ReadsNothing ==
  ASSUME TS, UNCHANGED <<clusterVars, s, message, pluginReq>>
  PROVE  AtServer
BY OwnKept, ReadsOnly DEF clusterVars, crVars, grafanaVars, workVars

HasGrafana == {"exists", "push", "hash", "record"}

\* A pass over the matching Grafanas goes on.
LEMMA CreateMove ==
  ASSUME TS, IInv, AtServer, w.pc \in CreatePCs,
         NEW pc \in CreatePCs, NEW todo \in SUBSET Grafanas,
         NEW g \in Grafanas \cup {Absent}, NEW ok \in BOOLEAN, NEW err \in BOOLEAN,
         NEW id \in BOOLEAN, Moves(pc, todo, g, ok, err, id),
         pc \in HasGrafana => g \in Grafanas
  PROVE  StepFacts
<1>1. /\ w' \in Worker /\ w'.pc = pc /\ w'.g = g
      /\ w'.key = w.key /\ w'.cr = w.cr /\ w'.snap = w.snap
  BY WorkerFields, MovesType
<1>2. pc \notin {"delete", "delPlugins", "delRecord"} /\ w.pc # "idle"
  BY DEF CreatePCs
<1>3. WorkerOK'
  BY <1>1, <1>2 DEF TS, WorkerOK, WorkerShape, HasGrafana
<1>4. Creates
  BY <1>1 DEF Creates, SameRequest
<1>5. QED BY <1>1, <1>3, <1>4, WorkerLocal DEF AtServer

\* ... or it is on to the next Grafana.
LEMMA ContinueMove ==
  ASSUME TS, IInv, AtServer, w.pc \in CreatePCs, w' = Continue
  PROVE  StepFacts
<1>1. PICK pc \in CreatePCs, id \in BOOLEAN : pc = "next" /\ id = FALSE
  BY DEF CreatePCs
<1>2. Moves(pc, w.todo, Absent, w.ok, w.err, id) /\ pc \notin HasGrafana
  BY <1>1 DEF Continue, Moves, TS, WorkerOK, Worker, HasGrafana
<1>3. QED BY <1>2, WorkerFields, CreateMove

LEMMA FailedMove ==
  ASSUME TS, IInv, AtServer, w.pc \in CreatePCs, NEW todo \in SUBSET Grafanas,
         w' = [Failed EXCEPT !.todo = todo]
  PROVE  StepFacts
<1>1. PICK pc \in CreatePCs, no \in BOOLEAN, yes \in BOOLEAN :
        pc = "next" /\ no = FALSE /\ yes = TRUE
  BY DEF CreatePCs
<1>2. Moves(pc, todo, Absent, no, yes, no) /\ pc \notin HasGrafana
  BY <1>1 DEF Continue, Failed, Moves, TS, WorkerOK, Worker, HasGrafana
<1>3. QED BY <1>2, WorkerFields, CreateMove

LEMMA FailedStays == TS => w.todo \in SUBSET Grafanas /\ Failed = [Failed EXCEPT !.todo = w.todo]
BY DEF TS, WorkerOK, Worker, Failed, Continue

LEMMA PcMoves ==
  ASSUME TS, NEW pc, w' = [w EXCEPT !.pc = pc]
  PROVE  Moves(pc, w.todo, w.g, w.ok, w.err, w.id)
BY DEF Moves, TS, WorkerOK, Worker

LEMMA SkipFacts ==
  ASSUME TS, IInv, NEW g \in Grafanas, SkipNotReady(g)
  PROVE  StepFacts /\ ErasesDead
<1>1. AtServer /\ w.pc \in CreatePCs
  BY ReadsNothing DEF SkipNotReady, CreatePCs
<1>2. PICK pc \in CreatePCs, ok \in BOOLEAN : pc = "next" /\ ok = FALSE
  BY DEF CreatePCs
<1>3. Moves(pc, w.todo \ {g}, w.g, ok, w.err, w.id)
  BY <1>2 DEF SkipNotReady, Moves, TS, WorkerOK, Worker
<1>4. w.todo \ {g} \in SUBSET Grafanas /\ pc \notin HasGrafana
  BY <1>2, WorkerFields DEF HasGrafana
<1>5. QED BY <1>1, <1>3, <1>4, WorkerFields, CreateMove DEF AtServer

LEMMA StartFacts ==
  ASSUME TS, IInv, NEW g \in Grafanas, NEW o, StartInstance(g, o)
  PROVE  StepFacts /\ ErasesDead
<1>1. w.pc \in CreatePCs /\ w.key \in Names /\ w.todo \ {g} \in SUBSET Grafanas
  BY WorkerFields DEF StartInstance, CreatePCs
<1>2. OwnTypes'
  BY <1>1, PluginsType DEF StartInstance, TS, OwnTypes
<1>3. AtServer
  BY <1>2, ReadsOnly DEF StartInstance, clusterVars, crVars, grafanaVars, workVars
<1>4. PICK pc \in CreatePCs, ok \in BOOLEAN :
        pc = "exists" /\ ok = (w.ok /\ (o = "ok" \/ g \notin Internal))
  BY WorkerFields DEF CreatePCs
<1>5. \/ w' = [Failed EXCEPT !.todo = w.todo \ {g}]
      \/ w' = [w EXCEPT !.pc = pc, !.todo = w.todo \ {g}, !.g = g, !.ok = ok]
  BY <1>4 DEF StartInstance, Failed, Continue
<1>6. ASSUME w' = [Failed EXCEPT !.todo = w.todo \ {g}] PROVE StepFacts
  BY <1>1, <1>3, <1>6, FailedMove
<1>7. ASSUME w' = [w EXCEPT !.pc = pc, !.todo = w.todo \ {g}, !.g = g, !.ok = ok]
      PROVE  StepFacts
  <2>1. Moves(pc, w.todo \ {g}, g, ok, w.err, w.id)
    BY <1>7 DEF Moves, TS, WorkerOK, Worker
  <2>2. QED BY <1>1, <1>3, <2>1, WorkerFields, CreateMove
<1>8. QED BY <1>3, <1>5, <1>6, <1>7 DEF AtServer

LEMMA ExistsFacts ==
  ASSUME TS, IInv, NEW o, ExistingId(o)
  PROVE  StepFacts /\ ErasesDead
<1>1. AtServer /\ w.pc \in CreatePCs /\ w.g \in Grafanas
  BY ReadsNothing DEF ExistingId, CreatePCs, TS, WorkerOK, WorkerShape
<1>2. PICK pc \in CreatePCs, id \in BOOLEAN :
        pc = "push" /\ id = (store[w.g][w.key][w.cr.uid] # Absent)
  BY DEF CreatePCs
<1>3. w' = Failed \/ w' = [w EXCEPT !.pc = pc, !.id = id]
  BY <1>2 DEF ExistingId
<1>4. ASSUME w' = Failed PROVE StepFacts
  BY <1>1, <1>4, FailedMove, FailedStays
<1>5. ASSUME w' = [w EXCEPT !.pc = pc, !.id = id] PROVE StepFacts
  <2>1. Moves(pc, w.todo, w.g, w.ok, w.err, id)
    BY <1>5 DEF Moves, TS, WorkerOK, Worker
  <2>2. QED BY <1>1, <2>1, WorkerFields, CreateMove
<1>6. QED BY <1>1, <1>3, <1>4, <1>5 DEF AtServer

LEMMA UnchangedFacts ==
  ASSUME TS, IInv, SkipUnchanged
  PROVE  StepFacts /\ ErasesDead
<1>1. AtServer /\ w.pc \in CreatePCs /\ w' = Continue
  BY ReadsNothing DEF SkipUnchanged, CreatePCs
<1>2. QED BY <1>1, ContinueMove DEF AtServer

\* Both ways of writing the data source
LEMMA PushFacts ==
  ASSUME TS, IInv, UNCHANGED <<crVars, grafanaVars, folders, workVars, message, pluginReq>>,
         SyncOK', SyncWaits, w.pc = "push",
         store' = store \/ store' = [store EXCEPT ![w.g][w.key][w.cr.uid] = w.cr.json],
         w' = [w EXCEPT !.pc = "hash"] \/ w' = Failed
  PROVE  StepFacts /\ ErasesDead
<1>1. /\ w.g \in Grafanas /\ w.key \in Names /\ w.cr.uid \in Uids /\ w.pc \in CreatePCs
      /\ w.cr.json \in Contents \cup {Absent} /\ w.cr.json # Absent
  BY WorkerFields DEF TS, WorkerOK, WorkerShape, Resource, CreatePCs, Live
<1>2. store \in Stores /\ UNCHANGED folders /\ folders' \in [Grafanas -> SUBSET Folders]
  BY DEF TS, ClusterTypes, StoreTypes
<1>3. StoreTypes' /\ ErasesDead
  <2>1. CASE store' = store
    BY <1>2, <2>1, StoreKept DEF StoreTypes
  <2>2. CASE store' = [store EXCEPT ![w.g][w.key][w.cr.uid] = w.cr.json]
    <3>1. \A g \in Grafanas, n \in Names, u \in Uids :
            store'[g][n][u] = IF g = w.g /\ n = w.key /\ u = w.cr.uid THEN w.cr.json
                              ELSE store[g][n][u]
      BY <1>1, <1>2, <2>2 DEF Stores
    <3>2. [store EXCEPT ![w.g][w.key][w.cr.uid] = w.cr.json] \in Stores
      BY <1>1, <1>2, WriteStoreType
    <3>3. StoreTypes'
      BY <1>2, <2>2, <3>2 DEF StoreTypes
    <3>4. QED BY <1>1, <3>1, <3>3 DEF ErasesDead
  <2>3. QED BY <2>1, <2>2
<1>4. AtServer
  BY <1>3, OwnKept DEF AtServer
<1>5. ASSUME w' = Failed PROVE StepFacts
  BY <1>1, <1>4, <1>5, FailedMove, FailedStays
<1>6. ASSUME w' = [w EXCEPT !.pc = "hash"] PROVE StepFacts
  <2>1. PICK pc \in CreatePCs : pc = "hash"
    BY DEF CreatePCs
  <2>2. Moves(pc, w.todo, w.g, w.ok, w.err, w.id)
    BY <1>6, <2>1, PcMoves
  <2>3. QED BY <1>1, <1>4, <2>2, WorkerFields, CreateMove
<1>7. QED BY <1>3, <1>5, <1>6

\* What is free to name something is an id of a database that is gone.
LEMMA FreeId ==
  ASSUME SyncOK, s.named = Free
  PROVE  s.e # Absent /\ s.g \in Internal
<1>1. Free # Absent /\ Free \notin Items
  BY ClusterAssumption, ItemAssumption DEF Free, Items, Uids
<1>2. QED BY <1>1 DEF SyncOK, SyncShape, Syncer

LEMMA NewFacts ==
  ASSUME TS, IInv, NEW o, NewDataSource(o)
  PROVE  StepFacts /\ ErasesDead
<1>1. /\ UNCHANGED <<crVars, grafanaVars, folders, workVars, message, pluginReq>>
      /\ w.pc = "push" /\ (w' = [w EXCEPT !.pc = "hash"] \/ w' = Failed)
      /\ store' = store \/ store' = [store EXCEPT ![w.g][w.key][w.cr.uid] = w.cr.json]
      /\ UNCHANGED s \/ NewId(w.g, <<w.key, w.cr.uid>>)
  BY DEF NewDataSource, CreateUnless
<1>2. <<w.key, w.cr.uid>> \in Items
  BY <1>1, WorkerFields DEF TS, WorkerOK, WorkerShape, CreatePCs, Items
<1>3. SyncOK' /\ SyncWaits
  <2>1. CASE UNCHANGED s
    BY <2>1, SyncUnmoved DEF TS
  <2>2. CASE s.named = Free /\ SyncRenamed(<<w.key, w.cr.uid>>)
    BY <1>2, <2>2, FreeId, RenamedOK DEF TS
  <2>3. QED BY <1>1, <2>1, <2>2 DEF NewId, SyncRenamed
<1>4. QED BY <1>1, <1>3, PushFacts

LEMMA UpdateFacts ==
  ASSUME TS, IInv, NEW o, UpdateDataSource(o)
  PROVE  StepFacts /\ ErasesDead
<1>1. /\ UNCHANGED <<crVars, grafanaVars, folders, workVars, s, message, pluginReq>>
      /\ w.pc = "push" /\ (w' = [w EXCEPT !.pc = "hash"] \/ w' = Failed)
      /\ store' = store \/ store' = [store EXCEPT ![w.g][w.key][w.cr.uid] = w.cr.json]
  BY DEF UpdateDataSource
<1>2. QED BY <1>1, SyncUnmoved, PushFacts DEF TS

-----------------------------------------------------------------------------
(* The worker's steps that write a resource *)

\* What a write from a copy nobody overtook does to the resource
LEMMA CopyWritten ==
  ASSUME TS, IInv, w.pc \in CreatePCs, "worker" \notin crstale[w.key],
         NEW new \in Resource, new.uid = w.cr.uid, new.json = w.cr.json
  PROVE  /\ w.key \in Names /\ Live(new) /\ new.uid \in Uids
         /\ Live(cr[w.key]) /\ new.uid = cr[w.key].uid /\ new.json = cr[w.key].json
<1>1. w.key \in Names /\ Live(w.cr) /\ w.cr.uid \in Uids
  BY DEF TS, WorkerOK, WorkerShape, CreatePCs
<1>2. w.cr.json = cr[w.key].json /\ w.cr.uid = cr[w.key].uid
  BY DEF IInv, CopiesOK, WorkerCopyOK
<1>3. QED BY <1>1, <1>2 DEF Live

LEMMA StatusWritten ==
  ASSUME TS, IInv, w.pc \in CreatePCs, NEW new \in Resource, NEW o,
         o # "fail" => "worker" \notin crstale[w.key],
         new.uid = w.cr.uid, new.json = w.cr.json,
         IF o = "fail" THEN UNCHANGED <<cr, crstale>>
         ELSE WriteCR(w.key, new, IF o = "ok" THEN {"worker"} ELSE {}),
         UNCHANGED crcache
  PROVE  CRPart /\ CRAges
<1> USE DEF IInv, CopiesOK
<1>1. CASE o = "fail"
  BY <1>1, CRKept DEF crVars, TS, ClusterTypes
<1>2. CASE o # "fail"
  <2>1. PICK by \in SUBSET {"worker"} : by = IF o = "ok" THEN {"worker"} ELSE {}
    OBVIOUS
  <2>2. WriteCR(w.key, new, by) /\ "worker" \notin crstale[w.key]
    BY <1>2, <2>1
  <2>3. /\ w.key \in Names /\ Live(new) /\ new.uid \in Uids
        /\ Live(cr[w.key]) /\ new.uid = cr[w.key].uid /\ new.json = cr[w.key].json
    BY <2>2, CopyWritten
  <2>4. QED BY <2>2, <2>3, CRWritten DEF TS, ClusterTypes
<1>3. QED BY <1>1, <1>2

\* ... together with its message, after which the copy may be dropped
LEMMA MessageWritten ==
  ASSUME TS, IInv, w.pc \in CreatePCs, NEW new \in Resource, NEW text \in BOOLEAN, NEW o,
         NEW drop \in SUBSET {"worker"},
         o # "fail" => "worker" \notin crstale[w.key],
         new.uid = w.cr.uid, new.json = w.cr.json,
         WriteStatus(new, text, o, drop), UNCHANGED crcache
  PROVE  CRPart /\ CRAges /\ message' \in [Names -> BOOLEAN]
<1> USE DEF IInv, CopiesOK
<1>1. /\ w.key \in Names /\ message \in [Names -> BOOLEAN]
      /\ crstale \in [Names -> SUBSET CRHolders] /\ cr \in [Names -> Resource]
  BY WorkerFields DEF TS, OwnTypes, ClusterTypes, CRTypes, CreatePCs
<1>2. message' \in [Names -> BOOLEAN]
  BY <1>1 DEF WriteStatus
<1>3. PICK bump \in BOOLEAN :
        /\ new # cr[w.key] => bump
        /\ crstale' = [crstale EXCEPT ![w.key] = drop \cup
             IF o # "fail" /\ bump THEN CRHolders \ (IF o = "ok" THEN {"worker"} ELSE {})
             ELSE crstale[w.key]]
  BY DEF WriteStatus
<1>4. /\ crstale' \in [Names -> SUBSET CRHolders]
      /\ \A n \in Names : n # w.key => crstale'[n] = crstale[n]
      /\ \A n \in Names : "cache" \notin crstale'[n] =>
           "cache" \notin crstale[n] /\ (n = w.key /\ o # "fail" => new = cr[w.key])
      /\ o = "fail" => \A n \in Names : crstale[n] \subseteq crstale'[n]
  <2>1. PICK set \in SUBSET CRHolders :
          /\ crstale' = [crstale EXCEPT ![w.key] = set]
          /\ "cache" \notin set => "cache" \notin crstale[w.key] /\ (o # "fail" => new = cr[w.key])
          /\ o = "fail" => crstale[w.key] \subseteq set
    <3> DEFINE fresh == CRHolders \ (IF o = "ok" THEN {"worker"} ELSE {})
               set == drop \cup IF o # "fail" /\ bump THEN fresh ELSE crstale[w.key]
    <3>1. crstale' = [crstale EXCEPT ![w.key] = set]
      BY <1>3
    <3>2. crstale[w.key] \subseteq CRHolders /\ "cache" \in fresh /\ fresh \subseteq CRHolders
      BY <1>1 DEF CRHolders
    <3> HIDE DEF fresh
    <3>3. set \in SUBSET CRHolders
      BY <3>2 DEF CRHolders
    <3>4. "cache" \notin set => "cache" \notin crstale[w.key] /\ (o # "fail" => new = cr[w.key])
      BY <1>3, <3>2
    <3>5. o = "fail" => crstale[w.key] \subseteq set
      OBVIOUS
    <3> HIDE DEF set
    <3>6. QED BY <3>1, <3>3, <3>4, <3>5
  <2>2. \A n \in Names : crstale'[n] = IF n = w.key THEN set ELSE crstale[n]
    BY <1>1, <2>1
  <2>3. crstale' \in [Names -> SUBSET CRHolders]
    BY <1>1, <2>1
  <2>4. QED BY <2>1, <2>2, <2>3
<1>5. CASE o = "fail"
  <2>1. UNCHANGED cr
    BY <1>5 DEF WriteStatus
  <2>2. CRPart
    <3>1. \A n \in Names : "cache" \notin crstale'[n] => "cache" \notin crstale[n]
      BY <1>4
    <3>2. QED BY <1>4, <2>1, <3>1, CRRead DEF TS, ClusterTypes
  <2>3. CRAges
    BY <1>4, <1>5, <2>1 DEF CRAges
  <2>4. QED BY <1>2, <2>1, <2>2, <2>3
<1>6. CASE o # "fail"
  <2>1. cr' = [cr EXCEPT ![w.key] = new]
    BY <1>6 DEF WriteStatus
  <2>2. /\ Live(new) /\ new.uid \in Uids /\ "worker" \notin crstale[w.key]
        /\ Live(cr[w.key]) /\ new.uid = cr[w.key].uid /\ new.json = cr[w.key].json
    BY <1>6, CopyWritten
  <2>3. new.uid >= cr[w.key].uid
    BY <2>2 DEF Uids
  <2>4. \A n \in Names : "cache" \notin crstale'[n] =>
          "cache" \notin crstale[n] /\ (n = w.key => new = cr[w.key])
    BY <1>4, <1>6
  <2>5. CRPart
    <3>1. CRTypes /\ CacheCopyOK
      BY DEF TS, ClusterTypes
    <3>2. PICK m \in Names : m = w.key
      BY <1>1
    <3>3. /\ cr' = [cr EXCEPT ![m] = new] /\ new.uid >= cr[m].uid
          /\ Live(cr[m])
          /\ \A n \in Names : "cache" \notin crstale'[n] =>
               "cache" \notin crstale[n] /\ (n = m => new = cr[m])
      BY <2>1, <2>2, <2>3, <2>4, <3>2
    <3>4. QED BY <1>4, <2>2, <3>1, <3>3, CRChanged
  <2>6. \A n \in Names : cr'[n] = IF n = w.key THEN new ELSE cr[n]
    BY <1>1, <2>1
  <2>7. CRAges
    BY <1>4, <2>2, <2>6 DEF CRAges
  <2>8. QED BY <1>2, <2>5, <2>7
<1>7. QED BY <1>5, <1>6

LEMMA HashedCopy ==
  ASSUME TS, w.pc \in CreatePCs
  PROVE  /\ WithHash(w.cr) \in Resource
         /\ WithHash(w.cr).uid = w.cr.uid /\ WithHash(w.cr).json = w.cr.json
<1>1. w.cr.json \in Contents /\ w.cr \in Resource
  BY WorkerFields DEF TS, WorkerOK, WorkerShape, Live, Resource
<1>2. Hash(w.cr.json) \in {Hash(c) : c \in Contents} \cup {Absent}
  BY <1>1
<1>3. QED BY <1>1, <1>2 DEF Resource, WithHash

\* A step of the worker that writes a resource's status only
LEMMA StatusOnly ==
  ASSUME TS, IInv, CRPart, CRAges, UNCHANGED <<grafana, store, folders, workVars, s>>, OwnTypes',
         GrafanaPart, SnapOK', Ages("sync"), WorkerOK', Creates
  PROVE  StepFacts /\ ErasesDead
<1> USE DEF IInv, CopiesOK
<1>1. SeenOK'
  BY SeenKept
<1>2. WorkerCopyOK'
  BY CopyKept DEF TS, Creates
<1>3. QueueTypes' /\ SyncOK' /\ SyncWaits /\ StoreTypes' /\ SameLists
  BY SyncUnmoved DEF TS, ClusterTypes, QueueTypes, workVars, StoreTypes, SameLists
<1>4. TS'
  BY <1>3 DEF TS, ClusterTypes, CRPart, GrafanaPart
<1>5. Shrinks /\ LosesDead /\ ErasesDead
  BY <1>3, SameListsShrink, StoreKept
<1>6. QED BY <1>1, <1>2, <1>3, <1>4, <1>5 DEF StepFacts, WorkerMoves, SyncMoves

LEMMA MatchFacts ==
  ASSUME TS, IInv, NEW o, GetMatchingDatasourceInstances(o)
  PROVE  StepFacts /\ ErasesDead
<1> USE DEF IInv, CopiesOK
<1> DEFINE matching == {g \in Grafanas : w.key \in gcache[g].matches}
           new == [w.cr EXCEPT !.noMatch = (matching = {})]
           todo == {g \in matching : <<w.key, g>> \notin CrossNamespace}
<1>1. /\ w.pc = "match" /\ w.pc \in CreatePCs
      /\ o # "fail" => "worker" \notin crstale[w.key]
      /\ IF o = "fail" THEN UNCHANGED <<cr, crstale>>
         ELSE WriteCR(w.key, new, IF o = "ok" THEN {"worker"} ELSE {})
      /\ w' = [w EXCEPT !.pc = "next", !.cr = new, !.snap = gcache, !.todo = todo]
      /\ ListGrafanas("worker")
      /\ UNCHANGED <<crcache, grafana, gcache, store, folders, workVars, s, message, pluginReq>>
  BY DEF GetMatchingDatasourceInstances, KubeOutcomes, CreatePCs, grafanaDB
<1>2. new \in Resource /\ new.uid = w.cr.uid /\ new.json = w.cr.json
  <2>1. PICK none \in BOOLEAN : none = (matching = {})
    OBVIOUS
  <2>2. new = [w.cr EXCEPT !.noMatch = none]
    BY <2>1
  <2>3. QED BY <2>2, WorkerFields DEF Resource
<1>3. todo \in SUBSET Grafanas /\ gcache \in GrafanaCopies
  BY DEF TS, ClusterTypes, GrafanaTypes
<1> HIDE DEF new, todo
<1>4. CRPart /\ CRAges
  BY <1>1, <1>2, StatusWritten
<1>5. GrafanaPart /\ Lists("worker") /\ Ages("sync")
  <2>1. PICK reader \in {"worker", "sync"} : reader = "worker"
    OBVIOUS
  <2>2. /\ GrafanaPart /\ Lists(reader)
        /\ \A who \in {"worker", "sync"} \ {reader} : Ages(who)
    BY <1>1, <2>1, GrafanaListed DEF TS, ClusterTypes
  <2>3. QED BY <2>1, <2>2
<1>6. /\ w' \in Worker /\ w'.pc = "next" /\ w'.key = w.key /\ w'.snap = gcache /\ w'.cr = new
  <2> DEFINE w1 == [w EXCEPT !.pc = "next"]
             w2 == [w1 EXCEPT !.cr = new]
             w3 == [w2 EXCEPT !.snap = gcache]
             w4 == [w3 EXCEPT !.todo = todo]
  <2>1. w' = w4
    BY <1>1
  <2>2. w1 \in Worker /\ w1.pc = "next" /\ w1.key = w.key
    BY DEF TS, WorkerOK, Worker, CreatePCs
  <2> HIDE DEF w1
  <2>3. w2 \in Worker /\ w2.pc = "next" /\ w2.key = w.key /\ w2.cr = new
    BY <1>2, <2>2 DEF Worker
  <2> HIDE DEF w2
  <2>4. w3 \in Worker /\ w3.pc = "next" /\ w3.key = w.key /\ w3.cr = new /\ w3.snap = gcache
    BY <1>3, <2>3 DEF Worker
  <2> HIDE DEF w3
  <2>5. w4 \in Worker /\ w4.pc = "next" /\ w4.key = w.key /\ w4.cr = new /\ w4.snap = gcache
    BY <1>3, <2>4 DEF Worker
  <2>6. QED BY <2>1, <2>5
<1>7. WorkerOK'
  BY <1>1, <1>2, <1>6 DEF TS, WorkerOK, WorkerShape, CreatePCs, Live
<1>8. Creates
  BY <1>1, <1>2, <1>6 DEF Creates, SameRequest, CreatePCs
<1>9. SnapOK'
  BY <1>1, <1>5, <1>6, SnapListed
<1>10. OwnTypes'
  BY <1>1, OwnKept
<1>11. QED BY <1>1, <1>4, <1>5, <1>7, <1>8, <1>9, <1>10, StatusOnly

\* After a pass the worker has moved on to the next Grafana.
LEMMA NextShape ==
  ASSUME TS, w.pc \in CreatePCs, w' = Continue \/ w' = Failed
  PROVE  /\ WorkerOK' /\ w'.pc = "next"
         /\ w'.key = w.key /\ w'.cr = w.cr /\ w'.snap = w.snap
<1>1. PICK pc \in CreatePCs, no \in BOOLEAN, ok \in BOOLEAN, err \in BOOLEAN :
        pc = "next" /\ no = FALSE /\ Moves(pc, w.todo, Absent, ok, err, no)
  <2>1. PICK pc \in CreatePCs, no \in BOOLEAN, yes \in BOOLEAN :
          pc = "next" /\ no = FALSE /\ yes = TRUE
    BY DEF CreatePCs
  <2>2. Moves(pc, w.todo, Absent, w.ok, w.err, no) \/ Moves(pc, w.todo, Absent, no, yes, no)
    <3>1. CASE w' = Continue
      BY <2>1, <3>1 DEF Continue, Moves, TS, WorkerOK, Worker
    <3>2. CASE w' = Failed
      BY <2>1, <3>2 DEF Continue, Failed, Moves, TS, WorkerOK, Worker
    <3>3. QED BY <3>1, <3>2
  <2>3. CASE Moves(pc, w.todo, Absent, w.ok, w.err, no)
    BY <2>1, <2>3, WorkerFields
  <2>4. CASE Moves(pc, w.todo, Absent, no, yes, no)
    BY <2>1, <2>4
  <2>5. QED BY <2>2, <2>3, <2>4
<1>2. w' \in Worker /\ w'.pc = pc /\ w'.key = w.key /\ w'.cr = w.cr /\ w'.snap = w.snap
  BY <1>1, WorkerFields, MovesType
<1>3. QED BY <1>1, <1>2 DEF TS, WorkerOK, WorkerShape, CreatePCs

LEMMA StatusFacts ==
  ASSUME TS, IInv, NEW o, UpdateStatus(o)
  PROVE  StepFacts /\ ErasesDead
<1> USE DEF IInv, CopiesOK
<1> DEFINE new == WithHash(w.cr)
<1>1. /\ w.pc = "hash" /\ w.pc \in CreatePCs
      /\ o # "fail" => "worker" \notin crstale[w.key]
      /\ WriteStatus(new, w.err \/ message[w.key], o, {})
      /\ UNCHANGED <<crcache, grafanaVars, store, folders, workVars, s, pluginReq>>
  BY DEF UpdateStatus, KubeOutcomes, CreatePCs, grafanaDB
<1>2. new \in Resource /\ new.uid = w.cr.uid /\ new.json = w.cr.json
  BY <1>1, HashedCopy
<1>3. /\ w' \in Worker /\ w'.pc \in {"record", "next"}
      /\ w'.pc = "record" => w'.g = w.g
      /\ w'.key = w.key /\ w'.snap = w.snap /\ w'.cr = new
  <2>1. \E pc \in {"record", "next"}, g \in Grafanas \cup {Absent}, ok \in BOOLEAN,
           err \in BOOLEAN, id \in BOOLEAN :
          /\ pc = "record" => g = w.g
          /\ w' = [w EXCEPT !.pc = pc, !.g = g, !.ok = ok, !.err = err, !.id = id, !.cr = new]
    <3>1. CASE o = "ok"
      <4>1. w' = [[w EXCEPT !.pc = "record"] EXCEPT !.cr = new]
        BY <3>1 DEF UpdateStatus, TS, WorkerOK, Worker
      <4>2. w' = [w EXCEPT !.pc = "record", !.g = w.g, !.ok = w.ok, !.err = w.err, !.id = w.id,
                           !.cr = new]
        BY <4>1 DEF TS, WorkerOK, Worker
      <4>3. QED BY <4>2, WorkerFields
    <3>2. CASE o # "ok"
      <4>1. w' = [Failed EXCEPT !.cr = new]
        BY <3>2 DEF UpdateStatus, Failed, Continue, TS, WorkerOK, Worker
      <4>2. PICK no \in BOOLEAN, yes \in BOOLEAN : no = FALSE /\ yes = TRUE
        OBVIOUS
      <4>3. w' = [w EXCEPT !.pc = "next", !.g = Absent, !.ok = no, !.err = yes, !.id = no,
                           !.cr = new]
        BY <4>1, <4>2 DEF Failed, Continue
      <4>4. QED BY <4>3
    <3>3. QED BY <3>1, <3>2
  <2>2. PICK pc \in {"record", "next"}, g \in Grafanas \cup {Absent}, ok \in BOOLEAN,
             err \in BOOLEAN, id \in BOOLEAN :
          /\ pc = "record" => g = w.g
          /\ w' = [w EXCEPT !.pc = pc, !.g = g, !.ok = ok, !.err = err, !.id = id, !.cr = new]
    BY <2>1
  <2> DEFINE w1 == [w EXCEPT !.pc = pc, !.g = g]
             w2 == [w1 EXCEPT !.ok = ok, !.err = err]
             w3 == [w2 EXCEPT !.id = id]
  <2>3. w' = [w3 EXCEPT !.cr = new]
    BY <2>2
  <2>4. w1 \in Worker /\ w1.pc = pc /\ w1.g = g /\ w1.key = w.key /\ w1.snap = w.snap
    BY DEF TS, WorkerOK, Worker, CreatePCs
  <2> HIDE DEF w1
  <2>5. w2 \in Worker /\ w2.pc = pc /\ w2.g = g /\ w2.key = w.key /\ w2.snap = w.snap
    BY <2>4 DEF Worker
  <2> HIDE DEF w2
  <2>6. w3 \in Worker /\ w3.pc = pc /\ w3.g = g /\ w3.key = w.key /\ w3.snap = w.snap
    BY <2>5 DEF Worker
  <2> HIDE DEF w3, new
  <2>7. QED BY <1>2, <2>2, <2>3, <2>6 DEF Worker
<1> HIDE DEF new
<1>4. CRPart /\ CRAges /\ OwnTypes'
  <2>1. PICK text \in BOOLEAN, drop \in SUBSET {"worker"} :
          text = (w.err \/ message[w.key]) /\ drop = {}
    OBVIOUS
  <2>2. WriteStatus(new, text, o, drop)
    BY <1>1, <2>1
  <2>3. CRPart /\ CRAges /\ message' \in [Names -> BOOLEAN]
    BY <1>1, <1>2, <2>2, MessageWritten
  <2>4. QED BY <1>1, <2>3 DEF OwnTypes, TS
<1>5. GrafanaPart /\ Ages("worker") /\ Ages("sync")
  BY <1>1, GrafanaKept DEF TS, ClusterTypes
<1>6. WorkerOK'
  BY <1>1, <1>2, <1>3 DEF TS, WorkerOK, WorkerShape, CreatePCs, Live
<1>7. Creates
  BY <1>1, <1>2, <1>3 DEF Creates, SameRequest, CreatePCs
<1>8. SnapOK'
  BY <1>1, <1>3, <1>5, SnapKept
<1>9. QED BY <1>1, <1>4, <1>5, <1>6, <1>7, <1>8, StatusOnly DEF grafanaVars

-----------------------------------------------------------------------------
(* The worker's writes of the status lists *)

\* A Grafana with one list replaced
LEMMA Relisted ==
  ASSUME NEW copy \in GrafanaResource, NEW n \in Names, NEW list \in Seq(Uids)
  PROVE  /\ [copy EXCEPT !.list[n] = list] \in GrafanaResource
         /\ \A m \in Names :
              [copy EXCEPT !.list[n] = list].list[m] = IF m = n THEN list ELSE copy.list[m]
<1>1. copy.list \in [Names -> Seq(Uids)]
  BY DEF GrafanaResource
<1>2. [copy.list EXCEPT ![n] = list] \in [Names -> Seq(Uids)]
  BY <1>1, ExceptType
<1>3. [copy EXCEPT !.list[n] = list] = [copy EXCEPT !.list = [copy.list EXCEPT ![n] = list]]
  BY DEF GrafanaResource
<1>4. QED BY <1>1, <1>2, <1>3 DEF GrafanaResource

\* A step of the worker that writes lists only
LEMMA ListFacts ==
  ASSUME TS, IInv, UNCHANGED <<crVars, s, store, folders, message, pluginReq>>,
         GrafanaPart, Ages("sync"), SnapOK', QueueTypes', WorkerOK', WorkerMoves,
         w'.pc \in CreatePCs => Creates, Shrinks \/ Records, LosesDead
  PROVE  StepFacts /\ ErasesDead
<1> USE DEF IInv, CopiesOK
<1>1. CRPart /\ CRAges
  BY CRKept DEF TS, ClusterTypes
<1>2. SeenOK'
  BY SeenKept
<1>3. WorkerCopyOK'
  BY <1>1, CopyKept DEF TS, Creates
<1>4. SyncOK' /\ SyncWaits /\ StoreTypes' /\ OwnTypes'
  BY OwnKept, SyncUnmoved DEF TS, ClusterTypes, StoreTypes
<1>5. TS'
  BY <1>1, <1>4 DEF TS, ClusterTypes, CRPart, GrafanaPart
<1>6. QED BY <1>1, <1>2, <1>3, <1>4, <1>5, StoreKept DEF StepFacts, SyncMoves

LEMMA RecordFacts ==
  ASSUME TS, IInv, NEW o, RecordDatasource(o)
  PROVE  StepFacts /\ ErasesDead
<1> USE DEF IInv, CopiesOK
<1> DEFINE list == Add(w.snap[w.g].list[w.key], w.cr.uid)
           new == [w.snap[w.g] EXCEPT !.list[w.key] = list]
<1>1. /\ UNCHANGED <<crVars, gcache, workVars, s, store, folders, message, pluginReq>>
      /\ w.pc = "record" /\ w.pc \in CreatePCs /\ w.pc # "idle"
      /\ o # "fail" => "worker" \notin gstale[w.g] /\ WriteGrafana(w.g, new)
      /\ o = "fail" => UNCHANGED <<grafana, gstale>>
      /\ w' = Continue \/ w' = Failed
  BY DEF RecordDatasource, RecordUid, KubeOutcomes, grafanaDB, CreatePCs
<1>2. w.g \in Grafanas /\ w.key \in Names /\ w.cr.uid \in Uids /\ w.snap[w.g] \in GrafanaResource
  BY <1>1, WorkerFields DEF TS, WorkerOK, WorkerShape, GrafanaCopies
<1>3. w.snap[w.g].list[w.key] \in Seq(Uids)
  BY <1>2 DEF GrafanaResource
<1>4. list \in Seq(Uids) /\ Entries(list) = Entries(w.snap[w.g].list[w.key]) \cup {w.cr.uid}
  BY <1>2, <1>3, AddType, AddEntries
<1> HIDE DEF list
<1>5. /\ new \in GrafanaResource
      /\ \A n \in Names : new.list[n] = IF n = w.key THEN list ELSE w.snap[w.g].list[n]
  <2>1. PICK copy \in GrafanaResource, n \in Names : copy = w.snap[w.g] /\ n = w.key
    BY <1>2
  <2>2. /\ [copy EXCEPT !.list[n] = list] \in GrafanaResource
        /\ \A m \in Names :
             [copy EXCEPT !.list[n] = list].list[m] = IF m = n THEN list ELSE copy.list[m]
    BY <1>4, Relisted
  <2>3. QED BY <2>1, <2>2
<1> HIDE DEF new
<1>6. /\ GrafanaPart /\ Ages("worker") /\ Ages("sync")
      /\ \A g \in Grafanas, n \in Names :
           \/ Entries(grafana'[g].list[n]) = Entries(grafana[g].list[n])
           \/ /\ n = w.key
              /\ Entries(grafana'[g].list[n]) = Entries(grafana[g].list[n]) \cup {w.cr.uid}
  <2>1. CASE o = "fail"
    <3>1. UNCHANGED grafanaVars
      BY <1>1, <2>1 DEF grafanaVars
    <3>2. QED BY <1>2, <3>1, GrafanaKept DEF TS, ClusterTypes, SameLists
  <2>2. CASE o # "fail"
    <3>1. WriteGrafana(w.g, new) /\ w.snap[w.g] = grafana[w.g]
      BY <1>1, <1>2, <2>2 DEF SnapOK
    <3>2. GrafanaPart /\ Ages("worker") /\ Ages("sync")
      BY <1>1, <1>2, <1>5, <3>1, GrafanaWritten DEF TS, ClusterTypes
    <3>3. \A g \in Grafanas : grafana'[g] = IF g = w.g THEN new ELSE grafana[g]
      BY <3>1 DEF WriteGrafana, TS, ClusterTypes, GrafanaTypes, GrafanaCopies
    <3>4. QED BY <1>2, <1>4, <1>5, <3>1, <3>2, <3>3
  <2>3. QED BY <2>1, <2>2
<1>7. LosesDead
  BY <1>6 DEF LosesDead
<1>8. /\ WorkerOK' /\ w'.pc = "next" /\ w'.pc # "idle" /\ w'.pc \in CreatePCs
      /\ w'.key = w.key /\ w'.cr = w.cr /\ w'.snap = w.snap
  BY <1>1, NextShape DEF CreatePCs
<1>9. Creates /\ Records
  <2>1. w.pc = "record"
    BY <1>1
  <2>2. Creates
    BY <2>1, <1>8 DEF Creates, SameRequest, CreatePCs
  <2>3. ASSUME NEW g \in Grafanas, NEW n \in Names, NEW u \in Entries(grafana'[g].list[n]),
               u \notin Entries(grafana[g].list[n])
        PROVE  n = w.key /\ u = w.cr.uid
    <3>1. /\ n = w.key
          /\ Entries(grafana'[g].list[n]) = Entries(grafana[g].list[n]) \cup {w.cr.uid}
      BY <1>6, <2>3
    <3>2. QED BY <2>3, <3>1
  <2>4. w'.pc \in CreatePCs
    BY <1>8
  <2>5. Records
    BY <2>1, <2>3, <2>4 DEF Records
  <2>6. QED BY <2>2, <2>5
<1>10. SnapOK' /\ QueueTypes'
  BY <1>1, <1>6, <1>8, SnapKept DEF TS, ClusterTypes, QueueTypes, workVars
<1>11. QED BY <1>1, <1>6, <1>7, <1>8, <1>9, <1>10, ListFacts DEF WorkerMoves

LEMMA RemoveFacts ==
  ASSUME TS, IInv, NEW o, RemoveRecord(o)
  PROVE  StepFacts /\ ErasesDead
<1> USE DEF IInv, CopiesOK
<1> DEFINE new == [w.snap[w.g] EXCEPT !.list[w.key] = <<>>]
<1>1. /\ UNCHANGED <<crVars, gcache, s, store, folders, message, pluginReq, queue, up>>
      /\ w.pc = "delRecord" /\ w.pc \in DeletePCs /\ w.pc # "idle" /\ w' = Idle
      /\ o # "fail" => "worker" \notin gstale[w.g]
      /\ grafana' = IF o = "fail" THEN grafana ELSE [grafana EXCEPT ![w.g] = new]
      /\ gstale' = [g \in Grafanas |->
           IF g = w.g /\ o # "fail" /\ new # grafana[g] THEN GrafanaHolders
           ELSE gstale[g] \cup {"worker"}]
  BY DEF RemoveRecord, KubeOutcomes, grafanaDB, DeletePCs, Remove
<1>2. w.g \in Grafanas /\ w.key \in Names /\ w.snap[w.g] \in GrafanaResource
  BY <1>1, WorkerFields DEF TS, WorkerOK, WorkerShape, GrafanaCopies
<1>3. /\ new \in GrafanaResource
      /\ \A n \in Names : new.list[n] = IF n = w.key THEN <<>> ELSE w.snap[w.g].list[n]
  <2>1. PICK copy \in GrafanaResource, n \in Names, list \in Seq(Uids) :
          copy = w.snap[w.g] /\ n = w.key /\ list = <<>>
    BY <1>2, EmptyList
  <2>2. /\ [copy EXCEPT !.list[n] = list] \in GrafanaResource
        /\ \A m \in Names :
             [copy EXCEPT !.list[n] = list].list[m] = IF m = n THEN list ELSE copy.list[m]
    BY Relisted
  <2>3. QED BY <2>1, <2>2
<1> HIDE DEF new
<1>4. GrafanaTypes
  BY DEF TS, ClusterTypes
<1>5. \A g \in Grafanas :
        /\ grafana'[g] = IF g = w.g /\ o # "fail" THEN new ELSE grafana[g]
        /\ gstale'[g] = IF g = w.g /\ o # "fail" /\ new # grafana[g] THEN GrafanaHolders
                        ELSE gstale[g] \cup {"worker"}
  BY <1>1, <1>2, <1>4 DEF GrafanaTypes, GrafanaCopies
<1>6. grafana' \in GrafanaCopies /\ gstale' \in [Grafanas -> SUBSET GrafanaHolders]
  <2>1. grafana' \in GrafanaCopies
    BY <1>1, <1>3, <1>4, ExceptType DEF GrafanaTypes, GrafanaCopies
  <2>2. \A g \in Grafanas : gstale[g] \cup {"worker"} \in SUBSET GrafanaHolders
    BY <1>4 DEF GrafanaTypes, GrafanaHolders
  <2>3. QED BY <1>1, <2>1, <2>2
<1>7. /\ \A g \in Grafanas : "worker" \in gstale'[g]
      /\ \A g \in Grafanas, who \in GrafanaHolders :
           who \notin gstale'[g] => who \notin gstale[g] /\ grafana'[g] = grafana[g]
  <2>1. ASSUME NEW g \in Grafanas
        PROVE  \/ gstale'[g] = GrafanaHolders
               \/ gstale'[g] = gstale[g] \cup {"worker"} /\ grafana'[g] = grafana[g]
    BY <1>5
  <2>2. QED BY <2>1 DEF GrafanaHolders
<1>8. GrafanaPart /\ Ages("sync")
  <2>1. GrafanaTypes'
    BY <1>1, <1>4, <1>6 DEF GrafanaTypes
  <2>2. GrafanaCacheOK' /\ Ages("sync")
    BY <1>1, <1>7 DEF GrafanaCacheOK, Ages, GrafanaHolders
  <2>3. \A g \in Grafanas : GrafanaCacheStep(g)
    BY <1>1 DEF GrafanaCacheStep
  <2>4. QED BY <2>1, <2>2, <2>3 DEF GrafanaPart
<1>9. \A g \in Grafanas, n \in Names :
        grafana'[g].list[n] = grafana[g].list[n] \/ (n = w.key /\ grafana'[g].list[n] = <<>>)
  BY <1>1, <1>2, <1>3, <1>5 DEF SnapOK
<1>10. Shrinks
  BY <1>9, NoEntries DEF Shrinks
<1>11. LosesDead
  <2>1. ListedDead(grafana, w.key)
    BY <1>1 DEF DeleteOK
  <2>2. QED BY <1>9, <2>1 DEF LosesDead, ListedDead
<1>12. QueueTypes'
  <2>1. CASE o = "ok"
    BY <1>1, <2>1 DEF RemoveRecord, TS, ClusterTypes, QueueTypes
  <2>2. CASE o # "ok"
    <3>1. PICK kind \in {"retry", "resync"} : kind = "retry"
      OBVIOUS
    <3>2. AddAfter(w.key, kind)
      BY <2>2, <3>1 DEF RemoveRecord
    <3>3. QED BY <1>1, <1>2, <3>2, AddAfterType DEF TS, ClusterTypes
  <2>3. QED BY <2>1, <2>2
<1>13. WorkerOK' /\ SnapOK' /\ w'.pc \notin CreatePCs
  BY <1>1, <1>7, IdleOK, SnapDropped DEF Idle, CreatePCs
<1>14. QED
  BY <1>1, <1>8, <1>10, <1>11, <1>12, <1>13, ListFacts DEF WorkerMoves

-----------------------------------------------------------------------------
(* The worker takes a resource, and ends with it. *)

LEMMA DequeueFacts ==
  ASSUME TS, IInv, NEW n \in Names, Dequeue(n)
  PROVE  StepFacts /\ ErasesDead
<1> USE DEF IInv, CopiesOK
<1>1. /\ w.pc = "idle" /\ queue' = queue \ {n}
      /\ UNCHANGED <<cr, crcache, grafanaVars, store, folders, timer, up, s, message, pluginReq>>
  BY DEF Dequeue, DequeueIf, grafanaDB
<1>2. /\ w'.key = n /\ w'.snap = NoSnap
      /\ \/ /\ Live(crcache[n]) /\ w'.pc = "match" /\ w'.cr = crcache[n]
            /\ w' = [Idle EXCEPT !.pc = "match", !.key = n, !.cr = crcache[n]]
            /\ crstale' = [crstale EXCEPT ![n] = AsOldAsCache(crstale[n], "worker")]
         \/ /\ ~Live(crcache[n]) /\ w'.pc = "delList" /\ UNCHANGED crstale
            /\ w' = [Idle EXCEPT !.pc = "delList", !.key = n]
  <2>1. CASE Live(crcache[n])
    <3>1. /\ w' = [Idle EXCEPT !.pc = "match", !.key = n, !.cr = crcache[n]]
          /\ crstale' = [crstale EXCEPT ![n] = AsOldAsCache(crstale[n], "worker")]
      BY <2>1 DEF Dequeue, DequeueIf
    <3>2. w'.key = n /\ w'.snap = NoSnap /\ w'.pc = "match" /\ w'.cr = crcache[n]
      BY <3>1 DEF Idle
    <3>3. QED BY <2>1, <3>1, <3>2
  <2>2. CASE ~Live(crcache[n])
    <3>1. w' = [Idle EXCEPT !.pc = "delList", !.key = n] /\ UNCHANGED crstale
      BY <2>2 DEF Dequeue, DequeueIf
    <3>2. w'.key = n /\ w'.snap = NoSnap /\ w'.pc = "delList"
      BY <3>1 DEF Idle
    <3>3. QED BY <2>2, <3>1, <3>2
  <2>3. QED BY <2>1, <2>2
<1>3. crcache[n] \in Resource /\ (Live(crcache[n]) => crcache[n].uid \in Uids)
  BY DEF TS, ClusterTypes, CRTypes, LiveHasUid
<1>4. w' \in Worker
  <2>1. CASE w' = [Idle EXCEPT !.pc = "match", !.key = n, !.cr = crcache[n]]
    BY <1>3, <2>1, IdleType DEF Worker, CreatePCs
  <2>2. CASE w' = [Idle EXCEPT !.pc = "delList", !.key = n]
    BY <2>2, IdleType DEF Worker, DeletePCs
  <2>3. QED BY <1>2, <2>1, <2>2
<1>5. WorkerOK'
  BY <1>2, <1>3, <1>4 DEF WorkerOK, WorkerShape, CreatePCs
<1>6. /\ crstale' \in [Names -> SUBSET CRHolders]
      /\ \A m \in Names : "cache" \notin crstale'[m] => "cache" \notin crstale[m]
      /\ w'.pc = "match" /\ "worker" \notin crstale'[n] => "cache" \notin crstale[n]
  BY <1>2 DEF TS, ClusterTypes, CRTypes, AsOldAsCache, CRHolders
<1>7. CRPart
  BY <1>1, <1>6, CRRead DEF TS, ClusterTypes
<1>8. GrafanaPart /\ Ages("sync") /\ SameLists
  BY <1>1, GrafanaKept DEF TS, ClusterTypes
<1>9. SnapOK'
  BY <1>1, SnapDropped DEF SnapOK, grafanaVars
<1>10. SeenOK'
  BY <1>1, <1>8, SeenKept
<1>11. WorkerCopyOK'
  BY <1>1, <1>2, <1>6 DEF WorkerCopyOK, CacheCopyOK, CreatePCs
<1>12. Takes
  BY <1>1, <1>2 DEF Takes
<1>13. QueueTypes' /\ SyncOK' /\ SyncWaits /\ StoreTypes' /\ OwnTypes'
  BY <1>1, OwnKept, SyncUnmoved DEF TS, ClusterTypes, QueueTypes, StoreTypes
<1>14. TS'
  BY <1>5, <1>7, <1>8, <1>13 DEF TS, ClusterTypes, CRPart, GrafanaPart
<1>15. Shrinks /\ LosesDead /\ ErasesDead
  BY <1>1, <1>8, SameListsShrink, StoreKept
<1>16. QED
  BY <1>7, <1>8, <1>9, <1>10, <1>11, <1>12, <1>13, <1>14, <1>15
     DEF StepFacts, WorkerMoves, SyncMoves

\* The worker ends its pass.
LEMMA EndFacts ==
  ASSUME TS, IInv, w' = Idle, CRPart, UNCHANGED <<grafana, gcache, store, folders, s>>, OwnTypes',
         DropGrafanas("worker"), QueueTypes'
  PROVE  StepFacts /\ ErasesDead
<1> USE DEF IInv, CopiesOK
<1>1. /\ GrafanaPart /\ Ages("sync") /\ SameLists
      /\ \A g \in Grafanas : "worker" \in gstale'[g]
  <2>1. PICK reader \in {"worker", "sync"} : reader = "worker"
    OBVIOUS
  <2>2. /\ GrafanaPart /\ Ages("sync") /\ SameLists
        /\ \A g \in Grafanas : reader \in gstale'[g]
    BY <2>1, GrafanaDropped DEF TS, ClusterTypes
  <2>3. QED BY <2>1, <2>2
<1>2. SnapOK' /\ SeenOK'
  BY <1>1, SnapDropped, SeenKept
<1>3. w'.pc = "idle"
  BY DEF Idle
<1>4. WorkerCopyOK' /\ WorkerOK'
  BY <1>3, IdleOK DEF WorkerCopyOK, CreatePCs
<1>5. SyncOK' /\ SyncWaits /\ StoreTypes'
  BY SyncUnmoved DEF TS, ClusterTypes, StoreTypes
<1>6. TS'
  BY <1>1, <1>4, <1>5 DEF TS, ClusterTypes, CRPart, GrafanaPart
<1>7. Shrinks /\ LosesDead /\ ErasesDead
  BY <1>1, SameListsShrink, StoreKept
<1>8. QED
  BY <1>1, <1>2, <1>4, <1>5, <1>6, <1>7 DEF StepFacts, WorkerMoves, SyncMoves

LEMMA FinishFacts ==
  ASSUME TS, IInv, NEW o, FinishReconcile(o)
  PROVE  StepFacts /\ ErasesDead
<1> DEFINE new == WithHash(w.cr)
<1>1. /\ w.pc \in CreatePCs /\ w' = Idle /\ DropGrafanas("worker")
      /\ o # "fail" => "worker" \notin crstale[w.key]
      /\ UNCHANGED <<crcache, grafana, gcache, store, folders, queue, up, s, pluginReq>>
  BY DEF FinishReconcile, KubeOutcomes, CreatePCs, grafanaDB
<1>2. new \in Resource /\ new.uid = w.cr.uid /\ new.json = w.cr.json
  BY <1>1, HashedCopy
<1>3. PICK text \in BOOLEAN, drop \in SUBSET {"worker"}, kind \in {"retry", "resync"} :
        /\ text = (~w.ok /\ (w.err \/ message[w.key])) /\ drop = {"worker"}
        /\ kind = IF o = "ok" THEN "resync" ELSE "retry"
  OBVIOUS
<1>4. WriteStatus(new, text, o, drop) /\ AddAfter(w.key, kind)
  BY <1>3 DEF FinishReconcile
<1> HIDE DEF new
<1>5. CRPart /\ message' \in [Names -> BOOLEAN]
  BY <1>1, <1>2, <1>4, MessageWritten
<1>6. OwnTypes'
  BY <1>1, <1>5 DEF OwnTypes, TS
<1>7. w.key \in Names
  BY <1>1, WorkerFields DEF CreatePCs
<1>8. QueueTypes'
  BY <1>1, <1>4, <1>7, AddAfterType DEF TS, ClusterTypes
<1>9. QED BY <1>1, <1>5, <1>6, <1>8, EndFacts

-----------------------------------------------------------------------------
(* The worker's deletion *)

LEMMA ListForDeleteFacts ==
  ASSUME TS, IInv, ListForDelete
  PROVE  StepFacts /\ ErasesDead
<1> USE DEF IInv, CopiesOK
<1>1. /\ w.pc = "delList" /\ w.pc \in DeletePCs
      /\ UNCHANGED <<crVars, grafana, gcache, store, folders, workVars, s, message, pluginReq>>
      /\ w' = Idle \/ w' = [w EXCEPT !.pc = "delRead", !.snap = gcache]
      /\ gstale' = [g \in Grafanas |-> IF w'.pc = "idle" THEN gstale[g] \cup {"worker"}
                                       ELSE AsOldAsCache(gstale[g], "worker")]
  BY DEF ListForDelete, DeletePCs, grafanaDB
<1>2. CRPart /\ QueueTypes' /\ OwnTypes'
  BY <1>1, CRKept, OwnKept DEF TS, ClusterTypes, QueueTypes, workVars
<1>3. ASSUME w' = Idle PROVE StepFacts /\ ErasesDead
  <2>1. DropGrafanas("worker")
    BY <1>1, <1>3 DEF DropGrafanas, Idle
  <2>2. QED BY <1>1, <1>2, <1>3, <2>1, EndFacts DEF crVars
<1>4. ASSUME w' = [w EXCEPT !.pc = "delRead", !.snap = gcache]
      PROVE  StepFacts /\ ErasesDead
  <2>1. /\ w' \in Worker /\ w'.pc = "delRead" /\ w'.key = w.key /\ w'.cr = w.cr
        /\ w'.snap = gcache
    BY <1>1, <1>4 DEF TS, ClusterTypes, GrafanaTypes, WorkerOK, Worker, DeletePCs
  <2>2. ListGrafanas("worker")
    BY <1>1, <2>1 DEF ListGrafanas
  <2>3. GrafanaPart /\ Lists("worker") /\ SameLists /\ Ages("sync")
    <3>1. PICK reader \in {"worker", "sync"} : reader = "worker"
      OBVIOUS
    <3>2. /\ GrafanaPart /\ Lists(reader) /\ SameLists
          /\ \A who \in {"worker", "sync"} \ {reader} : Ages(who)
      BY <1>1, <2>2, <3>1, GrafanaListed DEF TS, ClusterTypes
    <3>3. QED BY <3>1, <3>2
  <2>4. WorkerOK'
    BY <1>1, <2>1, WorkerFields DEF WorkerOK, WorkerShape, CreatePCs
  <2>5. Deletes
    BY <1>1, <2>1 DEF Deletes, SameRequest, DeletePCs
  <2>6. SnapOK' /\ SeenOK'
    BY <1>1, <2>1, <2>3, SnapListed, SeenKept
  <2>7. WorkerCopyOK'
    BY <2>1 DEF WorkerCopyOK, CreatePCs
  <2>8. SyncOK' /\ SyncWaits /\ StoreTypes'
    BY <1>1, SyncUnmoved DEF TS, ClusterTypes, StoreTypes
  <2>9. TS'
    BY <1>2, <2>3, <2>4, <2>8 DEF TS, ClusterTypes, CRPart, GrafanaPart
  <2>10. Shrinks /\ LosesDead /\ ErasesDead
    BY <1>1, <2>3, SameListsShrink, StoreKept
  <2>11. QED
    BY <1>2, <2>3, <2>5, <2>6, <2>7, <2>8, <2>9, <2>10 DEF StepFacts, WorkerMoves, SyncMoves
<1>5. QED BY <1>1, <1>3, <1>4

\* The deletion goes on with the Grafana it has found.
LEMMA DeleteMove ==
  ASSUME TS, IInv, AtServer, w.pc \in DeletePCs \ {"delList"},
         NEW pc \in DeletePCs \ {"delList", "delRead"}, NEW g \in Grafanas \cup {Absent},
         Moves(pc, w.todo, g, w.ok, w.err, w.id),
         pc # "error" => g \in Grafanas /\ Listed(w.snap[g].list[w.key])
  PROVE  StepFacts /\ ErasesDead
<1>1. /\ w' \in Worker /\ w'.pc = pc /\ w'.g = g
      /\ w'.key = w.key /\ w'.cr = w.cr /\ w'.snap = w.snap
  BY WorkerFields, MovesType
<1>2. w.key \in Names /\ pc \notin CreatePCs /\ pc \notin HasGrafana /\ pc # "idle"
  BY WorkerFields DEF CreatePCs, DeletePCs, HasGrafana
<1>3. WorkerOK'
  <2>1. w' \in Worker /\ w'.key \in Names /\ w'.pc \notin CreatePCs
    BY <1>1, <1>2
  <2>2. w'.pc \in {"delete", "delPlugins", "delRecord"}
          => w'.g \in Grafanas /\ Listed(w'.snap[w'.g].list[w'.key])
    BY <1>1
  <2>3. w'.pc \notin {"exists", "push", "hash", "record"}
    BY <1>1, <1>2 DEF HasGrafana
  <2>4. QED BY <2>1, <2>2, <2>3 DEF WorkerOK, WorkerShape
<1>4. Deletes
  BY <1>1 DEF Deletes, SameRequest
<1>5. QED BY <1>1, <1>3, <1>4, WorkerLocal DEF AtServer

LEMMA ReadFacts ==
  ASSUME TS, IInv, NEW h \in Grafanas, NEW o, ReadDatasource(h, o)
  PROVE  StepFacts /\ ErasesDead
<1>1. AtServer /\ w.pc \in DeletePCs \ {"delList"} /\ Listed(w.snap[h].list[w.key])
  BY ReadsNothing DEF ReadDatasource, DeletePCs
<1>2. PICK del \in DeletePCs \ {"delList", "delRead"}, err \in DeletePCs \ {"delList", "delRead"} :
        del = "delete" /\ err = "error"
  BY DEF DeletePCs
<1>3. w' = [w EXCEPT !.pc = del, !.g = h] \/ w' = [w EXCEPT !.pc = err]
  BY <1>2 DEF ReadDatasource
<1>4. Moves(del, w.todo, h, w.ok, w.err, w.id) \/ Moves(err, w.todo, w.g, w.ok, w.err, w.id)
  <2>1. CASE w' = [w EXCEPT !.pc = del, !.g = h]
    BY <2>1 DEF Moves, TS, WorkerOK, Worker
  <2>2. CASE w' = [w EXCEPT !.pc = err]
    BY <2>2, PcMoves
  <2>3. QED BY <1>3, <2>1, <2>2
<1>5. ASSUME Moves(del, w.todo, h, w.ok, w.err, w.id) PROVE StepFacts /\ ErasesDead
  BY <1>1, <1>5, DeleteMove
<1>6. ASSUME Moves(err, w.todo, w.g, w.ok, w.err, w.id) PROVE StepFacts /\ ErasesDead
  BY <1>1, <1>2, <1>6, WorkerFields, DeleteMove
<1>7. QED BY <1>4, <1>5, <1>6

\* Past the look-up the Grafana is one that lists the data source.
LEMMA FoundGrafana ==
  ASSUME TS, w.pc \in {"delete", "delPlugins", "delRecord"}
  PROVE  /\ w.pc \in DeletePCs \ {"delList"} /\ w.key \in Names
         /\ w.g \in Grafanas /\ Listed(w.snap[w.g].list[w.key])
BY DEF TS, WorkerOK, WorkerShape, DeletePCs

LEMMA PcDeletes ==
  ASSUME TS, IInv, AtServer, w.pc \in {"delete", "delPlugins", "delRecord"},
         NEW pc \in {"delPlugins", "delRecord", "error"}, w' = [w EXCEPT !.pc = pc]
  PROVE  StepFacts /\ ErasesDead
<1>1. pc \in DeletePCs \ {"delList", "delRead"}
  BY DEF DeletePCs
<1>2. QED BY <1>1, FoundGrafana, PcMoves, DeleteMove

LEMMA FirstEntry ==
  ASSUME NEW list \in Seq(Uids), Listed(list)
  PROVE  Find(list) \in Entries(list) /\ Find(list) \in Uids
BY DEF Listed, Find, Entries

LEMMA DroppedOK ==
  ASSUME SyncOK, NEW g, NEW item \in Items, DropId(g, item)
  PROVE  SyncOK' /\ SyncWaits
<1>1. CASE UNCHANGED s
  BY <1>1, SyncUnmoved
<1>2. CASE s.named = item /\ SyncRenamed(Absent)
  <2>1. item # Absent
    BY ClusterAssumption, ItemAssumption DEF Items, Uids
  <2>2. s.e # Absent
    BY <1>2, <2>1 DEF SyncOK, SyncShape
  <2>3. QED BY <1>2, <2>2, RenamedOK
<1>3. QED BY <1>1, <1>2 DEF DropId, SyncRenamed

LEMMA DeleteFacts ==
  ASSUME TS, IInv, NEW o, DeleteDatasource(o)
  PROVE  StepFacts /\ ErasesDead
<1> DEFINE u == FoundUid(w.g)
<1>1. /\ w.pc = "delete" /\ w.pc \in {"delete", "delPlugins", "delRecord"}
      /\ UNCHANGED <<crVars, grafanaVars, folders, workVars, message, pluginReq>>
      /\ \/ store' = store /\ UNCHANGED s
         \/ store' = [store EXCEPT ![w.g][w.key][u] = Absent] /\ DropId(w.g, <<w.key, u>>)
  BY DEF DeleteDatasource
<1>2. w.pc \in DeletePCs \ {"delList"} /\ w.key \in Names /\ w.g \in Grafanas
      /\ w.snap \in GrafanaCopies
  BY <1>1, FoundGrafana, WorkerFields
<1>3. u \in Uids /\ Dead(w.key, u)
  <2>1. w.snap[w.g].list[w.key] \in Seq(Uids) /\ Listed(w.snap[w.g].list[w.key])
    BY <1>1, <1>2, FoundGrafana, EntriesAreUids
  <2>2. u \in Uids /\ u \in Entries(w.snap[w.g].list[w.key])
    BY <2>1, FirstEntry DEF FoundUid
  <2>3. ListedDead(w.snap, w.key)
    BY <1>2 DEF IInv, DeleteOK
  <2>4. QED BY <1>2, <2>2, <2>3 DEF ListedDead
<1> HIDE DEF u
<1>4. AtServer
  <2>1. CASE store' = store /\ UNCHANGED s
    BY <1>1, <2>1, OwnKept, ReadsOnly
  <2>2. CASE store' = [store EXCEPT ![w.g][w.key][u] = Absent] /\ DropId(w.g, <<w.key, u>>)
    <3>1. \A g \in Grafanas, n \in Names, v \in Uids :
            store'[g][n][v] = IF g = w.g /\ n = w.key /\ v = u THEN Absent ELSE store[g][n][v]
      BY <1>2, <1>3, <2>2 DEF TS, ClusterTypes, StoreTypes, Stores
    <3>2. store \in Stores /\ folders' \in [Grafanas -> SUBSET Folders]
      BY <1>1 DEF TS, ClusterTypes, StoreTypes
    <3>3. [store EXCEPT ![w.g][w.key][u] = Absent] \in Stores
      BY <1>2, <1>3, <3>2, WriteStoreType
    <3>4. StoreTypes'
      BY <2>2, <3>2, <3>3 DEF StoreTypes
    <3>5. ErasesDead
      BY <1>3, <3>1 DEF ErasesDead
    <3>6. SyncOK' /\ SyncWaits
      BY <1>2, <1>3, <2>2, DroppedOK DEF TS, Items
    <3>7. QED BY <1>1, <3>4, <3>5, <3>6, OwnKept DEF AtServer
  <2>3. QED BY <1>1, <2>1, <2>2
<1>5. PICK pc \in {"delPlugins", "delRecord", "error"} :
        pc = IF o = "ok" THEN "delPlugins" ELSE "error"
  OBVIOUS
<1>6. w' = [w EXCEPT !.pc = pc]
  BY <1>5 DEF DeleteDatasource
<1>7. QED BY <1>1, <1>4, <1>6, PcDeletes

LEMMA ClearFacts ==
  ASSUME TS, IInv, NEW o, ClearPlugins(o)
  PROVE  StepFacts /\ ErasesDead
<1>1. /\ w.pc \in {"delete", "delPlugins", "delRecord"} /\ UNCHANGED <<clusterVars, s, message>>
      /\ pluginReq' = PluginsAfter(pluginReq, w.g, w.key, FALSE, o)
  BY DEF ClearPlugins
<1>2. PICK g \in Grafanas, n \in Names, no \in BOOLEAN : g = w.g /\ n = w.key /\ no = FALSE
  BY <1>1, FoundGrafana
<1>3. pluginReq' = PluginsAfter(pluginReq, g, n, no, o)
  BY <1>1, <1>2
<1>4. OwnTypes
  BY DEF TS
<1>5. pluginReq' \in [Grafanas -> SUBSET Names]
  BY <1>3, <1>4, PluginsType
<1>6. AtServer
  BY <1>1, <1>4, <1>5, ReadsOnly DEF OwnTypes, clusterVars, crVars, grafanaVars, workVars
<1>7. PICK pc \in {"delPlugins", "delRecord", "error"} :
        pc = IF o = "ok" \/ w.g \notin Internal THEN "delRecord" ELSE "error"
  OBVIOUS
<1>8. w' = [w EXCEPT !.pc = pc]
  BY <1>7 DEF ClearPlugins
<1>9. QED BY <1>1, <1>6, <1>8, PcDeletes

LEMMA FailedDeleteFacts ==
  ASSUME TS, IInv, FinishFailedDelete
  PROVE  StepFacts /\ ErasesDead
<1>1. /\ w.pc = "error" /\ w' = Idle /\ DropGrafanas("worker")
      /\ UNCHANGED <<crVars, grafana, gcache, store, folders, queue, up, s, message, pluginReq>>
  BY DEF FinishFailedDelete, grafanaDB
<1>2. PICK kind \in {"retry", "resync"} : kind = "retry"
  OBVIOUS
<1>3. AddAfter(w.key, kind) /\ w.key \in Names
  BY <1>1, <1>2, WorkerFields DEF FinishFailedDelete
<1>4. CRPart /\ QueueTypes' /\ OwnTypes'
  BY <1>1, <1>3, CRKept, OwnKept, AddAfterType DEF TS, ClusterTypes, IInv, CopiesOK
<1>5. QED BY <1>1, <1>4, EndFacts DEF crVars

-----------------------------------------------------------------------------
(* The sync's steps *)

\* A step of the sync that leaves resources and queue alone
LEMMA SyncFacts ==
  ASSUME TS, IInv, UNCHANGED <<crVars, workVars, w, message, pluginReq>>, StoreTypes', SyncOK',
         GrafanaPart, Ages("worker"), SeenOK', SyncMoves, Shrinks, LosesDead
  PROVE  StepFacts
<1> USE DEF IInv, CopiesOK
<1>1. CRPart /\ CRAges
  BY CRKept DEF TS, ClusterTypes
<1>2. SnapOK'
  BY SnapKept
<1>3. WorkerCopyOK'
  BY <1>1, CopyKept DEF TS, SameRequest
<1>4. QueueTypes' /\ WorkerOK' /\ OwnTypes'
  BY OwnKept DEF TS, ClusterTypes, QueueTypes, workVars, WorkerOK, WorkerShape
<1>5. TS'
  BY <1>1, <1>4 DEF TS, ClusterTypes, CRPart, GrafanaPart
<1>6. QED BY <1>1, <1>2, <1>3, <1>5 DEF StepFacts, WorkerMoves

\* ... the servers either
LEMMA SyncAway ==
  ASSUME TS, IInv, UNCHANGED <<crVars, workVars, w, message, pluginReq, store, folders>>, SyncOK',
         GrafanaPart, Ages("worker"), SeenOK', SyncMoves, Shrinks, LosesDead
  PROVE  StepFacts /\ ErasesDead
<1>1. StoreTypes' /\ ErasesDead
  BY StoreKept DEF TS, ClusterTypes, StoreTypes
<1>2. QED BY <1>1, SyncFacts

\* ... and the status lists
LEMMA SyncLocal ==
  ASSUME TS, IInv, UNCHANGED <<clusterVars, w, message, pluginReq>>, SyncOK', s'.seen = s.seen,
         SyncMoves
  PROVE  StepFacts /\ ErasesDead
<1>1. UNCHANGED <<crVars, grafanaVars, workVars, w, message, pluginReq, store, folders>>
  BY DEF clusterVars, crVars, grafanaVars, workVars
<1>2. GrafanaPart /\ Ages("worker") /\ Ages("sync") /\ SameLists
  BY <1>1, GrafanaKept DEF TS, ClusterTypes, IInv, CopiesOK
<1>3. SeenOK'
  BY <1>2, SeenKept DEF IInv, CopiesOK
<1>4. QED BY <1>1, <1>2, <1>3, SameListsShrink, SyncAway DEF grafanaVars

LEMMA SyncListGrafanasFacts ==
  ASSUME TS, IInv, SyncListGrafanas
  PROVE  StepFacts /\ ErasesDead
<1>1. /\ UNCHANGED <<crVars, grafana, gcache, store, folders, workVars, w, message, pluginReq>>
      /\ s.pc = "wait" /\ s' = [s EXCEPT !.pc = "list", !.seen = gcache]
      /\ ListGrafanas("sync")
  BY DEF SyncListGrafanas, grafanaDB
<1>2. GrafanaPart /\ Lists("sync") /\ SameLists /\ Ages("worker")
  <2>1. PICK reader \in {"worker", "sync"} : reader = "sync"
    OBVIOUS
  <2>2. /\ GrafanaPart /\ Lists(reader) /\ SameLists
        /\ \A who \in {"worker", "sync"} \ {reader} : Ages(who)
    BY <1>1, <2>1, GrafanaListed DEF TS, ClusterTypes, IInv, CopiesOK
  <2>3. QED BY <2>1, <2>2
<1>3. s' \in Syncer /\ s'.pc = "list" /\ s'.seen = gcache /\ s'.e = Absent /\ s'.named = Absent
  BY <1>1 DEF TS, ClusterTypes, GrafanaTypes, SyncOK, SyncShape, Syncer
<1>4. SyncOK' /\ SyncMoves
  BY <1>3 DEF SyncOK, SyncShape, SyncMoves
<1>5. SeenOK'
  BY <1>2, <1>3, SeenListed DEF IInv, CopiesOK
<1>6. QED BY <1>1, <1>2, <1>4, <1>5, SameListsShrink, SyncAway

LEMMA SyncListDatasourcesFacts ==
  ASSUME TS, IInv, SyncListDatasources
  PROVE  StepFacts /\ ErasesDead
<1> DEFINE gone == {n \in Names : ~Live(crcache[n])}
           todo == {g \in Grafanas : \E n \in gone : Listed(s.seen[g].list[n])}
<1>1. /\ UNCHANGED <<clusterVars, w, message, pluginReq>> /\ s.pc = "list"
      /\ s' = [s EXCEPT !.pc = "next", !.gone = gone, !.todo = todo]
  BY DEF SyncListDatasources
<1>2. gone \in SUBSET Names /\ todo \in SUBSET Grafanas
  OBVIOUS
<1>3. \A n \in gone : n \in Names /\ ~Live(crcache[n])
  OBVIOUS
<1> HIDE DEF gone, todo
<1>4. /\ s' \in Syncer /\ s'.pc = "next" /\ s'.seen = s.seen /\ s'.gone = gone
      /\ s'.e = Absent /\ s'.named = Absent
  BY <1>1, <1>2 DEF TS, SyncOK, SyncShape, Syncer
<1>5. SyncOK' /\ SyncMoves
  BY <1>1, <1>3, <1>4 DEF SyncOK, SyncShape, SyncMoves, clusterVars, crVars
<1>6. QED BY <1>1, <1>4, <1>5, SyncLocal

\* Within a Grafana, and on to the next
LEMMA SyncMoveFacts ==
  ASSUME TS, IInv, UNCHANGED <<clusterVars, w, message, pluginReq>>, s' \in Syncer, SyncShape',
         s.pc \in {"next", "delete"}, s'.seen = s.seen, s'.gone = s.gone
  PROVE  StepFacts /\ ErasesDead
BY SyncLocal DEF SyncOK, SyncMoves

LEMMA SyncStartFacts ==
  ASSUME TS, IInv, NEW g \in Grafanas, SyncStart(g)
  PROVE  StepFacts /\ ErasesDead
<1> DEFINE left == {e \in s.gone \X Uids : e[2] \in Entries(s.seen[g].list[e[1]])}
           todo == s.todo \ {g}
<1>1. /\ UNCHANGED <<clusterVars, w, message, pluginReq>> /\ s.pc = "next"
      /\ s' = [s EXCEPT !.pc = "delete", !.g = g, !.todo = todo, !.left = left]
  BY DEF SyncStart, StartFrom
<1>2. todo \in SUBSET Grafanas /\ s.gone \in SUBSET Names
  BY DEF TS, SyncOK, Syncer
<1>3. /\ left \in SUBSET (Names \X Uids)
      /\ \A e \in left : e[1] \in s.gone /\ e[2] \in Entries(s.seen[g].list[e[1]])
  BY <1>2
<1> HIDE DEF left, todo
<1>4. /\ s' \in Syncer /\ s'.pc = "delete" /\ s'.g = g /\ s'.left = left
      /\ s'.e = Absent /\ s'.named = Absent
      /\ s'.seen = s.seen /\ s'.gone = s.gone
  BY <1>1, <1>2, <1>3 DEF TS, SyncOK, SyncShape, Syncer
<1>5. QED BY <1>1, <1>3, <1>4, SyncMoveFacts DEF SyncShape

LEMMA SyncReadFacts ==
  ASSUME TS, IInv, NEW e \in Items, NEW o, SyncRead(e, o)
  PROVE  StepFacts /\ ErasesDead
<1>1. /\ UNCHANGED <<clusterVars, w, message, pluginReq>>
      /\ s.pc = "delete" /\ s.e = Absent /\ e \in s.left
      /\ s' = [s EXCEPT !.e = e, !.named = e] \/ s' = [s EXCEPT !.pc = "again"]
  BY DEF SyncRead
<1>2. /\ s' \in Syncer /\ s'.seen = s.seen /\ s'.gone = s.gone
      /\ \/ s'.pc = "again" /\ s'.e = Absent /\ s'.named = s.named
         \/ s'.pc = "delete" /\ s'.g = s.g /\ s'.left = s.left /\ s'.e = e /\ s'.named = e
  <2>1. CASE s' = [s EXCEPT !.e = e, !.named = e]
    <3>1. e \in Items \cup {Absent, Free} /\ e \in Items \cup {Absent}
      OBVIOUS
    <3>2. s' \in Syncer
      BY <2>1, <3>1 DEF TS, SyncOK, Syncer
    <3>3. QED BY <1>1, <2>1, <3>2 DEF TS, SyncOK, Syncer
  <2>2. CASE s' = [s EXCEPT !.pc = "again"]
    <3>1. s' \in Syncer
      BY <2>2 DEF TS, SyncOK, Syncer
    <3>2. QED BY <1>1, <2>2, <3>1 DEF TS, SyncOK, Syncer
  <2>3. QED BY <1>1, <2>1, <2>2
<1>3. s.named = Absent /\ e # Absent
  BY <1>1, ClusterAssumption, ItemAssumption DEF TS, SyncOK, SyncShape, Items, Uids
<1>4. SyncShape'
  BY <1>1, <1>2, <1>3 DEF SyncShape, TS, SyncOK
<1>5. QED BY <1>1, <1>2, <1>4, SyncMoveFacts

LEMMA SyncDeleteFacts ==
  ASSUME TS, IInv, NEW o, SyncDelete(o)
  PROVE  StepFacts /\ SparesLive
<1>1. /\ UNCHANGED <<crVars, grafanaVars, folders, workVars, w, message, pluginReq>>
      /\ s.pc = "delete" /\ s.e # Absent
      /\ \/ store' = store
         \/ /\ s.named \in Items
            /\ store' = [store EXCEPT ![s.g][s.named[1]][s.named[2]] = Absent]
      /\ \/ s' = [s EXCEPT !.e = Absent, !.named = Absent, !.left = s.left \ {s.e},
                           !.count = s.count + 1]
         \/ s' = [s EXCEPT !.e = Absent, !.named = Absent, !.pc = "again"]
  <2>1. CASE o = "ok"
    BY <2>1 DEF SyncDelete, TS, SyncOK, Syncer
  <2>2. CASE o # "ok"
    BY <2>2 DEF SyncDelete, TS, SyncOK, Syncer
  <2>3. QED BY <2>1, <2>2
<1>2. /\ s' \in Syncer /\ s'.seen = s.seen /\ s'.gone = s.gone
      /\ s'.e = Absent /\ s'.named = Absent
      /\ \/ s'.pc = "again"
         \/ s'.pc = "delete" /\ s'.g = s.g /\ s'.left \subseteq s.left
  <2>1. s.left \ {s.e} \in SUBSET (Names \X Uids) /\ s.count + 1 \in Nat
    BY DEF TS, SyncOK, Syncer
  <2>2. PICK left \in SUBSET (Names \X Uids), count \in Nat :
          left = s.left \ {s.e} /\ count = s.count + 1
    BY <2>1
  <2>3. CASE s' = [s EXCEPT !.e = Absent, !.named = Absent, !.left = s.left \ {s.e},
                            !.count = s.count + 1]
    <3>1. s' = [s EXCEPT !.e = Absent, !.named = Absent, !.left = left, !.count = count]
      BY <2>2, <2>3
    <3>2. s' \in Syncer /\ s'.left = left /\ s'.e = Absent /\ s'.named = Absent
          /\ s'.pc = s.pc /\ s'.seen = s.seen /\ s'.gone = s.gone /\ s'.g = s.g
      BY <3>1 DEF TS, SyncOK, Syncer
    <3>3. QED BY <1>1, <2>2, <3>2
  <2>4. CASE s' = [s EXCEPT !.e = Absent, !.named = Absent, !.pc = "again"]
    BY <2>4 DEF TS, SyncOK, Syncer
  <2>5. QED BY <1>1, <2>3, <2>4
<1>3. SyncOK' /\ SyncMoves
  <2>1. SyncShape'
    BY <1>1, <1>2 DEF SyncShape, TS, SyncOK
  <2>2. QED BY <1>1, <1>2, <2>1 DEF SyncOK, SyncMoves
<1>4. s.g \in Grafanas /\ s.e \in s.left /\ s.e \in Items
  BY <1>1 DEF TS, SyncOK, SyncShape, Syncer, Items
<1>5. GrafanaPart /\ Ages("worker") /\ Ages("sync") /\ SameLists
  BY <1>1, GrafanaKept DEF TS, ClusterTypes, IInv, CopiesOK
<1>6. SeenOK'
  BY <1>2, <1>5, SeenKept DEF IInv, CopiesOK
<1>7. CASE store' = store
  <2>1. UNCHANGED <<crVars, workVars, w, message, pluginReq, store, folders>>
    BY <1>1, <1>7
  <2>2. QED BY <1>3, <1>5, <1>6, <2>1, SameListsShrink, SyncAway, DeadIsSpared
<1>8. CASE /\ s.named \in Items
           /\ store' = [store EXCEPT ![s.g][s.named[1]][s.named[2]] = Absent]
  <2>1. PICK g \in Grafanas, n \in Names, u \in Uids : g = s.g /\ s.named = <<n, u>>
    BY <1>4, <1>8 DEF Items
  <2>2. store' = [store EXCEPT ![g][n][u] = Absent]
    BY <1>8, <2>1
  <2>3. \A h \in Grafanas, m \in Names, v \in Uids :
          store'[h][m][v] = IF h = g /\ m = n /\ v = u THEN Absent ELSE store[h][m][v]
    BY <2>2 DEF TS, ClusterTypes, StoreTypes, Stores
  <2>4. StoreTypes'
    <3>1. store \in Stores /\ folders' \in [Grafanas -> SUBSET Folders]
      BY <1>1 DEF TS, ClusterTypes, StoreTypes
    <3>2. [store EXCEPT ![g][n][u] = Absent] \in Stores
      BY <3>1, WriteStoreType
    <3>3. QED BY <2>2, <3>1, <3>2 DEF StoreTypes
  \* The id still names what it was found for, or the database is another one.
  <2>5. Dead(n, u) \/ (g \in Internal /\ s.e # s.named)
    <3>1. CASE s.named = s.e
      <4>1. n \in s.gone /\ u \in Entries(s.seen[g].list[n])
        BY <1>1, <1>4, <2>1, <3>1 DEF TS, SyncOK, SyncShape
      <4>2. ListedDead(s.seen, n)
        BY <1>1, <4>1 DEF IInv, DeleteOK
      <4>3. QED BY <4>1, <4>2 DEF ListedDead
    <3>2. CASE s.named # s.e
      <4>1. s.named # Absent
        BY <1>8, ClusterAssumption, ItemAssumption DEF Items, Uids
      <4>2. s.g \in Internal
        BY <3>2, <4>1 DEF TS, SyncOK, SyncShape
      <4>3. QED BY <2>1, <3>2, <4>2
    <3>3. QED BY <3>1, <3>2
  <2>6. SparesLive
    <3>1. ASSUME NEW h \in Grafanas, NEW m \in Names, NEW v \in Uids,
                 store[h][m][v] # Absent, store'[h][m][v] = Absent
          PROVE  h = g /\ m = n /\ v = u
      BY <2>3, <3>1
    <3>2. QED BY <1>1, <2>1, <2>5, <3>1 DEF SparesLive
  <2>7. QED BY <1>1, <1>3, <1>5, <1>6, <2>4, <2>6, SameListsShrink, SyncFacts
<1>9. QED BY <1>1, <1>7, <1>8

LEMMA SyncUpdateFacts ==
  ASSUME TS, IInv, NEW o, SyncUpdate(o)
  PROVE  StepFacts /\ ErasesDead
<1> USE DEF IInv, CopiesOK
<1> DEFINE shorter == [n \in Names |-> IF n \in s.gone THEN Remove(s.seen[s.g].list[n])
                                       ELSE s.seen[s.g].list[n]]
           new == [s.seen[s.g] EXCEPT !.list = shorter]
<1>1. /\ UNCHANGED <<crVars, gcache, store, folders, workVars, w, message, pluginReq>>
      /\ s.pc = "delete" /\ s.left = {}
      /\ o # "fail" => "sync" \notin gstale[s.g]
      /\ IF o = "fail" THEN UNCHANGED <<grafana, gstale>> ELSE WriteGrafana(s.g, new)
  BY DEF SyncUpdate, WriteWithoutGone, KubeOutcomes, grafanaDB
<1>2. s.g \in Grafanas /\ s.seen[s.g] \in GrafanaResource
  BY <1>1 DEF TS, SyncOK, SyncShape, Syncer, GrafanaCopies
<1>3. new \in GrafanaResource /\ new.list = shorter
  <2>1. shorter \in [Names -> Seq(Uids)]
    BY <1>2, EmptyList DEF GrafanaResource, Remove
  <2> HIDE DEF shorter
  <2>2. QED BY <1>2, <2>1 DEF GrafanaResource
<1>4. /\ GrafanaPart /\ Ages("worker") /\ Ages("sync")
      /\ \A g \in Grafanas, n \in Names :
           \/ grafana'[g].list[n] = grafana[g].list[n]
           \/ n \in s.gone /\ grafana'[g].list[n] = <<>> /\ grafana[g].list[n] = s.seen[g].list[n]
  <2>1. CASE o = "fail"
    <3>1. UNCHANGED grafanaVars
      BY <1>1, <2>1 DEF grafanaVars
    <3>2. QED BY <1>2, <3>1, GrafanaKept DEF TS, ClusterTypes, SameLists
  <2>2. CASE o # "fail"
    <3>1. WriteGrafana(s.g, new) /\ s.seen[s.g] = grafana[s.g]
      BY <1>1, <1>2, <2>2 DEF SeenOK
    <3>2. \A n \in Names : new.list[n] = IF n \in s.gone THEN <<>> ELSE grafana[s.g].list[n]
      BY <1>3, <3>1 DEF Remove
    <3> HIDE DEF new
    <3>3. \A g \in Grafanas : grafana'[g] = IF g = s.g THEN new ELSE grafana[g]
      BY <3>1 DEF WriteGrafana, TS, ClusterTypes, GrafanaTypes, GrafanaCopies
    <3>4. GrafanaPart /\ Ages("worker") /\ Ages("sync")
      BY <1>1, <1>2, <1>3, <3>1, GrafanaWritten DEF TS, ClusterTypes
    <3>5. QED BY <1>2, <3>1, <3>2, <3>3, <3>4
  <2>3. QED BY <2>1, <2>2
<1>5. Shrinks
  BY <1>4, NoEntries DEF Shrinks
<1>6. LosesDead
  BY <1>1, <1>4 DEF DeleteOK, LosesDead, ListedDead
<1>7. /\ s' \in Syncer /\ s'.seen = s.seen /\ s'.gone = s.gone
      /\ s'.e = s.e /\ s'.named = s.named
      /\ s'.pc \in {"next", "again"}
  <2>1. PICK pc \in {"next", "again"} : pc = IF o = "ok" THEN "next" ELSE "again"
    OBVIOUS
  <2>2. s' = [s EXCEPT !.pc = pc, !.g = Absent]
    BY <2>1 DEF SyncUpdate, WriteWithoutGone
  <2>3. QED BY <2>2 DEF TS, SyncOK, Syncer
<1>8. s.e = Absent /\ s.named = Absent
  BY <1>1 DEF TS, SyncOK, SyncShape
<1>9. SyncOK' /\ SyncMoves
  BY <1>1, <1>7, <1>8 DEF SyncOK, SyncShape, SyncMoves
<1>10. SeenOK'
  BY <1>4, <1>7, SeenKept
<1>11. QED BY <1>1, <1>4, <1>5, <1>6, <1>9, <1>10, SyncAway

LEMMA SyncReturnFacts ==
  ASSUME TS, IInv, SyncReturn
  PROVE  StepFacts /\ ErasesDead
<1>1. /\ UNCHANGED <<crVars, grafana, gcache, store, folders, workVars, w, message, pluginReq>>
      /\ DropGrafanas("sync")
      /\ s' = Waiting \/ s' = [Waiting EXCEPT !.pc = "done"]
  BY DEF SyncReturn, grafanaDB
<1>2. GrafanaPart /\ Ages("worker") /\ SameLists /\ \A g \in Grafanas : "sync" \in gstale'[g]
  <2>1. PICK reader \in {"worker", "sync"} : reader = "sync"
    OBVIOUS
  <2>2. GrafanaPart /\ Ages("worker") /\ SameLists /\ \A g \in Grafanas : reader \in gstale'[g]
    BY <1>1, <2>1, GrafanaDropped DEF TS, ClusterTypes, IInv, CopiesOK
  <2>3. QED BY <2>1, <2>2
<1>3. /\ s' \in Syncer /\ s'.pc \in {"wait", "done"} /\ s'.seen = NoSnap
      /\ s'.e = Absent /\ s'.named = Absent
  BY <1>1, WaitingType DEF Waiting, Syncer
<1>4. SyncOK' /\ SyncMoves /\ SeenOK'
  BY <1>2, <1>3, SeenDropped DEF SyncOK, SyncShape, SyncMoves
<1>5. QED BY <1>1, <1>2, <1>4, SameListsShrink, SyncAway

-----------------------------------------------------------------------------
(* Everyone else's steps *)

LEMMA SurroundingFacts ==
  ASSUME TS, IInv, SurroundingsPart, UNCHANGED w, SyncOK', SyncWaits, OwnTypes'
  PROVE  StepFacts
<1> USE DEF SurroundingsPart, IInv, CopiesOK
<1>1. SnapOK' /\ SeenOK' /\ WorkerCopyOK'
  BY SnapKept, SeenKept, CopyKept DEF TS, SameRequest, SyncWaits
<1>2. WorkerOK'
  BY DEF TS, WorkerOK, WorkerShape
<1>3. QED BY <1>1, <1>2, SameListsShrink DEF StepFacts, TS, WorkerMoves, SyncMoves

LEMMA EnvFacts ==
  ASSUME TS, IInv, Env(Outside)
  PROVE  StepFacts
<1>1. SurroundingsPart
  BY OutsideStep DEF Env, TS, IInv, CopiesOK
<1>2. OwnTypes'
  <2>1. \A n \in Names : (message[n] /\ Live(cr'[n])) \in BOOLEAN
    BY DEF Live
  <2>2. message' \in [Names -> BOOLEAN]
    BY <2>1 DEF Env
  <2>3. QED BY <2>2 DEF Env, TS, OwnTypes
<1>3. SyncOK' /\ SyncWaits
  <2>1. CASE UNCHANGED s
    BY <2>1, SyncUnmoved DEF TS
  <2>2. CASE s.e # Absent /\ Wipe(s.g) /\ SyncRenamed(Free)
    BY <2>2, RenamedOK DEF TS, Wipe
  <2>3. QED BY <2>1, <2>2 DEF Env, SyncRenamed
<1>4. QED BY <1>1, <1>2, <1>3, SurroundingFacts DEF Env

LEMMA StartStepFacts ==
  ASSUME TS, IInv, Start
  PROVE  StepFacts
<1>1. SurroundingsPart /\ OwnTypes' /\ UNCHANGED <<w, s>>
  BY StartStep, OwnKept DEF Start, TS
<1>2. QED BY <1>1, SyncUnmoved, SurroundingFacts DEF TS

LEMMA CrashFacts ==
  ASSUME TS, IInv, Crash
  PROVE  StepFacts /\ ErasesDead
<1>1. /\ SurroundingsPart /\ w' = Idle /\ s' = Waiting /\ OwnTypes'
      /\ \A g \in Grafanas : "worker" \in gstale'[g] /\ "sync" \in gstale'[g]
  BY CrashStep, OwnKept DEF Crash, TS
<1>2. w'.pc = "idle" /\ s'.pc = "wait" /\ s'.seen = NoSnap /\ s'.e = Absent /\ s'.named = Absent
  BY <1>1 DEF Idle, Waiting
<1>3. SnapOK' /\ SeenOK' /\ WorkerCopyOK'
  BY <1>1, <1>2, SnapDropped, SeenDropped DEF WorkerCopyOK, CreatePCs
<1>4. WorkerOK' /\ SyncOK'
  BY <1>1, <1>2, IdleOK, WaitingType DEF SyncOK, SyncShape
<1>5. ErasesDead
  BY StoreKept DEF Crash, ClusterCrash, grafanaDB
<1>6. QED
  BY <1>1, <1>2, <1>3, <1>4, <1>5, SameListsShrink
     DEF SurroundingsPart, StepFacts, TS, WorkerMoves, SyncMoves

LEMMA StutterFacts ==
  ASSUME TS, IInv, UNCHANGED vars
  PROVE  StepFacts
<1>1. UNCHANGED <<crVars, grafanaVars, workVars, store, folders, w, s, message, pluginReq>>
  BY DEF vars, clusterVars, crVars, grafanaVars, workVars
<1>2. SurroundingsPart
  BY <1>1, CRKept, GrafanaKept, StoreKept
     DEF TS, ClusterTypes, IInv, CopiesOK, SurroundingsPart, CRPart, GrafanaPart,
         StoreTypes, QueueTypes, workVars
<1>3. OwnTypes'
  BY <1>1, OwnKept
<1>4. QED BY <1>1, <1>2, <1>3, SyncUnmoved, SurroundingFacts DEF TS

LEMMA ControllerFacts == TS /\ IInv /\ Controller => StepFacts /\ SparesLive
<1> SUFFICES ASSUME TS, IInv, Controller PROVE StepFacts /\ SparesLive
  OBVIOUS
<1>1. ASSUME LocalStep PROVE StepFacts /\ ErasesDead
  BY <1>1, DequeueFacts, SkipFacts, UnchangedFacts, ListForDeleteFacts, FailedDeleteFacts
     DEF LocalStep
<1>2. ASSUME SyncLocalStep PROVE StepFacts /\ ErasesDead
  <2>1. ASSUME NEW e \in Items, SyncReadNil(e) PROVE StepFacts /\ ErasesDead
    BY <2>1, CrashFacts DEF SyncReadNil, Crash
  <2>2. QED
    BY <1>2, <2>1, SyncListGrafanasFacts, SyncListDatasourcesFacts, SyncReturnFacts,
       SyncStartFacts DEF SyncLocalStep
<1>3. ASSUME NEW o \in Outcomes, CreateStep(o) PROVE StepFacts /\ ErasesDead
  BY <1>3, MatchFacts, StartFacts, ExistsFacts, NewFacts, UpdateFacts, StatusFacts,
     RecordFacts, FinishFacts DEF CreateStep
<1>4. ASSUME NEW o \in Outcomes, DeleteStep(o) PROVE StepFacts /\ ErasesDead
  BY <1>4, ReadFacts, DeleteFacts, ClearFacts, RemoveFacts DEF DeleteStep
<1>5. ASSUME NEW o \in Outcomes, SyncStep(o) PROVE StepFacts /\ SparesLive
  BY <1>5, SyncReadFacts, SyncDeleteFacts, SyncUpdateFacts, DeadIsSpared DEF SyncStep
<1>6. QED BY <1>1, <1>2, <1>3, <1>4, <1>5, DeadIsSpared DEF Controller

LEMMA NextFacts == TS /\ IInv /\ [Next]_vars => StepFacts
BY ControllerFacts, EnvFacts, CrashFacts, StartStepFacts, StutterFacts DEF Next

-----------------------------------------------------------------------------
(* The invariant is carried over such steps *)

\* What is known to the cache stays so, as a property of the next state.
LEMMA CopiesKnown ==
  ASSUME CRTypes, CacheNotAhead, CRPart
  PROVE  \A copies \in GrafanaCopies : KnownToCache(copies) => KnownAfter(copies)
BY KnownStays

LEMMA CacheOrderStep ==
  ASSUME TS, IInv, StepFacts
  PROVE  CacheOrderOK'
<1> USE DEF IInv, CacheOrderOK, StepFacts
<1>1. CRTypes /\ CRPart /\ GrafanaTypes /\ CacheNotAhead
  BY DEF TS, ClusterTypes
<1>2. CacheNotAhead' /\ \A n \in Names : crcache[n].uid <= crcache'[n].uid
  BY <1>1, CacheAdvances
<1>3. /\ KnownAfter(grafana) /\ KnownAfter(gcache) /\ KnownAfter(NoSnap)
      /\ KnownAfter(w.snap) /\ KnownAfter(s.seen)
  <2>1. /\ grafana \in GrafanaCopies /\ gcache \in GrafanaCopies /\ NoSnap \in GrafanaCopies
        /\ w.snap \in GrafanaCopies /\ s.seen \in GrafanaCopies
    BY <1>1, NoSnapType DEF GrafanaTypes, TS, WorkerOK, Worker, SyncOK, Syncer
  <2>2. KnownToCache(NoSnap)
    BY NoSnapKnown
  <2>3. QED BY <1>1, <2>1, <2>2, CopiesKnown
<1>4. w'.pc \in CreatePCs => w'.cr.uid <= crcache'[w'.key].uid
  <2> SUFFICES ASSUME w'.pc \in CreatePCs PROVE w'.cr.uid <= crcache'[w'.key].uid
    OBVIOUS
  <2>1. CASE Creates \/ UNCHANGED w
    <3>1. /\ w.pc \in CreatePCs /\ w'.key = w.key /\ w'.cr.uid = w.cr.uid
          /\ w.key \in Names /\ w.cr.uid \in Int
      BY <2>1 DEF Creates, SameRequest, TS, WorkerOK, WorkerShape, CreatePCs, Uids
    <3>2. w.cr.uid <= crcache[w.key].uid /\ crcache[w.key].uid <= crcache'[w.key].uid
      BY <1>2, <3>1
    <3>3. crcache[w.key].uid \in Int /\ crcache'[w.key].uid \in Int
      BY <1>1, <3>1 DEF CRPart, CRTypes, Resource
    <3>4. QED BY <3>1, <3>2, <3>3
  <2>2. CASE Takes
    <3>1. PICK n \in Names : w'.key = n /\ w'.cr = crcache[n] /\ crcache' = crcache
      BY <2>2 DEF Takes, CreatePCs
    <3>2. crcache[n].uid \in Int
      BY <1>1 DEF CRTypes, Resource
    <3>3. QED BY <3>1, <3>2
  <2>3. ~Deletes /\ w' # Idle
    BY DEF Deletes, CreatePCs, DeletePCs, Idle
  <2>4. QED BY <2>1, <2>2, <2>3 DEF WorkerMoves
<1>5. KnownToCache(grafana)'
  <2>1. CASE Shrinks
    BY <1>3, <2>1 DEF KnownToCache, KnownAfter, Shrinks
  <2>2. CASE Records
    <3>1. /\ w.pc \in CreatePCs /\ w.key \in Names /\ w.cr.uid \in Int
      BY <2>2 DEF Records, TS, WorkerOK, WorkerShape, CreatePCs, Uids
    <3>2. w.cr.uid <= crcache[w.key].uid /\ crcache[w.key].uid <= crcache'[w.key].uid
      BY <1>2, <3>1
    <3>3. crcache[w.key].uid \in Int /\ crcache'[w.key].uid \in Int
      BY <1>1, <3>1 DEF CRPart, CRTypes, Resource
    <3>4. w.cr.uid <= crcache'[w.key].uid
      BY <3>1, <3>2, <3>3
    <3>5. ASSUME NEW g \in Grafanas, NEW n \in Names, NEW u \in Entries(grafana'[g].list[n])
          PROVE  u <= crcache'[n].uid
      <4>1. u \in Entries(grafana[g].list[n]) \/ (n = w.key /\ u = w.cr.uid)
        BY <2>2, <3>5 DEF Records
      <4>2. CASE u \in Entries(grafana[g].list[n])
        BY <1>3, <4>2 DEF KnownAfter
      <4>3. QED BY <3>4, <4>1, <4>2
    <3>6. QED BY <3>5 DEF KnownToCache
  <2>3. QED BY <2>1, <2>2
<1>6. KnownToCache(gcache)'
  BY <1>3 DEF GrafanaPart, GrafanaCacheStep, KnownToCache, KnownAfter
<1>7. KnownToCache(w.snap)'
  <2>1. w'.snap \in {w.snap, gcache, NoSnap}
    BY DEF WorkerMoves, Takes, Creates, Deletes, SameRequest, Idle
  <2>2. QED BY <1>3, <2>1 DEF KnownToCache, KnownAfter
<1>8. KnownToCache(s.seen)'
  <2>1. s'.seen \in {s.seen, gcache, NoSnap}
    BY DEF SyncMoves, SyncWaits
  <2>2. QED BY <1>3, <2>1 DEF KnownToCache, KnownAfter
<1>9. QED BY <1>2, <1>4, <1>5, <1>6, <1>7, <1>8

LEMMA DeadCopies ==
  ASSUME CRTypes, CRPart, NEW n \in Names
  PROVE  \A copies \in GrafanaCopies : ListedDead(copies, n) => ListedDeadAfter(copies, n)
BY ListedStaysDead

LEMMA NotCachedCopies ==
  ASSUME CRTypes, CacheNotAhead, NEW n \in Names, ~Live(crcache[n])
  PROVE  \A copies \in GrafanaCopies : KnownToCache(copies) => ListedDead(copies, n)
BY NotCachedListedDead

LEMMA CopyTypes ==
  ASSUME TS
  PROVE  /\ grafana \in GrafanaCopies /\ gcache \in GrafanaCopies /\ NoSnap \in GrafanaCopies
         /\ w.snap \in GrafanaCopies /\ s.seen \in GrafanaCopies
BY NoSnapType DEF TS, ClusterTypes, GrafanaTypes, WorkerOK, Worker, SyncOK, Syncer

LEMMA WorkerDeleteStep ==
  ASSUME TS, IInv, StepFacts, w'.pc \in DeletePCs
  PROVE  /\ ListedDead(grafana, w.key)' /\ ListedDead(gcache, w.key)'
         /\ w'.pc # "delList" => ListedDead(w.snap, w.key)'
<1> USE DEF IInv, StepFacts
<1>1. CRTypes /\ CRPart /\ CacheNotAhead
  BY DEF TS, ClusterTypes, CacheOrderOK
<1>2. w' # Idle /\ ~Creates /\ ~Records
  BY DEF Creates, Records, CreatePCs, DeletePCs, Idle
<1>3. ASSUME NEW n \in Names, n = w'.key, ListedDead(grafana, n), ListedDead(gcache, n)
      PROVE  ListedDead(grafana, w.key)' /\ ListedDead(gcache, w.key)'
  <2>1. ListedDeadAfter(grafana, n) /\ ListedDeadAfter(gcache, n)
    BY <1>1, <1>3, CopyTypes, DeadCopies
  <2>2. Shrinks /\ \A g \in Grafanas : GrafanaCacheStep(g)
    BY <1>2 DEF GrafanaPart
  <2>3. QED
    BY <1>3, <2>1, <2>2, ZenonT(60)
       DEF ListedDead, ListedDeadAfter, Dead, DeadAfter, Shrinks, GrafanaCacheStep
<1>4. CASE UNCHANGED w \/ Deletes
  <2>1. w.pc \in DeletePCs /\ w'.key = w.key /\ w.key \in Names
    BY <1>4 DEF Deletes, SameRequest, TS, WorkerOK, WorkerShape, DeletePCs
  <2>2. ListedDead(grafana, w.key) /\ ListedDead(gcache, w.key)
    BY <2>1 DEF DeleteOK
  <2>3. ListedDead(grafana, w.key)' /\ ListedDead(gcache, w.key)'
    BY <1>3, <2>1, <2>2
  <2>4. ASSUME w'.pc # "delList" PROVE ListedDead(w.snap, w.key)'
    <3>1. ListedDead(w'.snap, w.key) /\ w'.snap \in GrafanaCopies
      BY <1>4, <2>1, <2>2, <2>4, CopyTypes DEF Deletes, DeleteOK
    <3>2. ListedDeadAfter(w'.snap, w.key)
      BY <1>1, <2>1, <3>1, DeadCopies
    <3>3. QED BY <2>1, <3>2 DEF ListedDead, ListedDeadAfter, Dead, DeadAfter
  <2>5. QED BY <2>3, <2>4
<1>5. CASE Takes
  <2>1. PICK n \in Names : w'.key = n /\ w'.pc = "delList" /\ ~Live(crcache[n])
    BY <1>5 DEF Takes, DeletePCs
  <2>2. ListedDead(grafana, n) /\ ListedDead(gcache, n)
    BY <1>1, <2>1, CopyTypes, NotCachedCopies DEF CacheOrderOK
  <2>3. QED BY <1>3, <2>1, <2>2
<1>6. QED BY <1>2, <1>4, <1>5 DEF WorkerMoves

LEMMA SyncDeleteStep ==
  ASSUME TS, IInv, StepFacts, s'.pc \in {"next", "delete"}, NEW n \in s'.gone
  PROVE  ListedDead(s.seen, n)'
<1> USE DEF IInv, StepFacts
<1>1. CRTypes /\ CRPart /\ CacheNotAhead
  BY DEF TS, ClusterTypes, CacheOrderOK
<1>2. n \in Names /\ s'.seen = s.seen /\ ListedDead(s.seen, n)
  <2>1. CASE SyncWaits
    BY <2>1 DEF DeleteOK, TS, SyncOK, Syncer, SyncWaits
  <2>2. CASE s.pc \in {"next", "delete"} /\ s'.seen = s.seen /\ s'.gone = s.gone
    BY <2>2 DEF DeleteOK, TS, SyncOK, Syncer
  <2>3. CASE s'.seen = s.seen /\ \A m \in s'.gone : m \in Names /\ ~Live(crcache[m])
    BY <1>1, <2>3, CopyTypes, NotCachedCopies DEF CacheOrderOK
  <2>4. QED BY <2>1, <2>2, <2>3 DEF SyncMoves
<1>3. ListedDeadAfter(s.seen, n)
  BY <1>1, <1>2, CopyTypes, DeadCopies
<1>4. QED BY <1>2, <1>3 DEF ListedDead, ListedDeadAfter, Dead, DeadAfter

LEMMA NextIInv == TS /\ IInv /\ [Next]_vars => TS' /\ IInv'
<1> SUFFICES ASSUME TS, IInv, [Next]_vars PROVE TS' /\ IInv'
  OBVIOUS
<1>1. StepFacts
  BY NextFacts
<1>2. ShapeOK'
  BY <1>1 DEF StepFacts, TS, ClusterTypes, CRTypes, WorkerOK, SyncOK, ShapeOK
<1>3. CopiesOK'
  BY <1>1 DEF StepFacts, CRPart, GrafanaPart, CopiesOK
<1>4. CacheOrderOK'
  BY <1>1, CacheOrderStep
<1>5. DeleteOK'
  BY <1>1, WorkerDeleteStep, SyncDeleteStep DEF DeleteOK
<1>6. QED BY <1>1, <1>2, <1>3, <1>4, <1>5 DEF IInv, StepFacts

LEMMA InitIInv == Init => IInv
<1> SUFFICES ASSUME Init PROVE IInv
  OBVIOUS
<1>1. TS
  BY InitTS
<1>2. w.pc = "idle" /\ s.pc = "wait" /\ w.snap = NoSnap /\ s.seen = NoSnap
  BY DEF Init, Idle, Waiting
<1>3. ShapeOK
  BY <1>1 DEF TS, ClusterTypes, CRTypes, WorkerOK, SyncOK, ShapeOK
<1>4. CopiesOK
  BY <1>2 DEF Init, ClusterInit, CopiesOK, CacheCopyOK, GrafanaCacheOK, SnapOK, SeenOK,
              WorkerCopyOK, CreatePCs
<1>5. CacheOrderOK
  <2>1. CacheNotAhead
    <3>1. crcache = cr /\ \A n \in Names : cr[n].uid \in Int
      BY <1>1 DEF Init, ClusterInit, TS, ClusterTypes, CRTypes, Resource
    <3>2. QED BY <3>1 DEF CacheNotAhead
  <2>2. KnownToCache(grafana) /\ gcache = grafana
    BY NoEntries DEF Init, ClusterInit, KnownToCache
  <2>3. KnownToCache(NoSnap)
    BY NoSnapKnown
  <2>4. QED BY <1>2, <2>1, <2>2, <2>3 DEF CacheOrderOK, CreatePCs
<1>6. DeleteOK
  BY <1>2 DEF DeleteOK, DeletePCs
<1>7. QED BY <1>3, <1>4, <1>5, <1>6 DEF IInv

LEMMA Inductive == Spec => [](TS /\ IInv)
BY InitTS, InitIInv, NextIInv, PTL DEF Spec

-----------------------------------------------------------------------------
(* Theorems *)

(* Every variable keeps its type through refused writes, outdated copies,   *)
(* crashes and the sync's own panic; listed uids are ones the API server    *)
(* has issued (line 318).                                                   *)
THEOREM DatasourceTypeCorrect == Spec => []TypeOK
<1>1. TS => TypeOK
  BY TSisTypeAndShape
<1>2. QED BY <1>1, Inductive, PTL

(* The inductive invariant: copies nobody overtook are the objects, caches  *)
(* never run ahead of them, and what the two delete paths hold is dead.     *)
THEOREM DatasourceInvariance == Spec => []IInv
BY Inductive, PTL

(* The operator removes a data source from a Grafana only when its resource *)
(* is gone for good, although it looks an id up, and a resource of the same *)
(* name may be created, between the list and the call (lines 107-117,       *)
(* 239-244); but for an id that the sync found in the database an internal  *)
(* Grafana has lost since (lines 108, 117), which the new database may have *)
(* given to another data source.                                            *)
THEOREM NoLiveDatasourceDeleted == Spec => LiveNotDeleted
<1> DEFINE Spared == Controller => \A g \in Grafanas, n \in Names, u \in Uids :
             store[g][n][u] # Absent /\ store'[g][n][u] = Absent =>
               \/ Dead(n, u)
               \/ g \in Internal /\ s.named = <<n, u>> /\ s.e # s.named /\ UNCHANGED w
<1>1. TS /\ IInv /\ [Next]_vars => [Spared]_vars
  BY ControllerFacts DEF SparesLive
<1>2. Spec => [][Spared]_vars
  BY <1>1, Inductive, PTL DEF Spec
<1>3. QED BY <1>2 DEF LiveNotDeleted

(* No writer of the status drops the entry of a living data source, from    *)
(* whatever age of copy the worker, the sync (line 128) or the Grafana      *)
(* controller writes it.                                                    *)
THEOREM NoLiveDatasourceForgotten == Spec => LiveNotForgotten
<1> DEFINE Kept == \A g \in Grafanas, n \in Names, u \in Uids :
                     u \in Entries(grafana[g].list[n]) /\ u \notin Entries(grafana'[g].list[n])
                     => Dead(n, u)
<1>1. TS /\ IInv /\ [Next]_vars => [Kept]_vars
  BY NextFacts DEF StepFacts, LosesDead
<1>2. Spec => [][Kept]_vars
  BY <1>1, Inductive, PTL DEF Spec
<1>3. QED BY <1>2 DEF LiveNotForgotten
=============================================================================
