------------------------ MODULE FolderControllerProofs ------------------------
(***************************************************************************)
(* Theorems about FolderController, for every value of its constants.  One *)
(* lemma per action says what its steps do (StepFacts); the invariant is   *)
(* then carried over such steps, whichever action took them.               *)
(***************************************************************************)
EXTENDS FolderController, ClusterProofs

USE ClusterAssumption, FolderAssumption

-----------------------------------------------------------------------------
(* Types *)

LEMMA IdleType == Idle \in Worker
BY NoSnapType, GoneType DEF Idle, Worker

LEMMA WaitingType == Waiting \in Syncer
BY NoSnapType DEF Waiting, Syncer

WorkerOK == w \in Worker /\ WorkerShape
SyncOK == s \in Syncer /\ SyncShape

\* TypeOK and ShapeOK, by the variables they speak about
TS == ClusterTypes /\ WorkerOK /\ SyncOK

LEMMA TSisTypeAndShape == TS <=> TypeOK /\ ShapeOK
BY ClusterTypesAre DEF TS, TypeOK, ShapeOK, WorkerOK, SyncOK

LEMMA IdleOK == w' = Idle => WorkerOK'
BY IdleType DEF WorkerOK, WorkerShape, Idle, CreatePCs

LEMMA InitTS == Init => TS
BY ClusterInitTypes, IdleType, WaitingType
   DEF Init, TS, WorkerOK, WorkerShape, SyncOK, SyncShape, Idle, Waiting, CreatePCs

\* The worker moves on within a pass, with the resource and the list it has.
Moves(pc, todo, g, exists) ==
    w' = [w EXCEPT !.pc = pc, !.todo = todo, !.g = g, !.exists = exists]

LEMMA MovesType ==
  ASSUME w \in Worker, NEW pc \in CreatePCs \cup DeletePCs, NEW todo \in SUBSET Grafanas,
         NEW g \in Grafanas \cup {Absent}, NEW exists \in BOOLEAN, Moves(pc, todo, g, exists)
  PROVE  /\ w' \in Worker
         /\ w'.pc = pc /\ w'.todo = todo /\ w'.g = g
         /\ w'.key = w.key /\ w'.cr = w.cr /\ w'.snap = w.snap
<1> DEFINE w1 == [w EXCEPT !.pc = pc]
           w2 == [w1 EXCEPT !.todo = todo]
           w3 == [w2 EXCEPT !.g = g]
           w4 == [w3 EXCEPT !.exists = exists]
<1>1. w' = w4
  BY DEF Moves
<1>2. /\ w1 \in Worker /\ w1.pc = pc
      /\ w1.key = w.key /\ w1.cr = w.cr /\ w1.snap = w.snap
  BY DEF Worker
<1> HIDE DEF w1
<1>3. /\ w2 \in Worker /\ w2.pc = pc /\ w2.todo = todo
      /\ w2.key = w.key /\ w2.cr = w.cr /\ w2.snap = w.snap
  BY <1>2 DEF Worker
<1> HIDE DEF w2
<1>4. /\ w3 \in Worker /\ w3.pc = pc /\ w3.todo = todo /\ w3.g = g
      /\ w3.key = w.key /\ w3.cr = w.cr /\ w3.snap = w.snap
  BY <1>3 DEF Worker
<1> HIDE DEF w3
<1>5. /\ w4 \in Worker /\ w4.pc = pc /\ w4.todo = todo /\ w4.g = g
      /\ w4.key = w.key /\ w4.cr = w.cr /\ w4.snap = w.snap
  BY <1>4 DEF Worker
<1>6. QED BY <1>1, <1>5

-----------------------------------------------------------------------------
(* What a step does *)

\* The worker goes on with the same resource ...
SameRequest == /\ w'.key = w.key /\ w'.cr.uid = w.cr.uid /\ w'.cr.json = w.cr.json
               /\ w'.snap \in {w.snap, gcache}

Creates == w.pc \in CreatePCs /\ w'.pc \in CreatePCs /\ SameRequest
Deletes == /\ w.pc \in DeletePCs /\ w'.pc \in DeletePCs /\ SameRequest
           /\ w'.snap = gcache \/ (w.pc # "delList" /\ w'.snap = w.snap)

\* ... or takes another from the queue.
Takes == \E n \in Names :
           /\ w.pc = "idle" /\ w'.key = n /\ w'.snap = NoSnap
           /\ UNCHANGED <<crcache, grafanaVars, s>>
           /\ \/ w'.pc = "match" /\ w'.cr = crcache[n]
              \/ w'.pc = "delList" /\ ~Live(crcache[n])

WorkerMoves == UNCHANGED w \/ w' = Idle \/ Takes \/ Creates \/ Deletes

\* The sync starts anew, asks which resources are gone, or goes on with those.
SyncMoves ==
    \/ UNCHANGED s
    \/ s'.pc \notin {"next", "delete"} /\ s'.seen \in {s.seen, gcache, NoSnap}
    \/ s'.seen = s.seen /\ UNCHANGED crVars /\ \A n \in s'.gone : n \in Names /\ ~Live(crcache[n])
    \/ s.pc \in {"next", "delete"} /\ s'.seen = s.seen /\ s'.gone = s.gone

\* Lists lose only what is dead, and only the worker's record adds to them.
Shrinks == \A g \in Grafanas, n \in Names :
             Entries(grafana'[g].list[n]) \subseteq Entries(grafana[g].list[n])
Records == /\ w.pc = "record" /\ w'.pc \in CreatePCs
           /\ \A g \in Grafanas, n \in Names : \A u \in Entries(grafana'[g].list[n]) :
                u \in Entries(grafana[g].list[n]) \/ (n = w.key /\ u = w.cr.uid)

StepFacts ==
    /\ TS' /\ CRPart /\ GrafanaPart
    /\ SnapOK' /\ SeenOK' /\ WorkerCopyOK' /\ RecordOK'
    /\ WorkerMoves /\ SyncMoves
    /\ Shrinks \/ Records
    /\ LosesDead

-----------------------------------------------------------------------------
(* How the copies of the worker and of the sync age *)

LEMMA SnapKept ==
  ASSUME SnapOK, Ages("worker"), w'.snap = w.snap, w.pc # "idle" => w'.pc # "idle"
  PROVE  SnapOK'
BY DEF SnapOK, Ages

LEMMA SnapDropped ==
  ASSUME \A g \in Grafanas : "worker" \in gstale'[g]
  PROVE  SnapOK'
BY DEF SnapOK

LEMMA SnapListed ==
  ASSUME GrafanaCacheOK, Lists("worker"), w'.snap = gcache, w'.pc # "idle"
  PROVE  SnapOK'
BY DEF SnapOK, GrafanaCacheOK, Lists

LEMMA SeenKept ==
  ASSUME SeenOK, Ages("sync"), s'.seen = s.seen
  PROVE  SeenOK'
BY DEF SeenOK, Ages

LEMMA SeenDropped ==
  ASSUME \A g \in Grafanas : "sync" \in gstale'[g]
  PROVE  SeenOK'
BY DEF SeenOK

LEMMA SeenListed ==
  ASSUME GrafanaCacheOK, Lists("sync"), s'.seen = gcache
  PROVE  SeenOK'
BY DEF SeenOK, GrafanaCacheOK, Lists

LEMMA CopyKept ==
  ASSUME WorkerOK, WorkerCopyOK, CRAges,
         w'.pc \in CreatePCs => w.pc \in CreatePCs /\ SameRequest
  PROVE  WorkerCopyOK'
<1> SUFFICES ASSUME w'.pc \in CreatePCs, "worker" \notin crstale'[w'.key]
             PROVE  w'.cr.json = cr'[w'.key].json /\ w'.cr.uid = cr'[w'.key].uid
  BY DEF WorkerCopyOK
<1>1. w.pc \in CreatePCs /\ SameRequest /\ w.key \in Names
  BY DEF WorkerOK, WorkerShape, CreatePCs
<1>2. QED BY <1>1 DEF WorkerCopyOK, CRAges, SameRequest

LEMMA SameListsShrink == SameLists => Shrinks /\ LosesDead
BY DEF SameLists, Shrinks, LosesDead

LEMMA NotRecording == w'.pc # "delRecord" => RecordOK'
BY DEF RecordOK

LEMMA StillRecording ==
  ASSUME TS, RecordOK, UNCHANGED w, NoneStored
  PROVE  RecordOK'
<1> SUFFICES ASSUME w.pc = "delRecord"
             PROVE  LET list == w.snap[w.g].list[w.key]
                    IN  Listed(list) /\ store'[w.g][w.key][Find(list)] = Absent
  BY DEF RecordOK
<1>1. w.g \in Grafanas /\ w.key \in Names
  BY DEF TS, WorkerOK, WorkerShape
<1>2. w.snap[w.g].list[w.key] \in Seq(Uids)
  BY <1>1 DEF TS, WorkerOK, Worker, GrafanaCopies, GrafanaResource
<1>3. Listed(w.snap[w.g].list[w.key]) => Find(w.snap[w.g].list[w.key]) \in Uids
  BY <1>2 DEF Listed, Find
<1>4. QED BY <1>1, <1>3, SMTT(30) DEF RecordOK, NoneStored

\* A step of the worker that writes to no resource
LEMMA WorkerLocal ==
  ASSUME TS, IInv, UNCHANGED <<crVars, grafanaVars, workVars, s>>, StoreTypes', WorkerOK',
         w'.snap = w.snap, Creates \/ Deletes, RecordOK'
  PROVE  StepFacts
<1> USE DEF IInv, CopiesOK
<1>1. CRPart /\ CRAges /\ GrafanaPart /\ Ages("worker") /\ Ages("sync") /\ SameLists
  BY CRKept, GrafanaKept DEF TS, ClusterTypes
<1>2. w.pc # "idle" /\ w'.pc # "idle"
  BY DEF Creates, Deletes, CreatePCs, DeletePCs
<1>3. SnapOK' /\ SeenOK'
  BY <1>1, <1>2, SnapKept, SeenKept
<1>4. w'.pc \in CreatePCs => w.pc \in CreatePCs /\ SameRequest
  BY DEF Creates, Deletes, CreatePCs, DeletePCs
<1>5. WorkerCopyOK'
  BY <1>1, <1>4, CopyKept DEF TS
<1>6. QueueTypes' /\ SyncOK'
  BY DEF TS, ClusterTypes, QueueTypes, workVars, SyncOK, SyncShape
<1>7. TS'
  BY <1>1, <1>6 DEF TS, ClusterTypes, CRPart, GrafanaPart
<1>8. QED BY <1>1, <1>3, <1>5, <1>7, SameListsShrink DEF StepFacts, WorkerMoves, SyncMoves

-----------------------------------------------------------------------------
(* The worker's steps that write to no resource *)

LEMMA WorkerFields ==
  ASSUME TS
  PROVE  /\ w.todo \in SUBSET Grafanas /\ w.g \in Grafanas \cup {Absent}
         /\ w.exists \in BOOLEAN /\ w.snap \in GrafanaCopies /\ w.cr \in Resource
         /\ w.pc # "idle" => w.key \in Names
BY DEF TS, WorkerOK, WorkerShape, Worker

\* A pass over the matching Grafanas goes on.
LEMMA CreateMove ==
  ASSUME TS, IInv, UNCHANGED <<crVars, grafanaVars, workVars, s>>, StoreTypes',
         w.pc \in CreatePCs, NEW pc \in CreatePCs, NEW todo \in SUBSET Grafanas,
         NEW g \in Grafanas \cup {Absent}, NEW exists \in BOOLEAN, Moves(pc, todo, g, exists),
         pc \in {"push", "record", "hash"} => g \in Grafanas
  PROVE  StepFacts
<1>1. /\ w' \in Worker /\ w'.pc = pc /\ w'.g = g
      /\ w'.key = w.key /\ w'.cr = w.cr /\ w'.snap = w.snap
  BY MovesType DEF TS, WorkerOK
<1>2. pc # "delNext" /\ pc # "delRecord" /\ w.pc # "idle"
  BY DEF CreatePCs
<1>3. WorkerOK'
  BY <1>1, <1>2 DEF TS, WorkerOK, WorkerShape
<1>4. Creates
  BY <1>1 DEF Creates, SameRequest
<1>5. QED BY <1>1, <1>2, <1>3, <1>4, NotRecording, WorkerLocal

\* ... or it is on to the next Grafana.
LEMMA NextMove ==
  ASSUME TS, IInv, UNCHANGED <<crVars, grafanaVars, workVars, s>>, StoreTypes',
         w.pc \in CreatePCs, NEW todo \in SUBSET Grafanas, Moves("next", todo, Absent, FALSE)
  PROVE  StepFacts
<1>1. PICK pc \in CreatePCs : pc = "next"
  BY DEF CreatePCs
<1>2. PICK exists \in BOOLEAN : exists = FALSE
  OBVIOUS
<1>3. Moves(pc, todo, Absent, exists)
  BY <1>1, <1>2
<1>4. QED BY <1>1, <1>3, CreateMove

LEMMA SkipFacts ==
  ASSUME TS, IInv, NEW g \in Grafanas, SkipNotReady(g)
  PROVE  StepFacts
<1>1. Moves("next", w.todo \ {g}, w.g, w.exists)
  BY WorkerFields DEF SkipNotReady, Moves, TS, WorkerOK, Worker
<1>2. UNCHANGED <<crVars, grafanaVars, workVars, s, store, folders>> /\ w.pc = "next"
  BY DEF SkipNotReady, clusterVars, crVars, grafanaVars, workVars
<1>3. QED BY <1>1, <1>2, WorkerFields, CreateMove DEF TS, ClusterTypes, StoreTypes, CreatePCs

\* On to the next Grafana
LEMMA ContinueMoves ==
  ASSUME TS, NEW todo \in SUBSET Grafanas, w' = [Continue EXCEPT !.todo = todo]
  PROVE  Moves("next", todo, Absent, FALSE)
BY DEF Continue, Moves, TS, WorkerOK, Worker

LEMMA JustContinueMoves ==
  ASSUME TS, w' = Continue
  PROVE  Moves("next", w.todo, Absent, FALSE)
BY DEF Continue, Moves, TS, WorkerOK, Worker

LEMMA HashMoves ==
  ASSUME TS, NEW pc, w' = [w EXCEPT !.pc = pc]
  PROVE  Moves(pc, w.todo, w.g, w.exists)
BY DEF Moves, TS, WorkerOK, Worker

LEMMA ExistsFacts ==
  ASSUME TS, IInv, NEW g \in Grafanas, NEW o, Exists(g, o)
  PROVE  StepFacts
<1>1. UNCHANGED <<crVars, grafanaVars, workVars, s, store, folders>> /\ w.pc = "next"
  BY DEF Exists, LookUp, clusterVars, crVars, grafanaVars, workVars
<1>2. w.todo \ {g} \in SUBSET Grafanas
  BY WorkerFields
<1>3. PICK exists \in BOOLEAN : exists = (store[g][w.key][w.cr.uid] # Absent)
  OBVIOUS
<1>4. \/ w' = [Continue EXCEPT !.todo = w.todo \ {g}]
      \/ w' = [w EXCEPT !.pc = "push", !.todo = w.todo \ {g}, !.g = g, !.exists = exists]
  BY <1>3 DEF Exists, LookUp, Continue
<1>5. \/ Moves("next", w.todo \ {g}, Absent, FALSE)
      \/ Moves("push", w.todo \ {g}, g, exists)
  BY <1>2, <1>4, ContinueMoves DEF Moves
<1>6. w.pc \in CreatePCs /\ StoreTypes' /\ "push" \in CreatePCs
  BY <1>1 DEF TS, ClusterTypes, StoreTypes, CreatePCs
<1>7. CASE Moves("next", w.todo \ {g}, Absent, FALSE)
  BY <1>1, <1>2, <1>6, <1>7, NextMove
<1>8. CASE Moves("push", w.todo \ {g}, g, exists)
  BY <1>1, <1>2, <1>6, <1>8, CreateMove
<1>9. QED BY <1>5, <1>7, <1>8

LEMMA UpdateFacts ==
  ASSUME TS, IInv, NEW o, UpdateFolder(o)
  PROVE  StepFacts
<1>1. /\ UNCHANGED <<crVars, grafanaVars, workVars, s>> /\ w.pc = "push"
      /\ w.g \in Grafanas /\ w.key \in Names /\ w.cr.json \in Contents \cup {Absent}
  BY WorkerFields DEF UpdateFolder, TS, WorkerOK, WorkerShape, Resource
<1>2. StoreTypes'
  BY <1>1, WriteStoreType DEF UpdateFolder, TS, ClusterTypes, StoreTypes
<1>3. Moves("hash", w.todo, w.g, w.exists) \/ Moves("next", w.todo, Absent, FALSE)
  BY HashMoves, JustContinueMoves DEF UpdateFolder
<1>4. w.pc \in CreatePCs /\ "hash" \in CreatePCs
  BY <1>1 DEF CreatePCs
<1>5. CASE Moves("next", w.todo, Absent, FALSE)
  BY <1>1, <1>2, <1>4, <1>5, WorkerFields, NextMove
<1>6. CASE Moves("hash", w.todo, w.g, w.exists)
  BY <1>1, <1>2, <1>4, <1>6, WorkerFields, CreateMove
<1>7. QED BY <1>3, <1>5, <1>6

LEMMA NewFolderFacts ==
  ASSUME TS, IInv, NEW o, NewFolder(o)
  PROVE  StepFacts
<1>1. /\ UNCHANGED <<crVars, grafanaVars, workVars, s>> /\ w.pc = "push"
      /\ w.g \in Grafanas /\ w.key \in Names /\ w.cr.json \in Contents \cup {Absent}
  BY WorkerFields DEF NewFolder, TS, WorkerOK, WorkerShape, Resource
<1>2. store' = store \/ store' = [store EXCEPT ![w.g][w.key][w.cr.uid] = w.cr.json]
  BY DEF NewFolder
<1>3. StoreTypes'
  BY <1>1, <1>2, WriteStoreType DEF NewFolder, TS, ClusterTypes, StoreTypes
<1>4. w' = [w EXCEPT !.pc = "record"] \/ w' = Continue
  BY DEF NewFolder
<1>5. Moves("record", w.todo, w.g, w.exists) \/ Moves("next", w.todo, Absent, FALSE)
  BY <1>4, HashMoves, JustContinueMoves
<1>6. w.pc \in CreatePCs /\ "record" \in CreatePCs
  BY <1>1 DEF CreatePCs
<1>7. CASE Moves("next", w.todo, Absent, FALSE)
  BY <1>1, <1>3, <1>6, <1>7, WorkerFields, NextMove
<1>8. CASE Moves("record", w.todo, w.g, w.exists)
  BY <1>1, <1>3, <1>6, <1>8, WorkerFields, CreateMove
<1>9. QED BY <1>5, <1>7, <1>8

LEMMA DeleteFolderFacts ==
  ASSUME TS, IInv, NEW g \in Grafanas, NEW o, DeleteFolder(g, o)
  PROVE  StepFacts
<1> DEFINE list == w.snap[g].list[w.key]
           u == Find(list)
<1>1. /\ UNCHANGED <<crVars, grafanaVars, workVars, s, folders>> /\ w.pc = "delNext"
      /\ g \in w.todo /\ w.key \in Names
      /\ store' = IF o = "fail" THEN store ELSE [store EXCEPT ![g][w.key][u] = Absent]
  BY WorkerFields DEF DeleteFolder, DeleteListed
<1>2. list \in Seq(Uids) /\ Listed(list) /\ u \in Uids
  <2>1. list \in Seq(Uids)
    BY <1>1, WorkerFields DEF GrafanaCopies, GrafanaResource
  <2>2. Listed(list)
    BY <1>1 DEF TS, WorkerOK, WorkerShape
  <2>3. QED BY <2>1, <2>2 DEF Listed, Find
<1> HIDE DEF list, u
<1>3. StoreTypes'
  BY <1>1, WriteStoreType DEF TS, ClusterTypes, StoreTypes
<1>4. w.todo \ {g} \in SUBSET Grafanas /\ w.exists \in BOOLEAN
  BY WorkerFields
<1>5. PICK pc \in {"delRecord", "error"} : pc = IF o = "ok" THEN "delRecord" ELSE "error"
  OBVIOUS
<1>6. w' = [w EXCEPT !.pc = pc, !.todo = w.todo \ {g}, !.g = g]
  BY <1>5 DEF DeleteFolder, DeleteListed
<1>7. Moves(pc, w.todo \ {g}, g, w.exists)
  BY <1>6 DEF Moves, TS, WorkerOK, Worker
<1>8. /\ w' \in Worker /\ w'.pc = pc /\ w'.todo = w.todo \ {g} /\ w'.g = g
      /\ w'.key = w.key /\ w'.cr = w.cr /\ w'.snap = w.snap
  BY <1>4, <1>7, MovesType DEF TS, WorkerOK, DeletePCs
<1>9. WorkerOK'
  <2>1. \A h \in w'.todo : Listed(w'.snap[h].list[w'.key])
    BY <1>1, <1>8 DEF TS, WorkerOK, WorkerShape
  <2>2. w'.key \in Names /\ w'.g \in Grafanas /\ w'.pc \notin CreatePCs
    BY <1>1, <1>8 DEF CreatePCs
  <2>3. w'.pc \in {"delRecord", "error"}
    BY <1>8
  <2>4. QED BY <1>8, <2>1, <2>2, <2>3 DEF WorkerOK, WorkerShape
<1>10. Deletes
  BY <1>1, <1>8 DEF Deletes, DeletePCs, SameRequest
<1>11. RecordOK'
  <2>1. CASE o # "ok"
    BY <1>5, <1>8, <2>1, NotRecording
  <2>2. CASE o = "ok"
    <3>1. store' = [store EXCEPT ![g][w.key][u] = Absent]
      BY <1>1, <2>2
    <3>2. store'[g][w.key][u] = Absent
      BY <1>1, <1>2, <3>1 DEF TS, ClusterTypes, StoreTypes, Stores
    <3>3. QED BY <1>2, <1>8, <3>2 DEF RecordOK, list, u
  <2>3. QED BY <2>1, <2>2
<1>12. QED BY <1>1, <1>3, <1>8, <1>9, <1>10, <1>11, WorkerLocal

-----------------------------------------------------------------------------
(* The worker's writes of the status lists *)

\* What both writers of a list do to the lists, if their copy is current
LEMMA ListWritten ==
  ASSUME TS, IInv, NEW list \in Seq(Uids), NEW o, w.pc # "idle", w.g \in Grafanas,
         o # "fail" => "worker" \notin gstale[w.g],
         WriteList(w.g, list, o), UNCHANGED gcache
  PROVE  /\ GrafanaPart /\ Ages("worker") /\ Ages("sync")
         /\ \A g \in Grafanas, n \in Names :
              \/ grafana'[g].list[n] = grafana[g].list[n]
              \/ /\ g = w.g /\ n = w.key /\ grafana'[g].list[n] = list
                 /\ grafana[g].list[n] = w.snap[g].list[n]
<1> USE DEF IInv, CopiesOK
<1>1. CASE o = "fail"
  BY <1>1, GrafanaKept DEF WriteList, TS, ClusterTypes, grafanaVars, SameLists
<1>2. CASE o # "fail"
  <2> DEFINE new == [w.snap[w.g] EXCEPT !.list[w.key] = list]
  <2>1. w.snap[w.g] \in GrafanaResource /\ w.key \in Names
    BY WorkerFields DEF GrafanaCopies
  <2>2. /\ new \in GrafanaResource
        /\ \A n \in Names : new.list[n] = IF n = w.key THEN list ELSE w.snap[w.g].list[n]
    <3>1. w.snap[w.g].list \in [Names -> Seq(Uids)]
      BY <2>1 DEF GrafanaResource
    <3>2. [w.snap[w.g].list EXCEPT ![w.key] = list] \in [Names -> Seq(Uids)]
      BY <3>1, ExceptType
    <3>3. new = [w.snap[w.g] EXCEPT !.list = [w.snap[w.g].list EXCEPT ![w.key] = list]]
      BY <2>1 DEF GrafanaResource
    <3>4. QED BY <2>1, <3>1, <3>2, <3>3, ZenonT(60) DEF GrafanaResource
  <2>3. WriteGrafana(w.g, new)
    BY <1>2 DEF WriteList
  <2> HIDE DEF new
  <2>4. GrafanaPart /\ Ages("worker") /\ Ages("sync")
    BY <2>2, <2>3, GrafanaWritten DEF TS, ClusterTypes
  <2>5. \A g \in Grafanas : grafana'[g] = IF g = w.g THEN new ELSE grafana[g]
    BY <2>3 DEF WriteGrafana, TS, ClusterTypes, GrafanaTypes, GrafanaCopies
  <2>6. w.snap[w.g] = grafana[w.g]
    BY <1>2 DEF SnapOK
  <2>7. QED BY <2>2, <2>4, <2>5, <2>6
<1>3. QED BY <1>1, <1>2

\* A step of the worker that writes lists only
LEMMA ListFacts ==
  ASSUME TS, IInv, UNCHANGED <<crVars, workVars, s, store, folders>>, WorkerOK',
         w'.snap = w.snap, Creates \/ Deletes, RecordOK',
         GrafanaPart, Ages("worker"), Ages("sync"), Shrinks \/ Records, LosesDead
  PROVE  StepFacts
<1> USE DEF IInv, CopiesOK
<1>1. CRPart /\ CRAges
  BY CRKept DEF TS, ClusterTypes
<1>2. w.pc # "idle" /\ w'.pc # "idle"
  BY DEF Creates, Deletes, CreatePCs, DeletePCs
<1>3. SnapOK' /\ SeenOK'
  BY <1>2, SnapKept, SeenKept
<1>4. w'.pc \in CreatePCs => w.pc \in CreatePCs /\ SameRequest
  BY DEF Creates, Deletes, CreatePCs, DeletePCs
<1>5. WorkerCopyOK'
  BY <1>1, <1>4, CopyKept DEF TS
<1>6. QueueTypes' /\ SyncOK' /\ StoreTypes'
  BY DEF TS, ClusterTypes, QueueTypes, workVars, SyncOK, SyncShape, StoreTypes
<1>7. TS'
  BY <1>1, <1>6 DEF TS, ClusterTypes, CRPart, GrafanaPart
<1>8. QED BY <1>1, <1>3, <1>5, <1>7 DEF StepFacts, WorkerMoves, SyncMoves

LEMMA RecordFacts ==
  ASSUME TS, IInv, NEW o, RecordFolder(o)
  PROVE  StepFacts
<1> DEFINE list == Add(w.snap[w.g].list[w.key], w.cr.uid)
<1>1. /\ UNCHANGED <<crVars, gcache, workVars, s, store, folders>>
      /\ w.pc = "record" /\ w.pc \in CreatePCs /\ w.pc # "idle"
      /\ o # "fail" => "worker" \notin gstale[w.g]
      /\ WriteList(w.g, list, o)
  BY DEF RecordFolder, RecordUid, KubeOutcomes, grafanaDB, CreatePCs
<1>2. w.g \in Grafanas /\ w.key \in Names /\ w.cr.uid \in Uids
  BY <1>1 DEF TS, WorkerOK, WorkerShape
<1>3. w.snap[w.g].list[w.key] \in Seq(Uids)
  BY <1>2, WorkerFields DEF GrafanaCopies, GrafanaResource
<1>4. list \in Seq(Uids) /\ Entries(list) = Entries(w.snap[w.g].list[w.key]) \cup {w.cr.uid}
  BY <1>2, <1>3, AddType, AddEntries
<1> HIDE DEF list
<1>5. /\ GrafanaPart /\ Ages("worker") /\ Ages("sync")
      /\ \A g \in Grafanas, n \in Names :
           \/ grafana'[g].list[n] = grafana[g].list[n]
           \/ /\ g = w.g /\ n = w.key /\ grafana'[g].list[n] = list
              /\ grafana[g].list[n] = w.snap[g].list[n]
  BY <1>1, <1>2, <1>4, ListWritten
<1>6. \A g \in Grafanas, n \in Names :
        \/ Entries(grafana'[g].list[n]) = Entries(grafana[g].list[n])
        \/ /\ n = w.key
           /\ Entries(grafana'[g].list[n]) = Entries(grafana[g].list[n]) \cup {w.cr.uid}
  BY <1>4, <1>5
<1>7. LosesDead
  BY <1>6 DEF LosesDead
<1>8. \/ Moves("hash", w.todo, w.g, w.exists)
      \/ Moves("next", w.todo, Absent, FALSE)
  BY HashMoves, JustContinueMoves DEF RecordFolder, RecordUid
<1>9. /\ w' \in Worker /\ w'.pc \in CreatePCs /\ w'.pc \in {"hash", "next"}
      /\ w'.pc = "hash" => w'.g = w.g
      /\ w'.key = w.key /\ w'.cr = w.cr /\ w'.snap = w.snap
  <2>1. "hash" \in CreatePCs /\ "next" \in CreatePCs
    BY DEF CreatePCs
  <2>2. PICK pc \in CreatePCs \cup DeletePCs, g \in Grafanas \cup {Absent}, exists \in BOOLEAN :
          Moves(pc, w.todo, g, exists) /\ ((pc = "hash" /\ g = w.g) \/ pc = "next")
    <3>1. w.todo \in SUBSET Grafanas /\ w.g \in Grafanas \cup {Absent} /\ w.exists \in BOOLEAN
      BY WorkerFields
    <3>2. PICK hash \in CreatePCs, next \in CreatePCs, no \in BOOLEAN :
            hash = "hash" /\ next = "next" /\ no = FALSE
      BY <2>1
    <3>3. Moves(hash, w.todo, w.g, w.exists) \/ Moves(next, w.todo, Absent, no)
      BY <1>8, <3>2
    <3>4. CASE Moves(hash, w.todo, w.g, w.exists)
      BY <3>1, <3>2, <3>4
    <3>5. CASE Moves(next, w.todo, Absent, no)
      BY <3>1, <3>2, <3>5
    <3>6. QED BY <3>3, <3>4, <3>5
  <2>3. w \in Worker /\ w.todo \in SUBSET Grafanas
    BY WorkerFields DEF TS, WorkerOK
  <2>4. QED BY <2>1, <2>2, <2>3, MovesType
<1>10. WorkerOK'
  BY <1>1, <1>2, <1>9 DEF TS, WorkerOK, WorkerShape
<1>11. Creates /\ Records
  BY <1>1, <1>6, <1>9 DEF Creates, SameRequest, Records
<1>12. RecordOK'
  BY <1>9, NotRecording
<1>13. QED BY <1>1, <1>5, <1>7, <1>9, <1>10, <1>11, <1>12, ListFacts

LEMMA RemoveFacts ==
  ASSUME TS, IInv, NEW o, RemoveRecord(o)
  PROVE  StepFacts
<1>1. /\ UNCHANGED <<crVars, gcache, workVars, s, store, folders>>
      /\ w.pc = "delRecord" /\ w.pc \in DeletePCs /\ w.pc # "idle" /\ w.pc # "delList"
      /\ o # "fail" => "worker" \notin gstale[w.g]
  BY DEF RemoveRecord, KubeOutcomes, grafanaDB, DeletePCs
<1>2. w.g \in Grafanas /\ w.key \in Names
  BY <1>1 DEF TS, WorkerOK, WorkerShape
<1>3. /\ GrafanaPart /\ Ages("worker") /\ Ages("sync")
      /\ \A g \in Grafanas, n \in Names :
           \/ grafana'[g].list[n] = grafana[g].list[n]
           \/ n = w.key /\ grafana'[g].list[n] = <<>>
  <2>1. PICK list \in Seq(Uids) : list = <<>>
    BY EmptyList
  <2>2. WriteList(w.g, list, o)
    BY <2>1 DEF RemoveRecord, Remove
  <2>3. /\ GrafanaPart /\ Ages("worker") /\ Ages("sync")
        /\ \A g \in Grafanas, n \in Names :
             grafana'[g].list[n] = grafana[g].list[n] \/ (n = w.key /\ grafana'[g].list[n] = list)
    BY <1>1, <1>2, <2>2, ListWritten
  <2>4. QED BY <2>1, <2>3
<1>4. Shrinks
  BY <1>3, NoEntries DEF Shrinks
<1>5. ListedDead(grafana, w.key)
  BY <1>1 DEF IInv, DeleteOK
<1>6. LosesDead
  BY <1>3, <1>5 DEF LosesDead, ListedDead
<1>7. PICK pc \in {"delNext", "error"} : pc = IF o = "ok" THEN "delNext" ELSE "error"
  OBVIOUS
<1>8. Moves(pc, w.todo, Absent, w.exists)
  BY <1>7 DEF RemoveRecord, Moves, TS, WorkerOK, Worker
<1>9. /\ w' \in Worker /\ w'.pc = pc /\ w'.todo = w.todo
      /\ w'.key = w.key /\ w'.cr = w.cr /\ w'.snap = w.snap
  <2>1. pc \in CreatePCs \cup DeletePCs /\ Absent \in Grafanas \cup {Absent}
    BY DEF DeletePCs
  <2>2. w \in Worker /\ w.todo \in SUBSET Grafanas /\ w.exists \in BOOLEAN
    BY WorkerFields DEF TS, WorkerOK
  <2>3. QED BY <1>8, <2>1, <2>2, MovesType
<1>10. WorkerOK'
  <2>1. \A h \in w'.todo : Listed(w'.snap[h].list[w'.key])
    BY <1>1, <1>9 DEF TS, WorkerOK, WorkerShape
  <2>2. w'.key \in Names /\ w'.pc \notin CreatePCs
    BY <1>2, <1>9 DEF CreatePCs
  <2>3. w'.pc \in {"delNext", "error"}
    BY <1>9
  <2>4. QED BY <1>9, <2>1, <2>2, <2>3 DEF WorkerOK, WorkerShape
<1>11. Deletes
  BY <1>1, <1>9 DEF Deletes, DeletePCs, SameRequest
<1>12. RecordOK'
  BY <1>9, NotRecording
<1>13. QED BY <1>1, <1>3, <1>4, <1>6, <1>9, <1>10, <1>11, <1>12, ListFacts

-----------------------------------------------------------------------------
(* The worker's steps that read the caches, or write a resource *)

LEMMA DequeueFacts ==
  ASSUME TS, IInv, NEW n \in Names, Dequeue(n)
  PROVE  StepFacts
<1> USE DEF IInv, CopiesOK
<1>1. /\ w.pc = "idle" /\ queue' = queue \ {n}
      /\ UNCHANGED <<cr, crcache, grafanaVars, store, folders, timer, up, s>>
  BY DEF Dequeue, DequeueIf, grafanaDB
<1>2. /\ w'.key = n /\ w'.snap = NoSnap /\ w'.pc # "delRecord"
      /\ \/ /\ Live(crcache[n]) /\ w'.pc = "match" /\ w'.cr = crcache[n]
            /\ w' = [Idle EXCEPT !.pc = "match", !.key = n, !.cr = crcache[n]]
            /\ crstale' = [crstale EXCEPT ![n] = AsOldAsCache(crstale[n], "worker")]
         \/ /\ ~Live(crcache[n]) /\ w'.pc = "delList" /\ UNCHANGED crstale
            /\ w' = [Idle EXCEPT !.pc = "delList", !.key = n]
  <2>1. CASE Live(crcache[n])
    <3>1. /\ w' = [Idle EXCEPT !.pc = "match", !.key = n, !.cr = crcache[n]]
          /\ crstale' = [crstale EXCEPT ![n] = AsOldAsCache(crstale[n], "worker")]
      BY <2>1 DEF Dequeue, DequeueIf
    <3>2. w'.key = n /\ w'.snap = NoSnap /\ w'.pc = "match" /\ w'.cr = crcache[n]
      BY <3>1 DEF Idle
    <3>3. QED BY <2>1, <3>1, <3>2
  <2>2. CASE ~Live(crcache[n])
    <3>1. w' = [Idle EXCEPT !.pc = "delList", !.key = n] /\ UNCHANGED crstale
      BY <2>2 DEF Dequeue, DequeueIf
    <3>2. w'.key = n /\ w'.snap = NoSnap /\ w'.pc = "delList"
      BY <3>1 DEF Idle
    <3>3. QED BY <2>2, <3>1, <3>2
  <2>3. QED BY <2>1, <2>2
<1>3. crcache[n] \in Resource /\ (Live(crcache[n]) => crcache[n].uid \in Uids)
  BY DEF TS, ClusterTypes, CRTypes, LiveHasUid
<1>4. w' \in Worker
  <2>1. CASE w' = [Idle EXCEPT !.pc = "match", !.key = n, !.cr = crcache[n]]
    BY <1>3, <2>1, IdleType DEF Worker, CreatePCs
  <2>2. CASE w' = [Idle EXCEPT !.pc = "delList", !.key = n]
    BY <2>2, IdleType DEF Worker, DeletePCs
  <2>3. QED BY <1>2, <2>1, <2>2
<1>5. WorkerOK'
  BY <1>2, <1>3, <1>4 DEF WorkerOK, WorkerShape, CreatePCs
<1>6. /\ crstale' \in [Names -> SUBSET CRHolders]
      /\ \A m \in Names : "cache" \notin crstale'[m] => "cache" \notin crstale[m]
      /\ w'.pc = "match" /\ "worker" \notin crstale'[n] => "cache" \notin crstale[n]
  BY <1>2 DEF TS, ClusterTypes, CRTypes, AsOldAsCache, CRHolders
<1>7. CRPart
  BY <1>1, <1>6, CRRead DEF TS, ClusterTypes
<1>8. GrafanaPart /\ Ages("sync") /\ SameLists
  BY <1>1, GrafanaKept DEF TS, ClusterTypes
<1>9. SnapOK'
  BY <1>1, SnapDropped DEF SnapOK, grafanaVars
<1>10. SeenOK'
  BY <1>1, <1>8, SeenKept
<1>11. WorkerCopyOK'
  BY <1>1, <1>2, <1>6 DEF WorkerCopyOK, CacheCopyOK, CreatePCs
<1>12. Takes
  BY <1>1, <1>2 DEF Takes
<1>13. QueueTypes' /\ SyncOK' /\ StoreTypes'
  BY <1>1 DEF TS, ClusterTypes, QueueTypes, SyncOK, SyncShape, StoreTypes
<1>14. TS'
  BY <1>5, <1>7, <1>8, <1>13 DEF TS, ClusterTypes, CRPart, GrafanaPart
<1>15. RecordOK' /\ Shrinks /\ LosesDead
  BY <1>2, <1>8, NotRecording, SameListsShrink
<1>16. QED
  BY <1>1, <1>7, <1>8, <1>9, <1>10, <1>11, <1>12, <1>14, <1>15 DEF StepFacts, WorkerMoves, SyncMoves

\* The worker writes the status of the resource it has.
LEMMA StatusWritten ==
  ASSUME TS, IInv, w.pc \in CreatePCs, NEW new \in Resource, NEW o,
         o # "fail" => "worker" \notin crstale[w.key],
         new.uid = w.cr.uid, new.json = w.cr.json,
         IF o = "fail" THEN UNCHANGED <<cr, crstale>>
         ELSE WriteCR(w.key, new, IF o = "ok" THEN {"worker"} ELSE {}),
         UNCHANGED crcache
  PROVE  CRPart /\ CRAges
<1> USE DEF IInv, CopiesOK
<1>1. CASE o = "fail"
  BY <1>1, CRKept DEF crVars, TS, ClusterTypes
<1>2. CASE o # "fail"
  <2>1. PICK by \in SUBSET {"worker"} : by = IF o = "ok" THEN {"worker"} ELSE {}
    OBVIOUS
  <2>2. WriteCR(w.key, new, by)
    BY <1>2, <2>1
  <2>3. w.key \in Names /\ Live(w.cr) /\ w.cr.uid \in Uids
    BY DEF TS, WorkerOK, WorkerShape, CreatePCs
  <2>4. w.cr.json = cr[w.key].json /\ w.cr.uid = cr[w.key].uid /\ "worker" \notin crstale[w.key]
    BY <1>2 DEF WorkerCopyOK
  <2>5. Live(new) /\ new.uid \in Uids /\ new.uid = cr[w.key].uid /\ new.json = cr[w.key].json
    BY <2>3, <2>4 DEF Live
  <2>6. QED BY <2>2, <2>3, <2>4, <2>5, CRWritten DEF TS, ClusterTypes
<1>3. QED BY <1>1, <1>2

LEMMA MatchFacts ==
  ASSUME TS, IInv, NEW o, GetMatchingFolderInstances(o)
  PROVE  StepFacts
<1> USE DEF IInv, CopiesOK
<1> DEFINE matching == {g \in Grafanas : w.key \in gcache[g].matches}
           new == [w.cr EXCEPT !.noMatch = (matching = {})]
           todo == {g \in matching : <<w.key, g>> \notin CrossNamespace}
<1>1. /\ w.pc = "match" /\ w.pc \in CreatePCs
      /\ o # "fail" => "worker" \notin crstale[w.key]
      /\ IF o = "fail" THEN UNCHANGED <<cr, crstale>>
         ELSE WriteCR(w.key, new, IF o = "ok" THEN {"worker"} ELSE {})
      /\ w' = [w EXCEPT !.pc = "next", !.cr = new, !.snap = gcache, !.todo = todo]
      /\ ListGrafanas("worker")
      /\ UNCHANGED <<crcache, grafana, gcache, store, folders, workVars, s>>
  BY DEF GetMatchingFolderInstances, KubeOutcomes, CreatePCs, grafanaDB
<1>2. new \in Resource /\ new.uid = w.cr.uid /\ new.json = w.cr.json
  <2>1. PICK none \in BOOLEAN : none = (matching = {})
    OBVIOUS
  <2>2. new = [w.cr EXCEPT !.noMatch = none]
    BY <2>1
  <2>3. QED BY <2>2, WorkerFields DEF Resource
<1>3. todo \in SUBSET Grafanas /\ gcache \in GrafanaCopies
  BY DEF TS, ClusterTypes, GrafanaTypes
<1> HIDE DEF new, todo
<1>4. CRPart /\ CRAges
  BY <1>1, <1>2, StatusWritten
<1>5. GrafanaPart /\ Lists("worker") /\ SameLists /\ Ages("sync")
  <2>1. PICK reader \in {"worker", "sync"} : reader = "worker"
    OBVIOUS
  <2>2. /\ GrafanaPart /\ Lists(reader) /\ SameLists
        /\ \A who \in {"worker", "sync"} \ {reader} : Ages(who)
    BY <1>1, <2>1, GrafanaListed DEF TS, ClusterTypes
  <2>3. QED BY <2>1, <2>2
<1>6. /\ w' \in Worker /\ w'.pc = "next" /\ w'.key = w.key /\ w'.snap = gcache /\ w'.cr = new
  <2> DEFINE w1 == [w EXCEPT !.pc = "next"]
             w2 == [w1 EXCEPT !.cr = new]
             w3 == [w2 EXCEPT !.snap = gcache]
             w4 == [w3 EXCEPT !.todo = todo]
  <2>1. w' = w4
    BY <1>1
  <2>2. w1 \in Worker /\ w1.pc = "next" /\ w1.key = w.key
    BY DEF TS, WorkerOK, Worker, CreatePCs
  <2> HIDE DEF w1
  <2>3. w2 \in Worker /\ w2.pc = "next" /\ w2.key = w.key /\ w2.cr = new
    BY <1>2, <2>2 DEF Worker
  <2> HIDE DEF w2
  <2>4. w3 \in Worker /\ w3.pc = "next" /\ w3.key = w.key /\ w3.cr = new /\ w3.snap = gcache
    BY <1>3, <2>3 DEF Worker
  <2> HIDE DEF w3
  <2>5. w4 \in Worker /\ w4.pc = "next" /\ w4.key = w.key /\ w4.cr = new /\ w4.snap = gcache
    BY <1>3, <2>4 DEF Worker
  <2>6. QED BY <2>1, <2>5
<1>7. WorkerOK'
  BY <1>1, <1>2, <1>6 DEF TS, WorkerOK, WorkerShape, CreatePCs, Live
<1>8. Creates
  BY <1>1, <1>2, <1>6 DEF Creates, SameRequest, CreatePCs
<1>9. SnapOK' /\ SeenOK'
  BY <1>1, <1>5, <1>6, SnapListed, SeenKept
<1>10. WorkerCopyOK'
  BY <1>4, <1>8, CopyKept DEF TS, Creates
<1>11. QueueTypes' /\ SyncOK' /\ StoreTypes'
  BY <1>1 DEF TS, ClusterTypes, QueueTypes, workVars, SyncOK, SyncShape, StoreTypes
<1>12. TS'
  BY <1>4, <1>5, <1>7, <1>11 DEF TS, ClusterTypes, CRPart, GrafanaPart
<1>13. RecordOK' /\ Shrinks /\ LosesDead
  BY <1>5, <1>6, NotRecording, SameListsShrink
<1>14. QED
  BY <1>1, <1>4, <1>5, <1>8, <1>9, <1>10, <1>12, <1>13 DEF StepFacts, WorkerMoves, SyncMoves

LEMMA StatusFacts ==
  ASSUME TS, IInv, NEW o, UpdateStatus(o)
  PROVE  StepFacts
<1> USE DEF IInv, CopiesOK
<1> DEFINE new == [w.cr EXCEPT !.hash = Hash(w.cr.json)]
<1>1. /\ w.pc = "hash" /\ w.pc \in CreatePCs
      /\ o # "fail" => "worker" \notin crstale[w.key]
      /\ IF o = "fail" THEN UNCHANGED <<cr, crstale>>
         ELSE WriteCR(w.key, new, IF o = "ok" THEN {"worker"} ELSE {})
      /\ w' = [Continue EXCEPT !.cr = new]
      /\ UNCHANGED <<crcache, grafanaVars, store, folders, workVars, s>>
  BY DEF UpdateStatus, KubeOutcomes, CreatePCs, grafanaDB
<1>2. new \in Resource /\ new.uid = w.cr.uid /\ new.json = w.cr.json
  <2>1. w.cr.json \in Contents
    BY <1>1, WorkerFields DEF TS, WorkerOK, WorkerShape, Live, Resource
  <2>2. Hash(w.cr.json) \in {Hash(c) : c \in Contents} \cup {Absent}
    BY <2>1
  <2>3. QED BY <2>2, WorkerFields DEF Resource
<1> HIDE DEF new
<1>3. CRPart /\ CRAges
  BY <1>1, <1>2, StatusWritten
<1>4. GrafanaPart /\ Ages("worker") /\ Ages("sync") /\ SameLists
  BY <1>1, GrafanaKept DEF TS, ClusterTypes
<1>5. w' \in Worker /\ w'.pc = "next" /\ w'.key = w.key /\ w'.snap = w.snap /\ w'.cr = new
  <2> DEFINE w1 == [w EXCEPT !.pc = "next"]
             w2 == [w1 EXCEPT !.g = Absent]
             w3 == [w2 EXCEPT !.cr = new]
  <2>1. w1 \in Worker /\ w1.pc = "next" /\ w1.key = w.key /\ w1.snap = w.snap
    BY DEF TS, WorkerOK, Worker, CreatePCs
  <2>2. PICK no \in BOOLEAN : no = FALSE
    OBVIOUS
  <2>3. w' = [[w2 EXCEPT !.exists = no] EXCEPT !.cr = new]
    BY <1>1, <2>2 DEF Continue
  <2> HIDE DEF w1
  <2>4. w2 \in Worker /\ w2.pc = "next" /\ w2.key = w.key /\ w2.snap = w.snap
    BY <2>1 DEF Worker
  <2> HIDE DEF w2
  <2> DEFINE w4 == [w2 EXCEPT !.exists = no]
  <2>5. w4 \in Worker /\ w4.pc = "next" /\ w4.key = w.key /\ w4.snap = w.snap
    BY <2>4 DEF Worker
  <2>6. w' = [w4 EXCEPT !.cr = new]
    BY <2>3
  <2> HIDE DEF w4
  <2>7. QED BY <1>2, <2>5, <2>6 DEF Worker
<1>6. WorkerOK'
  BY <1>1, <1>2, <1>5 DEF TS, WorkerOK, WorkerShape, CreatePCs, Live
<1>7. Creates
  BY <1>1, <1>2, <1>5 DEF Creates, SameRequest, CreatePCs
<1>8. SnapOK' /\ SeenOK'
  BY <1>1, <1>4, <1>5, SnapKept, SeenKept
<1>9. WorkerCopyOK'
  BY <1>3, <1>7, CopyKept DEF TS, Creates
<1>10. QueueTypes' /\ SyncOK' /\ StoreTypes'
  BY <1>1 DEF TS, ClusterTypes, QueueTypes, workVars, SyncOK, SyncShape, StoreTypes
<1>11. TS'
  BY <1>3, <1>4, <1>6, <1>10 DEF TS, ClusterTypes, CRPart, GrafanaPart
<1>12. RecordOK' /\ Shrinks /\ LosesDead
  BY <1>4, <1>5, NotRecording, SameListsShrink
<1>13. QED
  BY <1>1, <1>3, <1>4, <1>7, <1>8, <1>9, <1>11, <1>12 DEF StepFacts, WorkerMoves, SyncMoves

\* The worker ends its pass.
LEMMA EndFacts ==
  ASSUME TS, IInv, w' = Idle, CRPart, UNCHANGED <<grafana, gcache, store, folders, s>>,
         DropGrafanas("worker"), QueueTypes'
  PROVE  StepFacts
<1> USE DEF IInv, CopiesOK
<1>1. /\ GrafanaPart /\ Ages("sync") /\ SameLists
      /\ \A g \in Grafanas : "worker" \in gstale'[g]
  <2>1. PICK reader \in {"worker", "sync"} : reader = "worker"
    OBVIOUS
  <2>2. /\ GrafanaPart /\ Ages("sync") /\ SameLists
        /\ \A g \in Grafanas : reader \in gstale'[g]
    BY <2>1, GrafanaDropped DEF TS, ClusterTypes
  <2>3. QED BY <2>1, <2>2
<1>2. SnapOK' /\ SeenOK'
  BY <1>1, SnapDropped, SeenKept
<1>3. w'.pc = "idle"
  BY DEF Idle
<1>4. WorkerCopyOK' /\ RecordOK' /\ WorkerOK'
  BY <1>3, NotRecording, IdleOK DEF WorkerCopyOK, CreatePCs
<1>5. SyncOK' /\ StoreTypes'
  BY DEF TS, ClusterTypes, SyncOK, SyncShape, StoreTypes
<1>6. TS'
  BY <1>1, <1>4, <1>5 DEF TS, ClusterTypes, CRPart, GrafanaPart
<1>7. QED
  BY <1>1, <1>2, <1>4, <1>6, SameListsShrink DEF StepFacts, WorkerMoves, SyncMoves

LEMMA FinishFacts ==
  ASSUME TS, IInv, FinishReconcile
  PROVE  StepFacts
<1>1. w.key \in Names
  BY WorkerFields DEF FinishReconcile
<1>2. /\ crstale' \in [Names -> SUBSET CRHolders]
      /\ \A n \in Names : "cache" \notin crstale'[n] => "cache" \notin crstale[n]
  BY <1>1 DEF FinishReconcile, TS, ClusterTypes, CRTypes, CRHolders
<1>3. CRPart
  BY <1>2, CRRead DEF FinishReconcile, TS, ClusterTypes, IInv, CopiesOK
<1>4. QueueTypes'
  BY DEF FinishReconcile, TS, ClusterTypes, QueueTypes, workVars
<1>5. QED BY <1>3, <1>4, EndFacts DEF FinishReconcile, grafanaDB

LEMMA FinishDeleteFacts ==
  ASSUME TS, IInv, FinishDelete
  PROVE  StepFacts
<1>1. w.key \in Names
  BY WorkerFields DEF FinishDelete
<1>2. CRPart
  BY CRKept DEF FinishDelete, TS, ClusterTypes, IInv, CopiesOK
<1>3. QueueTypes'
  <2>1. CASE w.pc = "error"
    <3>1. PICK kind \in {"retry", "resync"} : kind = "retry"
      OBVIOUS
    <3>2. AddAfter(w.key, kind) /\ UNCHANGED <<queue, up>>
      BY <2>1, <3>1 DEF FinishDelete
    <3>3. QED BY <1>1, <3>2, AddAfterType DEF TS, ClusterTypes
  <2>2. CASE w.pc # "error"
    BY <2>2 DEF FinishDelete, TS, ClusterTypes, QueueTypes
  <2>3. QED BY <2>1, <2>2
<1>4. QED BY <1>2, <1>3, EndFacts DEF FinishDelete, grafanaDB

LEMMA ListForDeleteFacts ==
  ASSUME TS, IInv, ListForDelete
  PROVE  StepFacts
<1> USE DEF IInv, CopiesOK
<1> DEFINE todo == {g \in Grafanas : Listed(gcache[g].list[w.key])}
<1>1. /\ w.pc = "delList" /\ w.pc \in DeletePCs
      /\ w' = [w EXCEPT !.pc = "delNext", !.snap = gcache, !.todo = todo]
      /\ ListGrafanas("worker")
      /\ UNCHANGED <<crVars, grafana, gcache, store, folders, workVars, s>>
  BY DEF ListForDelete, DeletePCs, grafanaDB
<1>2. CRPart
  BY <1>1, CRKept DEF TS, ClusterTypes
<1>3. GrafanaPart /\ Lists("worker") /\ SameLists /\ Ages("sync")
  <2>1. PICK reader \in {"worker", "sync"} : reader = "worker"
    OBVIOUS
  <2>2. /\ GrafanaPart /\ Lists(reader) /\ SameLists
        /\ \A who \in {"worker", "sync"} \ {reader} : Ages(who)
    BY <1>1, <2>1, GrafanaListed DEF TS, ClusterTypes
  <2>3. QED BY <2>1, <2>2
<1>4. /\ w' \in Worker /\ w'.pc = "delNext" /\ w'.key = w.key /\ w'.cr = w.cr
      /\ w'.snap = gcache /\ w'.todo = todo
  <2>1. todo \in SUBSET Grafanas /\ gcache \in GrafanaCopies
    BY DEF TS, ClusterTypes, GrafanaTypes
  <2> HIDE DEF todo
  <2>2. QED BY <1>1, <2>1 DEF TS, WorkerOK, Worker, DeletePCs
<1>5. WorkerOK'
  BY <1>1, <1>4, WorkerFields DEF WorkerOK, WorkerShape, CreatePCs
<1>6. Deletes
  BY <1>1, <1>4 DEF Deletes, SameRequest, DeletePCs
<1>7. SnapOK' /\ SeenOK'
  BY <1>1, <1>3, <1>4, SnapListed, SeenKept
<1>8. WorkerCopyOK' /\ RecordOK'
  BY <1>4, NotRecording DEF WorkerCopyOK, CreatePCs
<1>9. QueueTypes' /\ SyncOK' /\ StoreTypes'
  BY <1>1 DEF TS, ClusterTypes, QueueTypes, workVars, SyncOK, SyncShape, StoreTypes
<1>10. TS'
  BY <1>2, <1>3, <1>5, <1>9 DEF TS, ClusterTypes, CRPart, GrafanaPart
<1>11. QED
  BY <1>1, <1>2, <1>3, <1>6, <1>7, <1>8, <1>10, SameListsShrink
     DEF StepFacts, WorkerMoves, SyncMoves

-----------------------------------------------------------------------------
(* The sync's steps *)

\* A step of the sync that leaves resources, queue and servers alone
LEMMA SyncFacts ==
  ASSUME TS, IInv, UNCHANGED <<crVars, workVars, w, store, folders>>, SyncOK',
         GrafanaPart, Ages("worker"), SeenOK', SyncMoves, Shrinks, LosesDead
  PROVE  StepFacts
<1> USE DEF IInv, CopiesOK
<1>1. CRPart /\ CRAges
  BY CRKept DEF TS, ClusterTypes
<1>2. SnapOK'
  BY SnapKept
<1>3. WorkerCopyOK'
  BY <1>1, CopyKept DEF TS, SameRequest
<1>4. QueueTypes' /\ StoreTypes' /\ WorkerOK'
  BY DEF TS, ClusterTypes, QueueTypes, workVars, StoreTypes, WorkerOK, WorkerShape
<1>5. RecordOK'
  BY StillRecording DEF NoneStored
<1>6. TS'
  BY <1>1, <1>4 DEF TS, ClusterTypes, CRPart, GrafanaPart
<1>7. QED BY <1>1, <1>2, <1>3, <1>5, <1>6 DEF StepFacts, WorkerMoves

\* ... or the status lists either
LEMMA SyncLocal ==
  ASSUME TS, IInv, UNCHANGED <<clusterVars, w>>, SyncOK', s'.seen = s.seen, SyncMoves
  PROVE  StepFacts
<1>1. UNCHANGED <<crVars, grafanaVars, workVars, w, store, folders>>
  BY DEF clusterVars, crVars, grafanaVars, workVars
<1>2. GrafanaPart /\ Ages("worker") /\ Ages("sync") /\ SameLists
  BY <1>1, GrafanaKept DEF TS, ClusterTypes, IInv, CopiesOK
<1>3. SeenOK'
  BY <1>2, SeenKept DEF IInv, CopiesOK
<1>4. QED BY <1>1, <1>2, <1>3, SameListsShrink, SyncFacts

LEMMA SyncListGrafanasFacts ==
  ASSUME TS, IInv, SyncListGrafanas
  PROVE  StepFacts
<1>1. /\ UNCHANGED <<crVars, grafana, gcache, store, folders, workVars, w>>
      /\ s' = [s EXCEPT !.pc = "list", !.seen = gcache] /\ ListGrafanas("sync")
  BY DEF SyncListGrafanas, grafanaDB
<1>2. GrafanaPart /\ Lists("sync") /\ SameLists /\ Ages("worker")
  <2>1. PICK reader \in {"worker", "sync"} : reader = "sync"
    OBVIOUS
  <2>2. /\ GrafanaPart /\ Lists(reader) /\ SameLists
        /\ \A who \in {"worker", "sync"} \ {reader} : Ages(who)
    BY <1>1, <2>1, GrafanaListed DEF TS, ClusterTypes, IInv, CopiesOK
  <2>3. QED BY <2>1, <2>2
<1>3. s' \in Syncer /\ s'.pc = "list" /\ s'.seen = gcache
  BY <1>1 DEF TS, ClusterTypes, GrafanaTypes, SyncOK, Syncer
<1>4. SyncOK' /\ SyncMoves
  BY <1>3 DEF SyncOK, SyncShape, SyncMoves
<1>5. SeenOK'
  BY <1>2, <1>3, SeenListed DEF IInv, CopiesOK
<1>6. QED BY <1>1, <1>2, <1>4, <1>5, SameListsShrink, SyncFacts

LEMMA SyncListFoldersFacts ==
  ASSUME TS, IInv, SyncListFolders
  PROVE  StepFacts
<1> DEFINE gone == {n \in Names : ~Live(crcache[n])}
           todo == {g \in Grafanas : \E n \in gone : Listed(s.seen[g].list[n])}
<1>1. UNCHANGED <<clusterVars, w>> /\ s' = [s EXCEPT !.pc = "next", !.gone = gone, !.todo = todo]
  BY DEF SyncListFolders
<1>2. gone \in SUBSET Names /\ todo \in SUBSET Grafanas
  OBVIOUS
<1>3. \A n \in gone : n \in Names /\ ~Live(crcache[n])
  OBVIOUS
<1> HIDE DEF gone, todo
<1>4. s' \in Syncer /\ s'.pc = "next" /\ s'.seen = s.seen /\ s'.gone = gone
  BY <1>1, <1>2 DEF TS, SyncOK, Syncer
<1>5. SyncOK' /\ SyncMoves
  BY <1>1, <1>3, <1>4 DEF SyncOK, SyncShape, SyncMoves, clusterVars, crVars
<1>6. QED BY <1>1, <1>4, <1>5, SyncLocal

\* Within a Grafana, and on to the next
LEMMA SyncMoveFacts ==
  ASSUME TS, IInv, UNCHANGED <<clusterVars, w>>, s' \in Syncer, SyncShape',
         s.pc \in {"next", "delete"}, s'.seen = s.seen, s'.gone = s.gone
  PROVE  StepFacts
BY SyncLocal DEF SyncOK, SyncMoves

LEMMA SyncStartFacts ==
  ASSUME TS, IInv, NEW g \in Grafanas, SyncStart(g)
  PROVE  StepFacts
<1> DEFINE left == {e \in s.gone \X Uids : e[2] \in Entries(s.seen[g].list[e[1]])}
           todo == s.todo \ {g}
<1>1. /\ UNCHANGED <<clusterVars, w>> /\ s.pc = "next"
      /\ s' = [s EXCEPT !.pc = "delete", !.g = g, !.todo = todo, !.left = left]
  BY DEF SyncStart
<1>2. todo \in SUBSET Grafanas /\ s.gone \in SUBSET Names
  BY DEF TS, SyncOK, Syncer
<1>3. left \in SUBSET (Names \X Uids)
  BY <1>2
<1> HIDE DEF left, todo
<1>4. s' \in Syncer /\ s'.g = g /\ s'.seen = s.seen /\ s'.gone = s.gone
  BY <1>1, <1>2, <1>3 DEF TS, SyncOK, Syncer
<1>5. QED BY <1>1, <1>4, SyncMoveFacts DEF SyncShape

LEMMA SyncDeleteFacts ==
  ASSUME TS, IInv, NEW e, NEW o, SyncDelete(e, o)
  PROVE  StepFacts
<1>1. /\ UNCHANGED <<clusterVars, w>> /\ s.pc = "delete"
      /\ \/ s' = [s EXCEPT !.left = s.left \ {e}, !.count = s.count + 1]
         \/ s' = [s EXCEPT !.pc = "again"]
  BY DEF SyncDelete
<1>2. /\ s' \in Syncer /\ s'.seen = s.seen /\ s'.gone = s.gone
      /\ s'.pc = "again" \/ s'.g = s.g
  <2>1. s.left \ {e} \in SUBSET (Names \X Uids) /\ s.count + 1 \in Nat
    BY DEF TS, SyncOK, Syncer
  <2>2. CASE s' = [s EXCEPT !.left = s.left \ {e}, !.count = s.count + 1]
    <3>1. /\ s'.seen = s.seen /\ s'.gone = s.gone /\ s'.g = s.g
      BY <2>2 DEF TS, SyncOK, Syncer
    <3>2. PICK left \in SUBSET (Names \X Uids), count \in Nat :
            s' = [s EXCEPT !.left = left, !.count = count]
      BY <2>1, <2>2
    <3>3. s' \in Syncer
      BY <3>2 DEF TS, SyncOK, Syncer
    <3>4. QED BY <3>1, <3>3
  <2>3. CASE s' = [s EXCEPT !.pc = "again"]
    BY <2>3 DEF TS, SyncOK, Syncer
  <2>4. QED BY <1>1, <2>2, <2>3
<1>3. SyncShape'
  BY <1>1, <1>2 DEF SyncShape, TS, SyncOK
<1>4. QED BY <1>1, <1>2, <1>3, SyncMoveFacts

LEMMA SyncUpdateFacts ==
  ASSUME TS, IInv, NEW o, SyncUpdate(o)
  PROVE  StepFacts
<1> USE DEF IInv, CopiesOK
<1> DEFINE shorter == [n \in Names |-> IF n \in s.gone THEN Remove(s.seen[s.g].list[n])
                                       ELSE s.seen[s.g].list[n]]
           new == [s.seen[s.g] EXCEPT !.list = shorter]
<1>1. /\ UNCHANGED <<crVars, gcache, store, folders, workVars, w>> /\ s.pc = "delete"
      /\ o # "fail" => "sync" \notin gstale[s.g]
      /\ IF o = "fail" THEN UNCHANGED <<grafana, gstale>> ELSE WriteGrafana(s.g, new)
  BY DEF SyncUpdate, WriteWithoutGone, KubeOutcomes, grafanaDB
<1>2. s.g \in Grafanas /\ s.seen[s.g] \in GrafanaResource
  BY <1>1 DEF TS, SyncOK, SyncShape, Syncer, GrafanaCopies
<1>3. new \in GrafanaResource /\ new.list = shorter
  <2>1. shorter \in [Names -> Seq(Uids)]
    BY <1>2, EmptyList DEF GrafanaResource, Remove
  <2> HIDE DEF shorter
  <2>2. QED BY <1>2, <2>1 DEF GrafanaResource
<1>4. /\ GrafanaPart /\ Ages("worker") /\ Ages("sync")
      /\ \A g \in Grafanas, n \in Names :
           \/ grafana'[g].list[n] = grafana[g].list[n]
           \/ n \in s.gone /\ grafana'[g].list[n] = <<>> /\ grafana[g].list[n] = s.seen[g].list[n]
  <2>1. CASE o = "fail"
    BY <1>1, <2>1, GrafanaKept DEF TS, ClusterTypes, grafanaVars, SameLists
  <2>2. CASE o # "fail"
    <3>1. WriteGrafana(s.g, new) /\ s.seen[s.g] = grafana[s.g]
      BY <1>1, <1>2, <2>2 DEF SeenOK
    <3>2. \A n \in Names : new.list[n] = IF n \in s.gone THEN <<>> ELSE grafana[s.g].list[n]
      BY <1>3, <3>1 DEF Remove
    <3> HIDE DEF new
    <3>3. \A g \in Grafanas : grafana'[g] = IF g = s.g THEN new ELSE grafana[g]
      BY <3>1 DEF WriteGrafana, TS, ClusterTypes, GrafanaTypes, GrafanaCopies
    <3>4. GrafanaPart /\ Ages("worker") /\ Ages("sync")
      BY <1>1, <1>2, <1>3, <3>1, GrafanaWritten DEF TS, ClusterTypes
    <3>5. QED BY <3>1, <3>2, <3>3, <3>4
  <2>3. QED BY <2>1, <2>2
<1>5. Shrinks
  BY <1>4, NoEntries DEF Shrinks
<1>6. LosesDead
  BY <1>1, <1>4 DEF DeleteOK, LosesDead, ListedDead
<1>7. /\ s' \in Syncer /\ s'.seen = s.seen /\ s'.gone = s.gone
      /\ s'.pc \in {"next", "again"}
  <2>1. PICK pc \in {"next", "again"} : pc = IF o = "ok" THEN "next" ELSE "again"
    OBVIOUS
  <2>2. s' = [s EXCEPT !.pc = pc, !.g = Absent]
    BY <2>1 DEF SyncUpdate, WriteWithoutGone
  <2>3. QED BY <2>2 DEF TS, SyncOK, Syncer
<1>8. SyncOK' /\ SyncMoves
  BY <1>1, <1>7 DEF SyncOK, SyncShape, SyncMoves
<1>9. SeenOK'
  BY <1>4, <1>7, SeenKept
<1>10. QED BY <1>1, <1>4, <1>5, <1>6, <1>8, <1>9, SyncFacts

LEMMA SyncReturnFacts ==
  ASSUME TS, IInv, SyncReturn
  PROVE  StepFacts
<1>1. /\ UNCHANGED <<crVars, grafana, gcache, store, folders, workVars, w>>
      /\ DropGrafanas("sync")
      /\ s' = Waiting \/ s' = [Waiting EXCEPT !.pc = "done"]
  BY DEF SyncReturn, grafanaDB
<1>2. GrafanaPart /\ Ages("worker") /\ SameLists /\ \A g \in Grafanas : "sync" \in gstale'[g]
  <2>1. PICK reader \in {"worker", "sync"} : reader = "sync"
    OBVIOUS
  <2>2. GrafanaPart /\ Ages("worker") /\ SameLists /\ \A g \in Grafanas : reader \in gstale'[g]
    BY <1>1, <2>1, GrafanaDropped DEF TS, ClusterTypes, IInv, CopiesOK
  <2>3. QED BY <2>1, <2>2
<1>3. s' \in Syncer /\ s'.pc \in {"wait", "done"} /\ s'.seen = NoSnap
  BY <1>1, WaitingType DEF Waiting, Syncer
<1>4. SyncOK' /\ SyncMoves /\ SeenOK'
  BY <1>2, <1>3, SeenDropped DEF SyncOK, SyncShape, SyncMoves
<1>5. QED BY <1>1, <1>2, <1>4, SameListsShrink, SyncFacts

-----------------------------------------------------------------------------
(* Everyone else's steps *)

LEMMA SurroundingFacts ==
  ASSUME TS, IInv, SurroundingsPart, UNCHANGED <<w, s>>
  PROVE  StepFacts
<1> USE DEF SurroundingsPart, IInv, CopiesOK
<1>1. SnapOK' /\ SeenOK' /\ WorkerCopyOK'
  BY SnapKept, SeenKept, CopyKept DEF TS, SameRequest
<1>2. WorkerOK' /\ SyncOK'
  BY DEF TS, WorkerOK, WorkerShape, SyncOK, SyncShape
<1>3. RecordOK'
  BY StillRecording
<1>4. QED BY <1>1, <1>2, <1>3, SameListsShrink DEF StepFacts, TS, WorkerMoves, SyncMoves

LEMMA CrashFacts ==
  ASSUME TS, IInv, Crash
  PROVE  StepFacts
<1>1. /\ SurroundingsPart /\ w' = Idle /\ s' = Waiting
      /\ \A g \in Grafanas : "worker" \in gstale'[g] /\ "sync" \in gstale'[g]
  BY CrashStep DEF Crash, TS
<1>2. w'.pc = "idle" /\ s'.pc = "wait" /\ s'.seen = NoSnap
  BY <1>1 DEF Idle, Waiting
<1>3. SnapOK' /\ SeenOK' /\ WorkerCopyOK' /\ RecordOK'
  BY <1>1, <1>2, SnapDropped, SeenDropped, NotRecording DEF WorkerCopyOK, CreatePCs
<1>4. WorkerOK' /\ SyncOK'
  BY <1>1, <1>2, IdleOK, WaitingType DEF SyncOK, SyncShape
<1>5. QED
  BY <1>1, <1>2, <1>3, <1>4, SameListsShrink DEF SurroundingsPart, StepFacts, TS, WorkerMoves, SyncMoves

\* The dashboard controller, the relist
LEMMA ServerFacts ==
  ASSUME TS, IInv, UNCHANGED <<crVars, grafanaVars, w, s>>, StoreTypes', NoneStored, QueueTypes'
  PROVE  StepFacts
<1>1. SurroundingsPart
  BY CRKept, GrafanaKept
     DEF TS, ClusterTypes, IInv, CopiesOK, SurroundingsPart, CRPart, GrafanaPart
<1>2. QED BY <1>1, SurroundingFacts

LEMMA MakesFolderFacts ==
  ASSUME TS, IInv, NEW g \in Grafanas, NEW t \in Folders, DashboardMakesFolder(g, t)
  PROVE  StepFacts
<1>1. StoreTypes' /\ QueueTypes' /\ NoneStored
  BY DEF DashboardMakesFolder, TS, ClusterTypes, StoreTypes, QueueTypes, workVars, NoneStored
<1>2. QED BY <1>1, ServerFacts DEF DashboardMakesFolder

LEMMA DropsFolderFacts ==
  ASSUME TS, IInv, NEW g \in Grafanas, NEW t \in Folders, DashboardDropsFolder(g, t)
  PROVE  StepFacts
<1> DEFINE fewer == [n \in Names |-> [u \in Uids |->
                       IF store[g][n][u] = t THEN Absent ELSE store[g][n][u]]]
<1>1. /\ UNCHANGED <<crVars, grafanaVars, workVars, w, s>>
      /\ folders' = [folders EXCEPT ![g] = folders[g] \ {t}]
      /\ store' = [store EXCEPT ![g] = fewer]
  BY DEF DashboardDropsFolder
<1>2. /\ fewer \in [Names -> [Uids -> Contents \cup {Absent}]]
      /\ \A n \in Names, u \in Uids : fewer[n][u] # Absent => store[g][n][u] # Absent
  BY DEF TS, ClusterTypes, StoreTypes, Stores
<1> HIDE DEF fewer
<1>3. \A h \in Grafanas : store'[h] = IF h = g THEN fewer ELSE store[h]
  BY <1>1 DEF TS, ClusterTypes, StoreTypes, Stores
<1>4. StoreTypes' /\ NoneStored
  BY <1>1, <1>2, <1>3 DEF TS, ClusterTypes, StoreTypes, Stores, NoneStored
<1>5. QueueTypes'
  BY <1>1 DEF TS, ClusterTypes, QueueTypes, workVars
<1>6. QED BY <1>1, <1>4, <1>5, ServerFacts

LEMMA RelistFacts ==
  ASSUME TS, IInv, NEW n \in Names, Relist(n)
  PROVE  StepFacts
<1>1. StoreTypes' /\ QueueTypes' /\ NoneStored
  BY DEF Relist, TS, ClusterTypes, StoreTypes, QueueTypes, grafanaDB, NoneStored
<1>2. QED BY <1>1, ServerFacts DEF Relist

LEMMA StutterFacts ==
  ASSUME TS, IInv, UNCHANGED vars
  PROVE  StepFacts
<1>1. UNCHANGED <<crVars, grafanaVars, workVars, store, folders, w, s>>
  BY DEF vars, clusterVars, crVars, grafanaVars, workVars
<1>2. StoreTypes' /\ QueueTypes' /\ NoneStored
  BY <1>1 DEF TS, ClusterTypes, StoreTypes, QueueTypes, workVars, NoneStored
<1>3. QED BY <1>1, <1>2, ServerFacts

LEMMA NextFacts == TS /\ IInv /\ [Next]_vars => StepFacts
<1> SUFFICES ASSUME TS, IInv, [Next]_vars PROVE StepFacts
  OBVIOUS
<1>1. ASSUME LocalStep PROVE StepFacts
  BY <1>1, DequeueFacts, SkipFacts, FinishFacts, ListForDeleteFacts, FinishDeleteFacts
     DEF LocalStep
<1>2. ASSUME SyncLocalStep PROVE StepFacts
  BY <1>2, SyncListGrafanasFacts, SyncListFoldersFacts, SyncReturnFacts, SyncStartFacts
     DEF SyncLocalStep
<1>3. ASSUME NEW o \in Outcomes, CreateStep(o) PROVE StepFacts
  BY <1>3, MatchFacts, ExistsFacts, UpdateFacts, NewFolderFacts, RecordFacts, StatusFacts
     DEF CreateStep
<1>4. ASSUME NEW o \in Outcomes, DeleteStep(o) PROVE StepFacts
  BY <1>4, DeleteFolderFacts, RemoveFacts DEF DeleteStep
<1>5. ASSUME NEW o \in Outcomes, SyncStep(o) PROVE StepFacts
  BY <1>5, SyncDeleteFacts, SyncUpdateFacts DEF SyncStep
<1>6. ASSUME Env(Outside) PROVE StepFacts
  BY <1>6, OutsideStep, SurroundingFacts DEF Env, TS, IInv, CopiesOK
<1>7. ASSUME Start PROVE StepFacts
  BY <1>7, StartStep, SurroundingFacts DEF Start, TS
<1>8. ASSUME Dashboards PROVE StepFacts
  BY <1>8, MakesFolderFacts, DropsFolderFacts DEF Dashboards
<1>9. QED
  BY <1>1, <1>2, <1>3, <1>4, <1>5, <1>6, <1>7, <1>8, CrashFacts, RelistFacts, StutterFacts
     DEF Next, Controller

-----------------------------------------------------------------------------
(* The invariant is carried over such steps *)

\* What is known to the cache stays so, as a property of the next state.
LEMMA CopiesKnown ==
  ASSUME CRTypes, CacheNotAhead, CRPart
  PROVE  \A copies \in GrafanaCopies : KnownToCache(copies) => KnownAfter(copies)
BY KnownStays

LEMMA CacheOrderStep ==
  ASSUME TS, IInv, StepFacts
  PROVE  CacheOrderOK'
<1> USE DEF IInv, CacheOrderOK, StepFacts
<1>1. CRTypes /\ CRPart /\ GrafanaTypes /\ CacheNotAhead
  BY DEF TS, ClusterTypes
<1>2. CacheNotAhead' /\ \A n \in Names : crcache[n].uid <= crcache'[n].uid
  BY <1>1, CacheAdvances
<1>3. /\ KnownAfter(grafana) /\ KnownAfter(gcache) /\ KnownAfter(NoSnap)
      /\ KnownAfter(w.snap) /\ KnownAfter(s.seen)
  <2>1. /\ grafana \in GrafanaCopies /\ gcache \in GrafanaCopies /\ NoSnap \in GrafanaCopies
        /\ w.snap \in GrafanaCopies /\ s.seen \in GrafanaCopies
    BY <1>1, NoSnapType DEF GrafanaTypes, TS, WorkerOK, Worker, SyncOK, Syncer
  <2>2. KnownToCache(NoSnap)
    BY NoSnapKnown
  <2>3. QED BY <1>1, <2>1, <2>2, CopiesKnown
<1>4. w'.pc \in CreatePCs => w'.cr.uid <= crcache'[w'.key].uid
  <2> SUFFICES ASSUME w'.pc \in CreatePCs PROVE w'.cr.uid <= crcache'[w'.key].uid
    OBVIOUS
  <2>1. CASE Creates \/ UNCHANGED w
    <3>1. /\ w.pc \in CreatePCs /\ w'.key = w.key /\ w'.cr.uid = w.cr.uid
          /\ w.key \in Names /\ w.cr.uid \in Int
      BY <2>1 DEF Creates, SameRequest, TS, WorkerOK, WorkerShape, CreatePCs, Uids
    <3>2. w.cr.uid <= crcache[w.key].uid /\ crcache[w.key].uid <= crcache'[w.key].uid
      BY <1>2, <3>1
    <3>3. crcache[w.key].uid \in Int /\ crcache'[w.key].uid \in Int
      BY <1>1, <3>1 DEF CRPart, CRTypes, Resource
    <3>4. QED BY <3>1, <3>2, <3>3
  <2>2. CASE Takes
    <3>1. PICK n \in Names : w'.key = n /\ w'.cr = crcache[n] /\ crcache' = crcache
      BY <2>2 DEF Takes, CreatePCs
    <3>2. crcache[n].uid \in Int
      BY <1>1 DEF CRTypes, Resource
    <3>3. QED BY <3>1, <3>2
  <2>3. ~Deletes /\ w' # Idle
    BY DEF Deletes, CreatePCs, DeletePCs, Idle
  <2>4. QED BY <2>1, <2>2, <2>3 DEF WorkerMoves
<1>5. KnownToCache(grafana)'
  <2>1. CASE Shrinks
    BY <1>3, <2>1 DEF KnownToCache, KnownAfter, Shrinks
  <2>2. CASE Records
    <3>1. /\ w.pc \in CreatePCs /\ w.key \in Names /\ w.cr.uid \in Int
      BY <2>2 DEF Records, TS, WorkerOK, WorkerShape, CreatePCs, Uids
    <3>2. w.cr.uid <= crcache[w.key].uid /\ crcache[w.key].uid <= crcache'[w.key].uid
      BY <1>2, <3>1
    <3>3. crcache[w.key].uid \in Int /\ crcache'[w.key].uid \in Int
      BY <1>1, <3>1 DEF CRPart, CRTypes, Resource
    <3>4. w.cr.uid <= crcache'[w.key].uid
      BY <3>1, <3>2, <3>3
    <3>5. ASSUME NEW g \in Grafanas, NEW n \in Names, NEW u \in Entries(grafana'[g].list[n])
          PROVE  u <= crcache'[n].uid
      <4>1. u \in Entries(grafana[g].list[n]) \/ (n = w.key /\ u = w.cr.uid)
        BY <2>2, <3>5 DEF Records
      <4>2. CASE u \in Entries(grafana[g].list[n])
        BY <1>3, <4>2 DEF KnownAfter
      <4>3. QED BY <3>4, <4>1, <4>2
    <3>6. QED BY <3>5 DEF KnownToCache
  <2>3. QED BY <2>1, <2>2
<1>6. KnownToCache(gcache)'
  BY <1>3 DEF GrafanaPart, GrafanaCacheStep, KnownToCache, KnownAfter
<1>7. KnownToCache(w.snap)'
  <2>1. w'.snap \in {w.snap, gcache, NoSnap}
    BY DEF WorkerMoves, Takes, Creates, Deletes, SameRequest, Idle
  <2>2. QED BY <1>3, <2>1 DEF KnownToCache, KnownAfter
<1>8. KnownToCache(s.seen)'
  <2>1. s'.seen \in {s.seen, gcache, NoSnap}
    BY DEF SyncMoves
  <2>2. QED BY <1>3, <2>1 DEF KnownToCache, KnownAfter
<1>9. QED BY <1>2, <1>4, <1>5, <1>6, <1>7, <1>8

LEMMA DeadCopies ==
  ASSUME CRTypes, CRPart, NEW n \in Names
  PROVE  \A copies \in GrafanaCopies : ListedDead(copies, n) => ListedDeadAfter(copies, n)
BY ListedStaysDead

LEMMA NotCachedCopies ==
  ASSUME CRTypes, CacheNotAhead, NEW n \in Names, ~Live(crcache[n])
  PROVE  \A copies \in GrafanaCopies : KnownToCache(copies) => ListedDead(copies, n)
BY NotCachedListedDead

LEMMA CopyTypes ==
  ASSUME TS
  PROVE  /\ grafana \in GrafanaCopies /\ gcache \in GrafanaCopies /\ NoSnap \in GrafanaCopies
         /\ w.snap \in GrafanaCopies /\ s.seen \in GrafanaCopies
BY NoSnapType DEF TS, ClusterTypes, GrafanaTypes, WorkerOK, Worker, SyncOK, Syncer

LEMMA WorkerDeleteStep ==
  ASSUME TS, IInv, StepFacts, w'.pc \in DeletePCs
  PROVE  /\ ListedDead(grafana, w.key)' /\ ListedDead(gcache, w.key)'
         /\ w'.pc # "delList" => ListedDead(w.snap, w.key)'
<1> USE DEF IInv, StepFacts
<1>1. CRTypes /\ CRPart /\ CacheNotAhead
  BY DEF TS, ClusterTypes, CacheOrderOK
<1>2. w' # Idle /\ ~Creates /\ ~Records
  BY DEF Creates, Records, CreatePCs, DeletePCs, Idle
<1>3. ASSUME NEW n \in Names, n = w'.key, ListedDead(grafana, n), ListedDead(gcache, n)
      PROVE  ListedDead(grafana, w.key)' /\ ListedDead(gcache, w.key)'
  <2>1. ListedDeadAfter(grafana, n) /\ ListedDeadAfter(gcache, n)
    BY <1>1, <1>3, CopyTypes, DeadCopies
  <2>2. Shrinks /\ \A g \in Grafanas : GrafanaCacheStep(g)
    BY <1>2 DEF GrafanaPart
  <2>3. QED
    BY <1>3, <2>1, <2>2, ZenonT(60)
       DEF ListedDead, ListedDeadAfter, Dead, DeadAfter, Shrinks, GrafanaCacheStep
<1>4. CASE UNCHANGED w \/ Deletes
  <2>1. w.pc \in DeletePCs /\ w'.key = w.key /\ w.key \in Names
    BY <1>4 DEF Deletes, SameRequest, TS, WorkerOK, WorkerShape, DeletePCs
  <2>2. ListedDead(grafana, w.key) /\ ListedDead(gcache, w.key)
    BY <2>1 DEF DeleteOK
  <2>3. ListedDead(grafana, w.key)' /\ ListedDead(gcache, w.key)'
    BY <1>3, <2>1, <2>2
  <2>4. ASSUME w'.pc # "delList" PROVE ListedDead(w.snap, w.key)'
    <3>1. ListedDead(w'.snap, w.key) /\ w'.snap \in GrafanaCopies
      BY <1>4, <2>1, <2>2, <2>4, CopyTypes DEF Deletes, DeleteOK
    <3>2. ListedDeadAfter(w'.snap, w.key)
      BY <1>1, <2>1, <3>1, DeadCopies
    <3>3. QED BY <2>1, <3>2 DEF ListedDead, ListedDeadAfter, Dead, DeadAfter
  <2>5. QED BY <2>3, <2>4
<1>5. CASE Takes
  <2>1. PICK n \in Names : w'.key = n /\ w'.pc = "delList" /\ ~Live(crcache[n])
    BY <1>5 DEF Takes, DeletePCs
  <2>2. ListedDead(grafana, n) /\ ListedDead(gcache, n)
    BY <1>1, <2>1, CopyTypes, NotCachedCopies DEF CacheOrderOK
  <2>3. QED BY <1>3, <2>1, <2>2
<1>6. QED BY <1>2, <1>4, <1>5 DEF WorkerMoves

LEMMA SyncDeleteStep ==
  ASSUME TS, IInv, StepFacts, s'.pc \in {"next", "delete"}, NEW n \in s'.gone
  PROVE  ListedDead(s.seen, n)'
<1> USE DEF IInv, StepFacts
<1>1. CRTypes /\ CRPart /\ CacheNotAhead
  BY DEF TS, ClusterTypes, CacheOrderOK
<1>2. n \in Names /\ s'.seen = s.seen /\ ListedDead(s.seen, n)
  <2>1. CASE UNCHANGED s
    BY <2>1 DEF DeleteOK, TS, SyncOK, Syncer
  <2>2. CASE s.pc \in {"next", "delete"} /\ s'.seen = s.seen /\ s'.gone = s.gone
    BY <2>2 DEF DeleteOK, TS, SyncOK, Syncer
  <2>3. CASE s'.seen = s.seen /\ \A m \in s'.gone : m \in Names /\ ~Live(crcache[m])
    BY <1>1, <2>3, CopyTypes, NotCachedCopies DEF CacheOrderOK
  <2>4. QED BY <2>1, <2>2, <2>3 DEF SyncMoves
<1>3. ListedDeadAfter(s.seen, n)
  BY <1>1, <1>2, CopyTypes, DeadCopies
<1>4. QED BY <1>2, <1>3 DEF ListedDead, ListedDeadAfter, Dead, DeadAfter

LEMMA NextIInv == TS /\ IInv /\ [Next]_vars => TS' /\ IInv'
<1> SUFFICES ASSUME TS, IInv, [Next]_vars PROVE TS' /\ IInv'
  OBVIOUS
<1>1. StepFacts
  BY NextFacts
<1>2. ShapeOK'
  BY <1>1 DEF StepFacts, TS, ClusterTypes, CRTypes, WorkerOK, SyncOK, ShapeOK
<1>3. CopiesOK'
  BY <1>1 DEF StepFacts, CRPart, GrafanaPart, CopiesOK
<1>4. CacheOrderOK'
  BY <1>1, CacheOrderStep
<1>5. DeleteOK'
  BY <1>1, WorkerDeleteStep, SyncDeleteStep DEF DeleteOK
<1>6. QED BY <1>1, <1>2, <1>3, <1>4, <1>5 DEF IInv, StepFacts

LEMMA InitIInv == Init => IInv
<1> SUFFICES ASSUME Init PROVE IInv
  OBVIOUS
<1>1. TS
  BY InitTS
<1>2. w.pc = "idle" /\ s.pc = "wait" /\ w.snap = NoSnap /\ s.seen = NoSnap
  BY DEF Init, Idle, Waiting
<1>3. ShapeOK
  BY <1>1 DEF TS, ClusterTypes, CRTypes, WorkerOK, SyncOK, ShapeOK
<1>4. CopiesOK
  BY <1>2 DEF Init, ClusterInit, CopiesOK, CacheCopyOK, GrafanaCacheOK, SnapOK, SeenOK,
              WorkerCopyOK, CreatePCs
<1>5. CacheOrderOK
  <2>1. CacheNotAhead
    <3>1. crcache = cr /\ \A n \in Names : cr[n].uid \in Int
      BY <1>1 DEF Init, ClusterInit, TS, ClusterTypes, CRTypes, Resource
    <3>2. QED BY <3>1 DEF CacheNotAhead
  <2>2. KnownToCache(grafana) /\ gcache = grafana
    BY NoEntries DEF Init, ClusterInit, KnownToCache
  <2>3. KnownToCache(NoSnap)
    BY NoSnapKnown
  <2>4. QED BY <1>2, <2>1, <2>2, <2>3 DEF CacheOrderOK, CreatePCs
<1>6. DeleteOK /\ RecordOK
  BY <1>2 DEF DeleteOK, RecordOK, DeletePCs
<1>7. QED BY <1>3, <1>4, <1>5, <1>6 DEF IInv

LEMMA Inductive == Spec => [](TS /\ IInv)
BY InitTS, InitIInv, NextIInv, PTL DEF Spec

-----------------------------------------------------------------------------
(* Theorems *)

(* Every variable keeps its type: no write from an outdated copy, no list   *)
(* shortened in place and no crash leaves a malformed resource behind.      *)
THEOREM FolderTypeCorrect == Spec => []TypeOK
<1>1. TS => TypeOK
  BY TSisTypeAndShape
<1>2. QED BY <1>1, Inductive, PTL

(* The inductive invariant: copies nobody overtook are the objects, caches  *)
(* never run ahead of them, and what a delete path holds is dead.           *)
THEOREM FolderInvariance == Spec => []IInv
BY Inductive, PTL

(* No writer of the status drops the entry of a living folder, whatever the *)
(* number of Grafanas and folders and however often they are recreated.     *)
THEOREM NoLiveFolderForgotten == Spec => LiveNotForgotten
<1> DEFINE Kept == \A g \in Grafanas, n \in Names, u \in Uids :
                     u \in Entries(grafana[g].list[n]) /\ u \notin Entries(grafana'[g].list[n])
                     => Dead(n, u)
<1>1. TS /\ IInv /\ [Next]_vars => [Kept]_vars
  BY NextFacts DEF StepFacts, LosesDead
<1>2. Spec => [][Kept]_vars
  BY <1>1, Inductive, PTL DEF Spec
<1>3. QED BY <1>2 DEF LiveNotForgotten

LEMMA ListWriters ==
  ASSUME TS, IInv, [Next]_vars
  PROVE  SameLists \/ \E o \in Outcomes : RecordFolder(o) \/ RemoveRecord(o) \/ SyncUpdate(o)
<1>1. UNCHANGED grafana => SameLists
  BY SMTT(30) DEF SameLists
<1>2. LocalStep \/ SyncLocalStep => UNCHANGED grafana
  BY ZenonT(60)
     DEF LocalStep, SyncLocalStep, Dequeue, DequeueIf, SkipNotReady, FinishReconcile,
         ListForDelete, FinishDelete, SyncListGrafanas, SyncListFolders, SyncReturn, SyncStart,
         clusterVars, grafanaVars
<1>3. ASSUME NEW o \in Outcomes, CreateStep(o) PROVE UNCHANGED grafana \/ RecordFolder(o)
  BY <1>3, ZenonT(60)
     DEF CreateStep, GetMatchingFolderInstances, Exists, LookUp, UpdateFolder, NewFolder,
         UpdateStatus, clusterVars, grafanaVars
<1>4. ASSUME NEW o \in Outcomes, DeleteStep(o) PROVE UNCHANGED grafana \/ RemoveRecord(o)
  BY <1>4 DEF DeleteStep, DeleteFolder, DeleteListed, grafanaVars
<1>5. ASSUME NEW o \in Outcomes, SyncStep(o) PROVE UNCHANGED grafana \/ SyncUpdate(o)
  BY <1>5 DEF SyncStep, SyncDelete, clusterVars
<1>6. Env(Outside) => SameLists
  BY OutsideStep DEF Env, TS, IInv, CopiesOK, SurroundingsPart
<1>7. Crash \/ Start => UNCHANGED grafana
  BY DEF Crash, Start, ClusterCrash, ClusterStart
<1>8. Dashboards \/ (\E n \in Names : Relist(n)) \/ UNCHANGED vars => UNCHANGED grafana
  BY DEF Dashboards, DashboardMakesFolder, DashboardDropsFolder, Relist, grafanaVars, vars,
         clusterVars
<1>9. QED
  BY <1>1, <1>2, <1>3, <1>4, <1>5, <1>6, <1>7, <1>8 DEF Next, Controller

(* An entry the worker takes off a list is that of a folder which has left  *)
(* Grafana: RecordOK holds the answer over the calls in between, and the    *)
(* copy the shorter list is written from is the one it was found in.        *)
THEOREM NoFolderForgottenInGrafana == Spec => GoneBeforeForgotten
<1> DEFINE EntryGone == \A g \in Grafanas, n \in Names :
             LET list == grafana[g].list[n]
             IN w.pc = "delRecord" /\ s' = s /\ Listed(list) /\ ~Listed(grafana'[g].list[n])
                => store[g][n][Find(list)] = Absent
<1>1. TS /\ IInv /\ [Next]_vars => [EntryGone]_vars
  <2> SUFFICES ASSUME TS, IInv, [Next]_vars, NEW g \in Grafanas, NEW n \in Names,
                      w.pc = "delRecord", s' = s,
                      Listed(grafana[g].list[n]), ~Listed(grafana'[g].list[n])
               PROVE  store[g][n][Find(grafana[g].list[n])] = Absent
    OBVIOUS
  <2>1. PICK o \in Outcomes : RecordFolder(o) \/ RemoveRecord(o) \/ SyncUpdate(o)
    BY ListWriters DEF SameLists
  <2>2. ~RecordFolder(o)
    BY DEF RecordFolder, RecordUid
  <2>3. ~SyncUpdate(o)
    <3>1. SUFFICES ASSUME SyncUpdate(o) PROVE FALSE
      OBVIOUS
    <3>2. PICK pc \in {"next", "again"} : s' = [s EXCEPT !.pc = pc, !.g = Absent]
      BY <3>1 DEF SyncUpdate, WriteWithoutGone
    <3>3. s'.pc \in {"next", "again"} /\ s.pc = "delete"
      BY <3>1, <3>2 DEF SyncUpdate, WriteWithoutGone, TS, SyncOK, Syncer
    <3>4. QED BY <3>3
  <2>4. RemoveRecord(o)
    BY <2>1, <2>2, <2>3
  <2>5. /\ w.pc # "idle" /\ w.g \in Grafanas /\ UNCHANGED gcache
        /\ o # "fail" => "worker" \notin gstale[w.g]
    BY <2>4 DEF RemoveRecord, KubeOutcomes, TS, WorkerOK, WorkerShape
  <2>6. PICK list \in Seq(Uids) : WriteList(w.g, list, o)
    BY <2>4, EmptyList DEF RemoveRecord, Remove
  <2>7. g = w.g /\ n = w.key /\ grafana[g].list[n] = w.snap[g].list[n]
    BY <2>5, <2>6, ListWritten
  <2>8. QED BY <2>7 DEF IInv, RecordOK
<1>2. Spec => [][EntryGone]_vars
  BY <1>1, Inductive, PTL DEF Spec
<1>3. QED BY <1>2, SMTT(30) DEF GoneBeforeForgotten
=============================================================================
