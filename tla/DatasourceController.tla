------------------------- MODULE DatasourceController -------------------------
(***************************************************************************)
(* controllers/datasource_controller.go: the worker that reconciles one    *)
(* GrafanaDatasource at a time, and the sync goroutine beside it.  It is    *)
(* organised like the dashboard controller, and differs where it matters:  *)
(* the hash is written before the record and again at the end of every     *)
(* pass, and the deletion stops at the first Grafana that lists the data   *)
(* source.  "store" holds data sources here; Grafana keeps their titles    *)
(* (spec.datasource.name) unique.  A spec without a data source is left    *)
(* out, and so is an edit of the title.                                    *)
(***************************************************************************)
EXTENDS Cluster

CONSTANTS
    CrossNamespace, \* <<name, grafana>> pairs barred by the namespace check
    PluginUsers,    \* names with a spec.plugins
    TitleOf,        \* spec.datasource.name of each name
    BatchSize       \* syncBatchSize

ASSUME DatasourceAssumption ==
    /\ CrossNamespace \subseteq Names \X Grafanas
    /\ PluginUsers \subseteq Names
    /\ DOMAIN TitleOf = Names
    /\ BatchSize \in Nat

ASSUME ItemAssumption == Absent \notin (Names \cup {Absent}) \X Nat

VARIABLES
    w,         \* the worker: its program counter and local variables
    s,         \* the sync goroutine
    message,   \* per name, whether status.lastMessage is not empty
    pluginReq  \* per Grafana, the names whose plugins its ConfigMap lists

vars == <<clusterVars, w, s, message, pluginReq>>

\* key, cr, snap, todo, g as for dashboards; ok: the success flag; err: the copy
\* carries a LastMessage of this pass; id: ExistingId found the data source
Idle == [pc |-> "idle", key |-> Absent, cr |-> Gone(0), snap |-> NoSnap, todo |-> {},
         g |-> Absent, ok |-> TRUE, err |-> FALSE, id |-> FALSE]

\* An id of a database that has been replaced, and that the new one has not yet
\* given to anything
Free == <<Absent, 0>>

\* e: the entry whose data source is being deleted, by the id found for it; named:
\* what that id names in Grafana's database as it is now, if anything
Waiting == [pc |-> "wait", seen |-> NoSnap, gone |-> {}, todo |-> {}, g |-> Absent,
            left |-> {}, e |-> Absent, named |-> Absent, count |-> 0]

CreatePCs == {"match", "next", "exists", "push", "hash", "record"}
DeletePCs == {"delList", "delRead", "delete", "delPlugins", "delRecord", "error"}

\* Another data source of Grafana g has the title of n's.
TitleTaken(g, n, u) ==
    \E m \in Names, v \in Uids :
      /\ <<m, v>> # <<n, u>> /\ TitleOf[m] = TitleOf[n]
      /\ store[g][m][v] # Absent

-----------------------------------------------------------------------------
(* The worker: Reconcile of a resource that exists *)

\* Take a key; its resource is in the cache, or is taken to be deleted.
DequeueIf(n, found) ==
    /\ up /\ w.pc = "idle" /\ n \in queue
    /\ queue' = queue \ {n}
    /\ IF found
         THEN /\ w' = [Idle EXCEPT !.pc = "match", !.key = n, !.cr = crcache[n]]
              /\ crstale' = [crstale EXCEPT ![n] = AsOldAsCache(@, "worker")]
         ELSE /\ w' = [Idle EXCEPT !.pc = "delList", !.key = n]
              /\ UNCHANGED crstale
    /\ UNCHANGED <<cr, crcache, grafanaVars, grafanaDB, timer, up, s, message, pluginReq>>

\* Variant: every error of Get is taken for NotFound.
DequeueAnyError(n) == \E read \in BOOLEAN : DequeueIf(n, read /\ Live(crcache[n]))
Dequeue(n) == DequeueIf(n, Live(crcache[n]))

\* Status().Update of the worker's copy, which is dropped after the last one.
\* The text of a message may change even if there was one before.
WriteStatus(new, text, o, drop) ==
    LET n == w.key
        done == o # "fail"
        changed == new # cr[n] \/ text # message[n]
    IN /\ cr' = IF done THEN [cr EXCEPT ![n] = new] ELSE cr
       /\ message' = IF done THEN [message EXCEPT ![n] = text] ELSE message
       /\ \E bump \in {changed, changed \/ text} :
            crstale' = [crstale EXCEPT ![n] = drop \cup
              IF done /\ bump THEN CRHolders \ (IF o = "ok" THEN {"worker"} ELSE {}) ELSE @]

\* List the matching instances, and say in the status whether there are any.  A
\* failure of that write is logged only.
GetMatchingDatasourceInstances(o) ==
    /\ w.pc = "match" /\ o \in KubeOutcomes("worker" \in crstale[w.key])
    /\ LET matching == {g \in Grafanas : w.key \in gcache[g].matches}
           new == [w.cr EXCEPT !.noMatch = (matching = {})]
       IN /\ IF o = "fail" THEN UNCHANGED <<cr, crstale>>
                           ELSE WriteCR(w.key, new, IF o = "ok" THEN {"worker"} ELSE {})
          /\ w' = [w EXCEPT !.pc = "next", !.cr = new, !.snap = gcache,
                            !.todo = {g \in matching : <<w.key, g>> \notin CrossNamespace}]
    /\ ListGrafanas("worker")
    /\ UNCHANGED <<crcache, grafana, gcache, grafanaDB, workVars, s, message, pluginReq>>

WithHash(c) == [c EXCEPT !.hash = Hash(c.json)]

SkipNotReady(g) ==
    /\ w.pc = "next" /\ g \in w.todo /\ ~w.snap[g].ready
    /\ w' = [w EXCEPT !.todo = @ \ {g}, !.ok = FALSE]
    /\ UNCHANGED <<clusterVars, s, message, pluginReq>>

\* On to the next instance; an error of this one is kept for the status.
Continue == [w EXCEPT !.pc = "next", !.g = Absent, !.id = FALSE]
Failed == [Continue EXCEPT !.ok = FALSE, !.err = TRUE]

\* Next instance: hand over the plugins; an external instance takes none.
StartInstance(g, o) ==
    /\ w.pc = "next" /\ g \in w.todo /\ w.snap[g].ready
    /\ pluginReq' = PluginsAfter(pluginReq, g, w.key, w.key \in PluginUsers, o)
    /\ w' = IF g \notin Internal /\ w.key \in PluginUsers
            THEN [Failed EXCEPT !.todo = @ \ {g}]
            ELSE [w EXCEPT !.pc = "exists", !.todo = @ \ {g}, !.g = g,
                           !.ok = @ /\ (o = "ok" \/ g \notin Internal)]
    /\ UNCHANGED <<clusterVars, s, message>>

\* ExistingId by uid, and the secrets for the variables
ExistingId(o) ==
    /\ w.pc = "exists"
    /\ w' = IF o = "ok" THEN [w EXCEPT !.pc = "push", !.id = store[w.g][w.key][w.cr.uid] # Absent]
            ELSE Failed
    /\ UNCHANGED <<clusterVars, s, message, pluginReq>>

Unchanged(c) == Hash(c.json) = c.hash

\* A new data source gets an id, which may be the one the sync goroutine found
\* in the database there was before.
NewId(g, item) ==
    \/ s' = s
    \/ s.g = g /\ s.named = Free /\ s' = [s EXCEPT !.named = item]

\* The id of a data source that is deleted names nothing any more.
DropId(g, item) ==
    s' = IF s.g = g /\ s.named = item THEN [s EXCEPT !.named = Absent] ELSE s

\* Create it.  A 409, the title or the uid being taken, counts as success.
CreateUnless(skip, o) ==
    /\ w.pc = "push" /\ ~w.id
    /\ LET taken == \/ TitleTaken(w.g, w.key, w.cr.uid)
                    \/ store[w.g][w.key][w.cr.uid] # Absent
       IN IF o = "fail" \/ taken \/ skip THEN UNCHANGED <<store, s>>
          ELSE /\ store' = [store EXCEPT ![w.g][w.key][w.cr.uid] = w.cr.json]
               /\ NewId(w.g, <<w.key, w.cr.uid>>)
    /\ w' = IF o = "ok" THEN [w EXCEPT !.pc = "hash"] ELSE Failed
    /\ UNCHANGED <<crVars, grafanaVars, folders, workVars, message, pluginReq>>

\* Variant: the hash decides alone, whether or not the data source is there.
NewDataSourceIfChanged(o) == CreateUnless(Unchanged(w.cr), o)
NewDataSource(o) == CreateUnless(FALSE, o)

\* Overwrite it by id if the hash differs; refused if it has vanished since.  The
\* worker's ids go stale without harm: only the worker creates data sources, so
\* one it has looked up is there, or its id names nothing.
UpdateDataSource(o) ==
    /\ w.pc = "push" /\ w.id /\ ~Unchanged(w.cr)
    /\ store[w.g][w.key][w.cr.uid] # Absent \/ o = "fail"
    /\ store' = IF o = "fail" THEN store
                ELSE [store EXCEPT ![w.g][w.key][w.cr.uid] = w.cr.json]
    /\ w' = IF o = "ok" THEN [w EXCEPT !.pc = "hash"] ELSE Failed
    /\ UNCHANGED <<crVars, grafanaVars, folders, workVars, s, message, pluginReq>>

SkipUnchanged ==
    /\ w.pc = "push" /\ w.id /\ Unchanged(w.cr)
    /\ w' = Continue
    /\ UNCHANGED <<clusterVars, s, message, pluginReq>>

\* The hash is set in memory whether or not the write succeeds.
UpdateStatus(o) ==
    /\ w.pc = "hash" /\ o \in KubeOutcomes("worker" \in crstale[w.key])
    /\ WriteStatus(WithHash(w.cr), w.err \/ message[w.key], o, {})
    /\ w' = [(IF o = "ok" THEN [w EXCEPT !.pc = "record"] ELSE Failed) EXCEPT !.cr = WithHash(@)]
    /\ UNCHANGED <<crcache, grafanaVars, grafanaDB, workVars, s, pluginReq>>

\* Add the data source to the status of the Grafana resource.
RecordUid(u, o) ==
    /\ w.pc = "record" /\ o \in KubeOutcomes("worker" \in gstale[w.g])
    /\ IF o = "fail" THEN UNCHANGED <<grafana, gstale>>
       ELSE WriteGrafana(w.g, [w.snap[w.g] EXCEPT !.list[w.key] = Add(@, u)])
    /\ w' = IF o = "ok" THEN Continue ELSE Failed
    /\ UNCHANGED <<crVars, gcache, grafanaDB, workVars, s, message, pluginReq>>

\* Variant: the uid of the data source before it was set is recorded.
RecordDatasourceNoUid(o) == RecordUid(0, o)
RecordDatasource(o) == RecordUid(w.cr.uid, o)

\* The loop is over: write the status, the hash of spec.datasource included,
\* whatever the instances answered; then wait for the resync period, or
\* RequeueDelay, or retry if the status was refused.
FinishReconcile(o) ==
    /\ w.pc = "next" /\ w.todo = {}
    /\ o \in KubeOutcomes("worker" \in crstale[w.key])
    /\ WriteStatus(WithHash(w.cr), ~w.ok /\ (w.err \/ message[w.key]), o, {"worker"})
    /\ w' = Idle
    /\ AddAfter(w.key, IF o = "ok" THEN "resync" ELSE "retry")
    /\ DropGrafanas("worker")
    /\ UNCHANGED <<crcache, grafana, gcache, grafanaDB, queue, up, s, pluginReq>>

-----------------------------------------------------------------------------
(* The worker: onDatasourceDeleted *)

\* List the Grafanas; nothing to do if none lists the data source.
ListForDelete ==
    /\ w.pc = "delList"
    /\ w' = IF \E g \in Grafanas : Listed(gcache[g].list[w.key])
            THEN [w EXCEPT !.pc = "delRead", !.snap = gcache] ELSE Idle
    /\ gstale' = [g \in Grafanas |-> IF w'.pc = "idle" THEN gstale[g] \cup {"worker"}
                                     ELSE AsOldAsCache(gstale[g], "worker")]
    /\ UNCHANGED <<crVars, grafana, gcache, grafanaDB, workVars, s, message, pluginReq>>

\* The uid found in the listed status of a Grafana
FoundUid(g) == Find(w.snap[g].list[w.key])

\* The first Grafana that lists it, in no particular order: look the data
\* source up for its id.  An answer of 404 is an error.
ReadDatasource(g, o) ==
    /\ w.pc = "delRead" /\ Listed(w.snap[g].list[w.key])
    /\ w' = IF o = "ok" /\ store[g][w.key][FoundUid(g)] # Absent
            THEN [w EXCEPT !.pc = "delete", !.g = g] ELSE [w EXCEPT !.pc = "error"]
    /\ UNCHANGED <<clusterVars, s, message, pluginReq>>

\* Delete it by id; here a 404 is fine.
DeleteDatasource(o) ==
    /\ w.pc = "delete"
    /\ IF o = "fail" THEN UNCHANGED <<store, s>>
       ELSE /\ store' = [store EXCEPT ![w.g][w.key][FoundUid(w.g)] = Absent]
            /\ DropId(w.g, <<w.key, FoundUid(w.g)>>)
    /\ w' = [w EXCEPT !.pc = IF o = "ok" THEN "delPlugins" ELSE "error"]
    /\ UNCHANGED <<crVars, grafanaVars, folders, workVars, message, pluginReq>>

ClearPlugins(o) ==
    /\ w.pc = "delPlugins"
    /\ pluginReq' = PluginsAfter(pluginReq, w.g, w.key, FALSE, o)
    /\ w' = [w EXCEPT !.pc = IF o = "ok" \/ w.g \notin Internal THEN "delRecord" ELSE "error"]
    /\ UNCHANGED <<clusterVars, s, message>>

\* Write that Grafana's status and return, with the error of the write: other
\* Grafanas that list the data source are not visited.
RemoveRecord(o) ==
    /\ w.pc = "delRecord" /\ o \in KubeOutcomes("worker" \in gstale[w.g])
    /\ LET new == [w.snap[w.g] EXCEPT !.list[w.key] = Remove(@)]
       IN /\ grafana' = IF o = "fail" THEN grafana ELSE [grafana EXCEPT ![w.g] = new]
          /\ gstale' = [g \in Grafanas |->
               IF g = w.g /\ o # "fail" /\ new # grafana[g] THEN GrafanaHolders
               ELSE gstale[g] \cup {"worker"}]
    /\ w' = Idle
    /\ IF o = "ok" THEN UNCHANGED timer ELSE AddAfter(w.key, "retry")
    /\ UNCHANGED <<crVars, gcache, grafanaDB, queue, up, s, message, pluginReq>>

\* Reconcile returns an error: a rate-limited retry.
FinishFailedDelete ==
    /\ w.pc = "error"
    /\ w' = Idle
    /\ AddAfter(w.key, "retry")
    /\ DropGrafanas("worker")
    /\ UNCHANGED <<crVars, grafana, gcache, grafanaDB, queue, up, s, message, pluginReq>>

-----------------------------------------------------------------------------
(* The sync goroutine: syncDatasources *)

SyncListGrafanas ==
    /\ up /\ s.pc = "wait"
    /\ s' = [s EXCEPT !.pc = "list", !.seen = gcache]
    /\ ListGrafanas("sync")
    /\ UNCHANGED <<crVars, grafana, gcache, grafanaDB, workVars, w, message, pluginReq>>

SyncListDatasources ==
    /\ s.pc = "list"
    /\ LET gone == {n \in Names : ~Live(crcache[n])}
       IN s' = [s EXCEPT !.pc = "next", !.gone = gone,
                  !.todo = {g \in Grafanas : \E n \in gone : Listed(s.seen[g].list[n])}]
    /\ UNCHANGED <<clusterVars, w, message, pluginReq>>

StartFrom(g, list) ==
    /\ s.pc = "next" /\ g \in s.todo
    /\ s' = [s EXCEPT !.pc = "delete", !.g = g, !.todo = @ \ {g},
               !.left = {e \in s.gone \X Uids : e[2] \in Entries(list[e[1]])}]
    /\ UNCHANGED <<clusterVars, w, message, pluginReq>>

\* Variant: the entries are taken from the Grafana as it is now.
SyncStartReread(g) == StartFrom(g, gcache[g].list)
SyncStart(g) == StartFrom(g, s.seen[g].list)

\* Look one listed data source up for its id, unless the batch is full.
SyncRead(e, o) ==
    /\ s.pc = "delete" /\ s.e = Absent /\ e \in s.left /\ s.count < BatchSize
    /\ o = "ok" => store[s.g][e[1]][e[2]] # Absent
    /\ s' = IF o = "ok" THEN [s EXCEPT !.e = e, !.named = e] ELSE [s EXCEPT !.pc = "again"]
    /\ UNCHANGED <<clusterVars, w, message, pluginReq>>

\* A 404 is only logged, and the answer used although it is nil.
SyncReadNil(e) ==
    /\ s.pc = "delete" /\ s.e = Absent /\ e \in s.left /\ s.count < BatchSize
    /\ store[s.g][e[1]][e[2]] = Absent
    /\ ClusterCrash /\ w' = Idle /\ s' = Waiting
    /\ UNCHANGED <<message, pluginReq>>

\* Delete what the id names by now.  It names nothing when the worker has deleted
\* it or the database has been replaced; then the answer is 404, an error here.
SyncDelete(o) ==
    /\ s.pc = "delete" /\ s.e # Absent
    /\ s.named \in Items \/ o = "fail"
    /\ store' = IF o = "fail" THEN store
                ELSE [store EXCEPT ![s.g][s.named[1]][s.named[2]] = Absent]
    /\ s' = [s EXCEPT !.e = Absent, !.named = Absent,
               !.pc = IF o = "ok" THEN @ ELSE "again",
               !.left = IF o = "ok" THEN @ \ {s.e} ELSE @,
               !.count = IF o = "ok" THEN @ + 1 ELSE @]
    /\ UNCHANGED <<crVars, grafanaVars, folders, workVars, w, message, pluginReq>>

\* One status update per Grafana, without the names that are gone.
WriteWithoutGone(o) ==
    /\ s.pc = "delete" /\ s.left = {}
    /\ IF o = "fail" THEN UNCHANGED <<grafana, gstale>>
       ELSE WriteGrafana(s.g, [s.seen[s.g] EXCEPT !.list = [n \in Names |->
                                 IF n \in s.gone THEN Remove(@[n]) ELSE @[n]]])
    /\ s' = [s EXCEPT !.pc = IF o = "ok" THEN "next" ELSE "again", !.g = Absent]
    /\ UNCHANGED <<crVars, gcache, grafanaDB, workVars, w, message, pluginReq>>

\* Variant: the update does not carry a resourceVersion.
SyncUpdateForced(o) == WriteWithoutGone(o)
SyncUpdate(o) == WriteWithoutGone(o) /\ o \in KubeOutcomes("sync" \in gstale[s.g])

\* An error or a full batch: start over in the next period; otherwise done.
SyncReturn ==
    /\ \/ s.pc = "again" /\ s' = Waiting
       \/ s.pc = "delete" /\ s.e = Absent /\ s.left # {} /\ s.count >= BatchSize /\ s' = Waiting
       \/ s.pc = "next" /\ s.todo = {} /\ s' = [Waiting EXCEPT !.pc = "done"]
    /\ DropGrafanas("sync")
    /\ UNCHANGED <<crVars, grafana, gcache, grafanaDB, workVars, w, message, pluginReq>>

-----------------------------------------------------------------------------
Crash == ClusterCrash /\ w' = Idle /\ s' = Waiting /\ UNCHANGED <<message, pluginReq>>
Start == ClusterStart /\ UNCHANGED <<w, s, message, pluginReq>>

Init ==
    /\ ClusterInit
    /\ w = Idle /\ s = Waiting
    /\ message = [n \in Names |-> FALSE]
    /\ pluginReq = [g \in Grafanas |-> {}]

CreateStep(o) ==
    \/ GetMatchingDatasourceInstances(o)
    \/ \E g \in Grafanas : StartInstance(g, o)
    \/ ExistingId(o) \/ NewDataSource(o) \/ UpdateDataSource(o)
    \/ UpdateStatus(o) \/ RecordDatasource(o) \/ FinishReconcile(o)

DeleteStep(o) ==
    \/ \E g \in Grafanas : ReadDatasource(g, o)
    \/ DeleteDatasource(o) \/ ClearPlugins(o) \/ RemoveRecord(o)

LocalStep ==
    \/ \E n \in Names : Dequeue(n)
    \/ \E g \in Grafanas : SkipNotReady(g)
    \/ SkipUnchanged \/ ListForDelete \/ FinishFailedDelete

SyncLocalStep ==
    \/ SyncListGrafanas \/ SyncListDatasources \/ SyncReturn
    \/ \E g \in Grafanas : SyncStart(g)
    \/ \E e \in Items : SyncReadNil(e)

SyncStep(o) ==
    \/ \E e \in Items : SyncRead(e, o)
    \/ SyncDelete(o) \/ SyncUpdate(o)

Controller == LocalStep \/ SyncLocalStep
              \/ \E o \in Outcomes : CreateStep(o) \/ DeleteStep(o) \/ SyncStep(o)

\* A step that is not the operator's; the message goes with its resource.  A new
\* database numbers its data sources from the start.
Env(A) ==
    /\ A
    /\ message' = [n \in Names |-> message[n] /\ Live(cr'[n])]
    /\ s' = IF s.e # Absent /\ Wipe(s.g) THEN [s EXCEPT !.named = Free] ELSE s
    /\ UNCHANGED <<w, pluginReq>>

Next == Controller \/ Crash \/ Start \/ Env(Outside)

Spec == Init /\ [][Next]_vars

\* As for dashboards: goroutines are scheduled, informers deliver, timers fire,
\* the queue starves no key.
Fairness ==
    /\ WF_vars(Start)
    /\ WF_vars(LocalStep \/ \E o \in Outcomes : CreateStep(o) \/ DeleteStep(o))
    /\ WF_vars(SyncLocalStep \/ \E o \in Outcomes : SyncStep(o))
    /\ \A n \in Names : /\ WF_vars(Env(SyncCRCache(n))) /\ SF_vars(Env(TimerFires(n)))
                       /\ SF_vars(Dequeue(n))
    /\ \A g \in Grafanas : WF_vars(Env(SyncGrafanaCache(g)))

FairSpec == Spec /\ Fairness

\* The call about to be made cannot succeed: a copy is out of date, or the data
\* source has vanished from Grafana.
WorkerRefused ==
    \/ w.pc \in {"match", "hash"} /\ "worker" \in crstale[w.key]
    \/ w.pc = "next" /\ w.todo = {} /\ "worker" \in crstale[w.key]
    \/ w.pc \in {"record", "delRecord"} /\ "worker" \in gstale[w.g]
    \/ w.pc = "push" /\ w.id /\ store[w.g][w.key][w.cr.uid] = Absent

\* A call fails, or its answer is lost, for any other reason.
Fault == \E o \in Outcomes \ {"ok"} :
    \/ (CreateStep(o) \/ DeleteStep(o)) /\ ~WorkerRefused
       /\ ~CreateStep("ok") /\ ~DeleteStep("ok")
    \/ SyncStep(o) /\ ~SyncStep("ok")
       /\ ~(s.pc = "delete" /\ \/ s.left = {} /\ "sync" \in gstale[s.g]
                               \/ s.e # Absent /\ s.named \notin Items)

\* The operator's process ends, other than by its own panic.
Stopped == Crash /\ ~\E e \in Items : SyncReadNil(e)

OthersQuiet == \A g \in Grafanas : ~Env(GrafanaWrite(g)) /\ ~Env(UiEdit(g))

\* No call fails, nothing restarts or is lost, nobody else writes, and the
\* worker takes a key when the caches are current and the sync has ended.
IdealSpec ==
    /\ Init /\ Fairness
    /\ [][/\ Next /\ ~Stopped /\ ~Fault /\ OthersQuiet
          /\ \A g \in Grafanas : ~Env(Wipe(g))
          /\ \A n \in Names : Dequeue(n) => CachesCurrent /\ s.pc = "done"]_vars

-----------------------------------------------------------------------------
(* Properties *)

Worker == [pc: {"idle"} \cup CreatePCs \cup DeletePCs, key: Names \cup {Absent},
           cr: Resource, snap: GrafanaCopies, todo: SUBSET Grafanas,
           g: Grafanas \cup {Absent}, ok: BOOLEAN, err: BOOLEAN, id: BOOLEAN]

Syncer == [pc: {"wait", "list", "next", "delete", "again", "done"},
           seen: GrafanaCopies, gone: SUBSET Names, todo: SUBSET Grafanas,
           g: Grafanas \cup {Absent}, left: SUBSET (Names \X Uids),
           e: Items \cup {Absent}, named: Items \cup {Absent, Free}, count: Nat]

(* Variables keep their types; a recorded uid is one the API server issued *)
(* (string(cr.UID), line 318).                                             *)
TypeOK ==
    /\ ClusterTypeOK
    /\ w \in Worker /\ s \in Syncer
    /\ message \in [Names -> BOOLEAN]
    /\ pluginReq \in [Grafanas -> SUBSET Names]

\* What the worker's and the sync's variables hold at each of their steps
WorkerShape ==
    /\ w.pc # "idle" => w.key \in Names
    /\ w.pc \in CreatePCs => Live(w.cr) /\ w.cr.uid \in Uids
    /\ w.pc \in {"exists", "push", "hash", "record", "delete", "delPlugins", "delRecord"}
         => w.g \in Grafanas
    /\ w.pc \in {"delete", "delPlugins", "delRecord"} => Listed(w.snap[w.g].list[w.key])

SyncShape ==
    /\ s.pc # "delete" => s.e = Absent
    /\ s.e = Absent => s.named = Absent
    /\ s.named \in {s.e, Absent} \/ s.g \in Internal
    /\ s.pc = "delete" =>
         /\ s.g \in Grafanas /\ (s.e # Absent => s.e \in s.left)
         /\ \A e \in s.left : e[1] \in s.gone /\ e[2] \in Entries(s.seen[s.g].list[e[1]])

ShapeOK == LiveHasUid(cr) /\ LiveHasUid(crcache) /\ WorkerShape /\ SyncShape

\* A copy no writer has overtaken equals the object.
SnapOK == \A g \in Grafanas :
            "worker" \notin gstale[g] => w.pc # "idle" /\ w.snap[g] = grafana[g]
SeenOK == \A g \in Grafanas : "sync" \notin gstale[g] => s.seen[g] = grafana[g]
WorkerCopyOK == w.pc \in CreatePCs /\ "worker" \notin crstale[w.key] =>
                  w.cr.json = cr[w.key].json /\ w.cr.uid = cr[w.key].uid

CopiesOK == CacheCopyOK /\ GrafanaCacheOK /\ SnapOK /\ SeenOK /\ WorkerCopyOK

\* The cache never runs ahead, and no copy runs ahead of the cache.
CacheOrderOK ==
    /\ CacheNotAhead
    /\ w.pc \in CreatePCs => w.cr.uid <= crcache[w.key].uid
    /\ KnownToCache(grafana) /\ KnownToCache(gcache)
    /\ KnownToCache(w.snap) /\ KnownToCache(s.seen)

\* What the two delete paths may touch belongs to deleted resources.
DeleteOK ==
    /\ w.pc \in DeletePCs => ListedDead(grafana, w.key) /\ ListedDead(gcache, w.key)
    /\ w.pc \in DeletePCs \ {"delList"} => ListedDead(w.snap, w.key)
    /\ s.pc \in {"next", "delete"} => \A n \in s.gone : ListedDead(s.seen, n)

IInv == ShapeOK /\ CopiesOK /\ CacheOrderOK /\ DeleteOK

(* The operator removes a data source from a Grafana only when its         *)
(* resource has been deleted, although several calls lie between the lists *)
(* and the deletion (lines 107-117, 239-244).  The exception: the sync     *)
(* goroutine deletes by an id (line 117), and when an internal Grafana has *)
(* lost its database since the look-up (line 108), that id may have been   *)
(* given to another data source.                                           *)
LiveNotDeleted ==
    [][Controller => \A g \in Grafanas, n \in Names, u \in Uids :
         store[g][n][u] # Absent /\ store'[g][n][u] = Absent =>
           \/ Dead(n, u)
           \/ g \in Internal /\ s.named = <<n, u>> /\ s.e # s.named /\ UNCHANGED w]_vars

(* No writer of the status drops the entry of a living data source: the    *)
(* worker, the sync goroutine (line 128) and the Grafana controller write  *)
(* the whole status from copies of different age.                          *)
LiveNotForgotten ==
    [][\A g \in Grafanas, n \in Names, u \in Uids :
         u \in Entries(grafana[g].list[n]) /\ u \notin Entries(grafana'[g].list[n])
         => Dead(n, u)]_vars

\* From some point on nobody stops the operator, calls that can succeed do, and
\* nobody else writes to the Grafana resources or edits data sources.
Calm == <>[][~Stopped /\ ~Fault /\ OthersQuiet]_vars

AllPushed ==
    \A g \in Grafanas, n \in Names, u \in Uids, c \in Contents :
      <>[](Wanted(g, n, u, c) /\ ~TitleTaken(g, n, u)) => []<>(store[g][n][u] = c)

(* A data source that stays wanted in a Grafana, its title free there,     *)
(* comes to be there (lines 297-311), through failed calls, refused        *)
(* writes, wiped servers, restarts and panics, also under a name used      *)
(* before.  Whether with the content its resource specifies is another     *)
(* question: a pass that could not push a change writes its hash           *)
(* nonetheless (lines 213-220).  DatasourceContent is about that.          *)
Converges ==
    Calm => \A g \in Grafanas, n \in Names :
      <>[](Wants(g, n) /\ ~TitleTaken(g, n, cr[n].uid))
        => []<>(Live(cr[n]) /\ store[g][n][cr[n].uid] # Absent)

(* When no call fails and nobody else writes (IdealSpec), every edit       *)
(* arrives, although the hash is written before the record and again at    *)
(* the end (lines 313-319, 213-220) ...                                    *)
EditsArrive == AllPushed

(* ... and a data source whose resource is deleted leaves every Grafana    *)
(* that lists it, and its entry the status (line 91: "delete all           *)
(* dashboards that no longer have a cr").                                  *)
ListedRemoved ==
    \A g \in Grafanas, n \in Names, u \in Uids :
      LET listed == u \in Entries(grafana[g].list[n])
      IN Dead(n, u) /\ listed ~> ~listed /\ store[g][n][u] = Absent

(* Listed or not, it leaves every Grafana in the end (line 80: "sync       *)
(* datasources, delete dashboards from grafana that do no longer have a    *)
(* cr").                                                                   *)
OrphansRemoved ==
    \A g \in Grafanas, n \in Names, u \in Uids :
      <>[]Dead(n, u) => <>[](store[g][n][u] = Absent)

(* The sync goroutine comes to its end, also when a data source has        *)
(* already left Grafana (line 111: "datasource no longer exists").         *)
SyncCompletes == Calm => []<>(s.pc = "done")
=============================================================================
