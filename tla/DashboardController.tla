------------------------- MODULE DashboardController -------------------------
(***************************************************************************)
(* controllers/dashboard_controller.go: the worker that reconciles one     *)
(* GrafanaDashboard at a time into every Grafana that selects it, and the  *)
(* sync goroutine that runs beside it after a start of the operator and    *)
(* deletes the dashboards whose resource vanished in the meantime.         *)
(*                                                                         *)
(* Every call that leaves the process (Kubernetes API write or Grafana     *)
(* HTTP request) is one action taking its outcome: "ok", "fail" (nothing   *)
(* happened) or "lost" (it happened, the answer did not arrive).  Local    *)
(* code runs with the call before it.                                      *)
(***************************************************************************)
EXTENDS Cluster, FiniteSets

CONSTANTS
    CrossNamespace, \* <<name, grafana>> pairs barred by the namespace check
    Derived,        \* names whose source is gzip, url or jsonnet
    PluginUsers,    \* names with a spec.plugins
    BatchSize       \* syncBatchSize

ASSUME DashboardAssumption ==
    /\ CrossNamespace \subseteq Names \X Grafanas
    /\ Derived \subseteq Names /\ PluginUsers \subseteq Names
    /\ BatchSize \in Nat

VARIABLES
    w,         \* the worker: its program counter and local variables
    s,         \* the sync goroutine
    pluginReq  \* per Grafana, the names whose plugins its ConfigMap lists

vars == <<clusterVars, w, s, pluginReq>>

\* key, cr, snap: the request, the copy of its resource, the listed Grafanas;
\* todo, g: instances left in the loop and the current one; fetched: spec.json
\* was overwritten in memory; dash: DashboardByUID returned a dashboard
Idle == [pc |-> "idle", key |-> Absent, cr |-> Gone(0), snap |-> NoSnap,
         todo |-> {}, g |-> Absent, fetched |-> FALSE, dash |-> FALSE]

\* seen: listed Grafanas; gone: names without a resource; todo: Grafanas left;
\* left: entries of g still to delete; count: dashboardsSynced
Waiting == [pc |-> "wait", seen |-> NoSnap, gone |-> {}, todo |-> {},
            g |-> Absent, left |-> {}, count |-> 0]

CreatePCs == {"match", "next", "exists", "folder", "push", "record", "hash"}
DeletePCs == {"delList", "delNext", "delDash", "delFolder", "rmFolder",
              "delPlugins", "delRecord", "error"}

\* Dashboards a folder holds in Grafana g
InFolder(g, f) == {e \in Names \X Uids : FolderOf[e[1]] = f /\ store[g][e[1]][e[2]] # Absent}

-----------------------------------------------------------------------------
(* The worker: Reconcile of a resource that exists *)

\* Dequeue a key and Get its resource from the cache.
Dequeue(n) ==
    /\ up /\ w.pc = "idle" /\ n \in queue
    /\ queue' = queue \ {n}
    /\ IF Live(crcache[n])
         THEN /\ w' = [Idle EXCEPT !.pc = "match", !.key = n, !.cr = crcache[n]]
              /\ crstale' = [crstale EXCEPT ![n] = AsOldAsCache(@, "worker")]
         ELSE /\ w' = [Idle EXCEPT !.pc = "delList", !.key = n]
              /\ UNCHANGED crstale
    /\ UNCHANGED <<cr, crcache, grafanaVars, grafanaDB, timer, up, s, pluginReq>>

\* List the matching instances; record in the status whether there are any.
\* A failure of that write is logged only.
GetMatchingDashboardInstances(o) ==
    /\ w.pc = "match" /\ o \in KubeOutcomes("worker" \in crstale[w.key])
    /\ LET matching == {g \in Grafanas : w.key \in gcache[g].matches}
           new == [w.cr EXCEPT !.noMatch = (matching = {})]
       IN /\ IF o = "fail" THEN UNCHANGED <<cr, crstale>>
                           ELSE WriteCR(w.key, new, IF o = "ok" THEN {"worker"} ELSE {})
          /\ w' = [w EXCEPT !.pc = "next", !.cr = new, !.snap = gcache,
                            !.todo = {g \in matching : <<w.key, g>> \notin CrossNamespace}]
    /\ ListGrafanas("worker")
    /\ UNCHANGED <<crcache, grafana, gcache, grafanaDB, workVars, s, pluginReq>>

\* The loop is over: come back after the resync period (or RequeueDelay).
FinishReconcile ==
    /\ w.pc = "next" /\ w.todo = {}
    /\ w' = Idle
    /\ AddAfter(w.key, "resync")
    /\ crstale' = [crstale EXCEPT ![w.key] = @ \cup {"worker"}]
    /\ DropGrafanas("worker")
    /\ UNCHANGED <<cr, crcache, grafana, gcache, grafanaDB, queue, up, s, pluginReq>>

SkipNotReady(g) ==
    /\ w.pc = "next" /\ g \in w.todo /\ ~w.snap[g].ready
    /\ w' = [w EXCEPT !.todo = @ \ {g}]
    /\ UNCHANGED <<clusterVars, s, pluginReq>>

ReconcilePlugins(g, n, wanted, o) == pluginReq' = PluginsAfter(pluginReq, g, n, wanted, o)

\* Next instance: hand over the plugins, ignoring an error, then obtain the
\* json.  A source other than raw json is refused once spec.json is filled in,
\* and an external instance if there are plugins.  That a source cannot be
\* fetched at all is left out: DashboardSource has fetches that fail.
StartInstance(g, o) ==
    /\ w.pc = "next" /\ g \in w.todo /\ w.snap[g].ready
    /\ ReconcilePlugins(g, w.key, w.key \in PluginUsers, o)
    /\ LET refused == \/ w.key \in Derived /\ w.fetched
                      \/ g \notin Internal /\ w.key \in PluginUsers
       IN w' = IF refused THEN [w EXCEPT !.todo = @ \ {g}]
               ELSE [w EXCEPT !.pc = "exists", !.todo = @ \ {g}, !.g = g, !.fetched = TRUE]
    /\ UNCHANGED <<clusterVars, s>>

\* On to the next instance of the loop, the outcome logged at most
Continue == [w EXCEPT !.pc = "next", !.g = Absent]

Unchanged(c) == Hash(c.json) = c.hash

\* Variant: a dashboard that is there is never compared.
ExistsUncompared(o) ==
    /\ w.pc = "exists"
    /\ w' = IF o # "ok" \/ store[w.g][w.key][w.cr.uid] # Absent THEN Continue
            ELSE [w EXCEPT !.pc = "folder"]
    /\ UNCHANGED <<clusterVars, s, pluginReq>>

\* Look the uid up in the instance; done if it is there and the hash current.
Exists(o) ==
    /\ w.pc = "exists"
    /\ LET present == store[w.g][w.key][w.cr.uid] # Absent
       IN w' = IF o # "ok" \/ (present /\ Unchanged(w.cr)) THEN Continue
               ELSE [w EXCEPT !.pc = "folder"]
    /\ UNCHANGED <<clusterVars, s, pluginReq>>

GetOrCreateFolder(o) ==
    /\ w.pc = "folder"
    /\ folders' = IF o = "fail" \/ FolderOf[w.key] = Absent THEN folders
                  ELSE [folders EXCEPT ![w.g] = @ \cup {FolderOf[w.key]}]
    /\ w' = IF o = "ok" THEN [w EXCEPT !.pc = "push"] ELSE Continue
    /\ UNCHANGED <<crVars, grafanaVars, store, workVars, s, pluginReq>>

\* Variant: the answer to the request is not looked at.
NewDashboardUnchecked(o) ==
    /\ w.pc = "push"
    /\ FolderOf[w.key] \in folders[w.g] \cup {Absent} \/ o = "fail"
    /\ store' = IF o = "fail" THEN store
                ELSE [store EXCEPT ![w.g][w.key][w.cr.uid] = w.cr.json]
    /\ w' = [w EXCEPT !.pc = "record"]
    /\ UNCHANGED <<crVars, grafanaVars, folders, workVars, s, pluginReq>>

\* Create or overwrite the dashboard; refused if the folder is gone.
NewDashboard(o) ==
    /\ w.pc = "push"
    /\ FolderOf[w.key] \in folders[w.g] \cup {Absent} \/ o = "fail"
    /\ store' = IF o = "fail" THEN store
                ELSE [store EXCEPT ![w.g][w.key][w.cr.uid] = w.cr.json]
    /\ w' = IF o = "ok" THEN [w EXCEPT !.pc = "record"] ELSE Continue
    /\ UNCHANGED <<crVars, grafanaVars, folders, workVars, s, pluginReq>>

\* Write the worker's copy of Grafana g with a new list for the key.
WriteList(g, list, o) ==
    IF o = "fail" THEN UNCHANGED <<grafana, gstale>>
    ELSE WriteGrafana(g, [w.snap[g] EXCEPT !.list[w.key] = list])

\* Variant: the uid of the response is not decoded.
RecordDashboardNoUid(o) ==
    /\ w.pc = "record" /\ o \in KubeOutcomes("worker" \in gstale[w.g])
    /\ WriteList(w.g, <<0>>, o)
    /\ w' = IF o = "ok" THEN [w EXCEPT !.pc = "hash"] ELSE Continue
    /\ UNCHANGED <<crVars, gcache, grafanaDB, workVars, s, pluginReq>>

\* Variant: the error of the status update is dropped.
RecordDashboardUnchecked(o) ==
    /\ w.pc = "record" /\ o \in KubeOutcomes("worker" \in gstale[w.g])
    /\ WriteList(w.g, Add(w.snap[w.g].list[w.key], w.cr.uid), o)
    /\ w' = [w EXCEPT !.pc = "hash"]
    /\ UNCHANGED <<crVars, gcache, grafanaDB, workVars, s, pluginReq>>

\* Add the dashboard to the status of the Grafana resource.
RecordDashboard(o) ==
    /\ w.pc = "record" /\ o \in KubeOutcomes("worker" \in gstale[w.g])
    /\ WriteList(w.g, Add(w.snap[w.g].list[w.key], w.cr.uid), o)
    /\ w' = IF o = "ok" THEN [w EXCEPT !.pc = "hash"] ELSE Continue
    /\ UNCHANGED <<crVars, gcache, grafanaDB, workVars, s, pluginReq>>

\* Variant: the resource is read again before its status is written.
UpdateStatusReread(o) ==
    /\ w.pc = "hash" /\ o \in KubeOutcomes("cache" \in crstale[w.key])
    /\ LET new == [crcache[w.key] EXCEPT !.hash = Hash(crcache[w.key].json)]
       IN /\ Live(crcache[w.key])
          /\ IF o = "fail" THEN UNCHANGED <<cr, crstale>>
                           ELSE WriteCR(w.key, new, IF o = "ok" THEN {"worker"} ELSE {})
          /\ w' = [Continue EXCEPT !.cr = new]
    /\ UNCHANGED <<crcache, grafanaVars, grafanaDB, workVars, s, pluginReq>>

\* The hash is set in memory whether or not the write succeeds.
UpdateStatus(o) ==
    /\ w.pc = "hash" /\ o \in KubeOutcomes("worker" \in crstale[w.key])
    /\ LET new == [w.cr EXCEPT !.hash = Hash(w.cr.json)]
       IN /\ IF o = "fail" THEN UNCHANGED <<cr, crstale>>
                           ELSE WriteCR(w.key, new, IF o = "ok" THEN {"worker"} ELSE {})
          /\ w' = [Continue EXCEPT !.cr = new]
    /\ UNCHANGED <<crcache, grafanaVars, grafanaDB, workVars, s, pluginReq>>

-----------------------------------------------------------------------------
(* The worker: onDashboardDeleted *)

ListForDelete ==
    /\ w.pc = "delList"
    /\ w' = [w EXCEPT !.pc = "delNext", !.snap = gcache,
                      !.todo = {g \in Grafanas : Listed(gcache[g].list[w.key])}]
    /\ ListGrafanas("worker")
    /\ UNCHANGED <<crVars, grafana, gcache, grafanaDB, workVars, s, pluginReq>>

\* The uid found in the listed status of a Grafana
FoundUid(g) == Find(w.snap[g].list[w.key])

\* DashboardByUID of the next instance; a 404 is fine and leaves dash nil.
ReadDashboard(g, o) ==
    /\ w.pc = "delNext" /\ g \in w.todo
    /\ w' = [w EXCEPT !.pc = IF o = "ok" THEN "delDash" ELSE "error",
                      !.todo = @ \ {g}, !.g = g,
                      !.dash = store[g][w.key][FoundUid(g)] # Absent]
    /\ UNCHANGED <<clusterVars, s, pluginReq>>

DeleteDashboard(o) ==
    /\ w.pc = "delDash"
    /\ store' = IF o = "fail" THEN store
                ELSE [store EXCEPT ![w.g][w.key][FoundUid(w.g)] = Absent]
    /\ w' = [w EXCEPT !.pc =
               IF o # "ok" THEN "error"
               ELSE IF w.dash /\ FolderOf[w.key] # Absent THEN "delFolder" ELSE "delPlugins"]
    /\ UNCHANGED <<crVars, grafanaVars, folders, workVars, s, pluginReq>>

\* DeleteFolderIfEmpty lists the dashboards, and looks the folder up: two calls
\* that both only read, and between which the one worker does nothing else.  What
\* people put into the folder after the first is left out ...
CheckFolder(o) ==
    /\ w.pc = "delFolder"
    /\ LET f == FolderOf[w.key]
           inUse == InFolder(w.g, f) # {}
       IN w' = [w EXCEPT !.pc =
                  IF o # "ok" \/ (~inUse /\ f \notin folders[w.g]) THEN "error"
                  ELSE IF inUse THEN "delPlugins" ELSE "rmFolder"]
    /\ UNCHANGED <<clusterVars, s, pluginReq>>

\* ... then deletes it, and Grafana everything in it.
DeleteFolder(o) ==
    /\ w.pc = "rmFolder"
    /\ LET f == FolderOf[w.key]
       IN IF o = "fail" THEN UNCHANGED grafanaDB
          ELSE /\ folders' = [folders EXCEPT ![w.g] = @ \ {f}]
               /\ store' = [store EXCEPT ![w.g] = [n \in Names |-> [u \in Uids |->
                              IF <<n, u>> \in InFolder(w.g, f) THEN Absent ELSE @[n][u]]]]
    /\ w' = [w EXCEPT !.pc = IF o = "ok" THEN "delPlugins" ELSE "error"]
    /\ UNCHANGED <<crVars, grafanaVars, workVars, s, pluginReq>>

ClearPlugins(o) ==
    /\ w.pc = "delPlugins"
    /\ ReconcilePlugins(w.g, w.key, FALSE, o)
    /\ w' = [w EXCEPT !.pc = IF o = "ok" \/ w.g \notin Internal
                             THEN "delRecord" ELSE "error"]
    /\ UNCHANGED <<clusterVars, s>>

RemoveRecord(o) ==
    /\ w.pc = "delRecord" /\ o \in KubeOutcomes("worker" \in gstale[w.g])
    /\ WriteList(w.g, Remove(w.snap[w.g].list[w.key]), o)
    /\ w' = [w EXCEPT !.pc = IF o = "ok" THEN "delNext" ELSE "error",
                      !.g = Absent, !.dash = FALSE]
    /\ UNCHANGED <<crVars, gcache, grafanaDB, workVars, s, pluginReq>>

\* Variant: the error of onDashboardDeleted is swallowed.
FinishDeleteNoRetry ==
    /\ w.pc = "error" \/ (w.pc = "delNext" /\ w.todo = {})
    /\ w' = Idle
    /\ DropGrafanas("worker")
    /\ UNCHANGED <<crVars, grafana, gcache, grafanaDB, workVars, s, pluginReq>>

\* Reconcile returns: nothing more to do, or an error and a rate-limited retry.
FinishDelete ==
    /\ w.pc = "error" \/ (w.pc = "delNext" /\ w.todo = {})
    /\ w' = Idle
    /\ IF w.pc = "error" THEN AddAfter(w.key, "retry") ELSE UNCHANGED timer
    /\ DropGrafanas("worker")
    /\ UNCHANGED <<crVars, grafana, gcache, grafanaDB, queue, up, s, pluginReq>>

-----------------------------------------------------------------------------
(* The sync goroutine: syncDashboards *)

SyncListGrafanas ==
    /\ up /\ s.pc = "wait"
    /\ s' = [s EXCEPT !.pc = "list", !.seen = gcache]
    /\ ListGrafanas("sync")
    /\ UNCHANGED <<crVars, grafana, gcache, grafanaDB, workVars, w, pluginReq>>

\* getDashboardsToDelete: a Grafana has a map entry only if something is stale.
SyncListDashboards ==
    /\ s.pc = "list"
    /\ LET gone == {n \in Names : ~Live(crcache[n])}
       IN s' = [s EXCEPT !.pc = "next", !.gone = gone,
                  !.todo = {g \in Grafanas : \E n \in gone : Listed(s.seen[g].list[n])}]
    /\ UNCHANGED <<clusterVars, w, pluginReq>>

\* Variant: the entries are taken from the Grafana as it is now.
SyncStartReread(g) ==
    /\ s.pc = "next" /\ g \in s.todo
    /\ s' = [s EXCEPT !.pc = "delete", !.g = g, !.todo = @ \ {g},
               !.left = {e \in s.gone \X Uids : e[2] \in Entries(gcache[g].list[e[1]])}]
    /\ UNCHANGED <<clusterVars, w, pluginReq>>

SyncStart(g) ==
    /\ s.pc = "next" /\ g \in s.todo
    /\ s' = [s EXCEPT !.pc = "delete", !.g = g, !.todo = @ \ {g},
               !.left = {e \in s.gone \X Uids : e[2] \in Entries(s.seen[g].list[e[1]])}]
    /\ UNCHANGED <<clusterVars, w, pluginReq>>

\* Delete one listed dashboard, unless the batch is full.
SyncDelete(e, o) ==
    /\ s.pc = "delete" /\ e \in s.left /\ s.count < BatchSize
    /\ store' = IF o = "fail" THEN store ELSE [store EXCEPT ![s.g][e[1]][e[2]] = Absent]
    /\ s' = IF o = "ok" THEN [s EXCEPT !.left = @ \ {e}, !.count = @ + 1]
            ELSE [s EXCEPT !.pc = "again"]
    /\ UNCHANGED <<crVars, grafanaVars, folders, workVars, w, pluginReq>>

\* Variant: the update does not carry a resourceVersion.
SyncUpdateForced(o) ==
    /\ s.pc = "delete" /\ s.left = {}
    /\ IF o = "fail" THEN UNCHANGED <<grafana, gstale>>
       ELSE WriteGrafana(s.g, [s.seen[s.g] EXCEPT !.list = [n \in Names |->
                                 IF n \in s.gone THEN Remove(@[n]) ELSE @[n]]])
    /\ s' = [s EXCEPT !.pc = IF o = "ok" THEN "next" ELSE "again", !.g = Absent]
    /\ UNCHANGED <<crVars, gcache, grafanaDB, workVars, w, pluginReq>>

\* One status update per Grafana, without the names that are gone.
SyncUpdate(o) ==
    /\ s.pc = "delete" /\ s.left = {} /\ o \in KubeOutcomes("sync" \in gstale[s.g])
    /\ IF o = "fail" THEN UNCHANGED <<grafana, gstale>>
       ELSE WriteGrafana(s.g, [s.seen[s.g] EXCEPT !.list = [n \in Names |->
                                 IF n \in s.gone THEN Remove(@[n]) ELSE @[n]]])
    /\ s' = [s EXCEPT !.pc = IF o = "ok" THEN "next" ELSE "again", !.g = Absent]
    /\ UNCHANGED <<crVars, gcache, grafanaDB, workVars, w, pluginReq>>

\* Variant: the limit is looked at after a deletion, also after the last.
SyncReturnAtLimit ==
    /\ \/ s.pc = "again" /\ s' = Waiting
       \/ s.pc = "delete" /\ s.count >= BatchSize /\ s' = Waiting
       \/ s.pc = "next" /\ s.todo = {} /\ s' = [Waiting EXCEPT !.pc = "done"]
    /\ DropGrafanas("sync")
    /\ UNCHANGED <<crVars, grafana, gcache, grafanaDB, workVars, w, pluginReq>>

\* After an error or a full batch start over in the next period, forgetting
\* what was done in memory; otherwise the goroutine ends.
SyncReturn ==
    /\ \/ s.pc = "again" /\ s' = Waiting
       \/ s.pc = "delete" /\ s.left # {} /\ s.count >= BatchSize /\ s' = Waiting
       \/ s.pc = "next" /\ s.todo = {} /\ s' = [Waiting EXCEPT !.pc = "done"]
    /\ DropGrafanas("sync")
    /\ UNCHANGED <<crVars, grafana, gcache, grafanaDB, workVars, w, pluginReq>>

-----------------------------------------------------------------------------
(* The operator's process *)

Crash == ClusterCrash /\ w' = Idle /\ s' = Waiting /\ UNCHANGED pluginReq
Start == ClusterStart /\ UNCHANGED <<w, s, pluginReq>>

-----------------------------------------------------------------------------
Init ==
    /\ ClusterInit
    /\ w = Idle /\ s = Waiting
    /\ pluginReq = [g \in Grafanas |-> {}]

CreateStep(o) ==
    \/ GetMatchingDashboardInstances(o)
    \/ \E g \in Grafanas : StartInstance(g, o)
    \/ Exists(o) \/ GetOrCreateFolder(o) \/ NewDashboard(o)
    \/ RecordDashboard(o) \/ UpdateStatus(o)

DeleteStep(o) ==
    \/ \E g \in Grafanas : ReadDashboard(g, o)
    \/ DeleteDashboard(o) \/ CheckFolder(o) \/ DeleteFolder(o)
    \/ ClearPlugins(o) \/ RemoveRecord(o)

LocalStep ==
    \/ \E n \in Names : Dequeue(n)
    \/ \E g \in Grafanas : SkipNotReady(g)
    \/ FinishReconcile \/ ListForDelete \/ FinishDelete

SyncLocalStep ==
    \/ SyncListGrafanas \/ SyncListDashboards \/ SyncReturn
    \/ \E g \in Grafanas : SyncStart(g)

SyncStep(o) ==
    \/ \E e \in Names \X Uids : SyncDelete(e, o)
    \/ SyncUpdate(o)

Controller == LocalStep \/ SyncLocalStep
              \/ \E o \in Outcomes : CreateStep(o) \/ DeleteStep(o) \/ SyncStep(o)

\* A step that is not the operator's leaves its variables alone.
Env(A) == A /\ UNCHANGED <<w, s, pluginReq>>

Next == Controller \/ Crash \/ Start \/ Env(Outside)

Spec == Init /\ [][Next]_vars

\* Goroutines are scheduled, informers deliver, timers fire, and the queue,
\* being first in first out, starves no key.
Fairness ==
    /\ WF_vars(Start)
    /\ WF_vars(LocalStep \/ \E o \in Outcomes : CreateStep(o) \/ DeleteStep(o))
    /\ WF_vars(SyncLocalStep \/ \E o \in Outcomes : SyncStep(o))
    /\ \A n \in Names : /\ WF_vars(Env(SyncCRCache(n))) /\ SF_vars(Env(TimerFires(n)))
                       /\ SF_vars(Dequeue(n))
    /\ \A g \in Grafanas : WF_vars(Env(SyncGrafanaCache(g)))

FairSpec == Spec /\ Fairness

-----------------------------------------------------------------------------
(* Types and invariants *)

Worker == [pc: {"idle"} \cup CreatePCs \cup DeletePCs, key: Names \cup {Absent},
           cr: Resource, snap: GrafanaCopies, todo: SUBSET Grafanas,
           g: Grafanas \cup {Absent}, fetched: BOOLEAN, dash: BOOLEAN]

Syncer == [pc: {"wait", "list", "next", "delete", "again", "done"},
           seen: GrafanaCopies, gone: SUBSET Names, todo: SUBSET Grafanas,
           g: Grafanas \cup {Absent}, left: SUBSET (Names \X Uids), count: Nat]

TypeOK ==
    /\ ClusterTypeOK
    /\ w \in Worker /\ s \in Syncer
    /\ pluginReq \in [Grafanas -> SUBSET Names]

\* What the worker's and the sync's variables hold at each of their steps
WorkerShape ==
    /\ w.pc # "idle" => w.key \in Names
    /\ w.pc \in CreatePCs => Live(w.cr) /\ w.cr.uid \in Uids
    /\ w.pc \in CreatePCs \ {"match", "next"} => w.g \in Grafanas
    /\ w.pc \in DeletePCs \ {"delList", "delNext", "error"} =>
         w.g \in Grafanas /\ Listed(w.snap[w.g].list[w.key])
    /\ w.pc \in DeletePCs \ {"delList", "error"} =>
         \A g \in w.todo : Listed(w.snap[g].list[w.key])

SyncShape == s.pc = "delete" => s.g \in Grafanas

ShapeOK == LiveHasUid(cr) /\ LiveHasUid(crcache) /\ WorkerShape /\ SyncShape

\* A copy no writer has overtaken equals the object.
CopiesOK ==
    /\ CacheCopyOK /\ GrafanaCacheOK
    /\ \A g \in Grafanas :
         /\ "worker" \notin gstale[g] => w.pc # "idle" /\ w.snap[g] = grafana[g]
         /\ "sync" \notin gstale[g] => s.seen[g] = grafana[g]
    /\ w.pc \in CreatePCs /\ "worker" \notin crstale[w.key] =>
         w.cr.json = cr[w.key].json /\ w.cr.uid = cr[w.key].uid

\* The cache never runs ahead, and no copy runs ahead of the cache.
CacheOrderOK ==
    \A n \in Names :
      /\ crcache[n].uid <= cr[n].uid
      /\ crcache[n].uid = cr[n].uid /\ ~Live(crcache[n]) => ~Live(cr[n])
      /\ w.key = n /\ w.pc \in CreatePCs => w.cr.uid <= crcache[n].uid
      /\ \A g \in Grafanas :
           /\ \A u \in Entries(grafana[g].list[n]) : u <= crcache[n].uid
           /\ \A u \in Entries(gcache[g].list[n]) : u <= crcache[n].uid
           /\ \A u \in Entries(w.snap[g].list[n]) : u <= crcache[n].uid
           /\ \A u \in Entries(s.seen[g].list[n]) : u <= crcache[n].uid
           /\ \A u \in Uids : store[g][n][u] # Absent => u <= crcache[n].uid

\* What the two delete paths may touch belongs to deleted resources.
DeleteOK ==
    /\ w.pc \in DeletePCs => \A g \in Grafanas :
         /\ \A u \in Entries(grafana[g].list[w.key]) : Dead(w.key, u)
         /\ \A u \in Entries(gcache[g].list[w.key]) : Dead(w.key, u)
         /\ w.pc # "delList" => \A u \in Entries(w.snap[g].list[w.key]) : Dead(w.key, u)
    /\ s.pc \in {"next", "delete"} => \A g \in Grafanas, n \in s.gone :
         \A u \in Entries(s.seen[g].list[n]) : Dead(n, u)
    /\ s.pc = "delete" => \A e \in s.left : Dead(e[1], e[2])

\* Whoever holds a hash, or is about to write one, comes after the record.
HashOK ==
    /\ \A n \in Names :
         /\ cr[n].hash # Absent => Recorded(n, cr[n].uid) \/ Dead(n, cr[n].uid)
         /\ crcache[n].hash # Absent => Recorded(n, crcache[n].uid) \/ Dead(n, crcache[n].uid)
    /\ w.pc \in CreatePCs /\ (w.cr.hash # Absent \/ w.pc = "hash") =>
         Recorded(w.key, w.cr.uid) \/ Dead(w.key, w.cr.uid)

\* A folder found empty stays empty until the worker deletes it.
FolderOK == w.pc = "rmFolder" => InFolder(w.g, FolderOf[w.key]) = {}

IInv == ShapeOK /\ CopiesOK /\ CacheOrderOK /\ DeleteOK /\ HashOK /\ FolderOK

\* When edits go forward, no copy and no hash has a newer content than the
\* resource, and a copy behind the hash's content is of no use any more: ...
ContentOrderOK(before) ==
    \A n \in Names :
      /\ Live(cr[n]) /\ crcache[n].uid = cr[n].uid =>
           NotNewer(before, crcache[n].json, cr[n].json)
      /\ w.key = n /\ w.pc \in CreatePCs /\ Live(crcache[n]) /\ w.cr.uid = crcache[n].uid =>
           NotNewer(before, w.cr.json, crcache[n].json)
      /\ Live(cr[n]) /\ cr[n].hash # Absent =>
           \E c \in Contents : cr[n].hash = Hash(c) /\ NotNewer(before, c, cr[n].json)

\* ... the worker sends a hash back as it got it, or after what it belongs to.
PushedOK ==
    /\ w.pc = "match" /\ "worker" \notin crstale[w.key] => w.cr.hash = cr[w.key].hash
    /\ w.pc \in {"record", "hash"} => store[w.g][w.key][w.cr.uid] \in {Absent, w.cr.json}

\* So a hash that is current has been seen by everybody.
CurrentOK ==
    \A n \in Names : Live(cr[n]) /\ Unchanged(cr[n]) =>
      /\ crcache[n].uid = cr[n].uid /\ crcache[n].json = cr[n].json
      /\ w.key = n /\ w.pc \in CreatePCs /\ w.cr.uid = cr[n].uid => w.cr.json = cr[n].json
      /\ \A g \in Grafanas : store[g][n][cr[n].uid] \in {Absent, cr[n].json}

ContentInv(before) == ContentOrderOK(before) /\ PushedOK /\ CurrentOK

-----------------------------------------------------------------------------
(* Properties *)

(* A dashboard whose hash is set has been recorded in the status of at     *)
(* least one Grafana: UpdateStatus comes after the record (lines 354-360), *)
(* so a crash, a conflict or the sync between the two cannot leave a       *)
(* resource that is "unchanged" and listed nowhere.                        *)
HashImpliesRecorded ==
    \A n \in Names : Live(cr[n]) /\ cr[n].hash # Absent => Recorded(n, cr[n].uid)

(* A dashboard left alone because its hash is current (line 319) is what   *)
(* its resource asks for, however old the copies were that its pushes and  *)
(* its hash came from, and whatever answers were lost.  That is so for one *)
(* Grafana, edits that go forward and nobody editing in Grafana's UI; with *)
(* two Grafanas, or an edit back, it does not hold.                        *)
HashVouches ==
    \A g \in Grafanas, n \in Names :
      Live(cr[n]) /\ Unchanged(cr[n]) => store[g][n][cr[n].uid] \in {Absent, cr[n].json}

(* Where edits go forward, no copy of a resource, nor what is to be written *)
(* from one, is newer than what it was copied from, and a hash the status   *)
(* vouches for was written after the push it is of (lines 162, 319, 409).   *)
ContentTrails == \A before \in EditOrders : ContentInv(before)

(* The operator removes a dashboard from a Grafana only when its resource  *)
(* has been deleted: neither onDashboardDeleted, nor the deletion of a     *)
(* folder it believes empty, nor the sync goroutine working from an older  *)
(* list than the worker, hits a dashboard that is still wanted.            *)
LiveNotDeleted ==
    [][Controller => \A g \in Grafanas, n \in Names, u \in Uids :
         store[g][n][u] # Absent /\ store'[g][n][u] = Absent => Dead(n, u)]_vars

(* No writer of the status drops the entry of a living dashboard: the      *)
(* worker, the sync goroutine and the Grafana controller all rewrite the   *)
(* whole list from copies of different age, and only the resourceVersion   *)
(* keeps them from undoing one another.                                    *)
LiveNotForgotten ==
    [][\A g \in Grafanas, n \in Names, u \in Uids :
         u \in Entries(grafana[g].list[n]) /\ u \notin Entries(grafana'[g].list[n])
         => Dead(n, u)]_vars

Ledger == INSTANCE ContentLedger WITH Servers <- Grafanas, life <- Life,
            stored <- Stored, listed <- ListedItems, settled <- Settled

(* All of the above as one abstract specification: to a ledger that knows  *)
(* neither calls nor caches, every step of the controller (lines 61-555)   *)
(* is one of its steps or none.                                            *)
ImplementsLedger == Ledger!Spec

\* The call the worker, or the sync, is about to make cannot succeed: its copy
\* is out of date, or the folder is gone.
WorkerRefused ==
    \/ w.pc \in {"match", "hash"} /\ "worker" \in crstale[w.key]
    \/ w.pc \in {"record", "delRecord"} /\ "worker" \in gstale[w.g]
    \/ w.pc = "push" /\ FolderOf[w.key] \notin folders[w.g] \cup {Absent}
SyncRefused == s.pc = "delete" /\ s.left = {} /\ "sync" \in gstale[s.g]

\* A call fails, or its answer is lost, for any other reason.
Fault == \E o \in Outcomes \ {"ok"} :
    \/ /\ CreateStep(o) \/ DeleteStep(o)
       /\ ~WorkerRefused /\ ~CreateStep("ok") /\ ~DeleteStep("ok")
    \/ SyncStep(o) /\ ~SyncRefused /\ ~SyncStep("ok")

\* From some point on the operator stays up, calls that can succeed do, and
\* nobody else writes to the Grafana resources or edits dashboards.
Calm ==
    /\ <>[]up
    /\ <>[][/\ ~Fault
           /\ \A g \in Grafanas : ~Env(GrafanaWrite(g)) /\ ~Env(UiEdit(g))]_vars

(* A dashboard that stays wanted in a Grafana ends up there with the       *)
(* content its resource asks for (lines 314-321: "update/create the        *)
(* dashboard if it doesn't exist in the instance or has been changed"),    *)
(* through conflicts, failed calls, wiped servers and restarts.            *)
Converges ==
    \A g \in Grafanas, n \in Names, u \in Uids, c \in Contents :
      Calm /\ <>[]Wanted(g, n, u, c) => []<>(store[g][n][u] = c)

(* An entry in the status whose resource is gone does not stay: the worker *)
(* (onDashboardDeleted) or, when the deletion happened while the operator  *)
(* was down, the sync goroutine removes it.                                *)
StaleEntriesRemoved ==
    \A g \in Grafanas, n \in Names, u \in Uids :
      Calm /\ <>[](~Live(cr[n])) => <>[](u \notin Entries(grafana[g].list[n]))

(* A dashboard of a deleted resource does not stay in a Grafana (line 134: *)
(* "delete dashboards from grafana that do no longer have a cr").          *)
OrphansRemoved ==
    \A g \in Grafanas, n \in Names, u \in Uids :
      Calm /\ <>[]Dead(n, u) => <>[](store[g][n][u] = Absent)

\* No Grafana lists more dashboards of deleted resources than a batch holds.
FitsBatch ==
    \A g \in Grafanas :
      Cardinality({i \in ListedItems[g] : ~Live(cr[i[1]])}) <= BatchSize

(* The sync goroutine gets to its end through failed calls, refused writes *)
(* and deletions the worker was quicker with, also when a Grafana lists as *)
(* many dashboards of deleted resources as a batch holds.  With more, it   *)
(* returns before it has written what it did (line 102 before 122) and     *)
(* starts over for ever, so FitsBatch is needed, although the code says    *)
(* (lines 99-101) that it only "will take longer".                         *)
SyncCompletes == Calm /\ <>[]FitsBatch => <>[](s.pc = "done")
=============================================================================
