--------------------------- MODULE FolderController ---------------------------
(***************************************************************************)
(* controllers/grafanafolder_controller.go: the worker that reconciles one *)
(* GrafanaFolder at a time, and its sync goroutine.  Contents are the      *)
(* titles in spec.json and "store" the folders created for resources.      *)
(* Grafana keeps titles unique, and the dashboard controller creates and   *)
(* removes folders by title ("folders") beside this one.  A pass ends      *)
(* without a resync: an edit, a restart or the informer's relist (every    *)
(* ten hours) brings the next one.                                         *)
(***************************************************************************)
EXTENDS Cluster

CONSTANTS
    CrossNamespace, \* <<name, grafana>> pairs barred by the namespace check
    BatchSize       \* syncBatchSize

ASSUME FolderAssumption ==
    /\ CrossNamespace \subseteq Names \X Grafanas
    /\ BatchSize \in Nat
    /\ Folders \subseteq Contents

VARIABLES
    w,  \* the worker
    s   \* the sync goroutine

vars == <<clusterVars, w, s>>

\* exists: the folder was found by uid
Idle == [pc |-> "idle", key |-> Absent, cr |-> Gone(0), snap |-> NoSnap, todo |-> {},
         g |-> Absent, exists |-> FALSE]
Waiting == [pc |-> "wait", seen |-> NoSnap, gone |-> {}, todo |-> {},
            g |-> Absent, left |-> {}, count |-> 0]

CreatePCs == {"match", "next", "push", "record", "hash"}
DeletePCs == {"delList", "delNext", "delRecord", "error"}

\* A folder other than <<n, u>> has the title t in Grafana g.
TitleTaken(g, n, u, t) ==
    \/ t \in folders[g]
    \/ \E e \in (Names \X Uids) \ {<<n, u>>} : store[g][e[1]][e[2]] = t

-----------------------------------------------------------------------------
(* The worker: Reconcile of a resource that exists *)

DequeueIf(n, found) ==
    /\ up /\ w.pc = "idle" /\ n \in queue
    /\ queue' = queue \ {n}
    /\ IF found
         THEN /\ w' = [Idle EXCEPT !.pc = "match", !.key = n, !.cr = crcache[n]]
              /\ crstale' = [crstale EXCEPT ![n] = AsOldAsCache(@, "worker")]
         ELSE /\ w' = [Idle EXCEPT !.pc = "delList", !.key = n]
              /\ UNCHANGED crstale
    /\ UNCHANGED <<cr, crcache, grafanaVars, grafanaDB, timer, up, s>>

\* Variant: every error of Get is taken for NotFound.
DequeueAnyError(n) == \E read \in BOOLEAN : DequeueIf(n, read /\ Live(crcache[n]))
Dequeue(n) == DequeueIf(n, Live(crcache[n]))

GetMatchingFolderInstances(o) ==
    /\ w.pc = "match" /\ o \in KubeOutcomes("worker" \in crstale[w.key])
    /\ LET matching == {g \in Grafanas : w.key \in gcache[g].matches}
           new == [w.cr EXCEPT !.noMatch = (matching = {})]
       IN /\ IF o = "fail" THEN UNCHANGED <<cr, crstale>>
                           ELSE WriteCR(w.key, new, IF o = "ok" THEN {"worker"} ELSE {})
          /\ w' = [w EXCEPT !.pc = "next", !.cr = new, !.snap = gcache,
                            !.todo = {g \in matching : <<w.key, g>> \notin CrossNamespace}]
    /\ ListGrafanas("worker")
    /\ UNCHANGED <<crcache, grafana, gcache, grafanaDB, workVars, s>>

SkipNotReady(g) ==
    /\ w.pc = "next" /\ g \in w.todo /\ ~w.snap[g].ready
    /\ w' = [w EXCEPT !.todo = @ \ {g}]
    /\ UNCHANGED <<clusterVars, s>>

\* On to the next instance; an error is logged only.
Continue == [w EXCEPT !.pc = "next", !.g = Absent, !.exists = FALSE]

Unchanged(c) == Hash(c.json) = c.hash

\* Next instance: look the folder up; on to the next if nothing is to be done.
LookUp(g, done, o) ==
    /\ w.pc = "next" /\ g \in w.todo /\ w.snap[g].ready
    /\ LET exists == store[g][w.key][w.cr.uid] # Absent
       IN w' = IF o # "ok" \/ (exists /\ done)
               THEN [Continue EXCEPT !.todo = @ \ {g}]
               ELSE [w EXCEPT !.pc = "push", !.todo = @ \ {g}, !.g = g, !.exists = exists]
    /\ UNCHANGED <<clusterVars, s>>

\* Variant: a folder that is there is never compared.
ExistsUncompared(g, o) == LookUp(g, TRUE, o)
Exists(g, o) == LookUp(g, Unchanged(w.cr), o)

\* The folder has vanished since, or another one has the new title.
UpdateRefused == \/ store[w.g][w.key][w.cr.uid] = Absent
                 \/ TitleTaken(w.g, w.key, w.cr.uid, w.cr.json)

\* Rename it, and go straight to the hash: no record on this path.
UpdateFolder(o) ==
    /\ w.pc = "push" /\ w.exists
    /\ UpdateRefused => o = "fail"
    /\ store' = IF o = "fail" THEN store
                ELSE [store EXCEPT ![w.g][w.key][w.cr.uid] = w.cr.json]
    /\ w' = IF o = "ok" THEN [w EXCEPT !.pc = "hash"] ELSE Continue
    /\ UNCHANGED <<crVars, grafanaVars, folders, workVars, s>>

\* Create it.  A 409 is taken to mean that there is nothing left to do.
NewFolder(o) ==
    /\ w.pc = "push" /\ ~w.exists
    /\ LET taken == \/ TitleTaken(w.g, w.key, w.cr.uid, w.cr.json)
                    \/ store[w.g][w.key][w.cr.uid] # Absent
       IN /\ store' = IF o = "fail" \/ taken THEN store
                      ELSE [store EXCEPT ![w.g][w.key][w.cr.uid] = w.cr.json]
          /\ w' = IF o = "ok" /\ ~taken THEN [w EXCEPT !.pc = "record"] ELSE Continue
    /\ UNCHANGED <<crVars, grafanaVars, folders, workVars, s>>

\* Write the worker's copy of Grafana g with a new list for the key.
WriteList(g, list, o) ==
    IF o = "fail" THEN UNCHANGED <<grafana, gstale>>
    ELSE WriteGrafana(g, [w.snap[g] EXCEPT !.list[w.key] = list])

RecordUid(u, o) ==
    /\ w.pc = "record" /\ o \in KubeOutcomes("worker" \in gstale[w.g])
    /\ WriteList(w.g, Add(w.snap[w.g].list[w.key], u), o)
    /\ w' = IF o = "ok" THEN [w EXCEPT !.pc = "hash"] ELSE Continue
    /\ UNCHANGED <<crVars, gcache, grafanaDB, workVars, s>>

\* Variant: the response carries no uid.
RecordFolderNoUid(o) == RecordUid(0, o)
RecordFolder(o) == RecordUid(w.cr.uid, o)

\* The hash is set in memory whether or not the write succeeds.
UpdateStatus(o) ==
    /\ w.pc = "hash" /\ o \in KubeOutcomes("worker" \in crstale[w.key])
    /\ LET new == [w.cr EXCEPT !.hash = Hash(w.cr.json)]
       IN /\ IF o = "fail" THEN UNCHANGED <<cr, crstale>>
                           ELSE WriteCR(w.key, new, IF o = "ok" THEN {"worker"} ELSE {})
          /\ w' = [Continue EXCEPT !.cr = new]
    /\ UNCHANGED <<crcache, grafanaVars, grafanaDB, workVars, s>>

\* The loop is over.  No requeue, whatever happened.
FinishReconcile ==
    /\ w.pc = "next" /\ w.todo = {}
    /\ w' = Idle
    /\ crstale' = [crstale EXCEPT ![w.key] = @ \cup {"worker"}]
    /\ DropGrafanas("worker")
    /\ UNCHANGED <<cr, crcache, grafana, gcache, grafanaDB, workVars, s>>

-----------------------------------------------------------------------------
(* The worker: onFolderDeleted *)

ListForDelete ==
    /\ w.pc = "delList"
    /\ w' = [w EXCEPT !.pc = "delNext", !.snap = gcache,
                      !.todo = {g \in Grafanas : Listed(gcache[g].list[w.key])}]
    /\ ListGrafanas("worker")
    /\ UNCHANGED <<crVars, grafana, gcache, grafanaDB, workVars, s>>

\* Delete the folder by its uid, and Grafana the dashboards in it.
DeleteListed(g, done, o) ==
    /\ w.pc = "delNext" /\ g \in w.todo
    /\ LET u == Find(w.snap[g].list[w.key])
       IN /\ store' = IF o = "fail" THEN store ELSE [store EXCEPT ![g][w.key][u] = Absent]
          /\ w' = [w EXCEPT !.pc = IF done THEN "delRecord" ELSE "error",
                            !.todo = @ \ {g}, !.g = g]
    /\ UNCHANGED <<crVars, grafanaVars, folders, workVars, s>>

\* Variant: every answer is taken for a 404.
DeleteFolderAnyStatus(g, o) == DeleteListed(g, TRUE, o)
DeleteFolder(g, o) == DeleteListed(g, o = "ok", o)

RemoveRecord(o) ==
    /\ w.pc = "delRecord" /\ o \in KubeOutcomes("worker" \in gstale[w.g])
    /\ WriteList(w.g, Remove(w.snap[w.g].list[w.key]), o)
    /\ w' = [w EXCEPT !.pc = IF o = "ok" THEN "delNext" ELSE "error", !.g = Absent]
    /\ UNCHANGED <<crVars, gcache, grafanaDB, workVars, s>>

FinishDelete ==
    /\ w.pc = "error" \/ (w.pc = "delNext" /\ w.todo = {})
    /\ w' = Idle
    /\ IF w.pc = "error" THEN AddAfter(w.key, "retry") ELSE UNCHANGED timer
    /\ DropGrafanas("worker")
    /\ UNCHANGED <<crVars, grafana, gcache, grafanaDB, queue, up, s>>

-----------------------------------------------------------------------------
(* The sync goroutine: syncFolders *)

SyncListGrafanas ==
    /\ up /\ s.pc = "wait"
    /\ s' = [s EXCEPT !.pc = "list", !.seen = gcache]
    /\ ListGrafanas("sync")
    /\ UNCHANGED <<crVars, grafana, gcache, grafanaDB, workVars, w>>

SyncListFolders ==
    /\ s.pc = "list"
    /\ LET gone == {n \in Names : ~Live(crcache[n])}
       IN s' = [s EXCEPT !.pc = "next", !.gone = gone,
                  !.todo = {g \in Grafanas : \E n \in gone : Listed(s.seen[g].list[n])}]
    /\ UNCHANGED <<clusterVars, w>>

SyncStart(g) ==
    /\ s.pc = "next" /\ g \in s.todo
    /\ s' = [s EXCEPT !.pc = "delete", !.g = g, !.todo = @ \ {g},
               !.left = {e \in s.gone \X Uids : e[2] \in Entries(s.seen[g].list[e[1]])}]
    /\ UNCHANGED <<clusterVars, w>>

\* DeleteDashboardByUID with the uid of a folder.  That Grafana has no such
\* dashboard and answers 404, which is taken for success, is assumed of Grafana.
SyncDelete(e, o) ==
    /\ s.pc = "delete" /\ e \in s.left /\ s.count < BatchSize
    /\ s' = IF o = "ok" THEN [s EXCEPT !.left = @ \ {e}, !.count = @ + 1]
            ELSE [s EXCEPT !.pc = "again"]
    /\ UNCHANGED <<clusterVars, w>>

\* One status update per Grafana, without the names that are gone.
WriteWithoutGone(o) ==
    /\ s.pc = "delete" /\ s.left = {}
    /\ IF o = "fail" THEN UNCHANGED <<grafana, gstale>>
       ELSE WriteGrafana(s.g, [s.seen[s.g] EXCEPT !.list = [n \in Names |->
                                 IF n \in s.gone THEN Remove(@[n]) ELSE @[n]]])
    /\ s' = [s EXCEPT !.pc = IF o = "ok" THEN "next" ELSE "again", !.g = Absent]
    /\ UNCHANGED <<crVars, gcache, grafanaDB, workVars, w>>

\* Variant: the update does not carry a resourceVersion.
SyncUpdateForced(o) == WriteWithoutGone(o)
SyncUpdate(o) == WriteWithoutGone(o) /\ o \in KubeOutcomes("sync" \in gstale[s.g])

SyncReturn ==
    /\ \/ s.pc = "again" /\ s' = Waiting
       \/ s.pc = "delete" /\ s.left # {} /\ s.count >= BatchSize /\ s' = Waiting
       \/ s.pc = "next" /\ s.todo = {} /\ s' = [Waiting EXCEPT !.pc = "done"]
    /\ DropGrafanas("sync")
    /\ UNCHANGED <<crVars, grafana, gcache, grafanaDB, workVars, w>>

-----------------------------------------------------------------------------
(* Surroundings *)

\* The dashboard controller creates the folder of a dashboard by title ...
DashboardMakesFolder(g, t) ==
    /\ t \in Folders /\ ~TitleTaken(g, Absent, 0, t)
    /\ folders' = [folders EXCEPT ![g] = @ \cup {t}]
    /\ UNCHANGED <<crVars, grafanaVars, store, workVars, w, s>>

\* ... and removes it, whoever made it, once it holds no dashboard.
DashboardDropsFolder(g, t) ==
    /\ t \in Folders /\ TitleTaken(g, Absent, 0, t)
    /\ folders' = [folders EXCEPT ![g] = @ \ {t}]
    /\ store' = [store EXCEPT ![g] = [n \in Names |-> [u \in Uids |->
                   IF @[n][u] = t THEN Absent ELSE @[n][u]]]]
    /\ UNCHANGED <<crVars, grafanaVars, workVars, w, s>>

\* The informer hands every cached resource to the queue again.
Relist(n) ==
    /\ up /\ CachesCurrent /\ Live(crcache[n]) /\ n \notin queue
    /\ queue' = queue \cup {n}
    /\ UNCHANGED <<crVars, grafanaVars, grafanaDB, timer, up, w, s>>

Crash == ClusterCrash /\ w' = Idle /\ s' = Waiting
Start == ClusterStart /\ UNCHANGED <<w, s>>

Init == ClusterInit /\ w = Idle /\ s = Waiting

CreateStep(o) ==
    \/ GetMatchingFolderInstances(o)
    \/ \E g \in Grafanas : Exists(g, o)
    \/ UpdateFolder(o) \/ NewFolder(o) \/ RecordFolder(o) \/ UpdateStatus(o)

DeleteStep(o) == (\E g \in Grafanas : DeleteFolder(g, o)) \/ RemoveRecord(o)

LocalStep ==
    \/ \E n \in Names : Dequeue(n)
    \/ \E g \in Grafanas : SkipNotReady(g)
    \/ FinishReconcile \/ ListForDelete \/ FinishDelete

SyncLocalStep ==
    \/ SyncListGrafanas \/ SyncListFolders \/ SyncReturn
    \/ \E g \in Grafanas : SyncStart(g)

SyncStep(o) == (\E e \in Names \X Uids : SyncDelete(e, o)) \/ SyncUpdate(o)

Controller == LocalStep \/ SyncLocalStep
              \/ \E o \in Outcomes : CreateStep(o) \/ DeleteStep(o) \/ SyncStep(o)

Env(A) == A /\ UNCHANGED <<w, s>>

Dashboards == \E g \in Grafanas, t \in Folders :
                DashboardMakesFolder(g, t) \/ DashboardDropsFolder(g, t)

Next == \/ Controller \/ Crash \/ Start \/ Env(Outside) \/ Dashboards
        \/ \E n \in Names : Relist(n)

Spec == Init /\ [][Next]_vars

\* Goroutines are scheduled, informers deliver and relist, timers fire, and the
\* queue starves no key.
Fairness ==
    /\ WF_vars(Start)
    /\ WF_vars(LocalStep \/ \E o \in Outcomes : CreateStep(o) \/ DeleteStep(o))
    /\ WF_vars(SyncLocalStep \/ \E o \in Outcomes : SyncStep(o))
    /\ \A n \in Names : /\ WF_vars(Env(SyncCRCache(n))) /\ SF_vars(Env(TimerFires(n)))
                       /\ SF_vars(Dequeue(n)) /\ SF_vars(Relist(n))
    /\ \A g \in Grafanas : WF_vars(Env(SyncGrafanaCache(g)))

FairSpec == Spec /\ Fairness

\* The operator is never stopped, its sync has ended, and the worker takes a
\* key when the caches are current; calls may fail.
SteadySpec ==
    /\ Init /\ Fairness
    /\ [][Next /\ ~Crash /\ \A n \in Names : Dequeue(n) => CachesCurrent /\ s.pc = "done"]_vars

-----------------------------------------------------------------------------
(* Properties *)

Worker == [pc: {"idle"} \cup CreatePCs \cup DeletePCs, key: Names \cup {Absent},
           cr: Resource, snap: GrafanaCopies, todo: SUBSET Grafanas,
           g: Grafanas \cup {Absent}, exists: BOOLEAN]

Syncer == [pc: {"wait", "list", "next", "delete", "again", "done"},
           seen: GrafanaCopies, gone: SUBSET Names, todo: SUBSET Grafanas,
           g: Grafanas \cup {Absent}, left: SUBSET (Names \X Uids), count: Nat]

(* Variables keep their types; a recorded uid is the one of the folder     *)
(* (line 327).                                                             *)
TypeOK == ClusterTypeOK /\ w \in Worker /\ s \in Syncer

\* What the worker's and the sync's variables hold at each of their steps
WorkerShape ==
    /\ w.pc # "idle" => w.key \in Names
    /\ w.pc \in CreatePCs => Live(w.cr) /\ w.cr.uid \in Uids
    /\ w.pc \in {"push", "record", "hash", "delRecord"} => w.g \in Grafanas
    /\ w.pc \in {"delNext", "delRecord"} => \A g \in w.todo : Listed(w.snap[g].list[w.key])

SyncShape == s.pc = "delete" => s.g \in Grafanas

ShapeOK == LiveHasUid(cr) /\ LiveHasUid(crcache) /\ WorkerShape /\ SyncShape

\* A copy no writer has overtaken equals the object.
SnapOK == \A g \in Grafanas :
            "worker" \notin gstale[g] => w.pc # "idle" /\ w.snap[g] = grafana[g]
SeenOK == \A g \in Grafanas : "sync" \notin gstale[g] => s.seen[g] = grafana[g]
WorkerCopyOK == w.pc \in CreatePCs /\ "worker" \notin crstale[w.key] =>
                  w.cr.json = cr[w.key].json /\ w.cr.uid = cr[w.key].uid

CopiesOK == CacheCopyOK /\ GrafanaCacheOK /\ SnapOK /\ SeenOK /\ WorkerCopyOK

\* The cache never runs ahead, and no copy runs ahead of the cache.
CacheOrderOK ==
    /\ CacheNotAhead
    /\ w.pc \in CreatePCs => w.cr.uid <= crcache[w.key].uid
    /\ KnownToCache(grafana) /\ KnownToCache(gcache)
    /\ KnownToCache(w.snap) /\ KnownToCache(s.seen)

\* What the two delete paths may touch belongs to deleted resources ...
DeleteOK ==
    /\ w.pc \in DeletePCs => ListedDead(grafana, w.key) /\ ListedDead(gcache, w.key)
    /\ w.pc \in DeletePCs \ {"delList"} => ListedDead(w.snap, w.key)
    /\ s.pc \in {"next", "delete"} => \A n \in s.gone : ListedDead(s.seen, n)

\* ... and what the worker is about to take off a list has left Grafana.
RecordOK ==
    w.pc = "delRecord" =>
      LET list == w.snap[w.g].list[w.key] IN Listed(list) /\ store[w.g][w.key][Find(list)] = Absent

IInv == ShapeOK /\ CopiesOK /\ CacheOrderOK /\ DeleteOK /\ RecordOK

(* No writer of the status drops the entry of a living folder: the worker  *)
(* (line 268), the sync goroutine (line 122), both from copies listed      *)
(* several calls before, and those who write the resource otherwise, while *)
(* a name is taken again and its folder recorded.                          *)
LiveNotForgotten ==
    [][\A g \in Grafanas, n \in Names, u \in Uids :
         u \in Entries(grafana[g].list[n]) /\ u \notin Entries(grafana'[g].list[n])
         => Dead(n, u)]_vars

\* The call about to be made cannot succeed: a copy is out of date, or Grafana
\* refuses the update.
WorkerRefused ==
    \/ w.pc \in {"match", "hash"} /\ "worker" \in crstale[w.key]
    \/ w.pc \in {"record", "delRecord"} /\ "worker" \in gstale[w.g]
    \/ w.pc = "push" /\ w.exists /\ UpdateRefused

Fault == \E o \in Outcomes \ {"ok"} :
    \/ (CreateStep(o) \/ DeleteStep(o)) /\ ~WorkerRefused
       /\ ~CreateStep("ok") /\ ~DeleteStep("ok")
    \/ SyncStep(o) /\ ~SyncStep("ok")
       /\ ~(s.pc = "delete" /\ s.left = {} /\ "sync" \in gstale[s.g])

\* From some point on the operator stays up, calls that can succeed do, and
\* nobody else writes to the Grafana resources or edits folders.
Calm == <>[][~Crash /\ ~Fault
             /\ \A g \in Grafanas : ~Env(GrafanaWrite(g)) /\ ~Env(UiEdit(g))]_vars

(* The worker takes a folder's entry out of the status only when the       *)
(* folder has left Grafana (lines 247-266), though the list it found the   *)
(* uid in and the one it shortens are several calls apart.                 *)
GoneBeforeForgotten ==
    [][\A g \in Grafanas, n \in Names :
         LET list == grafana[g].list[n]
         IN w.pc = "delRecord" /\ s' = s /\ Listed(list) /\ ~Listed(grafana'[g].list[n])
            => store[g][n][Find(list)] = Absent]_vars

(* A folder wanted in a Grafana is there under its title again and again,  *)
(* although a failed pass is not retried (line 199) and the dashboard      *)
(* controller creates and removes folders of the same title.               *)
Converges ==
    Calm => \A g \in Grafanas, n \in Names :
      <>[]Wants(g, n) => []<>TitleTaken(g, Absent, 0, cr[n].json)

(* The folder of a deleted resource leaves every Grafana that lists it,    *)
(* and its entry the status, through failed calls and refused writes.      *)
ListedRemoved ==
    Calm => \A g \in Grafanas, n \in Names, u \in Uids :
      LET listed == u \in Entries(grafana[g].list[n])
      IN Dead(n, u) /\ listed ~> ~listed /\ store[g][n][u] = Absent

(* Line 80: "sync folders, delete folders from grafana that do no longer   *)
(* have a cr": an entry is dropped only once its folder has left Grafana.  *)
ForgottenOnlyWhenGone ==
    [][\A g \in Grafanas, n \in Names, u \in Uids :
         u \in Entries(grafana[g].list[n]) /\ u \notin Entries(grafana'[g].list[n])
         => store[g][n][u] = Absent]_vars

(* Listed or not, the folder of a deleted resource leaves every Grafana.   *)
OrphansRemoved ==
    \A g \in Grafanas, n \in Names, u \in Uids :
      Calm /\ <>[]Dead(n, u) => <>[](store[g][n][u] = Absent)
=============================================================================
