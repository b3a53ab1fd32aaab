------------------------------- MODULE Cluster -------------------------------
(***************************************************************************)
(* What the operator's content controllers (dashboards, data sources and   *)
(* folders) share: the custom resources and Grafana resources on the API   *)
(* server, the informer caches the controllers read instead, the work      *)
(* queue, and the databases of the Grafana servers themselves.             *)
(*                                                                         *)
(* The API server accepts a write only from a writer whose copy carries    *)
(* the current resourceVersion.  Versions are unbounded, so the model      *)
(* keeps, for every object, the set of holders whose copy is out of date.  *)
(*                                                                         *)
(* Grafana.status.dashboards is a list of "namespace/name/uid".  Every     *)
(* operation on it concerns one namespace/name, so it is kept per resource *)
(* as the sequence of uids listed for it, newest first.                    *)
(***************************************************************************)
EXTENDS Integers, Sequences, Forward

CONSTANTS
    Grafanas,       \* Grafana resources, one server each
    Internal,       \* those the operator deploys itself (emptyDir volume)
    Names,          \* namespace/name keys of custom resources
    Absent,         \* no resource, no content, no hash
    Contents,       \* versions of spec.json
    EditSteps,      \* <<old, new>> pairs a user may edit spec.json along
    Selections,     \* label states of a Grafana: the Names that select it
    OtherWriters,   \* Grafanas whose resource others write to as well
    Readiness,      \* whether a Grafana's stage can be complete, or not, or both
    Folders,        \* folder titles
    FolderOf,       \* spec.folder of each name, or Absent
    Outcomes,       \* what a remote call may do: ok, fail, lost (done, no answer)
    MaxUid,         \* bound: how often one name is created
    UiEdits,        \* whether people edit dashboards in Grafana's own UI
    TimersOutliveLag \* whether a resync timer is longer than the caches' lag

ASSUME ClusterAssumption ==
    /\ Internal \subseteq Grafanas /\ OtherWriters \subseteq Grafanas
    /\ Absent \notin Grafanas /\ Absent \notin Names
    /\ Absent \notin Contents /\ Absent \notin Folders
    /\ EditSteps \subseteq Contents \X Contents
    /\ Selections \subseteq SUBSET Names /\ Selections # {}
    /\ Readiness \subseteq BOOLEAN /\ TRUE \in Readiness
    /\ FolderOf \in [Names -> Folders \cup {Absent}]
    /\ {"ok", "fail"} \subseteq Outcomes /\ Outcomes \subseteq {"ok", "fail", "lost"}
    /\ MaxUid \in Nat
    /\ UiEdits \in BOOLEAN
    /\ TimersOutliveLag \in BOOLEAN

VARIABLES
    cr,        \* custom resources on the API server
    crcache,   \* the informer's copy of them
    crstale,   \* per name, who holds an outdated copy
    grafana,   \* Grafana resources on the API server
    gcache,    \* the informer's copy of them
    gstale,    \* per Grafana, who holds an outdated copy
    store,     \* dashboards in each Grafana's database, by name and uid
    folders,   \* folders in each Grafana's database
    queue,     \* keys waiting for the worker
    timer,     \* the delaying queue's entry for each key
    up         \* is the operator's pod running

clusterVars == <<cr, crcache, crstale, grafana, gcache, gstale, store, folders,
                 queue, timer, up>>

grafanaDB == <<store, folders>>
crVars == <<cr, crcache, crstale>>
grafanaVars == <<grafana, gcache, gstale>>
workVars == <<queue, timer, up>>

Uids == 1..MaxUid
CRHolders == {"cache", "worker"}
GrafanaHolders == {"cache", "worker", "sync"}

-----------------------------------------------------------------------------
(* Resources *)

\* sha256 of spec.json; distinct contents have distinct hashes
Hash(json) == <<"sha256", json>>

\* status.hash is empty before the first hash is written.
ASSUME HashAssumption == \A c \in Contents : Hash(c) # Absent

Resource == [uid: 0..MaxUid,
             json: Contents \cup {Absent},
             hash: {Hash(c) : c \in Contents} \cup {Absent},
             noMatch: BOOLEAN]

\* A new resource has no status; a deleted (or never created) one keeps the
\* uid it last had.
New(u, json) == [uid |-> u, json |-> json, hash |-> Absent, noMatch |-> FALSE]
Gone(u) == New(u, Absent)
Live(c) == c.json # Absent

LiveHasUid(resources) == \A n \in Names : Live(resources[n]) => resources[n].uid \in Uids

\* The incarnation u of name n has been deleted for good.
Dead(n, u) == cr[n].uid > u \/ (cr[n].uid = u /\ ~Live(cr[n]))

GrafanaResource == [ready: BOOLEAN, matches: Selections, list: [Names -> Seq(Uids)]]

\* NamespacedResourceList, seen per namespace/name
Entries(list) == {list[i] : i \in 1..Len(list)}
Listed(list) == list # <<>>
Find(list) == list[1]
Add(list, u) == IF u \in Entries(list) THEN list ELSE <<u>> \o list
Remove(list) == <<>>

\* No Grafana listed yet
NoSnap == [g \in Grafanas |->
             [ready |-> FALSE, matches |-> CHOOSE m \in Selections : TRUE,
              list |-> [n \in Names |-> <<>>]]]

Recorded(n, u) == \E g \in Grafanas : u \in Entries(grafana[g].list[n])

Wanted(g, n, u, c) ==
    /\ cr[n].uid = u /\ cr[n].json = c
    /\ grafana[g].ready /\ n \in grafana[g].matches

\* Resource n asks for content in Grafana g.
Wants(g, n) == Live(cr[n]) /\ grafana[g].ready /\ n \in grafana[g].matches

\* A copy read from the cache is as old as the cache.
AsOldAsCache(stale, who) == IF "cache" \in stale THEN stale \cup {who} ELSE stale \ {who}

\* Variant: the copies are written back as if they were current.
ListGrafanasAsCurrent(who) == gstale' = [g \in Grafanas |-> gstale[g] \ {who}]

ListGrafanas(who) == gstale' = [g \in Grafanas |-> AsOldAsCache(gstale[g], who)]
DropGrafanas(who) == gstale' = [g \in Grafanas |-> gstale[g] \cup {who}]

\* ReconcilePlugins: write (or clear) what name n asks of an internal Grafana.
PluginsAfter(req, g, n, wanted, o) ==
    IF o = "fail" \/ g \notin Internal THEN req
    ELSE [req EXCEPT ![g] = IF wanted THEN @ \cup {n} ELSE @ \ {n}]

-----------------------------------------------------------------------------
(* Writes *)

\* The outcomes of a write by a holder whose copy is, or is not, out of date
KubeOutcomes(stale) == IF stale THEN {"fail"} ELSE Outcomes

\* A write that changes nothing leaves the resourceVersion alone.  The holders
\* in "by" get the new version back in the response.
WriteCR(n, new, by) ==
    /\ cr' = [cr EXCEPT ![n] = new]
    /\ crstale' = [crstale EXCEPT ![n] = IF new = cr[n] THEN @ ELSE CRHolders \ by]

WriteGrafana(g, new) ==
    /\ grafana' = [grafana EXCEPT ![g] = new]
    /\ gstale' = [gstale EXCEPT ![g] = IF new = grafana[g] THEN @ ELSE GrafanaHolders]

\* workqueue: an entry that is already waiting keeps the earlier deadline
AddAfter(key, kind) ==
    timer' = [timer EXCEPT ![key] = IF @ = "retry" THEN @ ELSE kind]

-----------------------------------------------------------------------------
(* Users and other writers *)

CreateCR(n) ==
    /\ ~Live(cr[n]) /\ cr[n].uid < MaxUid
    /\ \E c \in Contents :
         WriteCR(n, New(cr[n].uid + 1, c), {})
    /\ UNCHANGED <<crcache, grafana, gcache, gstale, store, folders, queue, timer, up>>

EditCR(n) ==
    /\ \E step \in EditSteps :
         cr[n].json = step[1] /\ WriteCR(n, [cr[n] EXCEPT !.json = step[2]], {})
    /\ UNCHANGED <<crcache, grafana, gcache, gstale, store, folders, queue, timer, up>>

DeleteCR(n) ==
    /\ Live(cr[n])
    /\ WriteCR(n, Gone(cr[n].uid), {})
    /\ UNCHANGED <<crcache, grafana, gcache, gstale, store, folders, queue, timer, up>>

\* The Grafana controller moves the stage, a user relabels the resource, or
\* any other status field changes: at the least the resourceVersion does.
GrafanaWrite(g) ==
    /\ g \in OtherWriters
    /\ \E r \in Readiness, m \in Selections :
         grafana' = [grafana EXCEPT ![g] = [ready |-> r, matches |-> m, list |-> @.list]]
    /\ gstale' = [gstale EXCEPT ![g] = GrafanaHolders]
    /\ UNCHANGED <<cr, crcache, crstale, gcache, store, folders, queue, timer, up>>

UiEdit(g) ==
    /\ UiEdits
    /\ \E n \in Names, u \in Uids, c \in Contents :
         /\ store[g][n][u] # Absent
         /\ store' = [store EXCEPT ![g][n][u] = c]
    /\ UNCHANGED <<cr, crcache, crstale, grafana, gcache, gstale, folders, queue, timer, up>>

\* The pod of an internal Grafana is replaced, and its emptyDir with it.
EmptyStore == [n \in Names |-> [u \in Uids |-> Absent]]

Wipe(g) ==
    /\ g \in Internal
    /\ store' = [store EXCEPT ![g] = EmptyStore]
    /\ folders' = [folders EXCEPT ![g] = {}]
    /\ UNCHANGED <<cr, crcache, crstale, grafana, gcache, gstale, queue, timer, up>>

-----------------------------------------------------------------------------
(* Informers and timers *)

SyncCRCache(n) ==
    /\ up /\ "cache" \in crstale[n]
    /\ crcache' = [crcache EXCEPT ![n] = cr[n]]
    /\ crstale' = [crstale EXCEPT ![n] = @ \ {"cache"}]
    /\ queue' = queue \cup {n}
    /\ UNCHANGED <<cr, grafana, gcache, gstale, store, folders, timer, up>>

SyncGrafanaCache(g) ==
    /\ up /\ "cache" \in gstale[g]
    /\ gcache' = [gcache EXCEPT ![g] = grafana[g]]
    /\ gstale' = [gstale EXCEPT ![g] = @ \ {"cache"}]
    /\ UNCHANGED <<cr, crcache, crstale, grafana, store, folders, queue, timer, up>>

CachesCurrent ==
    /\ \A n \in Names : "cache" \notin crstale[n]
    /\ \A g \in Grafanas : "cache" \notin gstale[g]

\* A rate-limited retry may come within milliseconds; a resync takes seconds.
TimerFires(n) ==
    /\ up /\ timer[n] # "none"
    /\ timer[n] = "resync" /\ TimersOutliveLag => CachesCurrent
    /\ timer' = [timer EXCEPT ![n] = "none"]
    /\ queue' = queue \cup {n}
    /\ UNCHANGED <<cr, crcache, crstale, grafana, gcache, gstale, store, folders, up>>

-----------------------------------------------------------------------------
(* The operator's process *)

ClusterCrash ==
    /\ up /\ up' = FALSE
    /\ queue' = {} /\ timer' = [n \in Names |-> "none"]
    /\ crcache' = cr /\ gcache' = grafana
    /\ crstale' = [n \in Names |-> {"worker"}]
    /\ gstale' = [g \in Grafanas |-> {"worker", "sync"}]
    /\ UNCHANGED <<cr, grafana, grafanaDB>>

\* The informers list everything, and every resource is enqueued.
ClusterStart ==
    /\ ~up /\ up' = TRUE
    /\ crcache' = cr /\ gcache' = grafana
    /\ crstale' = [n \in Names |-> crstale[n] \ {"cache"}]
    /\ gstale' = [g \in Grafanas |-> gstale[g] \ {"cache"}]
    /\ queue' = {n \in Names : Live(cr[n])}
    /\ UNCHANGED <<cr, grafana, grafanaDB, timer>>

-----------------------------------------------------------------------------
ClusterInit ==
    /\ cr = [n \in Names |-> Gone(0)]
    /\ crcache = cr
    /\ crstale = [n \in Names |-> {"worker"}]
    /\ \E r \in Readiness, m \in Selections :
         grafana = [g \in Grafanas |->
                      [ready |-> r, matches |-> m, list |-> [n \in Names |-> <<>>]]]
    /\ gcache = grafana
    /\ gstale = [g \in Grafanas |-> {"worker", "sync"}]
    /\ store = [g \in Grafanas |-> EmptyStore]
    /\ folders = [g \in Grafanas |-> {}]
    /\ queue = {}
    /\ timer = [n \in Names |-> "none"]
    /\ up = TRUE

\* The cluster as a ledger of items: ContentLedger's variables
Items == Names \X Uids
Life == [i \in Items |->
           IF Dead(i[1], i[2]) THEN "dead"
           ELSE IF cr[i[1]].uid = i[2] THEN "live" ELSE "unborn"]
Stored == [g \in Grafanas |-> {i \in Items : store[g][i[1]][i[2]] # Absent}]
ListedItems == [g \in Grafanas |-> {i \in Items : i[2] \in Entries(grafana[g].list[i[1]])}]
Settled == {i \in Items : cr[i[1]].uid = i[2] /\ cr[i[1]].hash # Absent}

\* What happens without the controller taking a step
Outside ==
    \/ \E n \in Names : CreateCR(n) \/ EditCR(n) \/ DeleteCR(n)
                        \/ SyncCRCache(n) \/ TimerFires(n)
    \/ \E g \in Grafanas : GrafanaWrite(g) \/ UiEdit(g) \/ Wipe(g) \/ SyncGrafanaCache(g)

ClusterTypeOK ==
    /\ cr \in [Names -> Resource]
    /\ crcache \in [Names -> Resource]
    /\ crstale \in [Names -> SUBSET CRHolders]
    /\ grafana \in [Grafanas -> GrafanaResource]
    /\ gcache \in [Grafanas -> GrafanaResource]
    /\ gstale \in [Grafanas -> SUBSET GrafanaHolders]
    /\ store \in [Grafanas -> [Names -> [Uids -> Contents \cup {Absent}]]]
    /\ folders \in [Grafanas -> SUBSET Folders]
    /\ queue \in SUBSET Names
    /\ timer \in [Names -> {"none", "retry", "resync"}]
    /\ up \in BOOLEAN

GrafanaCopies == [Grafanas -> GrafanaResource]

-----------------------------------------------------------------------------
(* Parts of the controllers' invariants *)

\* A cached copy nobody has overtaken equals the object.
CacheCopyOK == \A n \in Names : "cache" \notin crstale[n] => crcache[n] = cr[n]
GrafanaCacheOK == \A g \in Grafanas : "cache" \notin gstale[g] => gcache[g] = grafana[g]

\* The cache of the resources never runs ahead of them ...
CacheNotAhead ==
    \A n \in Names :
      /\ crcache[n].uid <= cr[n].uid
      /\ crcache[n].uid = cr[n].uid /\ ~Live(crcache[n]) => ~Live(cr[n])

\* ... and a copy of the Grafanas lists nothing the cache has not known.
KnownToCache(copies) ==
    \A g \in Grafanas, n \in Names : \A u \in Entries(copies[g].list[n]) : u <= crcache[n].uid

\* Users go on to new contents and never back to an earlier one.
EditsForward(before) == GoesForward(before, Contents, EditSteps)
EditOrders == {before \in [Contents \X Contents -> BOOLEAN] : EditsForward(before)}

\* All that is listed for name n in a copy of the Grafanas is dead.
ListedDead(copies, n) == \A g \in Grafanas : \A u \in Entries(copies[g].list[n]) : Dead(n, u)
=============================================================================
