# Verification of the Grafana operator

TLA+ models of the Grafana operator (version 5, `controllers/` and `api/v1beta1/`),
checked with TLC on small instances and, where it says so, proved with TLAPS for every
value of the constants.

## 1. The system

The operator watches four kinds of custom resources. `Grafana` describes an instance,
either *internal* (deployed by the operator) or *external* (only its URL is given);
`GrafanaDashboard`, `GrafanaDatasource` and `GrafanaFolder` describe content, and select
by labels the instances that content goes to.

| Component | State | Operations |
|---|---|---|
| Grafana controller (`grafana_controller.go`, `reconcilers/grafana`) | `Grafana.status.stage`, `stageStatus`, `adminUrl`; Deployment, Service, Ingress, PVC, ConfigMaps | runs nine stages in order until one is not done, then writes the status |
| Dashboard controller (`dashboard_controller.go`) | `GrafanaDashboard.status.hash`, `NoMatchingInstances`, content cache; `Grafana.status.dashboards`; dashboards and folders in each Grafana | `Reconcile` (create/update, delete), `syncDashboards` |
| Data source controller (`datasource_controller.go`) | `GrafanaDatasource.status.hash`; `Grafana.status.datasources`; data sources in each Grafana | `Reconcile`, `syncDatasources` |
| Folder controller (`grafanafolder_controller.go`) | `GrafanaFolder.status.hash`; `Grafana.status.folders`; folders in each Grafana | `Reconcile`, `syncFolders` |
| Status lists (`namespaced_resource.go`) | lists of `namespace/name/uid` | `Find`, `Add`, `Remove`, `ForNamespace` |
| Plugins (`controller_shared.go`, `plugin_list.go`, `plugins_reconciler.go`) | one ConfigMap per internal Grafana | `ReconcilePlugins` writes a list per resource; the plugins stage consolidates them |
| Fetchers (`fetchers/`) | content cache in the dashboard's status | URL, Jsonnet |
| API client (`client/`) | none of its own | takes url and credentials from the Grafana, its Deployment and its Secret |
| Start-up (`main.go`) | leader or standby | starts the controllers, and through `SetupWithManager` the sync goroutines |
| Resource builders, merge, metrics, detection | none of their own | |

**How they interact.** The controllers never call one another. They meet in

* the `Grafana` resource: the Grafana controller and all three content controllers, each
  with a worker and a sync goroutine, rewrite its *whole* status, from copies read out of
  an informer cache. The API server refuses a write whose `resourceVersion` is not
  current, and nothing else keeps one writer from undoing another's list;
- the database of each Grafana server, over HTTP: dashboard controller and folder
  controller both create and delete folders, people edit in the UI, and an internal
  server's database is an `emptyDir` that goes with its pod;
- the plugins ConfigMap, written by dashboards and data sources, read by a stage.

A content resource has no finalizer. A deletion is seen as *NotFound* when the key is
reconciled, and what has to be removed where is known only from the lists in the status
of the Grafana resources. A deletion while the operator is down is seen by nobody; for
that, each content controller starts a goroutine at start-up that compares lists and
resources every ten seconds until one comparison succeeds.

**What is hard.** One pass of `Reconcile` makes some six remote calls per Grafana, any of
which may fail, or succeed without an answer, and each outcome leaves another partial
state. Caches lag. The worker and the sync goroutine run concurrently in one process and
outlive each other's assumptions. A name may be reused for another resource. A change of
a Grafana (labels, readiness, loss of its pod) reaches the content controllers only
through their resync timer. `PROJECT.json` lists each hazard at its line.

**What makes each component correct.**

* Dashboard controller: what a living resource wants comes to be in every Grafana it
  selects, with the current content; nothing that is wanted is ever deleted; what is
  no longer wanted is removed, and so is its entry; a hash is never ahead of the record.
* Data source and folder controllers: the same, for their kinds.
* Status lists: no writer drops another resource's entry.
* Plugins: the consolidated list has each plugin once, and every plugin asked for,
  whatever the order of the map.
* Grafana controller: a Grafana reported ready has finished every stage in order, and
  has an admin URL; a stage that fails is retried; a status that does not change is not
  written.
* URL cache: content is used only for the URL it was fetched from, and while fresh.

## 2. Modules

| Module | Contents |
|---|---|
| `Cluster` | what the content controllers share: resources on the API server, informer caches, work queue and timers, the Grafana servers; users and other writers |
| `ContentLedger` | the abstract specification of a content controller: which items are stored, listed and settled, without calls, caches or restarts |
| `DashboardController` | `dashboard_controller.go` over `Cluster`: worker, sync goroutine, process; implements `ContentLedger` |
| `DatasourceController` | `datasource_controller.go` over `Cluster`, the same, with the ids Grafana gives |
| `FolderController` | `grafanafolder_controller.go` over `Cluster`, beside dashboards that create and drop folders |
| `Standby` | `DashboardController` twice: a leader, and a standby replica that runs the sync goroutine only |
| `DashboardSource` | content from a url: the cache, its expiry, inputs and the hash |
| `DatasourceContent` | the expansion of variables and the hash of a data source, against a reference, and the passes that push one, write the other, or fail |
| `GrafanaController` | `grafana_controller.go` and `reconcilers/grafana`: the stages, the objects, the status |
| `AdminAccess` | `GrafanaController` with the running pod, and the client the other controllers log in with |
| `PluginList`, `Plugins` | the list operations and the consolidation; resources, ConfigMap and plugins stage |
| `Forward` | what trails what, when edits only go forward |
| `ClusterProofs` | what steps of `Cluster` do, for the proofs about the controllers over it |
| `FoldTheorems` | induction and what a fold runs through, for the proofs about data |
| `DashboardControllerProofs`, `DatasourceControllerProofs`, `DatasourceContentProofs`, `FolderControllerProofs`, `GrafanaControllerProofs`, `PluginsProofs` | proofs (section 4) |
| `MC...` | values of constants for TLC |

Operators called *variant* in their comment (`ExistsUncompared`, `SyncStartReread`, ...)
are slips a change of the code could introduce. No specification uses them; each makes a
property fail, which shows that the property depends on the code being as it is.

`PROJECT.json` maps every definition to the lines it models. The tables below give the
actions in the order the code runs them.

### Cluster

`cr[n]` is the resource named `n` (a namespace/name) on the API server, with its `uid`
counting incarnations, the content `json`, and the status fields `hash` and `noMatch`;
`json = Absent` when there is none. `crcache` is the informer's copy. `grafana[g]` holds
`ready` (stage complete with success), `matches` (the names whose selector fits its
labels) and `list`, the status list seen per name as the sequence of its uids, newest
first; `gcache` is the informer's copy. Every operation of `namespaced_resource.go`
concerns one namespace/name and leaves the others alone, in order, so nothing is lost by
this view.

`resourceVersion` is unbounded. Instead, `crstale[n]` and `gstale[g]` say *whose* copy
("cache", "worker", "sync") is out of date. A write succeeds only for a holder not among
them (`KubeOutcomes`), and adds everybody who does not get the new version back
(`WriteCR`, `WriteGrafana`); a write that changes nothing leaves versions alone, as the
API server does. A copy read from the cache is as old as the cache.

`store[g][n][u]` is the content with uid `u` in Grafana `g` (dashboards, data sources or
folders, whatever the controller manages), `folders[g]` the folders that dashboards made.
`timer[n]` is the delaying queue's entry, which keeps the earlier of two deadlines.

Every remote call takes an outcome: `ok`, `fail` (no effect), `lost` (effect, but the
caller sees an error). Where the code ignores a 404, it counts as `ok`.

### DashboardController

The worker `w` carries the local variables of `Reconcile` and a program counter; one
action is one remote call together with the local code up to the next.

| `pc` | action | code (`dashboard_controller.go`) |
|---|---|---|
| idle | `Dequeue` | `Get` 159-175 |
| match | `GetMatchingDashboardInstances` | 540-555 |
| next | `SkipNotReady`, `StartInstance`, `FinishReconcile` | 188-227, 290-308 |
| exists | `Exists` | 314-321, 413-424 |
| folder | `GetOrCreateFolder` | 426-462 |
| push | `NewDashboard` | 335-352 |
| record | `RecordDashboard` | 354-358 |
| hash | `UpdateStatus` | 360, 408-411 |
| delList | `ListForDelete` | 229-238 |
| delNext | `ReadDashboard` | 240-250 |
| delDash | `DeleteDashboard` | 252-257 |
| delFolder, rmFolder | `CheckFolder`, `DeleteFolder` | 259-270, 464-501 |
| delPlugins | `ClearPlugins` | 272-277 |
| delRecord | `RemoveRecord` | 279-283 |
| error | `FinishDelete` | 166-172 |

The sync goroutine `s` has `SyncListGrafanas`, `SyncListDashboards`, `SyncStart`,
`SyncDelete`, `SyncUpdate` and `SyncReturn` (lines 61-146 and 515-534). `Crash` and
`Start` are the pod's.

`CheckFolder` is two calls that only read (lines 465 and 483). The one worker is the only
one to push, so nothing of the operator's happens to the folder between them; a dashboard
that a person moves into it there, or before the folder is deleted (line 494), is not
modelled. A fetch that fails ends an instance's turn like a refused source; it is in
`DashboardSource` and left out here.

### DatasourceController

Organised like the dashboard controller. The differences are what it is about.

| `pc` | action | code (`datasource_controller.go`) |
|---|---|---|
| idle | `Dequeue` | 140-168 |
| match | `GetMatchingDatasourceInstances` | 399-414 |
| next | `SkipNotReady`, `StartInstance` | 177-211, 266-273 |
| exists | `ExistingId` | 327-338 |
| push | `NewDataSource`, `UpdateDataSource`, `SkipUnchanged` | 290-311 |
| hash | `UpdateStatus`: *before* the record | 313-316, 322-325 |
| record | `RecordDatasource` | 318-319 |
| next, nothing left | `FinishReconcile`: writes the hash again, whatever happened | 213-220 |
| delList | `ListForDelete` | 223-233 |
| delRead | `ReadDatasource`: a 404 is an error | 233-242 |
| delete, delPlugins | `DeleteDatasource`, `ClearPlugins` | 244-256 |
| delRecord | `RemoveRecord`: returns after the first Grafana | 258-260 |
| error | `FinishFailedDelete` | 158-163 |

In the sync goroutine (lines 52-138) a deletion is two calls, `SyncRead` for the id and
`SyncDelete`. `SyncReadNil` is the panic at line 117 when the data source has already
gone; it ends the process like a crash. `message` is whether `status.lastMessage` is set,
which decides whether a status write changes anything.

The deletion is by the number that was found (line 117), not by the uid. `s.named` is what
this number names in Grafana at present: the data source it was found for (`s.e`), nothing
once that has gone, and after an internal Grafana lost its database (`Free`) whatever the
new one gives the number to, if it does (`NewId`). The worker, too, reads before it deletes
or updates by id (lines 239-244, 327-338, 304); but it is the only one to create data
sources, so no number is given out again between its own two calls, and a lost number makes
the call fail. Data sources that people make in a new database are not modelled.

### FolderController

| `pc` | action | code (`grafanafolder_controller.go`) |
|---|---|---|
| idle | `Dequeue` | 143-172 |
| match | `GetMatchingFolderInstances` | 354-369 |
| next | `SkipNotReady`, `Exists`, `FinishReconcile`: no requeue | 180-200, 277-288, 341-352 |
| push | `UpdateFolder` (then straight to the hash), `NewFolder` | 301-325 |
| record, hash | `RecordFolder`, `UpdateStatus` | 327-339 |
| delList, delNext | `ListForDelete`, `DeleteFolder` | 239-259 |
| delRecord, error | `RemoveRecord`, `FinishDelete` | 261-270, 160-172 |

`DashboardMakesFolder` and `DashboardDropsFolder` are what the dashboard controller does
to folders, by title, at any moment (`dashboard_controller.go` 426-501): this is where the
two controllers meet. The sync goroutine deletes a *dashboard* with the folder's uid (line
107); that Grafana has none and answers 404 is an assumption on Grafana. As a pass is not repeated by a timer, the informer's relist
(`Relist`, every ten hours) is the only thing that repairs what they do to each other.

### GrafanaController and AdminAccess

An object of each kind is on the API server (`obj`), perhaps with another content in the
cache (`ocache`; the kinds in `Lagging` may be out of date). `CreateOrUpdate` writes only
if what it wants differs from the cached copy, which for a Service, an Ingress and a
Deployment, whose fields the API server completes, is taken to be so always (`AlwaysSent`);
`Accepted` is the API server's check. A
stage either proceeds or stops with a result; `After` is `getInstallationStages`.

| stage | action | code (`reconcilers/grafana`) |
|---|---|---|
| - | `Dequeue`, `Begin` | `grafana_controller.go` 63-90 |
| admin user | `AdminSecret` | `admin_secret_reconciler.go` 27-73 |
| config | `Config` | `config_reconciler.go` 26-44 |
| pvc | `Pvc` | `pvc_reconciler.go` 25-42 |
| service account | `ServiceAccount` | `service_account_reconciler.go` 24-35 |
| service | `Service` | `grafana_service_reconciler.go` 30-63 |
| ingress | `Ingress` (`ReconcileIngress`, `ReconcileRoute`) | `ingress_reconciler.go` 35-150 |
| plugins | `PluginsStage` | `plugins_reconciler.go` 26-98 |
| deployment | `Deployment` | `deployment_reconciler.go` 47-222 |
| complete | `UpdateStatus` | `grafana_controller.go` 129-151 |

Kubernetes does the rest: the garbage collector, informers, other writers (`Touch`).
`RecordContent` and `AskPlugins` are the content controllers'. `AdminAccess` adds the load
balancer and the pod, which takes the Secret's password when it starts, once. The client
takes the url from the cached Grafana and the password from the cached Secret.

### Plugins, DashboardSource, DatasourceContent, Standby

`PluginList` has each function of `plugin_list.go` and the stage's inner loop, over every
order of the ConfigMap's keys; `Plugins` puts resources, ConfigMap and stage together. A
resource is created and edited (`EditPlugins`), deleted (`DeleteResource`), and after that
its key is cleared (`ClearPlugins`), or for ever not: only the worker does so, only if it
comes before the sync goroutine, and for a data source only in the first Grafana
(`datasource_controller.go:259`). A version that semver cannot parse is kept apart. `TypeOK`
of `Plugins` says what `Sanitize` is for: the lists in the ConfigMap have each plugin once
and no such version. That is why two lists never make the stage fail
(`AllWrittenInstalled`).

`DashboardSource` follows one dashboard given by a url through `onDashboardCreated`:
cached or fetched content, inputs, hash, and the status write that keeps the cache. Time
goes in ticks.

`DatasourceContent` writes fields as sequences of tokens, expands variables by repeated
replacement as the code does, in any order, and compares with `Meant`, which expands each
reference once. A pass is one step there, for its calls are `DatasourceController`'s: `Push`
gets through, and the status with the hash is written or refused; `FailToPush` finds a
secret missing or is refused by Grafana, and the end of `Reconcile` writes the hash all the
same (lines 205-220). `missed` is a history variable: a change was pushed or hashed, and not
both.

`Standby` instantiates `DashboardController` a second time under other variables. The
standby's manager runs, through `SetupWithManager`, the sync goroutine, but no worker and
none of its watches. So an informer starts with the first `List` of its kind and is then
filled: `StandbyFillsGrafanas`, at any time before the first pass lists them (the syncs of
data sources and folders list Grafanas as well), and in the first pass, after that list,
`StandbyFillsDashboards`. Later each lags by itself.

## 3. Runs

`MaxUid` bounds how often a name is created, `MaxEdits`, `MaxVersion` and `MaxAge` what
their comments say; nothing else is unbounded, so the graphs are complete. Deadlock is
checked in every run but one: the operator may always be stopped and started again, a
timer or a relist fires, time goes on. In `dash_standby_sync` the operator does not crash,
and with everything deleted it has nothing more to do.

| Run | Instance | Checks |
|---|---|---|
| `dash_recreate` | one name in a folder created twice, any edit between two contents (symmetric), edits in the UI, lost answers, crashes, batches of one | `TypeOK`, `IInv`, `HashImpliesRecorded`, `LiveNotDeleted`, `LiveNotForgotten` |
| `dash_live` | one internal Grafana, ready or not, other writers, one edit, wiped servers, failures, crashes, batches of one; fair | `HashVouches`, `ContentTrails`, `Converges`, `StaleEntriesRemoved`, `SyncCompletes`, `ImplementsLedger` |
| `ds_live` | one name created twice, one internal Grafana, wiped, ids given out again, failures, crashes and panics; fair | `TypeOK`, `IInv`, `Converges`, `LiveNotDeleted`, `LiveNotForgotten` |
| `folder_live` | one name created twice, two titles, dashboards that use one of them, failures, crashes; fair, with relist | `TypeOK`, `IInv`, `LiveNotForgotten`, `GoneBeforeForgotten`, `Converges` |
| `gr_stages` | OpenShift, one reconfiguration with a password and a claim, a deletion, two passwords to draw (symmetric), lagging and touched Secret, lost answers | `TypeOK`, `IInv`, `PasswordKept`, `PodsFindEverything`, `ContentKept` |
| `gr_access` | external, taken over, password set, Ingress with and without a host; pods that are lost; fair | `ReadyHasUrl`, `NoWrongPassword`, `AccessTrails`, `AdminAccess`, `Converges` |
| `plugins` | a dashboard and a data source of one name, four lists, two creations or edits, deletions, keys cleared or left; fair | `TypeOK`, `InstalledOnce`, `AllWrittenInstalled`, `RequestsHeeded` |
| `url` | two urls, an input, caches of one tick, two ticks and for ever; fair | `FollowsSource` |
| `ds_content` | references in braces, keys that begin with one another, two secrets in either order, one created late, any edit, passes that fail | `UnchangedIsCurrent` |
| `dash_two_instances` | two Grafanas, one edit; fair | `Converges` is violated |
| `ds_sync` | one internal Grafana, one deletion; fair | `SyncCompletes` is violated |
| `dash_standby_sync` | a leader and a standby, one name created twice, failures | `StandbyHarmless` is violated |

**Why the bounds are enough.** Worker and sync act on one name and one Grafana at a time,
and the state they share is per name and Grafana except for the `resourceVersion` (which
`OtherWriters` moves at any time, as any number of other names would), folders, the hash
and the batch. Two incarnations of a name are what tells a uid from a name, and two
dashboards in one folder at that; two contents, an edit and its reverse. What several
Grafanas share is the hash, and `dash_two_instances` shows what comes of it. The proofs of
section 4 do without bounds, for the safety properties of every controller and of plugins.
The stages of a Grafana are a fixed sequence; what matters is which object's cached copy
is out of date when, and one kind at a time suffices for the Secret, the only object whose
content is computed from its cached copy. A list of plugins needs two entries of one name
to be consolidated, two keys to have an order. `dash_live` and `gr_access` have one
incarnation of their resource, since with two they are too large: `dash_live` leaves that to
`dash_recreate`, and of `gr_access` the properties are about a Grafana that replaces no
other. (`Converges` also holds for one that does: with one spec with a claim on OpenShift,
`MaxUid = 2` and no pod, TLC finishes in 1,375,429 states.)

**Fairness.** Weak fairness of the worker, the sync goroutine, the restart of the pod and
each informer: goroutines are scheduled, Kubernetes restarts pods, watches deliver.
Strong fairness per name of timers and of `Dequeue`: the worker serves one key while
others wait, and the queue is first in, first out. The folder and Grafana controllers
also have the relist (weakly fair for a Grafana, strongly per name for folders). In
`GrafanaController` the garbage collector does its work, in `AdminAccess` the load balancer
comes up and the kubelet starts what can be started and stops what is deleted. In
`DashboardSource` each call is strongly fair in succeeding, as no other premise says that
faults end.

The liveness properties of the other modules assume (`Calm`) that at some point crashes
and failures of calls that *could* succeed end, and nobody else keeps writing to the
Grafana resources. A write with an outdated copy is still refused; getting over that by
retry, resync or relist is what they check. `TimersOutliveLag` says a resync timer (five
minutes, or ten seconds) is longer than the caches' lag. A rate-limited retry,
milliseconds, is not.

**Limits of what holds.**

* `StaleEntriesRemoved` is checked for one incarnation. With two it does not hold: a
  rate-limited retry left from the deletion of the first may swallow the resync timer of
  the second (the queue keeps the earlier deadline), run while the Grafana cache still
  misses the record just written, and end the deletion without it. The restart's sync
  would repair it, but does not have to come.
* `SyncCompletes` for dashboards is for Grafanas that list no more dashboards of deleted
  resources than a batch holds (`FitsBatch`). `dash_live` has batches of one, which the one
  dashboard fills. With more the goroutine never ends (table below).
* `Converges` for data sources excludes a title that another data source has: Grafana's
  409 is taken for success (line 300), so the resource's own data source is never there. It
  is about a data source's presence; its content is `DatasourceContent`'s.
* `LiveNotDeleted` for data sources has an exception, the id from before a wipe, and
  `UnchangedIsCurrent` has one, `missed`. The table below has what happens in each.
* `StaleEntriesRemoved` has one Grafana, so that the retry after an error also reaches the
  Grafanas that follow in the list (line 248) is not checked.
* `Converges` for folders accepts any folder of the resource's title.
* `RequestsHeeded` is about resources whose keys differ. The key has no namespace
  (`dashboard_controller.go:206`), and of two that share one the later wins.
* `HashVouches` and `NoWrongPassword` are for edits that only go forward (`GoesForward`): an
  edit back to an earlier content or configuration can meet a hash, or a Deployment, that
  was made for it before what came between. The table below has the cases. `dash_live`
  checks `HashVouches` and `ContentTrails` for one incarnation and calls that succeed or
  fail; without fairness and other writers TLC finishes with two incarnations and lost
  answers as well (646,558 states), and the theorems are for any number and all outcomes.
* `PodsFindEverything`, `NoWrongPassword` and `AdminAccess` are about a Grafana that
  replaces no other. After a deletion and a quick re-creation, the garbage collector still
  removes objects of the predecessor, and a pod started from the old Secret keeps the old
  password while the new Secret has another one.

### What the violations show

* `dash_two_instances`: the hash is one per dashboard, the comparison one per instance
  (`dashboard_controller.go:319`). The first instance's update makes the second's old
  content look current.
* `ds_sync`: a data source that has left Grafana makes the sync goroutine use a nil
  result (`datasource_controller.go:117`). The panic ends the process; the entry is still
  there at the next start.
* `dash_standby_sync`: a standby's sync runs although another replica leads. In its first
  pass the resources are listed after the Grafanas, and no harm is done. But when that pass
  ends in an error, say of a deletion (line 109), the same goroutine lists again ten seconds
  later, now from two caches that lag by themselves. A name created again meanwhile, and
  recorded by the leader, is seen in the Grafana and not yet as a resource, and a living
  dashboard is deleted. (The leader's own sync does not: `CacheOrderOK` holds for it because
  the worker records only what its cache of resources has.)

The models show more places where the code falls short of its comments. They are stated
as properties, which TLC violates when a run is changed as given here:

| Property | Change | What happens |
|---|---|---|
| `Converges` | `dash_two_instances` with `Derived = {d1}` and one content | `spec.json` is filled in by the first instance, so the second sees two sources and is refused (line 307) |
| `Converges` | `dash_live` with `EditSteps <- AnyEdit` | a push whose hash was refused, then an edit back: the old hash matches and the pushed content stays (line 410) |
| `OrphansRemoved` | `dash_live` | a dashboard pushed but not recorded is listed nowhere and never deleted (line 355) |
| `SyncCompletes` without `FitsBatch` | `dash_live` with two names, one content | a full batch returns before the status is written, and starts at the same place again (line 102) |
| `LiveNotDeleted` without its exception | `ds_live` | an internal Grafana loses its database between look-up and deletion, the worker creates a living data source anew, and it has the number that is deleted (line 117) |
| `UnchangedIsCurrent` without `~missed` | `ds_content` | an edit adds a secret that is not there: the pass fails and writes the new hash, and when the secret is there the old data source is taken for unchanged (`datasource_controller.go:219`, 308) |
| `ListedRemoved` | `ds_live` under `IdealSpec` with two Grafanas, `MaxUid = 1` | the deletion returns after the first Grafana (line 259) |
| `OrphansRemoved` | `ds_live` | hash before record: an entry that was refused is never added (line 318) |
| `UnchangedIsCurrent` | `ds_content` with `FlagSpecs` | `basicAuth` and `isDefault` are the same byte in the hash (line 128 of `grafanadatasource_types.go`) |
| `UnchangedIsCurrent` | `ds_content` with `PlainSpecs`, `RotatedData`, `Rotation` | the hash has the secrets' names, not their data (line 124) |
| `ForgottenOnlyWhenGone` | `folder_live` | `syncFolders` deletes a *dashboard* of the folder's uid, takes the 404 for success and drops the entry (line 107) |
| `OrphansRemoved` | `folder_live` | a folder whose record was refused is updated, never recorded, later (line 308) |
| `NewestInstalled` | `plugins` | `Update` assigns to a copy (`plugin_list.go:42`) |
| `RestartsOnlyForChange` | `gr_stages` with `TwoRequests` | the list follows the order of a Go map, so the Deployment changes from pass to pass (`plugins_reconciler.go:61`) |
| `PodsFindEverything` | `gr_stages` with `Touched = {}`, `Lagging = {"config"}` and `SpecSteps <- BackSteps` | a configuration changed and changed back equals the outdated cached ConfigMap, so it is not written, and the Deployment is told of what the ConfigMap lacks (`config_reconciler.go:31`) |
| `ReadyHasUrl` | `gr_stages` with `JustPreferred`, `NoSteps`, `RouteHosts = {TRUE, FALSE}` | with a Route the stage succeeds without a host (`ingress_reconciler.go:90`) |
| `NoWrongPassword` | `gr_access` with `Lagging = {"secret"}` | a late cache of the Secret hands out the password from before, while a new pod has the new one (`grafana_client.go:34`) |
| `NoWrongPassword`, `AdminAccess` | `gr_access` with `BackSpecs`, `BackSteps` | a password changed and changed back: a pod started in between keeps the middle one, and the Deployment is what it was |
| `AskedOncePerPeriod` | `url` | an unchanged pass drops the refreshed cache, so an expired one is fetched again in every pass (`dashboard_controller.go:319`) |

## 4. Proofs

All theorems hold for every value of the constants that satisfies the assumptions named in
the modules: any number of Grafanas, names, incarnations and folders, any batch size, any
set of failures, any specs, passwords and plugins.

| Module | Theorem | States |
|---|---|---|
| `DashboardControllerProofs` | `TypeCorrect` | `Spec => []TypeOK` |
| | `Invariance` | `Spec => []IInv` |
| | `HashIsRecorded` | `Spec => []HashImpliesRecorded` |
| | `NoLiveDashboardDeleted` | `Spec => LiveNotDeleted` |
| | `NoLiveEntryForgotten` | `Spec => LiveNotForgotten` |
| | `CurrentHashVouches` | `Spec => []HashVouches`, for one Grafana, no edits in its UI, `EditsForward(before)` |
| | `ContentsTrail` | `Spec => []ContentTrails`, for one Grafana, no edits in its UI |
| | `LedgerImplemented` | `Spec => ImplementsLedger` |
| `DatasourceControllerProofs` | `DatasourceTypeCorrect` | `Spec => []TypeOK` |
| | `DatasourceInvariance` | `Spec => []IInv` |
| | `NoLiveDatasourceDeleted` | `Spec => LiveNotDeleted`, with the exception it names |
| | `NoLiveDatasourceForgotten` | `Spec => LiveNotForgotten` |
| `DatasourceContentProofs` | `ExpandsAsMeant` | `ExpandVariables` gives `Meant`, whatever the order of the variables, for references in braces |
| | `UnchangedMeansCurrent` | `Spec => []UnchangedIsCurrent`, for `PlainContent(U)`, `HashTellsApart`, `SecretsStay` |
| `FolderControllerProofs` | `FolderTypeCorrect` | `Spec => []TypeOK` |
| | `FolderInvariance` | `Spec => []IInv` |
| | `NoLiveFolderForgotten` | `Spec => LiveNotForgotten` |
| | `NoFolderForgottenInGrafana` | `Spec => GoneBeforeForgotten` |
| `GrafanaControllerProofs` | `GrafanaTypeCorrect` | `Spec => []TypeOK` |
| | `Invariance`, `AccessInvariance` | `Spec => []IInv`, `AccessSpec => []IInv` |
| | `ReadyUrl` | `UrlCertain => (AccessSpec => []ReadyHasUrl)` |
| | `PasswordAgrees` | `AccessSpec => []NoWrongPassword`, for `"secret" \notin Lagging`, `ConfigsForward(before)` |
| | `AccessTrail` | `AccessSpec => []AccessTrails`, for `"secret" \notin Lagging` |
| | `PasswordIsKept` | `Spec => PasswordKept` |
| | `PodsFind` | `"config" \notin Lagging => (Spec => PodsFindEverything)` |
| | `ContentIsKept` | `Spec => ContentKept` |
| `PluginsProofs` | `PluginsTypeCorrect` | `Spec => []TypeOK` |
| | `PluginsInstalledOnce` | `Spec => []InstalledOnce` |
| | `WrittenIsInstalled` | `Spec => []AllWrittenInstalled` |

### Dashboards

`TypeOK` is not inductive: that `Find` on a snapshot's list returns a uid needs the list to
be non-empty wherever the worker uses it, and that a pushed content is one needs the
worker's copy to be of a live resource. `ShapeOK` adds that, and the conjunction `TS` is
inductive: there is one lemma per action, on the parts the action touches.

None of the three safety properties is inductive: each is about a step whose effect was
decided several steps before, from a copy that may have aged since. `IInv` says what those
copies are worth, and its parts lean on one another in this order:

* `CopiesOK`: a holder that is not in the stale set has a copy equal to the object, so a
  write the API server accepts changes only what the code meant to change;
* `CacheOrderOK`: no copy, list entry or dashboard carries a uid later than the resource
  cache has seen. So when the cache says a resource is not there, everything listed for
  that name is dead (`NotCachedListedDead`), whatever was recreated meanwhile;
* `DeleteOK`: hence what the worker's delete path and the sync goroutine hold is dead, and
  stays so (`StaysDead`), because a uid is never issued twice;
* `HashOK`: a hash on the API server, in the cache or in the worker's hands comes after
  the record, which is lost only to those two paths;
* `FolderOK`: a folder found empty stays empty until it is deleted, because the one
  worker is the only one to push. It is what a second worker would break.

The proof first says what any step can do to each variable (`CRSteps`, `CacheSteps`,
`GrafanaAges`, `WorkerSteps`, `ListSteps`, `StoreSteps`, `SyncSteps`); the parts of `IInv`
then follow from these without going through the actions again.

The refinement maps resources to items: an incarnation is `unborn`, `live` or `dead`, it is
settled when the status has its hash. The proof shows that a step changes the resources,
the status lists or the servers' content, never two of them at once (`CRChanges`,
`GrafanaChanges`, `StoreChanges`), that a resource that is gone has no hash
(`GoneHasNoHash`), and that each such change is a step of the ledger, for which it uses the
theorems above. The empty cluster is the empty ledger.

`CurrentHashVouches` is about what the hash is for: when the resource's hash is that of its
content, the code skips the comparison (line 319), and then what Grafana has must be that
content. The push comes first, the hash last, with a record, a crash or a lost answer
between them, so the argument is about which content can be older than which:

* `ContentOrderOK`: along `before`, the order edits follow, a copy of the resource and a
  dashboard of the same uid never have a later content than the resource has;
* `PushedOK`: from the push to the hash the dashboard has the content the worker works on;
* `CurrentOK`: a dashboard is as late as the content the resource's hash was written for.

`ContentsTrail` states the three for all such orders at once, as `dash_live` checks them.
So between a hash that is current and the resource nothing else fits. The hypotheses are
needed: with two Grafanas the hash may be written for the first and read for the second
(`dash_two_instances`), an edit in the UI is not seen by any hash, and an edit back finds the
hash of the content before the last push (`dash_live` with `AnyEdit`).

### Data sources and folders

`ClusterProofs` has the part of that argument which is about `Cluster` and not about one
controller. A step leaves the resources as they are, writes one, or lets the cache catch up
(`CRPart`); writes one Grafana, or lets caches and copies age (`GrafanaPart`, `Ages`); and a
copy of the Grafanas that a controller takes is as old as the cache (`Lists`). Of such steps
it proves that `CacheCopyOK`, `GrafanaCacheOK`, `CacheNotAhead` and `KnownToCache` are
preserved and that what is dead stays dead. Users, other writers, informers, crash and
start are shown to be such steps once (`OutsideStep`, `CrashStep`, `StartStep`), and what a
step must not be for dead dashboards and entries to be the only ones that go (`ErasesDead`,
`LosesDead`).

`DatasourceControllerProofs` and `FolderControllerProofs` then say of each action, in one
lemma, what kinds of step it is made of and what it does to worker and sync (`StepFacts`).
`IInv` is carried over from these, and it has the same parts as for dashboards: `ShapeOK`,
`CopiesOK`, `CacheOrderOK`, `DeleteOK`. Neither has `HashOK`:
both controllers write a hash without a record (lines 313 and 308 of their files). Where
they differ:

* A data source is deleted by two calls, the second with the id the first found. `ShapeOK`
  says which entry the sync goroutine holds between them, that it holds none elsewhere, and
  that its id names another data source only in an internal Grafana, the only kind that is
  wiped. `DeleteOK` then says that the entry is dead, which leaves the one exception.
* The worker of folders drops an entry in a call of its own, after the deletion. `RecordOK`
  says that a folder whose entry is about to go is not in that Grafana, in the copy of the
  list it was found in. That dashboards make and drop folders by title meanwhile does no
  harm, since theirs have uids of their own.

### Grafana controller

`GrafanaControllerProofs` proves `IInv` of the controller beside a load balancer and a
kubelet as well, so that it holds of the specification `gr_access` checks. The parts of
`IInv`:

* `CopiesOK`: a copy that nobody has overtaken equals its object, of the Grafana and of each
  object it owns. So a write of the Secret that is accepted was computed from the Secret as
  it is, and leaves its password alone (`PasswordIsKept`);
* `PassOK`: a pass carries along the lists of content it found, so the status it writes in
  the end has those of the copy it must not have been overtaken with (`ContentIsKept`);
* `KeptOK`: while the first Grafana of its name lives, nothing is collected, so the Secret,
  ConfigMap, claim and account that a cache has are there;
* `StagesOK`: hence what the stages behind have made is there (`PodsFind`);
* `UrlOK`: the url is known once the ingress stage is behind. It needs `UrlCertain`: when an
  ingress is preferred on OpenShift, the Route must be sure to have a host, for the stage
  does not wait for one (section 3).

`PodsFind` needs the cache of ConfigMaps not to be late, because a configuration changed
and changed back may equal the outdated copy (section 3). All other caches may be late. The
proof divides steps into a stage that goes on (`Continues`), one that ends the pass
(`Stops`), and everything outside a pass (`Elsewhere`), and of each stage says which object
it may write, with what content (`Moves`).

`PasswordAgrees` is the safety part of logging in. Grafana takes the Secret's password once,
when its database is new, and is started again only when the hash of its configuration
changes; the operator reads the Secret every time. `AccessInv` says why the two agree:

* `ConfigsTrail`: the configurations of Deployment, pod, pass, cache and resource follow one
  another along `before`. So when a Deployment has the resource's, the pass has it as well,
  and cannot put another password into the Secret (`StillSuits`);
* `SecretFirst`: whatever a pass makes after its first stage, it makes for a spec whose
  password the Secret has, and a pod that runs with the resource's configuration has it too.

`AccessTrail` states this invariant for all orders `before` at once, as `gr_access` checks it.
It rests on `AccessAssumption`, that the hash of the configuration covers the password (it
is in the ini file), and on two hypotheses: configurations do not go back, and the cached
Secret is current. Section 3 has what happens without either of them.

### Content of data sources

`DatasourceContentProofs` treats the expansion of variables as it is done, by replacing
bytes. `ReplacedBytes` shows that the scan from left to right exists as a function and what
it does at each position, `Copied` that it leaves alone a stretch in which the pattern does
not begin. A field is cut up where its pieces end (`Parts`). A pattern begins with a `$`, so
it can only be read where a reference begins (`Begins`), and there only if the key is the
same, because the brace ends it (`OneKey`, `NotRead`). So one replacement changes the
references to its key and nothing else (`ExpandedOnce`); what it puts in is text without a
`$`, so the next one finds a field again, and after all of them, in any order, every
reference is replaced (`ExpandedAll`). `Collected` shows that the loop over the secrets keeps
the last value of each key, which gives `ExpandsAsMeant`.

`UnchangedIsCurrent` is not inductive: the specification may be edited and edited back while
the data source stays. `IInv` says that, unless `missed`, what is in Grafana is what *some*
specification with the recorded hash asks for, with the secrets as they are now. The only
steps, but a loss, that change data source or hash are `Push`, which clears `missed` if it writes
both, and `FailToPush`, which sets it while there is a data source. The hypotheses:

* `PlainContent(U)`: texts and values have no `$`, references have braces, and keys none of
  the three signs, which Kubernetes sees to. Without braces `$user` is found in `$username`,
  and a value with a `$` brings a reference of its own: then the order of a Go map decides
  (line 177 of `grafanadatasource_types.go`);
* `HashTellsApart` and `SecretsStay`, for the reasons in section 3 (`FlagSpecs`, `Rotation`).

The constants of `ds_content` satisfy all three.

### Plugins

The loops over lists (`Sanitize`, `Added`, `Consolidate`) are folds, and what a fold
computes is shown by induction over the list (`FoldTheorems`). `LeastNatural` takes the place of the
library's induction theorems, whose parameters are operators: a set of natural numbers has
a least element, because `<` is well founded. `FoldExists` shows that there is a function
with the results in the course of a fold, and `FoldConsolidated`, `FoldSanitized` and
`FoldAdded` that the community modules' `FoldLeft` is the last of them. Then one element
(`ConsolidatedOne`), one key (`AddedAll`), and all keys in any order (`AnyOrder`, by the
pigeonhole principle) follow. `TypeOK` is inductive, and gives the other two.

### Only model-checked

Liveness, which TLAPS cannot treat: `Converges`, `StaleEntriesRemoved`, `SyncCompletes`,
`RequestsHeeded`, `FollowsSource`, `AdminAccess`. Every invariant of a run has a theorem.

## 5. What is left

1. The dashboards' proofs on top of `ClusterProofs`, which would make them shorter.
2. Folders and dashboards composed with both controllers in full on one Grafana.
3. Requests still in flight when the operator restarts; a change of the leader.
4. External Grafanas with API keys, and the client's timeout.

## 6. Not modelled

Construction of Kubernetes manifests and of `grafana.ini`, the merge of user overrides
(`typeoverrides.go`), API keys and timeouts of the HTTP client, Jsonnet evaluation (a
library's, from the resource alone), metrics, flags and probes, platform detection (a
constant here), generated code: no state of their own that a property here could be about.

In the models of dashboards and data sources the informer's ten-hour relist is left out; it
could only help liveness. A cache that lags catches up with the present in one step. Sets
of labels are abstracted to which names a Grafana fits, and `spec.folder` of a dashboard
and the title of a data source do not change during a resource's life. Calls end, with one
outcome or another: a call that never ends stops the one worker. Requests to Grafana do not
outlive the process that sent them.
