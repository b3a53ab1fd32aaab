--------------------------- MODULE GrafanaController ---------------------------
(***************************************************************************)
(* The Grafana controller (controllers/grafana_controller.go) and its      *)
(* stages (controllers/reconcilers/grafana): one Grafana resource and the  *)
(* objects the operator makes for it, which the API server holds and the   *)
(* controller reads through informer caches.                               *)
(*                                                                         *)
(* An object is the uid of its owner and the part of its content that      *)
(* tells reconciles apart.  What the API server holds may be newer than a  *)
(* cached copy even when it looks the same, so the kinds whose cached copy *)
(* is out of date are kept apart.                                          *)
(***************************************************************************)
EXTENDS PluginList

CONSTANTS
    Absent,       \* no object, no url
    Specs,        \* specs of the Grafana: external, config, password, pvc,
                  \* prefer (client.preferIngress), host (in the ingress' rule)
    SpecSteps,    \* <<old, new>> pairs a user may edit the spec along
    OpenShift,    \* routes instead of ingresses
    RouteHosts,   \* whether a new route is given a host, or not, or both
    Requests,     \* contents of the plugins ConfigMap
    Passwords,    \* what RandStringRunes may return
    Content,      \* entries other controllers keep in the status lists
    Outcomes,     \* what a call may do: ok, fail, lost (done, no answer)
    Touched,      \* kinds others update too (a new version, same content)
    Lagging,      \* kinds whose cached copy, or garbage collection, may be late
    MaxUid,       \* bound: how often the Grafana is created
    LastDeleted   \* bound: may the last one be deleted too

Kinds == {"secret", "config", "pvc", "account", "service", "ingress", "plugins", "deployment"}

ASSUME GrafanaAssumption ==
    /\ Touched \subseteq Kinds /\ Lagging \subseteq Kinds
    /\ SpecSteps \subseteq Specs \X Specs
    /\ OpenShift \in BOOLEAN /\ RouteHosts \subseteq BOOLEAN /\ RouteHosts # {}
    /\ "ok" \in Outcomes /\ Outcomes \subseteq {"ok", "fail", "lost"}
    /\ MaxUid \in Nat /\ LastDeleted \in BOOLEAN

\* What Absent stands for the lack of: specs, urls, objects
ASSUME AbsentAssumption ==
    /\ Absent \notin Specs /\ Absent \notin {"service", "host", "address"}
    /\ Absent \notin [owner : 1..MaxUid, v : {"set"}]
    /\ Absent \notin [owner : 1..MaxUid, v : {spec.config : spec \in Specs}]
    /\ Absent \notin [owner : 1..MaxUid, v : Passwords \cup {spec.password : spec \in Specs}]

VARIABLES
    gr,        \* the Grafana resource on the API server
    grcache,   \* the informer's copy of it
    grstale,   \* who holds an outdated copy of it: "cache", "worker"
    obj,       \* the objects of each kind on the API server
    ocache,    \* the informers' copies of them
    ostale,    \* the kinds whose copy is outdated
    queued,    \* is the Grafana's key in the work queue
    up,        \* is the operator's pod running
    w          \* local variables of Reconcile

clusterVars == <<gr, grcache, grstale>>
objVars == <<obj, ocache, ostale>>
vars == <<clusterVars, objVars, queued, up, w>>

NoStatus == [stage |-> "", result |-> "", message |-> FALSE, url |-> Absent, list |-> {}]
Gone(u) == [uid |-> u, spec |-> Absent, status |-> NoStatus]
Live(g) == g.spec # Absent
Ready(status) == status.stage = "complete" /\ status.result = "success"
Worker0 == [pc |-> "idle", cr |-> Gone(0), next |-> NoStatus, hash |-> Absent, plugins |-> <<>>]

-----------------------------------------------------------------------------
(* The stages *)

\* getInstallationStages; a Grafana without a claim passes the pvc stage at once
After(stage, spec) ==
    CASE stage = "admin user" -> "config"
      [] stage = "config" -> IF spec.pvc THEN "pvc" ELSE "service account"
      [] stage = "pvc" -> "service account"
      [] stage = "service account" -> "service"
      [] stage = "service" -> "ingress"
      [] stage = "ingress" -> "plugins"
      [] stage = "plugins" -> "deployment"
      [] stage = "deployment" -> "complete"

\* Stop here with a result, and an error or not
Stop(result, message) ==
    w' = [w EXCEPT !.pc = "status", !.next.result = result, !.next.message = message]

NextStage(x, message) ==
    LET stage == After(w.next.stage, w.cr.spec)
    IN  w' = [x EXCEPT !.pc = IF stage = "complete" THEN "status" ELSE "run",
                       !.next.stage = stage, !.next.result = "success",
                       !.next.message = message]

\* Variant: the error of an earlier pass is kept.
ProceedWithMessage(x) == NextStage(x, x.next.message)

\* The stage is done; "x" is w with the url, or what later stages use.
Proceed(x) == NextStage(x, FALSE)

\* The API server fills in fields of these, so what the controller asks for
\* does not equal the cached copy, and is sent.  (An ingress may be free of such
\* fields; then the call skipped would have written what is there already.)
AlwaysSent == {"service", "ingress", "deployment"}

\* What CreateOrUpdate asks the API server for
Asked(k, v) == [owner |-> IF ocache[k] = Absent THEN w.cr.uid ELSE ocache[k].owner, v |-> v]
Sent(k, v) == k \in AlwaysSent \/ ocache[k] # Asked(k, v)

\* A creation needs the object not to be there, an update the cached copy to be
\* current.
Accepted(k) == IF ocache[k] = Absent THEN obj[k] = Absent ELSE k \notin ostale

Write(k, new) ==
    /\ obj' = [obj EXCEPT ![k] = new]
    /\ IF k \in Lagging
       THEN ostale' = (IF new = obj[k] THEN ostale ELSE ostale \cup {k}) /\ UNCHANGED ocache
       ELSE ocache' = [ocache EXCEPT ![k] = new] /\ UNCHANGED ostale

CreateOrUpdate(k, v, o) ==
    IF Sent(k, v) /\ Accepted(k) /\ o # "fail" THEN Write(k, Asked(k, v)) ELSE UNCHANGED objVars

\* Variant: only the outcome of the call counts.
SucceedsUnlessLost(k, v, o) == o # "lost"

Succeeds(k, v, o) == Sent(k, v) => Accepted(k) /\ o = "ok"

Running(stage) == up /\ w.pc = "run" /\ w.next.stage = stage

Stage(k, v, o, x) ==
    /\ CreateOrUpdate(k, v, o)
    /\ IF Succeeds(k, v, o) THEN Proceed(x) ELSE Stop("failed", TRUE)
    /\ UNCHANGED <<clusterVars, queued, up>>

\* Variant: a password is drawn in every pass.
AdminPasswordDrawn(spec, current) == IF spec.password = Absent THEN Passwords ELSE {spec.password}

\* If a password is already set, don't change it
AdminPassword(spec, current) ==
    IF spec.password # Absent THEN {spec.password}
    ELSE IF current # Absent THEN {current.v} ELSE Passwords

AdminSecret(o) ==
    /\ Running("admin user")
    /\ \E password \in AdminPassword(w.cr.spec, ocache["secret"]) :
         Stage("secret", password, o, w)

Config(o) ==
    /\ Running("config")
    /\ LET hash == w.cr.spec.config IN Stage("config", hash, o, [w EXCEPT !.hash = hash])

Pvc(o) == Running("pvc") /\ Stage("pvc", "set", o, w)

ServiceAccount(o) == Running("service account") /\ Stage("account", "set", o, w)

Service(o) ==
    /\ Running("service")
    /\ Stage("service", "set", o, IF w.cr.spec.prefer THEN w ELSE [w EXCEPT !.next.url = "service"])

\* Variant: the load balancer is not asked.
IngressUrlOfRules(spec, lb) == IF spec.host THEN "host" ELSE Absent

\* The host of a rule, or else of a load balancer
IngressUrl(spec, lb) ==
    IF spec.host THEN "host" ELSE IF lb = "address" THEN "address" ELSE Absent

\* Variant: only an ingress that is up can be incomplete.
IngressResultOnceUp(url, lb) == IF lb # "pending" /\ url = Absent THEN "failed" ELSE "success"

IngressResult(url, lb) ==
    IF lb = "pending" THEN "in progress" ELSE IF url = Absent THEN "failed" ELSE "success"

\* What CreateOrUpdate leaves in the object is the server's answer.
ReconcileIngress(o) ==
    /\ LET new == IF ocache["ingress"] = Absent THEN "pending" ELSE ocache["ingress"].v
           url == IngressUrl(w.cr.spec, new)
       IN  /\ CreateOrUpdate("ingress", new, o)
           /\ IF ~Succeeds("ingress", new, o) THEN Stop("failed", TRUE)
              ELSE IF ~w.cr.spec.prefer THEN Proceed(w)
              ELSE IF IngressResult(url, new) = "success" THEN Proceed([w EXCEPT !.next.url = url])
              ELSE Stop(IngressResult(url, new), TRUE)
    /\ UNCHANGED <<clusterVars, queued, up>>

RouteUrl(spec, host, url) == IF spec.prefer /\ host THEN "host" ELSE url

ReconcileRoute(o) ==
    \E host \in IF ocache["ingress"] = Absent THEN RouteHosts ELSE {ocache["ingress"].v} :
        Stage("ingress", host, o, [w EXCEPT !.next.url = RouteUrl(w.cr.spec, host, @)])

Ingress(o) ==
    /\ Running("ingress")
    /\ IF OpenShift THEN ReconcileRoute(o) ELSE ReconcileIngress(o)

\* A ConfigMap is created without plugins and then only read.
PluginsStage(o) ==
    /\ Running("plugins")
    /\ IF ocache["plugins"] = Absent
       THEN Stage("plugins", << >>, o, [w EXCEPT !.plugins = <<>>])
       ELSE /\ \E list \in Consolidations(ocache["plugins"].v) :
                 IF list = NoList THEN Stop("failed", TRUE)
                 ELSE Proceed([w EXCEPT !.plugins = list])
            /\ UNCHANGED <<clusterVars, objVars, queued, up>>

\* Variant: the pods are not told of the configuration.
TemplateWithoutHash == [config |-> Absent, plugins |-> w.plugins]

\* What getContainers tells the pods of the earlier stages
Template == [config |-> w.hash, plugins |-> w.plugins]

Deployment(o) == Running("deployment") /\ Stage("deployment", Template, o, w)

-----------------------------------------------------------------------------
(* Reconcile *)

\* A live Grafana goes through the stages, or has its url given.
Begin(g) ==
    LET x == [Worker0 EXCEPT !.cr = g, !.next = g.status]
    IN  IF ~Live(g) THEN Worker0
        ELSE IF g.spec.external # Absent
        THEN [x EXCEPT !.pc = "status", !.next.stage = "complete",
                       !.next.result = "success", !.next.url = g.spec.external]
        ELSE [x EXCEPT !.pc = "run", !.next.stage = "admin user"]

Dequeue ==
    /\ up /\ w.pc = "idle" /\ queued
    /\ queued' = FALSE
    /\ grstale' = IF "cache" \in grstale THEN grstale \cup {"worker"} ELSE grstale \ {"worker"}
    /\ w' = Begin(grcache)
    /\ UNCHANGED <<gr, grcache, objVars, up>>

WriteGrafana(new) ==
    /\ gr' = new
    /\ grstale' = IF new = gr THEN grstale ELSE {"cache", "worker"}
    /\ UNCHANGED grcache

\* Variant: the status is sent whatever the copy's version.
StatusAcceptedAlways(o) == o # "fail" /\ gr.uid = w.cr.uid /\ Live(gr)

StatusAccepted(o) == o # "fail" /\ "worker" \notin grstale

\* updateStatus; the key is tried again after an error and until it succeeds.
UpdateStatus(o) ==
    /\ up /\ w.pc = "status"
    /\ LET sent == w.next # w.cr.status
       IN  /\ IF sent /\ StatusAccepted(o) THEN WriteGrafana([gr EXCEPT !.status = w.next])
              ELSE UNCHANGED clusterVars
           /\ queued' = \/ queued
                        \/ w.next.result # "success"
                        \/ sent /\ ~(StatusAccepted(o) /\ o = "ok")
    /\ w' = Worker0
    /\ UNCHANGED <<objVars, up>>

Crash ==
    /\ up /\ up' = FALSE
    /\ w' = Worker0 /\ queued' = FALSE
    /\ UNCHANGED <<clusterVars, objVars>>

\* The informers list everything; nothing is left of the old pod's copies.
Start ==
    /\ ~up /\ up' = TRUE
    /\ grcache' = gr /\ grstale' = {"worker"}
    /\ ocache' = obj /\ ostale' = {}
    /\ queued' = Live(gr)
    /\ UNCHANGED <<gr, obj, w>>

-----------------------------------------------------------------------------
(* Users, other controllers and Kubernetes *)

CreateGrafana ==
    /\ ~Live(gr) /\ gr.uid < MaxUid
    /\ \E spec \in Specs : WriteGrafana([Gone(gr.uid + 1) EXCEPT !.spec = spec])
    /\ UNCHANGED <<objVars, queued, up, w>>

EditGrafana ==
    /\ \E step \in SpecSteps : gr.spec = step[1] /\ WriteGrafana([gr EXCEPT !.spec = step[2]])
    /\ UNCHANGED <<objVars, queued, up, w>>

DeleteGrafana ==
    /\ Live(gr) /\ (gr.uid < MaxUid \/ LastDeleted)
    /\ WriteGrafana(Gone(gr.uid))
    /\ UNCHANGED <<objVars, queued, up, w>>

\* A content controller records, or removes, what it keeps in this Grafana.
RecordContent(c) ==
    /\ Live(gr) /\ Ready(gr.status)
    /\ WriteGrafana([gr EXCEPT !.status.list = IF c \in @ THEN @ \ {c} ELSE @ \cup {c}])
    /\ UNCHANGED <<objVars, queued, up, w>>

AskPlugins ==
    /\ obj["plugins"] # Absent
    /\ \E data \in Requests : Write("plugins", [obj["plugins"] EXCEPT !.v = data])
    /\ UNCHANGED <<clusterVars, queued, up, w>>

Touch(k) ==
    /\ k \in Touched \cap Lagging /\ obj[k] # Absent
    /\ ostale' = ostale \cup {k}
    /\ UNCHANGED <<clusterVars, obj, ocache, queued, up, w>>

\* Objects go with their owner: those of a lagging kind by themselves, in any
\* order, all others together.
CollectGarbage(ks) ==
    LET garbage == {k \in ks : obj[k] # Absent /\ (~Live(gr) \/ gr.uid # obj[k].owner)}
    IN  /\ garbage # {}
        /\ obj' = [k \in Kinds |-> IF k \in garbage THEN Absent ELSE obj[k]]
        /\ ocache' = [k \in Kinds |-> IF k \in garbage \ Lagging THEN Absent ELSE ocache[k]]
        /\ ostale' = ostale \cup (garbage \cap Lagging)
        /\ UNCHANGED <<clusterVars, queued, up, w>>

SyncGrafanaCache ==
    /\ up /\ "cache" \in grstale
    /\ grcache' = gr /\ grstale' = grstale \ {"cache"}
    /\ queued' = TRUE
    /\ UNCHANGED <<gr, objVars, up, w>>

\* Owns() maps events of Deployments and ConfigMaps to their controller, and
\* SetOwnerReference sets none: no event of an object reaches the queue.
SyncObjectCache(k) ==
    /\ up /\ k \in ostale
    /\ ocache' = [ocache EXCEPT ![k] = obj[k]] /\ ostale' = ostale \ {k}
    /\ UNCHANGED <<clusterVars, obj, queued, up, w>>

\* Every ten hours the informer hands out all it has.
Relist ==
    /\ up /\ Live(grcache) /\ ~queued /\ queued' = TRUE
    /\ UNCHANGED <<clusterVars, objVars, up, w>>

Init ==
    /\ gr = Gone(0) /\ grcache = gr /\ grstale = {"worker"}
    /\ obj = [k \in Kinds |-> Absent] /\ ocache = obj /\ ostale = {}
    /\ queued = FALSE /\ up = TRUE /\ w = Worker0

ReconcileStep(o) ==
    \/ AdminSecret(o) \/ Config(o) \/ Pvc(o) \/ ServiceAccount(o) \/ Service(o)
    \/ Ingress(o) \/ PluginsStage(o) \/ Deployment(o) \/ UpdateStatus(o)

Controller == Dequeue \/ \E o \in Outcomes : ReconcileStep(o)

Others == CreateGrafana \/ EditGrafana \/ DeleteGrafana \/ AskPlugins \/ \E c \in Content : RecordContent(c)

Collections == {{k} : k \in Lagging} \cup {Kinds \ Lagging}

Kubernetes ==
    \/ SyncGrafanaCache \/ Relist
    \/ \E k \in Kinds : Touch(k) \/ SyncObjectCache(k)
    \/ \E ks \in Collections : CollectGarbage(ks)

Next == Controller \/ Crash \/ Start \/ Others \/ Kubernetes

Spec == Init /\ [][Next]_vars

\* The one worker is scheduled, informers deliver and relist, the garbage
\* collector does its work, the pod is restarted.
Fairness ==
    /\ WF_vars(Controller) /\ WF_vars(Start) /\ WF_vars(SyncGrafanaCache)
    /\ WF_vars(Relist)
    /\ \A k \in Kinds : WF_vars(SyncObjectCache(k))
    /\ \A ks \in Collections : WF_vars(CollectGarbage(ks))

-----------------------------------------------------------------------------
(* Properties *)

Status == [stage: {"", "admin user", "config", "pvc", "service account", "service",
                   "ingress", "plugins", "deployment", "complete"},
           result: {"", "success", "failed", "in progress"}, message: BOOLEAN,
           url: {Absent, "service", "host", "address"} \cup {spec.external : spec \in Specs},
           list: SUBSET Content]

Resource == [uid: 0..MaxUid, spec: Specs \cup {Absent}, status: Status]

(* Variables keep their types.  An object is owned by an incarnation of    *)
(* the Grafana that was there (SetOwnerReference), and no error of an      *)
(* earlier pass outlives the first stage that succeeds (line 110).         *)
TypeOK ==
    /\ gr \in Resource /\ grcache \in Resource /\ grstale \subseteq {"cache", "worker"}
    /\ \A k \in Kinds : \A o \in {obj[k], ocache[k]} : o = Absent \/ o.owner \in 1..gr.uid
    /\ ostale \subseteq Kinds
    /\ queued \in BOOLEAN /\ up \in BOOLEAN
    /\ w.pc \in {"idle", "run", "status"} /\ w.cr \in Resource /\ w.next \in Status
    /\ w.pc = "run" /\ w.next.message => w.next.stage = "admin user"

(* A password Grafana was started with is never drawn anew, whatever the   *)
(* cache missed (admin_secret_reconciler.go:52 "If a password is already   *)
(* set, don't change it"): only a password in a spec replaces it.          *)
PasswordKept ==
    [][obj["secret"] # Absent /\ obj'["secret"] # Absent /\ obj'["secret"].v # obj["secret"].v
       => obj'["secret"].v \in {spec.password : spec \in Specs}]_vars

Present(k) == obj[k] # Absent

(* When a Deployment's pods are told of a configuration (CONFIG_HASH,      *)
(* deployment_reconciler.go:159-163), that configuration is in the         *)
(* ConfigMap they mount, and all else they refer to exists: the stages run *)
(* in order and none is skipped after a failure.  For a Grafana that       *)
(* replaces another this does not hold, while the other's objects go.      *)
PodsFindEverything ==
    [][Live(gr) /\ gr.uid = 1 /\ obj'["deployment"] # obj["deployment"] /\ obj'["deployment"] # Absent
       => /\ Present("config") /\ obj["config"].v = obj'["deployment"].v.config
          /\ Present("secret") /\ Present("account") /\ (w.cr.spec.pvc => Present("pvc"))]_vars

(* The Grafana controller rewrites the whole status (updateStatus,         *)
(* lines 129-138) and never drops what another controller recorded in it.  *)
ContentKept == [][Controller => gr'.status.list = gr.status.list]_vars

(* A Grafana reported ready has a url to reach it by ("an admin url is     *)
(* required to interact with grafana, the instance or route might not yet  *)
(* be ready", dashboard_controller.go:194-195).                            *)
ReadyHasUrl == Live(gr) /\ Ready(gr.status) => gr.status.url # Absent

\* An inductive invariant: the variables have the shape the actions take for
\* granted, ...
IsObject(o) == o # Absent => o = [owner |-> o.owner, v |-> o.v]

ShapeOK ==
    /\ w = [pc |-> w.pc, cr |-> w.cr, next |-> w.next, hash |-> w.hash, plugins |-> w.plugins]
    /\ obj = [k \in Kinds |-> obj[k]] /\ ocache = [k \in Kinds |-> ocache[k]]
    /\ \A k \in Kinds : IsObject(obj[k]) /\ IsObject(ocache[k])
    /\ ostale \subseteq Lagging
    /\ \A g \in {gr, grcache, w.cr} : g.uid \in 0..gr.uid /\ (Live(g) => g.uid > 0)

\* ... a copy nobody has overtaken is the object itself, ...
GrafanaCopiesOK ==
    /\ "cache" \notin grstale => grcache = gr
    /\ w.pc # "idle" /\ "worker" \notin grstale => w.cr = gr

ObjectCopiesOK == \A k \in Kinds \ ostale : ocache[k] = obj[k]

CopiesOK == GrafanaCopiesOK /\ ObjectCopiesOK

\* ... a pass is for a live Grafana, whose lists it carries along, ...
PassOK == w.pc # "idle" => Live(w.cr) /\ w.next.list = w.cr.status.list

\* ... nothing of the first Grafana is collected while it is there, ...
KeptOK ==
    Live(gr) /\ gr.uid = 1 =>
        \A k \in {"secret", "config", "pvc", "account"} : ocache[k] # Absent => Present(k)

\* ... so what the stages behind have made is there, ...
StagesOK ==
    Live(gr) /\ gr.uid = 1 /\ w.pc = "run" =>
        LET Behind(stages) == w.next.stage \notin stages
        IN  /\ Behind({"admin user"}) => Present("secret")
            /\ Behind({"admin user", "config"}) =>
                 Present("config") /\ ("config" \notin Lagging => obj["config"].v = w.hash)
            /\ Behind({"admin user", "config", "pvc"}) /\ w.cr.spec.pvc => Present("pvc")
            /\ Behind({"admin user", "config", "pvc", "service account"}) => Present("account")

\* ... and the url is known before the stages that follow the ingress.
UrlCertain == OpenShift => RouteHosts = {TRUE}

UrlOK ==
    /\ OpenShift => \A o \in {obj["ingress"], ocache["ingress"]} : o # Absent => o.v \in RouteHosts
    /\ w.pc = "run" /\ (w.next.stage = "ingress" => ~w.cr.spec.prefer)
         /\ w.next.stage \in {"ingress", "plugins", "deployment"} => w.next.url # Absent
    /\ w.pc = "status" /\ Ready(w.next) => w.next.url # Absent
    /\ ReadyHasUrl

(* The copies of the resource and of its objects that the pass works from, *)
(* and what each stage may take for granted of those before it.            *)
IInv == ShapeOK /\ CopiesOK /\ PassOK /\ KeptOK /\ StagesOK /\ (UrlCertain => UrlOK)

\* What the status and the objects come to be for the present spec
UrlFor(spec) ==
    IF spec.external # Absent THEN spec.external
    ELSE IF ~spec.prefer THEN "service"
    ELSE IF OpenShift \/ spec.host THEN "host" ELSE "address"

Reconciled ==
    Live(gr) =>
        /\ Ready(gr.status) /\ gr.status.url = UrlFor(gr.spec)
        /\ gr.spec.external = Absent =>
             /\ \A k \in Kinds \ {"pvc"} : Present(k) /\ obj[k].owner = gr.uid
             /\ obj["config"].v = gr.spec.config
             /\ obj["deployment"].v.config = gr.spec.config
             /\ PluginNames(obj["deployment"].v.plugins)
                  = UNION {PluginNames(obj["plugins"].v[r]) : r \in DOMAIN obj["plugins"].v}

\* The write about to be made cannot succeed.
Refused == \/ w.pc = "status" /\ "worker" \in grstale
           \/ w.pc = "run" /\ ostale # {}

Fault == \E o \in Outcomes \ {"ok"} :
           ReconcileStep(o) /\ ~Refused /\ ~ReconcileStep("ok")

(* When calls that can succeed do, and nothing but the load balancer moves *)
(* any more, the Grafana becomes ready under its spec's url, and its       *)
(* objects are those of its spec, although a pass ends at the first stage  *)
(* that is not done, and no event of an object starts another one (lines   *)
(* 92-126).                                                                *)
Converges == <>[][~Crash /\ ~Fault /\ ~Others /\ \A k \in Kinds : ~Touch(k)]_vars => <>[]Reconciled

(* A Deployment is rolled out again only for another configuration or      *)
(* other plugins ("env var to restart container if plugins change",        *)
(* deployment_reconciler.go:165), for a rollout loses the emptyDir.        *)
RestartsOnlyForChange ==
    [][Present("deployment") /\ obj'["deployment"] # Absent
       /\ obj'["deployment"].v.config = obj["deployment"].v.config
       /\ obj'["deployment"].v # obj["deployment"].v
       => ToSet(obj'["deployment"].v.plugins) # ToSet(obj["deployment"].v.plugins)]_vars
===============================================================================
