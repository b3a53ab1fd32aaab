------------------------------ MODULE AdminAccess ------------------------------
(***************************************************************************)
(* How the operator logs in to a Grafana it runs (controllers/client).     *)
(* The password is drawn or copied into a Secret by one stage, handed to   *)
(* the container as an environment variable, and read back from the Secret *)
(* for every client.  But Grafana takes it only when its database is new,  *)
(* and the Deployment changes only with the hash of the configuration: so  *)
(* the three agree only because the stages run in their order.             *)
(***************************************************************************)
EXTENDS GrafanaController, Forward

\* The ini file has the password in it, so another password is another hash.
ASSUME AccessAssumption ==
    \A s, t \in Specs : s.password # t.password => s.config # t.config

VARIABLE pod  \* the running Grafana: the Deployment it is of, and its password

varsAccess == <<vars, pod>>

\* The kubelet starts a container when what it mounts and refers to is there; the
\* database is in an emptyDir, so it is new and takes the Secret's password.
StartPod ==
    /\ Present("deployment") /\ Present("config") /\ Present("secret")
    /\ IF pod = Absent THEN TRUE ELSE pod.of # obj["deployment"]
    /\ pod' = [of |-> obj["deployment"], password |-> obj["secret"].v]
    /\ UNCHANGED vars

\* The load balancer takes the ingress up, at first perhaps without an address.
LoadBalancer(lb) ==
    /\ ~OpenShift /\ obj["ingress"] # Absent
    /\ lb = "empty" => obj["ingress"].v = "pending"
    /\ Write("ingress", [obj["ingress"] EXCEPT !.v = lb])
    /\ UNCHANGED <<clusterVars, queued, up, w, pod>>

\* The pod is evicted, or goes with its Deployment.
LosePod == pod # Absent /\ pod' = Absent /\ UNCHANGED vars
CollectPod == ~Present("deployment") /\ LosePod

\* getAdminCredentials: the Deployment says which Secret to read.
AdminCredentials ==
    IF ocache["deployment"] = Absent \/ ocache["secret"] = Absent THEN Absent
    ELSE ocache["secret"].v

\* NewGrafanaClient
Client == [url |-> grcache.status.url, password |-> AdminCredentials]

AccessInit == Init /\ pod = Absent
Surroundings == StartPod \/ LosePod \/ \E lb \in {"empty", "address"} : LoadBalancer(lb)
AccessNext == (Next /\ UNCHANGED pod) \/ Surroundings

AccessSpec == AccessInit /\ [][AccessNext]_varsAccess

\* The kubelet starts what can be started and stops what is deleted, the load
\* balancer comes up.
AccessFairSpec ==
    /\ AccessSpec /\ Fairness
    /\ WF_varsAccess(StartPod) /\ WF_varsAccess(CollectPod)
    /\ SF_varsAccess(LoadBalancer("address"))

LoggedIn ==
    Live(gr) /\ gr.spec.external = Absent =>
        pod # Absent /\ Client = [url |-> UrlFor(gr.spec), password |-> pod.password]

(* When faults end and nobody edits any more, the clients of the content   *)
(* controllers log in with the password the running Grafana has, whatever  *)
(* passwords were set, drawn or lost on the way ("env var to restart       *)
(* container if config changes", deployment_reconciler.go:159).            *)
AdminAccess ==
    <>[][~Crash /\ ~Fault /\ ~Others /\ \A k \in Kinds : ~Touch(k)]_vars
    /\ <>[][Present("deployment") => ~LosePod]_varsAccess
    => <>[]LoggedIn

(* A Grafana that runs with the configuration its resource asks for is     *)
(* never sent a wrong password: neither a pod started between two stages,  *)
(* nor a stage that failed, nor a pass from an outdated copy of the        *)
(* resource leaves one behind whose password is not the Secret's, since    *)
(* such a Grafana would not be started again (admin_secret_reconciler.go,  *)
(* "env var to restart container if config changes").  For the first of    *)
(* its name, configurations that never go back, and current Secrets.       *)
NoWrongPassword ==
    Live(gr) /\ gr.uid = 1 /\ pod # Absent /\ pod.of.v.config = gr.spec.config
      => AdminCredentials \in {Absent, pod.password}

\* Why that is so: the configurations of Deployment and pod trail those of the
\* copies of the resource, ...
Configs == {spec.config : spec \in Specs}
ConfigsForward(before) ==
    GoesForward(before, Configs, {<<step[1].config, step[2].config>> : step \in SpecSteps})
ConfigOrders == {before \in [Configs \X Configs -> BOOLEAN] : ConfigsForward(before)}

Deployments == {obj["deployment"]} \cup {IF pod = Absent THEN Absent ELSE pod.of}

ConfigsTrail(before) ==
    /\ NotNewer(before, grcache.spec.config, gr.spec.config)
    /\ w.pc # "idle" => NotNewer(before, w.cr.spec.config, grcache.spec.config)
    /\ \A d \in Deployments \ {Absent} :
         /\ d.v.config \in Configs /\ NotNewer(before, d.v.config, grcache.spec.config)
         /\ w.pc # "idle" => NotNewer(before, d.v.config, w.cr.spec.config)

\* ... and whatever was made for a spec came after the Secret with its password.
Suits(spec) == Present("secret") /\ spec.password \in {Absent, obj["secret"].v}

SecretFirst ==
    /\ w.pc = "run" /\ w.next.stage # "admin user" => Suits(w.cr.spec)
    /\ w.pc = "run" /\ w.next.stage \notin {"admin user", "config"} => w.hash = w.cr.spec.config
    /\ \A d \in Deployments \ {Absent} : d.v.config = gr.spec.config => Suits(gr.spec)
    /\ pod # Absent /\ pod.of.v.config = gr.spec.config => pod.password = obj["secret"].v

AccessInv(before) ==
    /\ pod # Absent => gr.uid > 0 /\ pod.of # Absent
    /\ Live(gr) /\ gr.uid = 1 =>
         /\ w.pc # "idle" \/ Deployments # {Absent} => Live(grcache)
         /\ Live(grcache) => ConfigsTrail(before)
         /\ SecretFirst

(* Where configurations go forward, Deployment and pod trail the copies of *)
(* the resource, and come after the Secret that suits them: the stages run *)
(* in order and stop at the first that fails (grafana_controller.go:118).  *)
AccessTrails == \A before \in ConfigOrders : AccessInv(before)
===============================================================================
