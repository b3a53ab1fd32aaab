-------------------------------- MODULE Standby --------------------------------
(***************************************************************************)
(* Two replicas of the operator with leader election (main.go).  Only the  *)
(* leader runs the controllers; but the sync goroutine is started by       *)
(* SetupWithManager, whoever leads, so the standby has one too.  It works  *)
(* from informer caches of its own.  Its controllers' watches are not      *)
(* started, so an informer is created and filled by the first List of its  *)
(* kind: that of Grafanas before that of dashboards.  From then on the two *)
(* lag by themselves, which tells in the passes after one that failed.     *)
(* The leader is DashboardController as it stands, the standby its sync    *)
(* under other variables.  A change of leaders is left out, so the leader  *)
(* does not crash.                                                         *)
(***************************************************************************)
EXTENDS DashboardController

VARIABLES
    crcache2, crstale2,  \* the standby's copies of the custom resources
    gcache2, gstale2,    \* ... and of the Grafana resources
    s2,                  \* its sync goroutine
    up2,                 \* has its Grafana informer been filled
    filled2              \* has its informer of dashboards been filled

crVars2 == <<crcache2, crstale2>>
grafanaVars2 == <<gcache2, gstale2>>
vars2 == <<vars, crVars2, grafanaVars2, s2, up2, filled2>>

\* The standby: of the controller it runs the sync goroutine only
Replica == INSTANCE DashboardController WITH
    crcache <- crcache2, crstale <- crstale2, gcache <- gcache2, gstale <- gstale2,
    s <- s2, up <- up2

\* Whoever holds a copy of a Grafana that has been written is overtaken.
Overtaken(stale) == [g \in Grafanas |->
    IF grafana'[g] # grafana[g] THEN GrafanaHolders ELSE stale[g]]

\* Before its start the standby has no copies to become stale.
LeaderStep ==
    /\ Controller \/ Env(Outside)
    /\ gstale2' = IF up2 THEN Overtaken(gstale2) ELSE gstale2
    /\ crstale2' = IF filled2 THEN [n \in Names |-> IF cr'[n] # cr[n] THEN CRHolders
                                                   ELSE crstale2[n]] ELSE crstale2
    /\ UNCHANGED <<crcache2, gcache2, s2, up2, filled2>>

\* Nothing of the leader's own changes while the standby syncs.
BesideLeader ==
    /\ gstale' = Overtaken(gstale)
    /\ UNCHANGED <<crVars, crVars2, gcache, workVars, w, s>>

StandbySync ==
    /\ s2.pc = "list" => filled2
    /\ Replica!SyncLocalStep \/ \E o \in Outcomes : Replica!SyncStep(o)
    /\ BesideLeader /\ UNCHANGED filled2

\* The informers are the manager's, so the standby runs them.
StandbyReadsCR(n) ==
    /\ filled2 /\ "cache" \in crstale2[n]
    /\ crcache2' = [crcache2 EXCEPT ![n] = cr[n]]
    /\ crstale2' = [crstale2 EXCEPT ![n] = @ \ {"cache"}]
    /\ UNCHANGED <<vars, grafanaVars2, s2, up2, filled2>>

StandbyReadsGrafana(g) ==
    /\ Replica!SyncGrafanaCache(g)
    /\ UNCHANGED <<vars, crVars2, s2, filled2>>

\* The first List of a kind creates its informer, and waits until that is filled.
\* Here the one of Grafanas (line 68, or that of another controller's sync) ...
StandbyFillsGrafanas ==
    /\ ~up2 /\ up2' = TRUE
    /\ gcache2' = grafana
    /\ gstale2' = [g \in Grafanas |-> {"worker", "sync"}]
    /\ UNCHANGED <<vars, crVars2, s2, filled2>>

\* ... and after it the one of dashboards (line 82), which is the newer in the
\* first pass.
StandbyFillsDashboards ==
    /\ s2.pc = "list" /\ ~filled2 /\ filled2' = TRUE
    /\ crcache2' = cr
    /\ crstale2' = [n \in Names |-> {"worker"}]
    /\ UNCHANGED <<vars, grafanaVars2, s2, up2>>

StandbyInit ==
    /\ crcache2 = cr /\ crstale2 = [n \in Names |-> CRHolders]
    /\ gcache2 = grafana /\ gstale2 = [g \in Grafanas |-> GrafanaHolders]
    /\ s2 = Waiting /\ up2 = FALSE /\ filled2 = FALSE

StandbyNext ==
    \/ StandbySync \/ StandbyFillsGrafanas \/ StandbyFillsDashboards
    \/ \E n \in Names : StandbyReadsCR(n)
    \/ \E g \in Grafanas : StandbyReadsGrafana(g)

ReplicasNext == LeaderStep \/ StandbyNext

\* The standby is started at any time.
ReplicasSpec == Init /\ StandbyInit /\ [][ReplicasNext]_vars2

(* The standby deletes no dashboard of a living resource either, and drops *)
(* no entry of one: with leader election "there is only one active         *)
(* controller manager" (main.go:85).                                       *)
StandbyHarmless ==
    [][StandbyNext => \A g \in Grafanas, n \in Names, u \in Uids :
         \/ store[g][n][u] # Absent /\ store'[g][n][u] = Absent
         \/ u \in Entries(grafana[g].list[n]) /\ u \notin Entries(grafana'[g].list[n])
         => Dead(n, u)]_vars2

===============================================================================
