---------------------------- MODULE ContentLedger ----------------------------
(***************************************************************************)
(* What a content controller promises, whatever its calls, caches, queues  *)
(* and restarts do.  An item is one incarnation of a custom resource (a    *)
(* namespace/name and a uid).  Grafana servers store items, the status of  *)
(* a Grafana resource lists them, and an item is settled when its status   *)
(* carries a hash.  A living item leaves a server only when the server     *)
(* loses all its data, a living entry is never dropped from a list, and    *)
(* nothing is settled before it is listed.                                 *)
(***************************************************************************)
CONSTANTS
    Servers,  \* Grafana servers
    Items     \* incarnations of custom resources

VARIABLES
    life,     \* unborn, live or dead
    stored,   \* per server, the items in its database
    listed,   \* per server, the items its resource's status lists
    settled   \* the items that carry a hash

vars == <<life, stored, listed, settled>>

Born(i) == life[i] # "unborn"
Dead(i) == life[i] = "dead"

\* A set may gain what exists and lose what is dead.
MayBecome(old, new) ==
    /\ \A i \in new \ old : Born(i)
    /\ \A i \in old \ new : Dead(i)

Init ==
    /\ life = [i \in Items |-> "unborn"]
    /\ stored = [g \in Servers |-> {}] /\ listed = [g \in Servers |-> {}]
    /\ settled = {}

Create(i) ==
    /\ life[i] = "unborn"
    /\ life' = [life EXCEPT ![i] = "live"]
    /\ UNCHANGED <<stored, listed, settled>>

Delete(i) ==
    /\ life[i] = "live"
    /\ life' = [life EXCEPT ![i] = "dead"]
    /\ settled' = settled \ {i}
    /\ UNCHANGED <<stored, listed>>

\* The controller pushes and removes items ...
Store(g) ==
    /\ \E new \in SUBSET Items :
         MayBecome(stored[g], new) /\ stored' = [stored EXCEPT ![g] = new]
    /\ UNCHANGED <<life, listed, settled>>

\* ... and the server may lose everything.
Lose(g) ==
    /\ stored' = [stored EXCEPT ![g] = {}]
    /\ UNCHANGED <<life, listed, settled>>

List(g) ==
    /\ \E new \in SUBSET Items :
         MayBecome(listed[g], new) /\ listed' = [listed EXCEPT ![g] = new]
    /\ UNCHANGED <<life, stored, settled>>

Settle ==
    /\ settled' \in SUBSET {i \in Items : life[i] = "live" /\ \E g \in Servers : i \in listed[g]}
    /\ UNCHANGED <<life, stored, listed>>

Next ==
    \/ \E i \in Items : Create(i) \/ Delete(i)
    \/ \E g \in Servers : Store(g) \/ Lose(g) \/ List(g)
    \/ Settle

Spec == Init /\ [][Next]_vars
=============================================================================
