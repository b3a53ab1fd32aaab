----------------------- MODULE GrafanaControllerProofs -----------------------
(***************************************************************************)
(* Theorems about GrafanaController, for every value of its constants, and *)
(* about the same controller beside a load balancer (AdminAccess).         *)
(***************************************************************************)
EXTENDS AdminAccess, TLAPS

USE GrafanaAssumption, AbsentAssumption

-----------------------------------------------------------------------------
(* Types, by the variables they speak about *)

GrafanaTypes ==
    /\ gr \in Resource /\ grcache \in Resource /\ grstale \subseteq {"cache", "worker"}
    /\ \A g \in {gr, grcache} : g.uid <= gr.uid /\ (Live(g) => g.uid > 0)

\* Nothing, or an object of an incarnation there has been
Owned(o) == o # Absent => o = [owner |-> o.owner, v |-> o.v] /\ o.owner \in 1..gr.uid

ObjectTypes ==
    /\ obj = [k \in Kinds |-> obj[k]] /\ ocache = [k \in Kinds |-> ocache[k]]
    /\ \A k \in Kinds : Owned(obj[k]) /\ Owned(ocache[k])
    /\ ostale \subseteq Lagging

WorkerTypes ==
    /\ w = [pc |-> w.pc, cr |-> w.cr, next |-> w.next, hash |-> w.hash, plugins |-> w.plugins]
    /\ w.pc \in {"idle", "run", "status"} /\ w.cr \in Resource /\ w.next \in Status
    /\ w.cr.uid <= gr.uid /\ (Live(w.cr) => w.cr.uid > 0)
    /\ w.pc = "run" /\ w.next.message => w.next.stage = "admin user"

QueueTypes == queued \in BOOLEAN /\ up \in BOOLEAN

TS == GrafanaTypes /\ ObjectTypes /\ WorkerTypes /\ QueueTypes

LEMMA UidType ==
  ASSUME NEW g \in Resource
  PROVE  g.uid \in 0..MaxUid /\ g.uid \in Nat
BY DEF Resource

LEMMA TSisTypeAndShape == TS <=> TypeOK /\ ShapeOK
<1>1. ASSUME gr \in Resource, NEW g \in Resource
      PROVE  g.uid \in 0..gr.uid <=> g.uid <= gr.uid
  BY UidType
<1>2. TS => TypeOK
  BY DEF TS, TypeOK, GrafanaTypes, ObjectTypes, Owned, WorkerTypes, QueueTypes
<1>3. ASSUME TS PROVE ShapeOK
  <2>1. \A g \in {gr, grcache, w.cr} : g.uid \in 0..gr.uid /\ (Live(g) => g.uid > 0)
    BY <1>1, <1>3 DEF TS, GrafanaTypes, WorkerTypes
  <2>2. QED BY <1>3, <2>1 DEF TS, ShapeOK, IsObject, ObjectTypes, Owned, WorkerTypes
<1>4. ASSUME TypeOK, ShapeOK PROVE TS
  <2>1. gr \in Resource /\ grcache \in Resource /\ w.cr \in Resource
    BY <1>4 DEF TypeOK
  <2>2. \A g \in {gr, grcache, w.cr} : g.uid <= gr.uid /\ (Live(g) => g.uid > 0)
    BY <1>1, <1>4, <2>1 DEF ShapeOK
  <2>3. GrafanaTypes /\ QueueTypes
    BY <1>4, <2>2 DEF TypeOK, GrafanaTypes, QueueTypes
  <2>4. ObjectTypes
    BY <1>4 DEF TypeOK, ShapeOK, IsObject, ObjectTypes, Owned
  <2>5. WorkerTypes
    BY <1>4, <2>2 DEF TypeOK, ShapeOK, WorkerTypes
  <2>6. QED BY <2>3, <2>4, <2>5 DEF TS
<1>5. QED BY <1>2, <1>3, <1>4

LEMMA StatusFields ==
  ASSUME NEW status \in Status
  PROVE  status = [stage |-> status.stage, result |-> status.result,
                   message |-> status.message, url |-> status.url, list |-> status.list]
BY DEF Status

LEMMA NoStatusType == NoStatus \in Status /\ ~Ready(NoStatus)
BY DEF NoStatus, Status, Ready

LEMMA GoneType ==
  ASSUME NEW u \in 0..MaxUid
  PROVE  Gone(u) \in Resource /\ Gone(u).uid = u /\ ~Live(Gone(u)) /\ Gone(u).status = NoStatus
BY NoStatusType DEF Gone, Live, Resource

LEMMA IdleType ==
  ASSUME gr \in Resource, w = Worker0
  PROVE  w.pc = "idle" /\ WorkerTypes
<1>1. Gone(0) \in Resource /\ Gone(0).uid = 0 /\ ~Live(Gone(0))
  BY GoneType
<1>2. 0 <= gr.uid
  BY UidType
<1>3. w = [pc |-> "idle", cr |-> Gone(0), next |-> NoStatus, hash |-> Absent, plugins |-> <<>>]
  BY DEF Worker0
<1>4. QED BY <1>1, <1>2, <1>3, NoStatusType DEF WorkerTypes

LEMMA IdleTypeAfter ==
  ASSUME (gr \in Resource)', w' = Worker0
  PROVE  w'.pc = "idle" /\ WorkerTypes'
<1>1. Gone(0) \in Resource /\ Gone(0).uid = 0 /\ ~Live(Gone(0))
  BY GoneType
<1>2. 0 <= gr'.uid
  BY UidType
<1>3. w' = [pc |-> "idle", cr |-> Gone(0), next |-> NoStatus, hash |-> Absent, plugins |-> <<>>]
  BY DEF Worker0
<1>4. QED BY <1>1, <1>2, <1>3, NoStatusType DEF WorkerTypes

LEMMA InitTS == Init => TS
<1> SUFFICES ASSUME Init PROVE TS
  OBVIOUS
<1> USE DEF Init
<1>1. GrafanaTypes
  BY GoneType DEF GrafanaTypes
<1>2. ObjectTypes
  BY DEF ObjectTypes, Owned
<1>3. WorkerTypes
  BY IdleType, GoneType
<1>4. QED BY <1>1, <1>2, <1>3 DEF TS, QueueTypes

-----------------------------------------------------------------------------
(* What a stage does to the objects *)

LEMMA WriteSteps ==
  ASSUME ObjectTypes, NEW k \in Kinds, NEW new, Write(k, new)
  PROVE  /\ obj' = [obj EXCEPT ![k] = new] /\ obj'[k] = new
         /\ \A j \in Kinds \ {k} : obj'[j] = obj[j]
         /\ \A j \in Kinds : ocache'[j] = ocache[j] \/ (j = k /\ j \notin Lagging /\ ocache'[j] = new)
         /\ ocache' = [j \in Kinds |-> ocache'[j]] /\ obj' = [j \in Kinds |-> obj'[j]]
         /\ ostale' = ostale \/ (k \in Lagging /\ ostale' = ostale \cup {k})
         /\ new = obj[k] \/ k \in ostale' \/ ocache'[k] = new
<1> USE DEF ObjectTypes
<1>1. obj' = [obj EXCEPT ![k] = new]
  BY DEF Write
<1>2. /\ obj'[k] = new /\ obj' = [j \in Kinds |-> obj'[j]]
      /\ \A j \in Kinds \ {k} : obj'[j] = obj[j]
  BY <1>1
<1>3. CASE k \in Lagging
  <2>1. /\ ocache' = ocache
        /\ (new = obj[k] /\ ostale' = ostale) \/ ostale' = ostale \cup {k}
    BY <1>3 DEF Write
  <2>2. /\ ocache' = [j \in Kinds |-> ocache'[j]] /\ \A j \in Kinds : ocache'[j] = ocache[j]
        /\ new = obj[k] \/ k \in ostale'
        /\ ostale' = ostale \/ (k \in Lagging /\ ostale' = ostale \cup {k})
    BY <1>3, <2>1
  <2>3. QED BY <1>1, <1>2, <2>2
<1>4. CASE k \notin Lagging
  <2>1. ocache' = [ocache EXCEPT ![k] = new] /\ ostale' = ostale
    BY <1>4 DEF Write
  <2>2. ocache'[k] = new /\ \A j \in Kinds \ {k} : ocache'[j] = ocache[j]
    BY <2>1
  <2>3. ocache' = [j \in Kinds |-> ocache'[j]]
    BY <2>1
  <2>4. \A j \in Kinds : ocache'[j] = ocache[j] \/ (j = k /\ j \notin Lagging /\ ocache'[j] = new)
    BY <1>4, <2>2
  <2>5. QED BY <1>1, <1>2, <2>1, <2>2, <2>3, <2>4
<1>5. QED BY <1>3, <1>4

LEMMA WriteTypes ==
  ASSUME ObjectTypes, NEW k \in Kinds, NEW new, Write(k, new), Owned(new), UNCHANGED gr
  PROVE  ObjectTypes'
<1>1. \A o : Owned(o) <=> Owned(o)'
  BY DEF Owned
<1>2. \A j \in Kinds : Owned(obj'[j]) /\ Owned(ocache'[j])
  BY WriteSteps DEF ObjectTypes
<1>3. QED BY <1>1, <1>2, WriteSteps DEF ObjectTypes, Owned

LEMMA WriteCopies ==
  ASSUME ObjectTypes, ObjectCopiesOK, NEW k \in Kinds, NEW new, Write(k, new)
  PROVE  ObjectCopiesOK'
<1>1. \A j \in Kinds \ {k} : j \notin ostale' => ocache'[j] = obj'[j]
  BY WriteSteps DEF ObjectCopiesOK
<1>2. k \notin ostale' => ocache'[k] = obj'[k]
  BY WriteSteps DEF ObjectCopiesOK
<1>3. QED BY <1>1, <1>2 DEF ObjectCopiesOK

\* What the controller asks for has an owner, and so is an object.
LEMMA AskedType ==
  ASSUME GrafanaTypes, ObjectTypes, WorkerTypes, Live(w.cr), NEW k \in Kinds, NEW v
  PROVE  Owned(Asked(k, v)) /\ Asked(k, v).v = v /\ Asked(k, v).owner \in 1..MaxUid
<1>1. w.cr.uid \in 1..gr.uid /\ gr.uid \in 0..MaxUid
  <2>1. w.cr \in Resource /\ gr \in Resource /\ w.cr.uid <= gr.uid /\ w.cr.uid > 0
    BY DEF WorkerTypes, GrafanaTypes
  <2>2. QED BY <2>1, UidType
<1>2. QED BY <1>1 DEF Asked, ObjectTypes, Owned

-----------------------------------------------------------------------------
(* What a stage does to the pass *)

\* The pass goes on to the next stage, or is done.
Continues(url, hash, plugins) ==
    LET stage == After(w.next.stage, w.cr.spec)
    IN  w' = [pc |-> IF stage = "complete" THEN "status" ELSE "run", cr |-> w.cr,
              next |-> [stage |-> stage, result |-> "success", message |-> FALSE,
                        url |-> url, list |-> w.next.list],
              hash |-> hash, plugins |-> plugins]

\* The pass ends before its time.
Stops(result) ==
    w' = [pc |-> "status", cr |-> w.cr,
          next |-> [stage |-> w.next.stage, result |-> result, message |-> TRUE,
                    url |-> w.next.url, list |-> w.next.list],
          hash |-> w.hash, plugins |-> w.plugins]

\* In the next two the Booleans go by a name, as any other value.
LEMMA StopSteps ==
  ASSUME WorkerTypes, NEW result, Stop(result, TRUE)
  PROVE  Stops(result)
<1> DEFINE status == w.next
           first == [status EXCEPT !.result = result]
           yes == TRUE
           second == [first EXCEPT !.message = yes]
<1>1. w = [pc |-> w.pc, cr |-> w.cr, next |-> status, hash |-> w.hash, plugins |-> w.plugins]
  BY DEF WorkerTypes
<1>2. status = [stage |-> status.stage, result |-> status.result, message |-> status.message,
                url |-> status.url, list |-> status.list]
  BY StatusFields DEF WorkerTypes
<1>3. w' = [w EXCEPT !.pc = "status", !.next = second]
  BY <1>1 DEF Stop
<1> HIDE DEF status
<1>4. first = [stage |-> status.stage, result |-> result, message |-> status.message,
               url |-> status.url, list |-> status.list]
  BY <1>2
<1> HIDE DEF first, yes
<1>5. second = [stage |-> status.stage, result |-> result, message |-> yes,
                url |-> status.url, list |-> status.list]
  BY <1>4
<1> HIDE DEF second
<1>6. w' = [pc |-> "status", cr |-> w.cr, next |-> second, hash |-> w.hash, plugins |-> w.plugins]
  BY <1>1, <1>3
<1>7. QED BY <1>5, <1>6 DEF Stops, status, yes

LEMMA ProceedSteps ==
  ASSUME WorkerTypes, NEW x, NEW url, NEW hash, NEW plugins, Proceed(x),
         x = [pc |-> w.pc, cr |-> w.cr, next |-> [w.next EXCEPT !.url = url],
              hash |-> hash, plugins |-> plugins]
  PROVE  Continues(url, hash, plugins)
<1> DEFINE stage == After(w.next.stage, w.cr.spec)
           pc == IF stage = "complete" THEN "status" ELSE "run"
           status == w.next
           asked == [status EXCEPT !.url = url]
           first == [asked EXCEPT !.stage = stage]
           second == [first EXCEPT !.result = "success"]
           no == FALSE
           third == [second EXCEPT !.message = no]
<1>1. x = [pc |-> w.pc, cr |-> w.cr, next |-> asked, hash |-> hash, plugins |-> plugins]
  OBVIOUS
<1>2. w' = [x EXCEPT !.pc = pc, !.next = third]
  <2>1. w' = [x EXCEPT !.pc = pc, !.next.stage = stage, !.next.result = "success",
                       !.next.message = FALSE]
    BY DEF Proceed, NextStage
  <2> HIDE DEF stage, pc
  <2>2. x.next = asked
    BY <1>1
  <2>3. QED BY <2>1, <2>2
<1>3. status = [stage |-> status.stage, result |-> status.result, message |-> status.message,
                url |-> status.url, list |-> status.list]
  BY StatusFields DEF WorkerTypes
<1> HIDE DEF stage, pc, status
<1>4. asked = [stage |-> status.stage, result |-> status.result, message |-> status.message,
               url |-> url, list |-> status.list]
  BY <1>3
<1> HIDE DEF asked
<1>5. first = [stage |-> stage, result |-> status.result, message |-> status.message,
               url |-> url, list |-> status.list]
  BY <1>4
<1> HIDE DEF first
<1>6. second = [stage |-> stage, result |-> "success", message |-> status.message,
                url |-> url, list |-> status.list]
  BY <1>5
<1> HIDE DEF second, no
<1>7. third = [stage |-> stage, result |-> "success", message |-> no, url |-> url, list |-> status.list]
  BY <1>6
<1> HIDE DEF third
<1>8. w' = [pc |-> pc, cr |-> w.cr, next |-> third, hash |-> hash, plugins |-> plugins]
  <2> DEFINE moved == [x EXCEPT !.pc = pc]
  <2>1. moved = [pc |-> pc, cr |-> w.cr, next |-> asked, hash |-> hash, plugins |-> plugins]
    BY <1>1
  <2>2. w' = [moved EXCEPT !.next = third]
    BY <1>2
  <2> HIDE DEF moved
  <2>3. QED BY <2>1, <2>2
<1>9. QED BY <1>7, <1>8 DEF Continues, stage, pc, status, no

LEMMA NewUrl ==
  ASSUME WorkerTypes, NEW url
  PROVE  [w EXCEPT !.next.url = url]
           = [pc |-> w.pc, cr |-> w.cr, next |-> [w.next EXCEPT !.url = url],
              hash |-> w.hash, plugins |-> w.plugins]
<1> DEFINE status == [w.next EXCEPT !.url = url]
<1>1. w = [pc |-> w.pc, cr |-> w.cr, next |-> w.next, hash |-> w.hash, plugins |-> w.plugins]
  BY DEF WorkerTypes
<1>2. [w EXCEPT !.next.url = url] = [w EXCEPT !.next = status]
  OBVIOUS
<1> HIDE DEF status
<1>3. [w EXCEPT !.next = status]
        = [pc |-> w.pc, cr |-> w.cr, next |-> status, hash |-> w.hash, plugins |-> w.plugins]
  BY <1>1
<1>4. QED BY <1>2, <1>3 DEF status

\* w itself, as ProceedSteps takes it
LEMMA SameUrl ==
  ASSUME WorkerTypes
  PROVE  w = [pc |-> w.pc, cr |-> w.cr, next |-> [w.next EXCEPT !.url = w.next.url],
              hash |-> w.hash, plugins |-> w.plugins]
<1>1. [w.next EXCEPT !.url = w.next.url] = w.next
  BY StatusFields DEF WorkerTypes
<1>2. QED BY <1>1 DEF WorkerTypes

Unmoved == UNCHANGED <<clusterVars, queued, up>>

\* One stage: what it asks for is there when the pass goes on.
Moves(stage, k, v, o, url, hash, plugins) ==
    /\ w.next.stage = stage /\ Unmoved
    /\ CreateOrUpdate(k, v, o) \/ (k = "plugins" /\ UNCHANGED objVars)
    /\ \/ Continues(url, hash, plugins) /\ (k = "plugins" \/ Succeeds(k, v, o))
       \/ \E result \in {"failed", "in progress"} : Stops(result)

LEMMA StageMoves ==
  ASSUME WorkerTypes, NEW k, NEW v, NEW o, NEW x, NEW url, NEW hash, NEW plugins,
         x = [pc |-> w.pc, cr |-> w.cr, next |-> [w.next EXCEPT !.url = url],
              hash |-> hash, plugins |-> plugins],
         Stage(k, v, o, x)
  PROVE  Moves(w.next.stage, k, v, o, url, hash, plugins)
<1>1. CreateOrUpdate(k, v, o) /\ Unmoved
  BY DEF Stage, Unmoved
<1>2. CASE Succeeds(k, v, o)
  <2>1. Proceed(x)
    BY <1>2 DEF Stage
  <2>2. QED BY <1>1, <1>2, <2>1, ProceedSteps DEF Moves
<1>3. CASE ~Succeeds(k, v, o)
  BY <1>1, <1>3, StopSteps DEF Stage, Moves
<1>4. QED BY <1>2, <1>3

ServiceUrl == IF w.cr.spec.prefer THEN w.next.url ELSE "service"

\* The ingress' url, or the one from before when the ingress is not to be used,
\* or is a route without a host.
IngressUrls(v) ==
    IF w.cr.spec.prefer
    THEN {"host", "address"} \cup (IF OpenShift /\ v # TRUE THEN {w.next.url} ELSE {})
    ELSE {w.next.url}

\* What a route asks for
Hosts == IF ocache["ingress"] = Absent THEN RouteHosts ELSE {ocache["ingress"].v}

MovesIngress(o) ==
    \E v, url : /\ Moves("ingress", "ingress", v, o, url, w.hash, w.plugins)
                /\ url \in IngressUrls(v) /\ (OpenShift => v \in Hosts)

LEMMA IngressMoves ==
  ASSUME WorkerTypes, NEW o, Ingress(o)
  PROVE  MovesIngress(o)
<1> USE DEF IngressUrls
<1>0. w.next.stage = "ingress"
  BY DEF Ingress, Running
<1>1. CASE OpenShift
  <2>1. PICK host \in Hosts :
          Stage("ingress", host, o, [w EXCEPT !.next.url = RouteUrl(w.cr.spec, host, w.next.url)])
    BY <1>1 DEF Ingress, ReconcileRoute, Hosts
  <2> DEFINE url == RouteUrl(w.cr.spec, host, w.next.url)
  <2>2. url \in IngressUrls(host)
    BY <1>1 DEF RouteUrl
  <2> HIDE DEF url
  <2>3. [w EXCEPT !.next.url = url]
          = [pc |-> w.pc, cr |-> w.cr, next |-> [w.next EXCEPT !.url = url],
             hash |-> w.hash, plugins |-> w.plugins]
    BY NewUrl
  <2>4. Moves("ingress", "ingress", host, o, url, w.hash, w.plugins)
    BY <1>0, <2>1, <2>3, StageMoves DEF url
  <2>5. QED BY <2>1, <2>2, <2>4 DEF MovesIngress
<1>2. CASE ~OpenShift
  <2> DEFINE new == IF ocache["ingress"] = Absent THEN "pending" ELSE ocache["ingress"].v
             url == IngressUrl(w.cr.spec, new)
             Ends == Stop("failed", TRUE) \/ Stop("in progress", TRUE)
             Asks == CreateOrUpdate("ingress", new, o) /\ Unmoved
  <2>1. /\ Asks
        /\ \/ Ends
           \/ Succeeds("ingress", new, o) /\ ~w.cr.spec.prefer /\ Proceed(w)
           \/ /\ Succeeds("ingress", new, o) /\ w.cr.spec.prefer /\ url # Absent
              /\ Proceed([w EXCEPT !.next.url = url])
    BY <1>2 DEF Ingress, ReconcileIngress, IngressResult, Unmoved
  <2>2. url # Absent => url \in {"host", "address"}
    BY DEF IngressUrl
  <2> HIDE DEF new, url
  <2>3. CASE Ends
    <3>1. \E result \in {"failed", "in progress"} : Stops(result)
      BY <2>3, StopSteps
    <3>2. PICK any : any \in IngressUrls(new)
      OBVIOUS
    <3>3. QED BY <1>0, <1>2, <2>1, <3>1, <3>2 DEF Moves, MovesIngress
  <2>4. CASE Succeeds("ingress", new, o) /\ ~w.cr.spec.prefer /\ Proceed(w)
    <3>1. Continues(w.next.url, w.hash, w.plugins)
      BY <2>4, SameUrl, ProceedSteps
    <3>2. QED BY <1>0, <1>2, <2>1, <2>4, <3>1 DEF Moves, MovesIngress
  <2>5. CASE /\ Succeeds("ingress", new, o) /\ w.cr.spec.prefer /\ url # Absent
             /\ Proceed([w EXCEPT !.next.url = url])
    <3>1. [w EXCEPT !.next.url = url]
            = [pc |-> w.pc, cr |-> w.cr, next |-> [w.next EXCEPT !.url = url],
               hash |-> w.hash, plugins |-> w.plugins]
      BY NewUrl
    <3>2. Continues(url, w.hash, w.plugins)
      BY <2>5, <3>1, ProceedSteps
    <3>3. QED BY <1>0, <1>2, <2>1, <2>2, <2>5, <3>2 DEF Moves, MovesIngress
  <2>6. QED BY <2>1, <2>3, <2>4, <2>5
<1>3. QED BY <1>1, <1>2

\* What the config and the plugins stages hand on
LEMMA NewHash ==
  ASSUME WorkerTypes, NEW hash
  PROVE  [w EXCEPT !.hash = hash]
           = [pc |-> w.pc, cr |-> w.cr, next |-> [w.next EXCEPT !.url = w.next.url],
              hash |-> hash, plugins |-> w.plugins]
<1> DEFINE status == [w.next EXCEPT !.url = w.next.url]
<1>1. status = w.next
  BY StatusFields DEF WorkerTypes
<1> HIDE DEF status
<1>2. w = [pc |-> w.pc, cr |-> w.cr, next |-> status, hash |-> w.hash, plugins |-> w.plugins]
  BY <1>1 DEF WorkerTypes
<1>3. [w EXCEPT !.hash = hash] = [pc |-> w.pc, cr |-> w.cr, next |-> status, hash |-> hash, plugins |-> w.plugins]
  BY <1>2
<1>4. QED BY <1>3 DEF status

LEMMA NewPlugins ==
  ASSUME WorkerTypes, NEW list
  PROVE  [w EXCEPT !.plugins = list]
           = [pc |-> w.pc, cr |-> w.cr, next |-> [w.next EXCEPT !.url = w.next.url],
              hash |-> w.hash, plugins |-> list]
<1> DEFINE status == [w.next EXCEPT !.url = w.next.url]
<1>1. status = w.next
  BY StatusFields DEF WorkerTypes
<1> HIDE DEF status
<1>2. w = [pc |-> w.pc, cr |-> w.cr, next |-> status, hash |-> w.hash, plugins |-> w.plugins]
  BY <1>1 DEF WorkerTypes
<1>3. [w EXCEPT !.plugins = list] = [pc |-> w.pc, cr |-> w.cr, next |-> status, hash |-> w.hash, plugins |-> list]
  BY <1>2
<1>4. QED BY <1>3 DEF status

MovesPlugins(o) ==
    \E v, plugins : Moves("plugins", "plugins", v, o, w.next.url, w.hash, plugins)

LEMMA PluginsMoves ==
  ASSUME WorkerTypes, NEW o, PluginsStage(o)
  PROVE  MovesPlugins(o)
<1>0. w.next.stage = "plugins"
  BY DEF PluginsStage, Running
<1>1. CASE ocache["plugins"] = Absent
  <2>1. Stage("plugins", << >>, o, [w EXCEPT !.plugins = <<>>])
    BY <1>1 DEF PluginsStage
  <2>2. Moves(w.next.stage, "plugins", << >>, o, w.next.url, w.hash, <<>>)
    BY <2>1, NewPlugins, StageMoves
  <2>3. QED BY <1>0, <2>2 DEF MovesPlugins
<1>2. CASE ocache["plugins"] # Absent
  <2>1. PICK list \in Consolidations(ocache["plugins"].v) :
          IF list = NoList THEN Stop("failed", TRUE)
          ELSE Proceed([w EXCEPT !.plugins = list])
    BY <1>2 DEF PluginsStage
  <2>2. Unmoved /\ UNCHANGED objVars
    BY <1>2 DEF PluginsStage, Unmoved
  <2>3. CASE list = NoList
    <3>1. Stops("failed")
      BY <2>1, <2>3, StopSteps
    <3>2. QED BY <1>0, <2>2, <3>1 DEF Moves, MovesPlugins
  <2>4. CASE list # NoList
    <3>1. Continues(w.next.url, w.hash, list)
      BY <2>1, <2>4, NewPlugins, ProceedSteps
    <3>2. QED BY <1>0, <2>2, <3>1 DEF Moves, MovesPlugins
  <2>5. QED BY <2>3, <2>4
<1>3. QED BY <1>1, <1>2

MovesSecret(o) ==
    \E password \in AdminPassword(w.cr.spec, ocache["secret"]) :
        Moves("admin user", "secret", password, o, w.next.url, w.hash, w.plugins)

MovesConfig(o) ==
    Moves("config", "config", w.cr.spec.config, o, w.next.url, w.cr.spec.config, w.plugins)

MovesSimple(o) ==
    \/ Moves("pvc", "pvc", "set", o, w.next.url, w.hash, w.plugins)
    \/ Moves("service account", "account", "set", o, w.next.url, w.hash, w.plugins)
    \/ Moves("service", "service", "set", o, ServiceUrl, w.hash, w.plugins)

MovesDeployment(o) ==
    Moves("deployment", "deployment", Template, o, w.next.url, w.hash, w.plugins)

LEMMA PassSteps ==
  ASSUME WorkerTypes, NEW o, ReconcileStep(o)
  PROVE  \/ UpdateStatus(o)
         \/ /\ up /\ w.pc = "run"
            /\ \/ MovesSecret(o) \/ MovesConfig(o) \/ MovesSimple(o) \/ MovesIngress(o)
               \/ MovesPlugins(o) \/ MovesDeployment(o)
<1> USE DEF Running
<1>1. CASE AdminSecret(o)
  <2>1. PICK password \in AdminPassword(w.cr.spec, ocache["secret"]) :
          Stage("secret", password, o, w)
    BY <1>1 DEF AdminSecret
  <2>2. Moves(w.next.stage, "secret", password, o, w.next.url, w.hash, w.plugins)
    BY <2>1, SameUrl, StageMoves
  <2>3. QED BY <1>1, <2>1, <2>2 DEF AdminSecret, MovesSecret
<1>2. CASE Config(o)
  <2>1. Stage("config", w.cr.spec.config, o, [w EXCEPT !.hash = w.cr.spec.config])
    BY <1>2 DEF Config
  <2>2. Moves(w.next.stage, "config", w.cr.spec.config, o, w.next.url, w.cr.spec.config, w.plugins)
    BY <2>1, NewHash, StageMoves
  <2>3. QED BY <1>2, <2>2 DEF Config, MovesConfig
<1>3. CASE Pvc(o)
  <2>1. Moves(w.next.stage, "pvc", "set", o, w.next.url, w.hash, w.plugins)
    BY <1>3, SameUrl, StageMoves DEF Pvc
  <2>2. QED BY <1>3, <2>1 DEF Pvc, MovesSimple
<1>4. CASE ServiceAccount(o)
  <2>1. Moves(w.next.stage, "account", "set", o, w.next.url, w.hash, w.plugins)
    BY <1>4, SameUrl, StageMoves DEF ServiceAccount
  <2>2. QED BY <1>4, <2>1 DEF ServiceAccount, MovesSimple
<1>5. CASE Service(o)
  <2> DEFINE x == IF w.cr.spec.prefer THEN w ELSE [w EXCEPT !.next.url = "service"]
  <2>1. x = [pc |-> w.pc, cr |-> w.cr, next |-> [w.next EXCEPT !.url = ServiceUrl],
             hash |-> w.hash, plugins |-> w.plugins]
    <3>1. CASE w.cr.spec.prefer
      BY <3>1, SameUrl DEF ServiceUrl
    <3>2. CASE ~w.cr.spec.prefer
      BY <3>2, NewUrl DEF ServiceUrl
    <3>3. QED BY <3>1, <3>2
  <2>2. Stage("service", "set", o, x)
    BY <1>5 DEF Service
  <2> HIDE DEF x
  <2>3. Moves(w.next.stage, "service", "set", o, ServiceUrl, w.hash, w.plugins)
    BY <2>1, <2>2, StageMoves
  <2>4. QED BY <1>5, <2>3 DEF Service, MovesSimple
<1>6. CASE Ingress(o)
  BY <1>6, IngressMoves DEF Ingress
<1>7. CASE PluginsStage(o)
  BY <1>7, PluginsMoves DEF PluginsStage
<1>8. CASE Deployment(o)
  <2>1. Moves(w.next.stage, "deployment", Template, o, w.next.url, w.hash, w.plugins)
    BY <1>8, SameUrl, StageMoves DEF Deployment
  <2>2. QED BY <1>8, <2>1 DEF Deployment, MovesDeployment
<1>9. CASE UpdateStatus(o)
  BY <1>9
<1>10. QED BY <1>1, <1>2, <1>3, <1>4, <1>5, <1>6, <1>7, <1>8, <1>9 DEF ReconcileStep

-----------------------------------------------------------------------------
(* Steps of each actor, by what they do *)

Stages == {"admin user", "config", "pvc", "service account", "service", "ingress",
           "plugins", "deployment"}

Urls == {Absent, "service", "host", "address"} \cup {spec.external : spec \in Specs}

LEMMA AnyMoves ==
  ASSUME WorkerTypes, NEW o, ReconcileStep(o)
  PROVE  \/ UpdateStatus(o)
         \/ /\ up /\ w.pc = "run"
            /\ \E stage \in Stages, k \in Kinds, url \in Urls : \E v, hash, plugins :
                 Moves(stage, k, v, o, url, hash, plugins)
<1>1. w.next.url \in Urls
  BY DEF WorkerTypes, Status, Urls
<1>2. ServiceUrl \in Urls /\ \A v : IngressUrls(v) \subseteq Urls
  BY <1>1 DEF ServiceUrl, IngressUrls, Urls
<1> DEFINE Some == \E stage \in Stages, k \in Kinds, url \in Urls : \E v, hash, plugins :
                     Moves(stage, k, v, o, url, hash, plugins)
<1>a. ASSUME NEW stage \in Stages, NEW k \in Kinds, NEW v, NEW url \in Urls, NEW hash, NEW plugins,
             Moves(stage, k, v, o, url, hash, plugins)
      PROVE  Some
  <2> WITNESS stage \in Stages, k \in Kinds, url \in Urls
  <2> WITNESS v, hash, plugins
  <2> QED BY <1>a
<1>b. /\ "admin user" \in Stages /\ "config" \in Stages /\ "pvc" \in Stages
      /\ "service account" \in Stages /\ "service" \in Stages /\ "ingress" \in Stages
      /\ "plugins" \in Stages /\ "deployment" \in Stages
      /\ "secret" \in Kinds /\ "config" \in Kinds /\ "pvc" \in Kinds /\ "account" \in Kinds
      /\ "service" \in Kinds /\ "ingress" \in Kinds /\ "plugins" \in Kinds /\ "deployment" \in Kinds
  BY DEF Stages, Kinds
<1> HIDE DEF Some
<1>3. MovesSecret(o) => Some
  BY <1>a, <1>b, <1>1 DEF MovesSecret
<1>4. MovesConfig(o) => Some
  BY <1>a, <1>b, <1>1 DEF MovesConfig
<1>5. MovesSimple(o) => Some
  BY <1>a, <1>b, <1>1, <1>2 DEF MovesSimple
<1>6. MovesIngress(o) => Some
  BY <1>a, <1>b, <1>2 DEF MovesIngress
<1>7. MovesPlugins(o) => Some
  BY <1>a, <1>b, <1>1 DEF MovesPlugins
<1>8. MovesDeployment(o) => Some
  BY <1>a, <1>b, <1>1 DEF MovesDeployment
<1>9. QED BY PassSteps, <1>3, <1>4, <1>5, <1>6, <1>7, <1>8 DEF Some

\* Whoever else writes the Grafana keeps its status, or begins a new one.
EditsGrafana == CreateGrafana \/ EditGrafana \/ DeleteGrafana \/ \E c \in Content : RecordContent(c)

Successor(new) ==
    /\ new \in Resource /\ (Live(new) => new.uid > 0)
    /\ \/ new.uid = gr.uid /\ (Live(new) => Live(gr))
       \/ ~Live(gr) /\ new.uid = gr.uid + 1
    /\ Ready(new.status) => new.uid = gr.uid /\ Ready(gr.status) /\ new.status.url = gr.status.url

LEMMA EditSteps ==
  ASSUME GrafanaTypes, EditsGrafana
  PROVE  /\ UNCHANGED <<objVars, queued, up, w>>
         /\ \E new : WriteGrafana(new) /\ Successor(new)
<1> USE DEF Successor
<1>0. gr \in Resource /\ gr.uid \in 0..MaxUid /\ (Live(gr) => gr.uid > 0)
  BY UidType DEF GrafanaTypes
<1>1. CASE CreateGrafana
  <2>1. PICK spec \in Specs : WriteGrafana([Gone(gr.uid + 1) EXCEPT !.spec = spec])
    BY <1>1 DEF CreateGrafana
  <2> DEFINE new == [Gone(gr.uid + 1) EXCEPT !.spec = spec]
  <2>2. new = [uid |-> gr.uid + 1, spec |-> spec, status |-> NoStatus]
    BY DEF Gone
  <2>3. gr.uid + 1 \in 0..MaxUid /\ gr.uid + 1 > 0
    BY <1>0, <1>1 DEF CreateGrafana
  <2>4. new \in Resource /\ new.uid = gr.uid + 1 /\ ~Ready(new.status)
    BY <2>2, <2>3, NoStatusType DEF Resource
  <2>5. QED BY <1>1, <2>1, <2>3, <2>4 DEF CreateGrafana
<1>2. CASE EditGrafana
  <2>1. PICK step \in SpecSteps : gr.spec = step[1] /\ WriteGrafana([gr EXCEPT !.spec = step[2]])
    BY <1>2 DEF EditGrafana
  <2>2. step[1] \in Specs /\ step[2] \in Specs
    OBVIOUS
  <2> DEFINE new == [gr EXCEPT !.spec = step[2]]
  <2>3. new \in Resource /\ new.uid = gr.uid /\ new.status = gr.status /\ Live(gr)
    BY <1>0, <2>1, <2>2 DEF Resource, Live
  <2>4. QED BY <1>0, <1>2, <2>1, <2>3 DEF EditGrafana
<1>3. CASE DeleteGrafana
  <2>1. ~Ready(Gone(gr.uid).status) /\ Gone(gr.uid).uid = gr.uid
    BY NoStatusType DEF Gone
  <2>2. QED BY <1>0, <1>3, <2>1, GoneType DEF DeleteGrafana
<1>4. CASE \E c \in Content : RecordContent(c)
  <2>1. PICK c \in Content : RecordContent(c)
    BY <1>4
  <2> DEFINE list == IF c \in gr.status.list THEN gr.status.list \ {c} ELSE gr.status.list \cup {c}
             status == [gr.status EXCEPT !.list = list]
             new == [gr EXCEPT !.status = status]
  <2>2. WriteGrafana(new)
    BY <2>1 DEF RecordContent
  <2>3. gr.status \in Status
    BY <1>0 DEF Resource
  <2>4. list \in SUBSET Content
    BY <2>3 DEF Status
  <2> HIDE DEF list
  <2>5. /\ status \in Status /\ status.url = gr.status.url
        /\ status.stage = gr.status.stage /\ status.result = gr.status.result
    BY <2>3, <2>4 DEF Status
  <2> HIDE DEF status
  <2>6. new \in Resource /\ new.uid = gr.uid /\ new.status = status /\ new.spec = gr.spec
    BY <1>0, <2>5 DEF Resource
  <2>7. QED BY <1>0, <2>1, <2>2, <2>5, <2>6 DEF RecordContent, Live, Ready
<1>5. QED BY <1>1, <1>2, <1>3, <1>4 DEF EditsGrafana

\* Whoever else writes an object changes its content.
EditsObject == AskPlugins \/ \E lb \in {"empty", "address"} : LoadBalancer(lb)

LEMMA ObjectEditSteps ==
  ASSUME ObjectTypes, EditsObject
  PROVE  /\ UNCHANGED <<clusterVars, queued, up, w>>
         /\ \E k \in {"plugins", "ingress"} : \E v :
              /\ obj[k] # Absent /\ Write(k, [owner |-> obj[k].owner, v |-> v])
              /\ k = "ingress" => ~OpenShift
<1>0. ASSUME NEW k \in Kinds, obj[k] # Absent, NEW v
      PROVE  [obj[k] EXCEPT !.v = v] = [owner |-> obj[k].owner, v |-> v]
  BY <1>0 DEF ObjectTypes, Owned
<1>1. CASE AskPlugins
  <2>1. PICK data \in Requests : Write("plugins", [obj["plugins"] EXCEPT !.v = data])
    BY <1>1 DEF AskPlugins
  <2>2. obj["plugins"] # Absent /\ "plugins" \in Kinds
    BY <1>1 DEF AskPlugins, Kinds
  <2>3. Write("plugins", [owner |-> obj["plugins"].owner, v |-> data])
    BY <1>0, <2>1, <2>2
  <2>4. QED BY <1>1, <2>2, <2>3 DEF AskPlugins
<1>2. CASE \E lb \in {"empty", "address"} : LoadBalancer(lb)
  <2>1. PICK lb : LoadBalancer(lb)
    BY <1>2
  <2>2. obj["ingress"] # Absent /\ ~OpenShift /\ "ingress" \in Kinds
    BY <2>1 DEF LoadBalancer, Kinds
  <2>3. Write("ingress", [owner |-> obj["ingress"].owner, v |-> lb])
    BY <1>0, <2>1, <2>2 DEF LoadBalancer
  <2>4. QED BY <2>1, <2>2, <2>3 DEF LoadBalancer
<1>3. QED BY <1>1, <1>2 DEF EditsObject

\* A step of the controller, or of what AdminAccess puts beside it
AnyStep == [Next]_vars \/ [AccessNext]_varsAccess

\* All there is, in the order the proofs take it
LEMMA AllSteps ==
  ASSUME AnyStep
  PROVE  \/ Dequeue \/ (\E o \in Outcomes : ReconcileStep(o)) \/ Crash \/ Start
         \/ EditsGrafana \/ EditsObject \/ SyncGrafanaCache \/ Relist
         \/ (\E k \in Kinds : Touch(k) \/ SyncObjectCache(k))
         \/ (\E ks \in Collections : CollectGarbage(ks))
         \/ UNCHANGED vars
BY DEF AnyStep, AccessNext, Surroundings, StartPod, LosePod, varsAccess, Next, Controller, Others,
       Kubernetes, EditsGrafana, EditsObject

-----------------------------------------------------------------------------
(* Types are preserved *)

LEMMA AfterType ==
  ASSUME NEW stage \in Stages, NEW spec
  PROVE  After(stage, spec) \in (Stages \cup {"complete"}) \ {"admin user"}
BY DEF Stages, After

LEMMA StatusType ==
  ASSUME NEW stage \in Stages \cup {"complete"}, NEW message \in BOOLEAN, NEW url \in Urls,
         NEW result \in {"success", "failed", "in progress"}, NEW list \in SUBSET Content
  PROVE  [stage |-> stage, result |-> result, message |-> message, url |-> url, list |-> list] \in Status
BY DEF Status, Stages, Urls

LEMMA SameObjectTypes ==
  ASSUME GrafanaTypes, GrafanaTypes', ObjectTypes, gr.uid <= gr'.uid, UNCHANGED objVars
  PROVE  ObjectTypes'
<1>1. gr.uid \in Nat /\ gr'.uid \in Nat
  BY UidType DEF GrafanaTypes
<1>2. ASSUME NEW o, Owned(o) PROVE o # Absent => o = [owner |-> o.owner, v |-> o.v] /\ o.owner \in 1..gr'.uid
  BY <1>1, <1>2 DEF Owned
<1>3. obj' = obj /\ ocache' = ocache /\ ostale' = ostale
  BY DEF objVars
<1>4. QED BY <1>2, <1>3 DEF ObjectTypes, Owned

LEMMA SameWorkerTypes ==
  ASSUME GrafanaTypes, GrafanaTypes', WorkerTypes, gr.uid <= gr'.uid, UNCHANGED w
  PROVE  WorkerTypes'
<1>1. gr.uid \in Nat /\ gr'.uid \in Nat /\ w.cr.uid \in Nat
  BY UidType DEF GrafanaTypes, WorkerTypes
<1>2. w.cr.uid <= gr'.uid
  <2>1. w.cr.uid <= gr.uid
    BY DEF WorkerTypes
  <2>2. QED BY <1>1, <2>1
<1>3. QED BY <1>2 DEF WorkerTypes

LEMMA MovesTS ==
  ASSUME TS, PassOK, w.pc = "run", NEW o, NEW stage \in Stages, NEW k \in Kinds, NEW v,
         NEW url \in Urls, NEW hash, NEW plugins, Moves(stage, k, v, o, url, hash, plugins)
  PROVE  TS'
<1>1. GrafanaTypes' /\ QueueTypes' /\ UNCHANGED gr
  BY DEF TS, GrafanaTypes, QueueTypes, Moves, Unmoved, clusterVars
<1>2. ObjectTypes'
  <2>1. CASE UNCHANGED objVars
    <3>1. gr.uid <= gr'.uid
      BY <1>1, UidType DEF TS, GrafanaTypes
    <3>2. QED BY <1>1, <2>1, <3>1, SameObjectTypes DEF TS
  <2>2. CASE Write(k, Asked(k, v))
    <3>1. Owned(Asked(k, v))
      BY AskedType DEF TS, PassOK
    <3>2. QED BY <1>1, <2>2, <3>1, WriteTypes DEF TS
  <2>3. QED BY <2>1, <2>2 DEF Moves, CreateOrUpdate
<1>3. WorkerTypes'
  <2>1. w.cr \in Resource /\ w.cr.uid <= gr'.uid /\ (Live(w.cr) => w.cr.uid > 0)
    BY <1>1 DEF TS, WorkerTypes
  <2>2. w.next.list \in SUBSET Content /\ w.next.url \in Urls
    BY DEF TS, WorkerTypes, Status, Urls
  <2>3. w.next.stage = stage
    BY DEF Moves
  <2>4. CASE Continues(url, hash, plugins)
    <3> DEFINE after == After(w.next.stage, w.cr.spec)
               pc == IF after = "complete" THEN "status" ELSE "run"
               next == [stage |-> after, result |-> "success", message |-> FALSE,
                        url |-> url, list |-> w.next.list]
    <3>1. after \in (Stages \cup {"complete"}) \ {"admin user"}
      BY <2>3, AfterType
    <3>2. next \in Status /\ next.message = FALSE
      BY <2>2, <3>1, StatusType
    <3>3. w' = [pc |-> pc, cr |-> w.cr, next |-> next, hash |-> hash, plugins |-> plugins]
      BY <2>4 DEF Continues
    <3>4. pc \in {"idle", "run", "status"}
      OBVIOUS
    <3> HIDE DEF after, pc, next
    <3>5. QED BY <2>1, <3>2, <3>3, <3>4 DEF WorkerTypes
  <2>5. ASSUME NEW result \in {"failed", "in progress"}, Stops(result)
        PROVE  WorkerTypes'
    <3> DEFINE next == [stage |-> w.next.stage, result |-> result, message |-> TRUE,
                        url |-> w.next.url, list |-> w.next.list]
    <3>1. next \in Status
      BY <2>2, <2>3, StatusType
    <3>2. w' = [pc |-> "status", cr |-> w.cr, next |-> next, hash |-> w.hash, plugins |-> w.plugins]
      BY <2>5 DEF Stops
    <3> HIDE DEF next
    <3>3. QED BY <2>1, <3>1, <3>2 DEF WorkerTypes
  <2>6. QED BY <2>4, <2>5 DEF Moves
<1>4. QED BY <1>1, <1>2, <1>3 DEF TS

LEMMA WriteGrafanaTypes ==
  ASSUME TS, NEW new \in Resource, gr.uid <= new.uid, Live(new) => new.uid > 0,
         WriteGrafana(new), UNCHANGED objVars
  PROVE  GrafanaTypes' /\ ObjectTypes' /\ (UNCHANGED w => WorkerTypes')
<1>1. gr.uid \in Nat /\ new.uid \in Nat /\ grcache.uid \in Nat
  BY UidType DEF TS, GrafanaTypes
<1>2. GrafanaTypes'
  <2>1. gr' = new /\ grcache' = grcache /\ grstale' \subseteq {"cache", "worker"}
    BY DEF WriteGrafana, TS, GrafanaTypes
  <2>2. grcache.uid <= new.uid
    BY <1>1 DEF TS, GrafanaTypes
  <2>3. QED BY <1>1, <2>1, <2>2 DEF TS, GrafanaTypes
<1>3. gr.uid <= gr'.uid
  BY DEF WriteGrafana
<1>4. QED BY <1>2, <1>3, SameObjectTypes, SameWorkerTypes DEF TS

\* A write of the status
LEMMA StatusWrite ==
  ASSUME TS, NEW status \in Status
  PROVE  LET new == [gr EXCEPT !.status = status]
         IN  /\ new \in Resource /\ new.uid = gr.uid /\ new.spec = gr.spec /\ new.status = status
             /\ gr.uid <= new.uid /\ (Live(new) => new.uid > 0)
<1>1. gr.uid \in Nat
  BY UidType DEF TS, GrafanaTypes
<1>2. QED BY <1>1 DEF TS, GrafanaTypes, Resource, Live

LEMMA UpdateStatusTS ==
  ASSUME TS, NEW o, UpdateStatus(o)
  PROVE  TS'
<1> DEFINE new == [gr EXCEPT !.status = w.next]
<1>1. UNCHANGED objVars /\ w' = Worker0 /\ QueueTypes'
  BY DEF UpdateStatus, TS, QueueTypes
<1>2. GrafanaTypes' /\ ObjectTypes'
  <2>1. CASE WriteGrafana(new)
    <3>1. new \in Resource /\ gr.uid <= new.uid /\ (Live(new) => new.uid > 0)
      BY StatusWrite DEF TS, WorkerTypes
    <3> HIDE DEF new
    <3>2. QED BY <1>1, <2>1, <3>1, WriteGrafanaTypes
  <2>2. CASE UNCHANGED clusterVars
    <3>1. GrafanaTypes' /\ gr.uid <= gr'.uid
      BY <2>2, UidType DEF TS, GrafanaTypes, clusterVars
    <3>2. QED BY <1>1, <3>1, SameObjectTypes DEF TS
  <2>3. QED BY <2>1, <2>2 DEF UpdateStatus
<1>3. WorkerTypes'
  <2>1. (gr \in Resource)'
    BY <1>2 DEF GrafanaTypes
  <2>2. QED BY <1>1, <2>1, IdleTypeAfter
<1>4. QED BY <1>1, <1>2, <1>3 DEF TS

LEMMA EditsTS == TS /\ EditsGrafana => TS'
<1> SUFFICES ASSUME TS, EditsGrafana PROVE TS'
  OBVIOUS
<1>1. UNCHANGED <<objVars, queued, up, w>>
  BY EditSteps DEF TS
<1>2. PICK new : WriteGrafana(new) /\ Successor(new)
  BY EditSteps DEF TS
<1>3. new \in Resource /\ (Live(new) => new.uid > 0) /\ gr.uid <= new.uid
  BY <1>2, UidType DEF Successor, TS, GrafanaTypes
<1>4. QED BY <1>1, <1>2, <1>3, WriteGrafanaTypes DEF TS, QueueTypes

LEMMA ObjectEditsTS == TS /\ EditsObject => TS'
<1> SUFFICES ASSUME TS, EditsObject PROVE TS'
  OBVIOUS
<1>1. UNCHANGED <<clusterVars, queued, up, w>>
  BY ObjectEditSteps DEF TS
<1>a. PICK k \in {"plugins", "ingress"} :
        \E v : obj[k] # Absent /\ Write(k, [owner |-> obj[k].owner, v |-> v])
  BY ObjectEditSteps DEF TS
<1>2. PICK v : obj[k] # Absent /\ Write(k, [owner |-> obj[k].owner, v |-> v])
  BY <1>a
<1>3. k \in Kinds
  BY DEF Kinds
<1>4. Owned([owner |-> obj[k].owner, v |-> v])
  BY <1>2, <1>3 DEF TS, ObjectTypes, Owned
<1>5. ObjectTypes'
  BY <1>1, <1>2, <1>3, <1>4, WriteTypes DEF TS, clusterVars
<1>6. QED BY <1>1, <1>5 DEF TS, GrafanaTypes, WorkerTypes, QueueTypes, clusterVars

LEMMA BeginTypes ==
  ASSUME TS, Dequeue
  PROVE  WorkerTypes' /\ PassOK'
<1> DEFINE g == grcache
           status == g.status
<1>1. g \in Resource /\ g.uid <= gr.uid /\ (Live(g) => g.uid > 0) /\ gr' = gr
  BY DEF TS, GrafanaTypes, Dequeue
<1>2. status \in Status
  BY <1>1 DEF Resource
<1>3. CASE ~Live(g)
  <2>1. w' = Worker0
    BY <1>3 DEF Dequeue, Begin
  <2>2. (gr \in Resource)'
    BY <1>1 DEF TS, GrafanaTypes
  <2>3. QED BY <2>1, <2>2, IdleTypeAfter DEF PassOK
<1>4. CASE Live(g) /\ g.spec.external # Absent
  <2>1. w' = [pc |-> "status", cr |-> g,
              next |-> [status EXCEPT !.stage = "complete", !.result = "success", !.url = g.spec.external],
              hash |-> Absent, plugins |-> <<>>]
    BY <1>4 DEF Dequeue, Begin, Worker0
  <2> DEFINE next == [status EXCEPT !.stage = "complete", !.result = "success", !.url = g.spec.external]
  <2>2. g.spec \in Specs
    BY <1>1, <1>4 DEF Resource, Live
  <2> HIDE DEF g
  <2>3. g.spec.external \in Urls
    BY <2>2 DEF Urls
  <2>4. next \in Status /\ next.list = status.list
    BY <1>2, <2>3 DEF Status, Urls
  <2> HIDE DEF next
  <2>5. w' = [pc |-> "status", cr |-> g, next |-> next, hash |-> Absent, plugins |-> <<>>]
    BY <2>1 DEF next
  <2>6. QED BY <1>1, <1>4, <2>4, <2>5 DEF WorkerTypes, PassOK
<1>5. CASE Live(g) /\ g.spec.external = Absent
  <2>1. w' = [pc |-> "run", cr |-> g, next |-> [status EXCEPT !.stage = "admin user"],
              hash |-> Absent, plugins |-> <<>>]
    BY <1>5 DEF Dequeue, Begin, Worker0
  <2> DEFINE next == [status EXCEPT !.stage = "admin user"]
  <2>2. next \in Status /\ next.list = status.list /\ next.stage = "admin user"
    BY <1>2 DEF Status
  <2> HIDE DEF next
  <2>3. w' = [pc |-> "run", cr |-> g, next |-> next, hash |-> Absent, plugins |-> <<>>]
    BY <2>1 DEF next
  <2>4. QED BY <1>1, <1>5, <2>2, <2>3 DEF WorkerTypes, PassOK
<1>6. QED BY <1>3, <1>4, <1>5

LEMMA GarbageTypes ==
  ASSUME ObjectTypes, NEW ks \in Collections, CollectGarbage(ks)
  PROVE  /\ ObjectTypes' /\ UNCHANGED <<clusterVars, queued, up, w>>
         /\ \A k \in Kinds :
              /\ obj'[k] = obj[k] \/ (obj'[k] = Absent /\ (~Live(gr) \/ gr.uid # obj[k].owner))
              /\ ocache'[k] = ocache[k] \/ ocache'[k] = Absent
              /\ \/ obj'[k] = obj[k] /\ ocache'[k] = ocache[k]
                 \/ k \in ostale'
                 \/ obj'[k] = Absent /\ ocache'[k] = Absent
         /\ ostale \subseteq ostale'
<1> DEFINE garbage == {k \in ks : obj[k] # Absent /\ (~Live(gr) \/ gr.uid # obj[k].owner)}
<1>1. /\ obj' = [k \in Kinds |-> IF k \in garbage THEN Absent ELSE obj[k]]
      /\ ocache' = [k \in Kinds |-> IF k \in garbage \ Lagging THEN Absent ELSE ocache[k]]
      /\ ostale' = ostale \cup (garbage \cap Lagging)
      /\ UNCHANGED <<clusterVars, queued, up, w>>
  BY DEF CollectGarbage
<1>2. garbage \cap Lagging \subseteq Kinds
  BY DEF Collections
<1>3. UNCHANGED gr
  BY <1>1 DEF clusterVars
<1>4. \A k \in garbage : ~Live(gr) \/ gr.uid # obj[k].owner
  OBVIOUS
<1> HIDE DEF garbage
<1>5. ObjectTypes'
  <2>1. \A k \in Kinds : Owned(obj[k]) /\ Owned(ocache[k])
    BY DEF ObjectTypes
  <2>2. \A k \in Kinds : obj'[k] \in {obj[k], Absent} /\ ocache'[k] \in {ocache[k], Absent}
    BY <1>1
  <2>3. \A k \in Kinds : Owned(obj[k])' /\ Owned(ocache[k])'
    BY <1>3, <2>1, <2>2 DEF Owned
  <2>4. obj' = [k \in Kinds |-> obj'[k]] /\ ocache' = [k \in Kinds |-> ocache'[k]]
    BY <1>1
  <2>5. QED BY <1>1, <1>2, <2>3, <2>4 DEF ObjectTypes
<1>6. QED BY <1>1, <1>4, <1>5

LEMMA InformersTS ==
  ASSUME TS, \/ SyncGrafanaCache \/ Relist \/ Crash \/ Start
             \/ \E k \in Kinds : Touch(k) \/ SyncObjectCache(k)
  PROVE  TS'
<1> USE DEF clusterVars, objVars
<1>0. gr.uid <= gr.uid /\ (Live(gr) => gr.uid > 0)
  BY UidType DEF TS, GrafanaTypes
<1>1. CASE SyncGrafanaCache \/ Relist
  <2>1. GrafanaTypes' /\ QueueTypes'
    BY <1>0, <1>1 DEF SyncGrafanaCache, Relist, TS, GrafanaTypes, QueueTypes, Live
  <2>2. ObjectTypes'
    BY <1>1 DEF SyncGrafanaCache, Relist, TS, ObjectTypes, Owned
  <2>3. WorkerTypes'
    BY <1>1 DEF SyncGrafanaCache, Relist, TS, WorkerTypes
  <2>4. QED BY <2>1, <2>2, <2>3 DEF TS
<1>2. CASE Crash
  <2>1. GrafanaTypes' /\ QueueTypes'
    BY <1>2 DEF Crash, TS, GrafanaTypes, QueueTypes
  <2>2. ObjectTypes'
    BY <1>2 DEF Crash, TS, ObjectTypes, Owned
  <2>3. WorkerTypes'
    BY <1>2, <2>1, IdleTypeAfter DEF Crash, GrafanaTypes
  <2>4. QED BY <2>1, <2>2, <2>3 DEF TS
<1>3. CASE Start
  <2>1. GrafanaTypes' /\ QueueTypes'
    BY <1>0, <1>3 DEF Start, TS, GrafanaTypes, QueueTypes, Live
  <2>2. ObjectTypes'
    BY <1>3 DEF Start, TS, ObjectTypes, Owned
  <2>3. WorkerTypes'
    BY <1>3 DEF Start, TS, WorkerTypes
  <2>4. QED BY <2>1, <2>2, <2>3 DEF TS
<1>4. ASSUME NEW k \in Kinds, Touch(k) \/ SyncObjectCache(k) PROVE TS'
  <2>1. GrafanaTypes' /\ QueueTypes' /\ WorkerTypes'
    BY <1>4 DEF Touch, SyncObjectCache, TS, GrafanaTypes, QueueTypes, WorkerTypes
  <2>2. ObjectTypes'
    BY <1>4 DEF Touch, SyncObjectCache, TS, ObjectTypes, Owned
  <2>3. QED BY <2>1, <2>2 DEF TS
<1>5. QED BY <1>1, <1>2, <1>3, <1>4

\* The pass stays one for a live Grafana, and carries its lists, until it is over.
LEMMA MovesPass ==
  ASSUME NEW o, NEW stage, NEW k, NEW v, NEW url, NEW hash, NEW plugins,
         Moves(stage, k, v, o, url, hash, plugins)
  PROVE  w'.cr = w.cr /\ w'.next.list = w.next.list /\ w'.pc \in {"run", "status"}
<1>1. CASE Continues(url, hash, plugins)
  <2> DEFINE after == After(w.next.stage, w.cr.spec)
             pc == IF after = "complete" THEN "status" ELSE "run"
  <2>1. w' = [pc |-> pc, cr |-> w.cr,
              next |-> [stage |-> after, result |-> "success", message |-> FALSE,
                        url |-> url, list |-> w.next.list],
              hash |-> hash, plugins |-> plugins]
    BY <1>1 DEF Continues
  <2>2. pc \in {"run", "status"}
    OBVIOUS
  <2> HIDE DEF after, pc
  <2>3. QED BY <2>1, <2>2
<1>2. ASSUME NEW result, Stops(result)
      PROVE  w'.cr = w.cr /\ w'.next.list = w.next.list /\ w'.pc = "status"
  BY <1>2 DEF Stops
<1>3. QED BY <1>1, <1>2 DEF Moves

LEMMA StepTS ==
  ASSUME TS, PassOK, AnyStep
  PROVE  TS' /\ PassOK'
<1>1. CASE UNCHANGED vars
  BY <1>1 DEF vars, clusterVars, objVars, TS, GrafanaTypes, ObjectTypes, Owned, WorkerTypes,
     QueueTypes, PassOK
<1>2. CASE Dequeue
  <2>1. WorkerTypes' /\ PassOK'
    BY <1>2, BeginTypes
  <2>2. GrafanaTypes' /\ ObjectTypes' /\ QueueTypes'
    BY <1>2 DEF Dequeue, objVars, TS, GrafanaTypes, ObjectTypes, Owned, QueueTypes
  <2>3. QED BY <2>1, <2>2 DEF TS
<1>3. ASSUME NEW o \in Outcomes, ReconcileStep(o)
      PROVE  TS' /\ PassOK'
  <2>1. CASE UpdateStatus(o)
    <3>1. w' = Worker0
      BY <2>1 DEF UpdateStatus
    <3>2. QED BY <2>1, <3>1, UpdateStatusTS DEF PassOK, Worker0
  <2>2. ASSUME w.pc = "run", NEW stage \in Stages, NEW k \in Kinds, NEW url \in Urls,
               NEW v, NEW hash, NEW plugins, Moves(stage, k, v, o, url, hash, plugins)
        PROVE  TS' /\ PassOK'
    BY <2>2, MovesTS, MovesPass DEF PassOK
  <2>3. QED BY <1>3, <2>1, <2>2, AnyMoves DEF TS
<1>4. CASE EditsGrafana
  <2>1. PassOK'
    BY <1>4, EditSteps DEF TS, PassOK
  <2>2. QED BY <1>4, <2>1, EditsTS
<1>5. CASE EditsObject
  <2>1. PassOK'
    BY <1>5, ObjectEditSteps DEF TS, PassOK
  <2>2. QED BY <1>5, <2>1, ObjectEditsTS
<1>6. CASE SyncGrafanaCache \/ Relist \/ Crash \/ Start \/ \E k \in Kinds : Touch(k) \/ SyncObjectCache(k)
  <2>1. UNCHANGED w \/ w' = Worker0
    BY <1>6 DEF SyncGrafanaCache, Relist, Crash, Start, Touch, SyncObjectCache
  <2>2. PassOK'
    BY <2>1 DEF PassOK, Worker0
  <2>3. QED BY <1>6, <2>2, InformersTS
<1>7. ASSUME NEW ks \in Collections, CollectGarbage(ks)
      PROVE  TS' /\ PassOK'
  <2>1. ObjectTypes' /\ UNCHANGED <<clusterVars, queued, up, w>>
    BY <1>7, GarbageTypes DEF TS
  <2>2. QED BY <2>1 DEF TS, GrafanaTypes, WorkerTypes, QueueTypes, clusterVars, PassOK
<1>8. QED BY <1>1, <1>2, <1>3, <1>4, <1>5, <1>6, <1>7, AllSteps

-----------------------------------------------------------------------------
(* Copies that nobody has overtaken *)

LEMMA MovesCopies ==
  ASSUME TS, CopiesOK, w.pc = "run", NEW o, NEW stage, NEW k \in Kinds, NEW v, NEW url, NEW hash,
         NEW plugins, Moves(stage, k, v, o, url, hash, plugins)
  PROVE  CopiesOK'
<1>1. w'.cr = w.cr /\ w.pc # "idle"
  BY MovesPass
<1>2. GrafanaCopiesOK'
  BY <1>1 DEF CopiesOK, Moves, Unmoved, clusterVars, GrafanaCopiesOK
<1>3. ObjectCopiesOK'
  <2>1. CASE UNCHANGED objVars
    BY <2>1 DEF CopiesOK, objVars, ObjectCopiesOK
  <2>2. CASE Write(k, Asked(k, v))
    BY <2>2, WriteCopies DEF CopiesOK, TS
  <2>3. QED BY <2>1, <2>2 DEF Moves, CreateOrUpdate
<1>4. QED BY <1>2, <1>3 DEF CopiesOK

LEMMA WriteGrafanaCopies ==
  ASSUME GrafanaCopiesOK, NEW new, WriteGrafana(new), UNCHANGED w \/ w'.pc = "idle"
  PROVE  GrafanaCopiesOK'
BY DEF WriteGrafana, GrafanaCopiesOK

LEMMA CopiesStep ==
  ASSUME TS, CopiesOK, AnyStep
  PROVE  CopiesOK'
<1>0. GrafanaCopiesOK /\ ObjectCopiesOK
  BY DEF CopiesOK
<1>1. CASE UNCHANGED vars
  BY <1>1 DEF vars, clusterVars, objVars, CopiesOK, GrafanaCopiesOK, ObjectCopiesOK
<1>2. CASE Dequeue
  <2>1. w'.pc = "idle" \/ w'.cr = grcache
    BY <1>2 DEF Dequeue, Begin, Worker0
  <2>2. GrafanaCopiesOK'
    BY <1>0, <1>2, <2>1 DEF Dequeue, GrafanaCopiesOK
  <2>3. ObjectCopiesOK'
    BY <1>0, <1>2 DEF Dequeue, objVars, ObjectCopiesOK
  <2>4. QED BY <2>2, <2>3 DEF CopiesOK
<1>3. ASSUME NEW o \in Outcomes, ReconcileStep(o)
      PROVE  CopiesOK'
  <2>1. CASE UpdateStatus(o)
    <3>1. w'.pc = "idle" /\ UNCHANGED objVars
      BY <2>1 DEF UpdateStatus, Worker0
    <3>2. CASE UNCHANGED clusterVars
      BY <1>0, <3>1, <3>2 DEF CopiesOK, clusterVars, objVars, GrafanaCopiesOK, ObjectCopiesOK
    <3>3. CASE WriteGrafana([gr EXCEPT !.status = w.next])
      <4>1. GrafanaCopiesOK'
        BY <1>0, <3>1, <3>3, WriteGrafanaCopies
      <4>2. QED BY <1>0, <3>1, <4>1 DEF CopiesOK, objVars, ObjectCopiesOK
    <3>4. QED BY <2>1, <3>2, <3>3 DEF UpdateStatus
  <2>2. QED BY <1>3, <2>1, AnyMoves, MovesCopies DEF TS
<1>4. CASE EditsGrafana
  <2>1. GrafanaCopiesOK'
    BY <1>0, <1>4, EditSteps, WriteGrafanaCopies DEF TS
  <2>2. QED BY <1>0, <1>4, <2>1, EditSteps DEF CopiesOK, TS, objVars, ObjectCopiesOK
<1>5. CASE EditsObject
  <2>1. ObjectCopiesOK'
    BY <1>0, <1>5, ObjectEditSteps, WriteCopies DEF TS, Kinds
  <2>2. QED BY <1>0, <1>5, <2>1, ObjectEditSteps DEF CopiesOK, TS, clusterVars, GrafanaCopiesOK
<1>6. CASE SyncGrafanaCache \/ Relist \/ Crash \/ Start
  <2>1. GrafanaCopiesOK'
    BY <1>0, <1>6 DEF SyncGrafanaCache, Relist, Crash, Start, clusterVars, GrafanaCopiesOK, Worker0
  <2>2. ObjectCopiesOK'
    BY <1>0, <1>6 DEF SyncGrafanaCache, Relist, Crash, Start, objVars, ObjectCopiesOK
  <2>3. QED BY <2>1, <2>2 DEF CopiesOK
<1>7. ASSUME NEW k \in Kinds, Touch(k) \/ SyncObjectCache(k)
      PROVE  CopiesOK'
  <2>1. GrafanaCopiesOK'
    BY <1>0, <1>7 DEF Touch, SyncObjectCache, clusterVars, GrafanaCopiesOK
  <2>2. ObjectCopiesOK'
    BY <1>0, <1>7 DEF Touch, SyncObjectCache, ObjectCopiesOK, TS, ObjectTypes
  <2>3. QED BY <2>1, <2>2 DEF CopiesOK
<1>8. ASSUME NEW ks \in Collections, CollectGarbage(ks)
      PROVE  CopiesOK'
  <2>1. GrafanaCopiesOK'
    BY <1>0, <1>8, GarbageTypes DEF TS, clusterVars, GrafanaCopiesOK
  <2>2. ObjectCopiesOK'
    BY <1>0, <1>8, GarbageTypes DEF TS, ObjectCopiesOK
  <2>3. QED BY <2>1, <2>2 DEF CopiesOK
<1>9. QED BY <1>1, <1>2, <1>3, <1>4, <1>5, <1>6, <1>7, <1>8, AllSteps

-----------------------------------------------------------------------------
(* What no stage does to the objects *)

Kept == {"secret", "config", "pvc", "account"}
Made == Kept \cup {"deployment"}
FirstAlive == Live(gr) /\ gr.uid = 1

LEMMA NothingYet ==
  ASSUME TS, PassOK, gr.uid = 0
  PROVE  w.pc = "idle" /\ \A k \in Kinds : obj[k] = Absent /\ ocache[k] = Absent
<1>1. ~Live(w.cr)
  <2>1. w.cr.uid \in Nat
    BY UidType DEF TS, WorkerTypes
  <2>2. w.cr.uid <= gr.uid /\ (Live(w.cr) => w.cr.uid > 0)
    BY DEF TS, WorkerTypes
  <2>3. QED BY <2>1, <2>2
<1>2. \A k \in Kinds : Owned(obj[k]) /\ Owned(ocache[k])
  BY DEF TS, ObjectTypes
<1>3. \A o : Owned(o) => o = Absent
  BY DEF Owned
<1>4. QED BY <1>1, <1>2, <1>3 DEF PassOK, TS, WorkerTypes

\* The first Grafana's objects are not garbage while it is there.
LEMMA NoGarbage ==
  ASSUME TS, FirstAlive, NEW k \in Kinds, obj[k] # Absent
  PROVE  obj[k].owner = gr.uid
BY DEF FirstAlive, TS, ObjectTypes, Owned

\* A step that is not one of a stage
Elsewhere ==
    /\ \A k \in Made : obj'[k] = obj[k] \/ obj'[k] = Absent
    /\ \A k \in Kinds : ocache'[k] \in {ocache[k], obj[k], obj'[k], Absent}
    /\ ~OpenShift \/ obj'["ingress"] \in {obj["ingress"], Absent}
    /\ FirstAlive' => /\ FirstAlive \/ gr.uid = 0
                      /\ \A k \in Made : obj'[k] = obj[k] /\ ocache'[k] \in {ocache[k], obj[k], Absent}
    /\ w'.pc = "run" => w' = w \/ w'.next.stage = "admin user"

OfAStage ==
    /\ w.pc = "run"
    /\ \E o \in Outcomes : \/ MovesSecret(o) \/ MovesConfig(o) \/ MovesSimple(o)
                           \/ MovesIngress(o) \/ MovesPlugins(o) \/ MovesDeployment(o)

LEMMA SameObjects ==
  ASSUME UNCHANGED obj, UNCHANGED ocache,
         w'.pc = "run" => w' = w \/ w'.next.stage = "admin user",
         FirstAlive' => FirstAlive \/ gr.uid = 0
  PROVE  Elsewhere
BY DEF Elsewhere

LEMMA MadeAreKinds == Made \subseteq Kinds /\ "ingress" \in Kinds /\ "plugins" \in Kinds
BY DEF Made, Kept, Kinds

LEMMA ElsewhereSteps ==
  ASSUME TS, PassOK, AnyStep
  PROVE  OfAStage \/ Elsewhere
<1> USE DEF FirstAlive
<1>1. CASE UNCHANGED vars
  BY <1>1, SameObjects DEF vars, clusterVars, objVars
<1>2. CASE Dequeue
  <2>1. w'.pc = "run" => w'.next.stage = "admin user"
    <3>1. grcache.status \in Status
      BY DEF TS, GrafanaTypes, Resource
    <3>2. [grcache.status EXCEPT !.stage = "admin user"].stage = "admin user"
      BY <3>1 DEF Status
    <3>3. QED BY <1>2, <3>2 DEF Dequeue, Begin, Worker0
  <2>2. QED BY <1>2, <2>1, SameObjects DEF Dequeue, objVars
<1>3. ASSUME NEW o \in Outcomes, ReconcileStep(o)
      PROVE  OfAStage \/ Elsewhere
  <2>1. CASE UpdateStatus(o)
    <3>1. w'.pc = "idle" /\ UNCHANGED objVars
      BY <2>1 DEF UpdateStatus, Worker0
    <3>2. FirstAlive' => FirstAlive
      <4>1. CASE UNCHANGED clusterVars
        BY <4>1 DEF clusterVars
      <4>2. CASE WriteGrafana([gr EXCEPT !.status = w.next])
        BY <4>2, StatusWrite DEF WriteGrafana, Live, TS, WorkerTypes
      <4>3. QED BY <2>1, <4>1, <4>2 DEF UpdateStatus
    <3>3. QED BY <3>1, <3>2, SameObjects DEF objVars
  <2>2. QED BY <1>3, <2>1, PassSteps DEF TS, OfAStage
<1>4. CASE EditsGrafana
  <2>1. UNCHANGED <<objVars, w>>
    BY <1>4, EditSteps DEF TS
  <2>2. PICK new : WriteGrafana(new) /\ Successor(new)
    BY <1>4, EditSteps DEF TS
  <2>3. gr.uid \in Nat
    BY UidType DEF TS, GrafanaTypes
  <2>4. FirstAlive' => FirstAlive \/ gr.uid = 0
    BY <2>2, <2>3 DEF WriteGrafana, Successor
  <2>5. QED BY <2>1, <2>4, SameObjects DEF objVars
<1>5. CASE EditsObject
  <2>1. UNCHANGED <<clusterVars, w>>
    BY <1>5, ObjectEditSteps DEF TS
  <2>a. PICK k \in {"plugins", "ingress"} :
          \E v : /\ obj[k] # Absent /\ Write(k, [owner |-> obj[k].owner, v |-> v])
                 /\ k = "ingress" => ~OpenShift
    BY <1>5, ObjectEditSteps DEF TS
  <2>2. PICK v : /\ obj[k] # Absent /\ Write(k, [owner |-> obj[k].owner, v |-> v])
                 /\ k = "ingress" => ~OpenShift
    BY <2>a
  <2>3. /\ \A j \in Kinds \ {k} : obj'[j] = obj[j] /\ ocache'[j] = ocache[j]
        /\ ocache'[k] \in {ocache[k], obj'[k]}
    BY <2>2, MadeAreKinds, WriteSteps DEF TS
  <2>4. k \notin Made /\ (k # "ingress" \/ ~OpenShift)
    BY <2>2 DEF Made, Kept
  <2>5. QED BY <2>1, <2>3, <2>4, MadeAreKinds DEF Elsewhere, clusterVars
<1>6. CASE SyncGrafanaCache \/ Relist \/ Crash
  <2>1. UNCHANGED <<gr, objVars>> /\ (UNCHANGED w \/ w' = Worker0)
    BY <1>6 DEF SyncGrafanaCache, Relist, Crash, clusterVars
  <2>2. w'.pc = "run" => w' = w
    BY <2>1 DEF Worker0
  <2>3. QED BY <2>1, <2>2, SameObjects DEF objVars
<1>7. CASE Start
  <2>1. obj' = obj /\ ocache' = obj /\ gr' = gr /\ w' = w
    BY <1>7 DEF Start
  <2>2. FirstAlive' => FirstAlive
    BY <2>1
  <2>3. \A k \in Kinds : obj'[k] = obj[k] /\ ocache'[k] = obj[k]
    BY <2>1
  <2>4. Elsewhere
    BY <2>1, <2>2, <2>3, MadeAreKinds DEF Elsewhere
  <2>5. QED BY <2>4
<1>8. ASSUME NEW k \in Kinds, Touch(k) \/ SyncObjectCache(k)
      PROVE  Elsewhere
  <2>1. CASE Touch(k)
    BY <2>1, SameObjects DEF Touch, clusterVars
  <2>2. CASE SyncObjectCache(k)
    <3>1. \A j \in Kinds : ocache'[j] \in {ocache[j], obj[j]}
      BY <2>2 DEF SyncObjectCache, TS, ObjectTypes
    <3>2. QED BY <2>2, <3>1, MadeAreKinds DEF SyncObjectCache, Elsewhere, clusterVars
  <2>3. QED BY <1>8, <2>1, <2>2
<1>9. ASSUME NEW ks \in Collections, CollectGarbage(ks)
      PROVE  Elsewhere
  <2>1. /\ UNCHANGED <<clusterVars, w>>
        /\ \A k \in Kinds : /\ obj'[k] = obj[k] \/ (obj'[k] = Absent /\ (~Live(gr) \/ gr.uid # obj[k].owner))
                            /\ ocache'[k] = ocache[k] \/ ocache'[k] = Absent
    BY <1>9, GarbageTypes DEF TS
  <2>2. FirstAlive => \A k \in Kinds : obj'[k] = obj[k]
    BY <2>1, NoGarbage
  <2>3. QED BY <2>1, <2>2, MadeAreKinds DEF Elsewhere, clusterVars
<1>10. QED BY <1>1, <1>2, <1>3, <1>4, <1>5, <1>6, <1>7, <1>8, <1>9, AllSteps

-----------------------------------------------------------------------------
(* The objects of the stages behind *)

\* What the first stages ask for is something.
AskedOK ==
    /\ \A password \in AdminPassword(w.cr.spec, ocache["secret"]) : Asked("secret", password) # Absent
    /\ Asked("config", w.cr.spec.config) # Absent
    /\ \A k \in {"pvc", "account"} : Asked(k, "set") # Absent

LEMMA AskedPresent ==
  ASSUME TS, PassOK, w.pc = "run"
  PROVE  AskedOK
<1>1. Live(w.cr) /\ w.cr.spec \in Specs
  BY DEF PassOK, TS, WorkerTypes, Resource, Live
<1>2. ASSUME NEW k \in Kinds, NEW v
      PROVE  Asked(k, v) = [owner |-> Asked(k, v).owner, v |-> v] /\ Asked(k, v).owner \in 1..MaxUid
  BY <1>1, AskedType DEF TS, Asked
<1>3. "secret" \in Kinds /\ "config" \in Kinds /\ {"pvc", "account"} \subseteq Kinds
  BY DEF Kinds
<1>4. ASSUME NEW password \in Passwords \cup {spec.password : spec \in Specs}
      PROVE  Asked("secret", password) # Absent
  BY <1>2, <1>3
<1>5. ASSUME NEW password \in AdminPassword(w.cr.spec, ocache["secret"])
      PROVE  Asked("secret", password) # Absent
  <2>1. CASE w.cr.spec.password = Absent /\ ocache["secret"] # Absent
    <3>1. password = ocache["secret"].v
      BY <2>1 DEF AdminPassword
    <3>2. ocache["secret"] = [owner |-> ocache["secret"].owner, v |-> ocache["secret"].v]
      BY <1>3, <2>1 DEF TS, ObjectTypes, Owned
    <3>3. Asked("secret", password) = ocache["secret"]
      BY <2>1, <3>1, <3>2 DEF Asked
    <3>4. QED BY <2>1, <3>3
  <2>2. CASE ~(w.cr.spec.password = Absent /\ ocache["secret"] # Absent)
    BY <1>1, <1>4, <2>2 DEF AdminPassword
  <2>3. QED BY <2>1, <2>2
<1>6. Asked("config", w.cr.spec.config) # Absent
  BY <1>1, <1>2, <1>3
<1>7. \A k \in {"pvc", "account"} : Asked(k, "set") # Absent
  BY <1>2, <1>3
<1>8. QED BY <1>5, <1>6, <1>7 DEF AskedOK

\* A stage leaves the objects of the others alone, ...
LEMMA MovesOne ==
  ASSUME TS, NEW k \in Kinds, NEW stage, NEW v, NEW o, NEW url, NEW hash, NEW plugins,
         Moves(stage, k, v, o, url, hash, plugins)
  PROVE  /\ UNCHANGED clusterVars
         /\ \A j \in Kinds \ {k} : obj'[j] = obj[j] /\ ocache'[j] = ocache[j]
         /\ obj'[k] = obj[k] \/ (obj'[k] = Asked(k, v) /\ Accepted(k))
         /\ ocache'[k] \in {ocache[k], obj'[k]}
<1>1. CASE UNCHANGED objVars
  BY <1>1 DEF objVars, Moves, Unmoved
<1>2. CASE Write(k, Asked(k, v)) /\ Accepted(k)
  BY <1>2, WriteSteps DEF TS, Moves, Unmoved
<1>3. QED BY <1>1, <1>2 DEF Moves, CreateOrUpdate

\* ... and has its own there when it goes on.
LEMMA MovesKeep ==
  ASSUME TS, CopiesOK, KeptOK, FirstAlive, NEW k \in Kept, NEW stage, NEW v, NEW o, NEW url, NEW hash,
         NEW plugins, Moves(stage, k, v, o, url, hash, plugins), Asked(k, v) # Absent
  PROVE  /\ obj[k] # Absent => obj'[k] # Absent
         /\ Succeeds(k, v, o) => obj'[k] # Absent /\ (k \notin Lagging => obj'[k].v = v)
<1>0. k \in Kinds /\ k \notin AlwaysSent
  BY DEF Kept, Kinds, AlwaysSent
<1>1. obj[k] # Absent => obj'[k] # Absent
  BY <1>0, MovesOne
<1>2. Asked(k, v).v = v
  BY DEF Asked
<1>3. ASSUME Succeeds(k, v, o)
      PROVE  obj'[k] # Absent /\ (k \notin Lagging => obj'[k].v = v)
  <2>1. CASE Sent(k, v)
    <3>1. Accepted(k) /\ o = "ok"
      BY <1>3, <2>1 DEF Succeeds
    <3>2. Write(k, Asked(k, v))
      BY <2>1, <3>1 DEF Moves, CreateOrUpdate, Kept
    <3>3. obj'[k] = Asked(k, v)
      BY <1>0, <3>2, WriteSteps DEF TS
    <3>4. QED BY <1>2, <3>3
  <2>2. CASE ~Sent(k, v)
    <3>1. ocache[k] = Asked(k, v)
      BY <1>0, <2>2 DEF Sent
    <3>2. UNCHANGED objVars
      BY <2>2 DEF Moves, CreateOrUpdate
    <3>3. obj[k] # Absent
      BY <3>1 DEF KeptOK, Kept, FirstAlive, Present
    <3>4. k \notin Lagging => obj[k] = ocache[k]
      BY <1>0 DEF CopiesOK, ObjectCopiesOK, TS, ObjectTypes
    <3>5. QED BY <1>2, <3>1, <3>2, <3>3, <3>4 DEF objVars
  <2>3. QED BY <2>1, <2>2
<1>4. QED BY <1>1, <1>3

LEMMA KeptStep ==
  ASSUME TS, PassOK, CopiesOK, KeptOK, AnyStep
  PROVE  KeptOK'
<1> SUFFICES ASSUME FirstAlive', NEW j \in Kept, ocache'[j] # Absent
             PROVE  obj'[j] # Absent
  BY DEF KeptOK, Kept, FirstAlive, Present
<1>0. FirstAlive /\ ocache[j] # Absent => obj[j] # Absent
  BY DEF KeptOK, Kept, FirstAlive, Present
<1>1. CASE Elsewhere
  <2>1. j \in Made /\ j \in Kinds
    BY MadeAreKinds DEF Made
  <2>2. obj'[j] = obj[j] /\ ocache'[j] \in {ocache[j], obj[j], Absent} /\ (FirstAlive \/ gr.uid = 0)
    BY <1>1, <2>1 DEF Elsewhere
  <2>3. CASE FirstAlive
    BY <1>0, <2>2, <2>3
  <2>4. CASE gr.uid = 0
    BY <2>1, <2>2, <2>4, NothingYet
  <2>5. QED BY <2>2, <2>3, <2>4
<1>2. ASSUME NEW k \in Kinds, NEW stage, NEW v, NEW o, NEW url, NEW hash, NEW plugins,
             Moves(stage, k, v, o, url, hash, plugins), k \in Kept => Asked(k, v) # Absent
      PROVE  obj'[j] # Absent
  <2>1. FirstAlive /\ j \in Kinds
    BY <1>2, MovesOne, MadeAreKinds DEF clusterVars, FirstAlive, Made
  <2>2. CASE j # k
    BY <1>0, <1>2, <2>1, <2>2, MovesOne
  <2>3. CASE j = k
    <3>1. obj[j] # Absent => obj'[j] # Absent
      BY <1>2, <2>1, <2>3, MovesKeep
    <3>2. ocache'[j] \in {ocache[j], obj'[j]}
      BY <1>2, <2>3, MovesOne
    <3>3. QED BY <1>0, <2>1, <3>1, <3>2
  <2>4. QED BY <2>2, <2>3
<1>3. CASE OfAStage
  <2>1. w.pc = "run"
    BY <1>3 DEF OfAStage
  <2> USE DEF Kinds, Kept
  <2>2. PICK o \in Outcomes : \/ MovesSecret(o) \/ MovesConfig(o) \/ MovesSimple(o)
                              \/ MovesIngress(o) \/ MovesPlugins(o) \/ MovesDeployment(o)
    BY <1>3 DEF OfAStage
  <2>3. CASE MovesSecret(o)
    BY <1>2, <2>1, <2>3, AskedPresent DEF AskedOK, MovesSecret
  <2>4. CASE MovesConfig(o)
    BY <1>2, <2>1, <2>4, AskedPresent DEF AskedOK, MovesConfig
  <2>5. CASE MovesSimple(o)
    BY <1>2, <2>1, <2>5, AskedPresent DEF AskedOK, MovesSimple
  <2>6. CASE MovesIngress(o)
    BY <1>2, <2>6 DEF MovesIngress
  <2>7. CASE MovesPlugins(o)
    BY <1>2, <2>7 DEF MovesPlugins
  <2>8. CASE MovesDeployment(o)
    BY <1>2, <2>8 DEF MovesDeployment
  <2>9. QED BY <2>2, <2>3, <2>4, <2>5, <2>6, <2>7, <2>8
<1>4. QED BY <1>1, <1>3, ElsewhereSteps

\* When a pass goes on, it is to the next stage.
LEMMA ContinuesTo ==
  ASSUME NEW url, NEW hash, NEW plugins, Continues(url, hash, plugins)
  PROVE  /\ w'.next.stage = After(w.next.stage, w.cr.spec) /\ w'.cr = w.cr
         /\ w'.hash = hash /\ w'.plugins = plugins /\ w'.next.url = url
         /\ w'.pc = "run" <=> w'.next.stage # "complete"
         /\ w'.pc = "run" \/ w'.pc = "status"
<1> DEFINE after == After(w.next.stage, w.cr.spec)
           pc == IF after = "complete" THEN "status" ELSE "run"
<1>1. w' = [pc |-> pc, cr |-> w.cr,
            next |-> [stage |-> after, result |-> "success", message |-> FALSE,
                      url |-> url, list |-> w.next.list],
            hash |-> hash, plugins |-> plugins]
  BY DEF Continues
<1>2. pc = "run" <=> after # "complete"
  OBVIOUS
<1>3. pc = "run" \/ pc = "status"
  OBVIOUS
<1> HIDE DEF after, pc
<1>4. QED BY <1>1, <1>2, <1>3 DEF after

\* ... or it ends.
LEMMA GoesOnOrEnds ==
  ASSUME NEW stage, NEW k, NEW v, NEW o, NEW url, NEW hash, NEW plugins,
         Moves(stage, k, v, o, url, hash, plugins), w'.pc = "run"
  PROVE  Continues(url, hash, plugins) /\ (k = "plugins" \/ Succeeds(k, v, o))
<1>1. ASSUME NEW result, Stops(result) PROVE FALSE
  <2>1. w'.pc = "status"
    BY <1>1 DEF Stops
  <2>2. QED BY <2>1
<1>2. QED BY <1>1 DEF Moves

LEMMA EachKind ==
  /\ "secret" \in Kinds /\ "config" \in Kinds /\ "pvc" \in Kinds /\ "account" \in Kinds
  /\ "service" \in Kinds /\ "ingress" \in Kinds /\ "plugins" \in Kinds /\ "deployment" \in Kinds
  /\ "secret" \in Kept /\ "config" \in Kept /\ "pvc" \in Kept /\ "account" \in Kept
BY DEF Kinds, Kept

LEMMA AfterSteps ==
  ASSUME NEW spec
  PROVE  /\ After("admin user", spec) = "config"
         /\ After("config", spec) = IF spec.pvc THEN "pvc" ELSE "service account"
         /\ After("pvc", spec) = "service account"
         /\ After("service account", spec) = "service"
         /\ After("service", spec) = "ingress"
         /\ After("ingress", spec) = "plugins"
         /\ After("plugins", spec) = "deployment"
         /\ After("deployment", spec) = "complete"
BY DEF After

\* A pass that goes on has left all other stages' objects alone.
LEMMA StageGoesOn ==
  ASSUME TS, w'.pc = "run", NEW k \in Kinds, NEW stage, NEW v, NEW o, NEW url, NEW hash,
         NEW plugins, Moves(stage, k, v, o, url, hash, plugins)
  PROVE  /\ gr' = gr /\ w.next.stage = stage /\ w'.next.stage = After(stage, w.cr.spec)
         /\ w'.cr = w.cr /\ w'.hash = hash /\ w'.next.url = url
         /\ \A j \in Kinds : j # k => obj'[j] = obj[j]
         /\ k = "plugins" \/ Succeeds(k, v, o)
<1>1. gr' = gr /\ \A j \in Kinds \ {k} : obj'[j] = obj[j]
  BY MovesOne DEF clusterVars
<1>2. Continues(url, hash, plugins) /\ (k = "plugins" \/ Succeeds(k, v, o))
  BY GoesOnOrEnds
<1>3. w.next.stage = stage
  BY DEF Moves
<1>4. /\ w'.next.stage = After(w.next.stage, w.cr.spec) /\ w'.cr = w.cr
      /\ w'.hash = hash /\ w'.next.url = url
  BY <1>2, ContinuesTo
<1>5. QED BY <1>1, <1>2, <1>3, <1>4

\* StagesOK, for a pass in the first Grafana
SecretThere == obj["secret"] # Absent
ConfigThere == obj["config"] # Absent /\ ("config" \notin Lagging => obj["config"].v = w.hash)
PvcThere == w.cr.spec.pvc => obj["pvc"] # Absent
AccountThere == obj["account"] # Absent

LEMMA StagesMean ==
  ASSUME FirstAlive, w.pc = "run", StagesOK
  PROVE  /\ w.next.stage # "admin user" => SecretThere
         /\ w.next.stage \notin {"admin user", "config"} => ConfigThere
         /\ w.next.stage \notin {"admin user", "config", "pvc"} => PvcThere
         /\ w.next.stage \notin {"admin user", "config", "pvc", "service account"} => AccountThere
BY DEF FirstAlive, StagesOK, Present, SecretThere, ConfigThere, PvcThere, AccountThere

LEMMA StagesMeanAfter ==
  ASSUME \/ w'.next.stage = "admin user"
         \/ SecretThere' /\ \/ w'.next.stage = "config"
                            \/ ConfigThere' /\ \/ w'.next.stage = "pvc"
                                               \/ PvcThere' /\ (w'.next.stage = "service account" \/ AccountThere')
  PROVE  StagesOK'
BY DEF StagesOK, Present, SecretThere, ConfigThere, PvcThere, AccountThere

LEMMA StagesStep ==
  ASSUME TS, PassOK, CopiesOK, KeptOK, StagesOK, AnyStep
  PROVE  StagesOK'
<1> SUFFICES ASSUME FirstAlive', w'.pc = "run"
             PROVE  StagesOK'
  BY DEF StagesOK, FirstAlive
<1>1. CASE Elsewhere
  <2>1. w' = w \/ w'.next.stage = "admin user"
    BY <1>1 DEF Elsewhere
  <2>2. CASE w'.next.stage = "admin user"
    BY <2>2, StagesMeanAfter
  <2>3. CASE w' = w
    <3>1. FirstAlive \/ gr.uid = 0
      BY <1>1 DEF Elsewhere
    <3>2. gr.uid # 0
      BY <2>3, NothingYet
    <3>3. \A k \in {"secret", "config", "pvc", "account"} : obj'[k] = obj[k]
      BY <1>1 DEF Elsewhere, Made, Kept
    <3>4. QED BY <2>3, <3>1, <3>2, <3>3 DEF StagesOK, FirstAlive, Present
  <2>4. QED BY <2>1, <2>2, <2>3
<1>2. CASE OfAStage
  <2>0. PICK o \in Outcomes : \/ MovesSecret(o) \/ MovesConfig(o) \/ MovesSimple(o)
                              \/ MovesIngress(o) \/ MovesPlugins(o) \/ MovesDeployment(o)
    BY <1>2 DEF OfAStage
  <2>1. w.pc = "run"
    BY <1>2 DEF OfAStage
  <2>2. ASSUME NEW k \in Kept, NEW stage, NEW v, NEW url, NEW hash, NEW plugins,
               Moves(stage, k, v, o, url, hash, plugins), Asked(k, v) # Absent
        PROVE  obj'[k] # Absent /\ (k \notin Lagging => obj'[k].v = v)
    <3>1. k \in Kinds /\ k # "plugins"
      BY DEF Kinds, Kept
    <3>2. gr' = gr /\ Succeeds(k, v, o)
      BY <2>2, <3>1, StageGoesOn
    <3>3. FirstAlive
      BY <3>2 DEF FirstAlive
    <3>4. QED BY <2>2, <3>2, <3>3, MovesKeep
  <2>3. AskedOK
    BY <2>1, AskedPresent
  <2>4. ASSUME gr' = gr
        PROVE  /\ w.next.stage # "admin user" => SecretThere
               /\ w.next.stage \notin {"admin user", "config"} => ConfigThere
               /\ w.next.stage \notin {"admin user", "config", "pvc"} => PvcThere
               /\ w.next.stage \notin {"admin user", "config", "pvc", "service account"} => AccountThere
    <3>1. FirstAlive
      BY <2>4 DEF FirstAlive
    <3>2. QED BY <2>1, <3>1, StagesMean
  <2>5. CASE MovesSecret(o)
    <3>1. PICK password \in AdminPassword(w.cr.spec, ocache["secret"]) :
            Moves("admin user", "secret", password, o, w.next.url, w.hash, w.plugins)
      BY <2>5 DEF MovesSecret
    <3>2. w'.next.stage = "config"
      <4>1. w'.next.stage = After("admin user", w.cr.spec)
        BY <3>1, StageGoesOn, EachKind
      <4>2. QED BY <4>1, AfterSteps
    <3>3. obj'["secret"] # Absent
      BY <2>2, <2>3, <3>1, EachKind DEF AskedOK
    <3>4. QED BY <3>2, <3>3, StagesMeanAfter DEF SecretThere
  <2>6. CASE MovesConfig(o)
    <3>1. Moves("config", "config", w.cr.spec.config, o, w.next.url, w.cr.spec.config, w.plugins)
      BY <2>6 DEF MovesConfig
    <3>2. /\ gr' = gr /\ w.next.stage = "config" /\ w'.hash = w.cr.spec.config /\ w'.cr = w.cr
          /\ w'.next.stage = After("config", w.cr.spec)
          /\ obj'["secret"] = obj["secret"]
      BY <3>1, StageGoesOn, EachKind
    <3>3. w'.next.stage = IF w.cr.spec.pvc THEN "pvc" ELSE "service account"
      BY <3>2, AfterSteps
    <3>4. obj'["config"] # Absent /\ ("config" \notin Lagging => obj'["config"].v = w.cr.spec.config)
      BY <2>2, <2>3, <3>1, EachKind DEF AskedOK
    <3>5. SecretThere
      BY <2>4, <3>2
    <3>6. SecretThere' /\ ConfigThere'
      BY <3>2, <3>4, <3>5 DEF SecretThere, ConfigThere
    <3>7. w'.next.stage = "pvc" \/ (w'.next.stage = "service account" /\ PvcThere')
      BY <3>2, <3>3 DEF PvcThere
    <3>8. QED BY <3>6, <3>7, StagesMeanAfter
  <2>7. CASE Moves("pvc", "pvc", "set", o, w.next.url, w.hash, w.plugins)
    <3>1. /\ gr' = gr /\ w.next.stage = "pvc" /\ w'.hash = w.hash /\ w'.cr = w.cr
          /\ w'.next.stage = "service account"
          /\ obj'["secret"] = obj["secret"] /\ obj'["config"] = obj["config"]
      <4>1. /\ gr' = gr /\ w.next.stage = "pvc" /\ w'.hash = w.hash /\ w'.cr = w.cr
            /\ w'.next.stage = After("pvc", w.cr.spec)
            /\ \A j \in Kinds : j # "pvc" => obj'[j] = obj[j]
        BY <2>7, StageGoesOn, EachKind
      <4>2. QED BY <4>1, EachKind, AfterSteps
    <3>2. obj'["pvc"] # Absent
      BY <2>2, <2>3, <2>7, EachKind DEF AskedOK
    <3>3. SecretThere /\ ConfigThere
      BY <2>4, <3>1
    <3>4. SecretThere' /\ ConfigThere' /\ PvcThere'
      BY <3>1, <3>2, <3>3 DEF SecretThere, ConfigThere, PvcThere
    <3>5. QED BY <3>1, <3>4, StagesMeanAfter
  <2>8. CASE Moves("service account", "account", "set", o, w.next.url, w.hash, w.plugins)
    <3>1. /\ gr' = gr /\ w.next.stage = "service account" /\ w'.hash = w.hash /\ w'.cr = w.cr
          /\ obj'["secret"] = obj["secret"] /\ obj'["config"] = obj["config"]
          /\ obj'["pvc"] = obj["pvc"]
      <4>0. ASSUME NEW k \in Kinds, NEW stage,
                   Moves(stage, k, "set", o, w.next.url, w.hash, w.plugins)
            PROVE  /\ gr' = gr /\ w.next.stage = stage /\ w'.hash = w.hash /\ w'.cr = w.cr
                   /\ \A j \in Kinds : j # k => obj'[j] = obj[j]
        BY <4>0, StageGoesOn
      <4>1. /\ gr' = gr /\ w.next.stage = "service account" /\ w'.hash = w.hash /\ w'.cr = w.cr
            /\ \A j \in Kinds : j # "account" => obj'[j] = obj[j]
        BY <2>8, <4>0, EachKind
      <4>2. QED BY <4>1, EachKind
    <3>2. obj'["account"] # Absent
      BY <2>2, <2>3, <2>8, EachKind DEF AskedOK
    <3>3. SecretThere /\ ConfigThere /\ PvcThere
      BY <2>4, <3>1
    <3>4. SecretThere' /\ ConfigThere' /\ PvcThere' /\ AccountThere'
      BY <3>1, <3>2, <3>3 DEF SecretThere, ConfigThere, PvcThere, AccountThere
    <3>5. QED BY <3>4, StagesMeanAfter
  <2>9. ASSUME NEW stage \in {"service", "ingress", "plugins", "deployment"},
               NEW k \in {"service", "ingress", "plugins", "deployment"},
               NEW v, NEW url, NEW plugins, Moves(stage, k, v, o, url, w.hash, plugins)
        PROVE  StagesOK'
    <3>0. k \in Kinds /\ k \notin Kept
      BY DEF Kinds, Kept
    <3>1. /\ gr' = gr /\ w.next.stage = stage /\ w'.hash = w.hash /\ w'.cr = w.cr
          /\ \A j \in Kept : obj'[j] = obj[j]
      <4>1. /\ gr' = gr /\ w.next.stage = stage /\ w'.hash = w.hash /\ w'.cr = w.cr
            /\ \A j \in Kinds : j # k => obj'[j] = obj[j]
        BY <2>9, <3>0, StageGoesOn
      <4>2. \A j \in Kept : j \in Kinds /\ j # k
        BY <3>0, MadeAreKinds DEF Made
      <4>3. QED BY <4>1, <4>2
    <3>2. SecretThere /\ ConfigThere /\ PvcThere /\ AccountThere
      BY <2>4, <3>1
    <3>3. SecretThere' /\ ConfigThere' /\ PvcThere' /\ AccountThere'
      BY <3>1, <3>2, EachKind DEF SecretThere, ConfigThere, PvcThere, AccountThere
    <3>4. QED BY <3>3, StagesMeanAfter
  <2>10. QED BY <2>0, <2>5, <2>6, <2>7, <2>8, <2>9
             DEF MovesSimple, MovesIngress, MovesPlugins, MovesDeployment
<1>3. QED BY <1>1, <1>2, ElsewhereSteps

-----------------------------------------------------------------------------
(* The url *)

\* Who writes the Grafana or the worker
LEMMA WhoseStep ==
  ASSUME TS, AnyStep
  PROVE  \/ OfAStage \/ (\E o \in Outcomes : UpdateStatus(o)) \/ Dequeue \/ EditsGrafana
         \/ gr' = gr /\ (w' = w \/ w' = Worker0)
<1>1. ASSUME NEW o \in Outcomes, ReconcileStep(o)
      PROVE  OfAStage \/ UpdateStatus(o)
  BY <1>1, PassSteps DEF TS, OfAStage
<1>2. CASE EditsObject
  BY <1>2, ObjectEditSteps DEF TS, clusterVars
<1>3. CASE Crash \/ Start \/ SyncGrafanaCache \/ Relist \/ UNCHANGED vars
  BY <1>3 DEF Crash, Start, SyncGrafanaCache, Relist, vars, clusterVars
<1>4. ASSUME NEW k \in Kinds, Touch(k) \/ SyncObjectCache(k)
      PROVE  gr' = gr /\ w' = w
  BY <1>4 DEF Touch, SyncObjectCache, clusterVars
<1>5. ASSUME NEW ks \in Collections, CollectGarbage(ks)
      PROVE  gr' = gr /\ w' = w
  BY <1>5 DEF CollectGarbage, clusterVars
<1>6. QED BY <1>1, <1>2, <1>3, <1>4, <1>5, AllSteps

RoutesOK ==
    OpenShift => \A o \in {obj["ingress"], ocache["ingress"]} : o # Absent => o.v \in RouteHosts

UrlInPass ==
    /\ w.pc = "run" /\ (w.next.stage = "ingress" => ~w.cr.spec.prefer)
         /\ w.next.stage \in {"ingress", "plugins", "deployment"} => w.next.url # Absent
    /\ w.pc = "status" /\ Ready(w.next) => w.next.url # Absent

LEMMA UrlParts == UrlOK <=> RoutesOK /\ UrlInPass /\ ReadyHasUrl
BY DEF UrlOK, RoutesOK, UrlInPass

LEMMA HostsAreRouteHosts ==
  ASSUME RoutesOK, OpenShift
  PROVE  Hosts \subseteq RouteHosts
BY DEF RoutesOK, Hosts

LEMMA RoutesStep ==
  ASSUME TS, PassOK, RoutesOK, AnyStep
  PROVE  RoutesOK'
<1> SUFFICES ASSUME OpenShift PROVE RoutesOK'
  BY DEF RoutesOK
<1>1. CASE Elsewhere
  <2>1. obj'["ingress"] \in {obj["ingress"], Absent}
    BY <1>1 DEF Elsewhere
  <2>2. ocache'["ingress"] \in {ocache["ingress"], obj["ingress"], obj'["ingress"], Absent}
    BY <1>1, EachKind DEF Elsewhere
  <2>3. QED BY <2>1, <2>2 DEF RoutesOK
<1>2. CASE OfAStage
  <2>1. PICK o \in Outcomes : \/ MovesSecret(o) \/ MovesConfig(o) \/ MovesSimple(o)
                              \/ MovesIngress(o) \/ MovesPlugins(o) \/ MovesDeployment(o)
    BY <1>2 DEF OfAStage
  <2>2. w.pc = "run"
    BY <1>2 DEF OfAStage
  <2>3. ASSUME NEW k \in Kinds, k # "ingress", NEW stage, NEW v, NEW url, NEW hash, NEW plugins,
               Moves(stage, k, v, o, url, hash, plugins)
        PROVE  RoutesOK'
    <3>1. obj'["ingress"] = obj["ingress"] /\ ocache'["ingress"] = ocache["ingress"]
      BY <2>3, MovesOne, EachKind
    <3>2. QED BY <3>1 DEF RoutesOK
  <2>4. CASE MovesIngress(o)
    <3>1. PICK v, url : Moves("ingress", "ingress", v, o, url, w.hash, w.plugins) /\ v \in Hosts
      BY <2>4 DEF MovesIngress
    <3>2. /\ obj'["ingress"] \in {obj["ingress"], Asked("ingress", v)}
          /\ ocache'["ingress"] \in {ocache["ingress"], obj'["ingress"]}
      BY <3>1, MovesOne, EachKind
    <3>3. Asked("ingress", v).v = v
      BY DEF Asked
    <3>4. v \in RouteHosts
      BY <3>1, HostsAreRouteHosts
    <3>5. QED BY <3>2, <3>3, <3>4 DEF RoutesOK
  <2>5. CASE MovesSecret(o)
    BY <2>3, <2>5, EachKind DEF MovesSecret
  <2>6. CASE MovesConfig(o)
    BY <2>3, <2>6, EachKind DEF MovesConfig
  <2>7. CASE MovesSimple(o)
    BY <2>3, <2>7, EachKind DEF MovesSimple
  <2>8. CASE MovesPlugins(o)
    BY <2>3, <2>8, EachKind DEF MovesPlugins
  <2>9. CASE MovesDeployment(o)
    BY <2>3, <2>9, EachKind DEF MovesDeployment
  <2>10. QED BY <2>1, <2>4, <2>5, <2>6, <2>7, <2>8, <2>9
<1>3. QED BY <1>1, <1>2, ElsewhereSteps

LEMMA EachStage ==
  /\ "admin user" \in Stages /\ "config" \in Stages /\ "pvc" \in Stages
  /\ "service account" \in Stages /\ "service" \in Stages /\ "ingress" \in Stages
  /\ "plugins" \in Stages /\ "deployment" \in Stages
BY DEF Stages

\* The stages before the ingress hand on what they find.
LEMMA StageUrl ==
  ASSUME NEW stage \in Stages, NEW k, NEW v, NEW o, NEW url, NEW hash, NEW plugins,
         Moves(stage, k, v, o, url, hash, plugins),
         \/ stage \in {"admin user", "config", "pvc", "service account"}
         \/ stage = "service" /\ w.cr.spec.prefer
         \/ url # Absent
  PROVE  UrlInPass'
<1>1. CASE Continues(url, hash, plugins)
  <2>1. /\ w'.next.stage = After(stage, w.cr.spec) /\ w'.cr = w.cr /\ w'.next.url = url
        /\ w'.pc = "run" <=> w'.next.stage # "complete"
    BY <1>1, ContinuesTo DEF Moves
  <2>2. CASE url # Absent
    BY <2>1, <2>2 DEF UrlInPass
  <2>3. CASE stage \in {"admin user", "config", "pvc", "service account"}
    <3>1. w'.next.stage \in {"config", "pvc", "service account", "service"}
      BY <2>1, <2>3, AfterSteps, ZenonT(60)
    <3>2. QED BY <2>1, <3>1 DEF UrlInPass
  <2>4. CASE stage = "service" /\ w.cr.spec.prefer
    <3>1. w'.next.stage = "ingress"
      BY <2>1, <2>4, AfterSteps
    <3>2. QED BY <2>1, <2>4, <3>1 DEF UrlInPass
  <2>5. QED BY <2>2, <2>3, <2>4
<1>2. ASSUME NEW result \in {"failed", "in progress"}, Stops(result)
      PROVE  UrlInPass'
  <2>1. w'.pc = "status" /\ w'.next.result = result
    BY <1>2 DEF Stops
  <2>2. QED BY <2>1 DEF UrlInPass, Ready
<1>3. QED BY <1>1, <1>2 DEF Moves

LEMMA OfAStageUrl ==
  ASSUME TS, UrlCertain, RoutesOK, UrlInPass, OfAStage
  PROVE  UrlInPass' /\ gr' = gr
<1>1. PICK o \in Outcomes : \/ MovesSecret(o) \/ MovesConfig(o) \/ MovesSimple(o)
                            \/ MovesIngress(o) \/ MovesPlugins(o) \/ MovesDeployment(o)
  BY DEF OfAStage
<1>2. w.pc = "run"
  BY DEF OfAStage
<1>3. gr' = gr
  BY <1>1 DEF MovesSecret, MovesConfig, MovesSimple, MovesIngress, MovesPlugins, MovesDeployment,
              Moves, Unmoved, clusterVars
<1> SUFFICES UrlInPass'
  BY <1>3
<1>4. Absent \notin {"service", "host", "address"}
  OBVIOUS
<1>5. CASE MovesSecret(o)
  BY <1>5, StageUrl, EachStage DEF MovesSecret
<1>6. CASE MovesConfig(o)
  BY <1>6, StageUrl, EachStage DEF MovesConfig
<1>7. CASE MovesSimple(o)
  <2>1. CASE Moves("pvc", "pvc", "set", o, w.next.url, w.hash, w.plugins)
    BY <2>1, StageUrl, EachStage
  <2>2. CASE Moves("service account", "account", "set", o, w.next.url, w.hash, w.plugins)
    BY <2>2, StageUrl, EachStage
  <2>3. CASE Moves("service", "service", "set", o, ServiceUrl, w.hash, w.plugins)
    <3>1. w.cr.spec.prefer \/ ServiceUrl # Absent
      BY <1>4 DEF ServiceUrl
    <3>2. QED BY <2>3, <3>1, StageUrl, EachStage
  <2>4. QED BY <1>7, <2>1, <2>2, <2>3 DEF MovesSimple
<1>8. CASE MovesIngress(o)
  <2>1. PICK v, url : /\ Moves("ingress", "ingress", v, o, url, w.hash, w.plugins)
                      /\ url \in IngressUrls(v) /\ (OpenShift => v \in Hosts)
    BY <1>8 DEF MovesIngress
  <2>2. OpenShift => v = TRUE
    BY <2>1, HostsAreRouteHosts DEF UrlCertain
  <2>3. CASE w.cr.spec.prefer
    <3>1. url \in {"host", "address"}
      BY <2>1, <2>2, <2>3 DEF IngressUrls
    <3>2. url # Absent
      BY <1>4, <3>1
    <3>3. QED BY <2>1, <3>2, StageUrl, EachStage
  <2>4. CASE ~w.cr.spec.prefer
    <3>1. url = w.next.url
      BY <2>1, <2>4 DEF IngressUrls
    <3>2. w.next.stage = "ingress"
      BY <2>1 DEF Moves
    <3>3. url # Absent
      BY <1>2, <2>4, <3>1, <3>2 DEF UrlInPass
    <3>4. QED BY <2>1, <3>3, StageUrl, EachStage
  <2>5. QED BY <2>3, <2>4
<1>9. ASSUME NEW stage \in {"plugins", "deployment"}, NEW k, NEW v, NEW plugins,
             Moves(stage, k, v, o, w.next.url, w.hash, plugins)
      PROVE  UrlInPass'
  <2>1. w.next.stage = stage
    BY <1>9 DEF Moves
  <2>2. w.next.url # Absent
    BY <1>2, <2>1 DEF UrlInPass
  <2>3. QED BY <1>9, <2>2, StageUrl, EachStage
<1>10. QED BY <1>1, <1>3, <1>5, <1>6, <1>7, <1>8, <1>9 DEF MovesPlugins, MovesDeployment

LEMMA ReadyStatus ==
  ASSUME NEW status \in Status, NEW g \in Resource, g.status = status
  PROVE  (Live(g) /\ Ready(g.status) => g.status.url # Absent)
           <=> (Live(g) /\ Ready(status) => status.url # Absent)
OBVIOUS

LEMMA UrlStep ==
  ASSUME TS, PassOK, UrlCertain, UrlOK, AnyStep
  PROVE  UrlOK'
<1>0. RoutesOK /\ UrlInPass /\ ReadyHasUrl
  BY UrlParts
<1>1. RoutesOK'
  BY <1>0, RoutesStep
<1> SUFFICES UrlInPass' /\ ReadyHasUrl'
  BY <1>1 DEF UrlOK, RoutesOK, UrlInPass
<1>2. ASSUME gr' = gr PROVE ReadyHasUrl'
  BY <1>0, <1>2 DEF ReadyHasUrl
<1>3. CASE OfAStage
  BY <1>0, <1>2, <1>3, OfAStageUrl
<1>4. ASSUME NEW o \in Outcomes, UpdateStatus(o)
      PROVE  UrlInPass' /\ ReadyHasUrl'
  <2>1. UrlInPass'
    <3>1. w'.pc = "idle"
      BY <1>4 DEF UpdateStatus, Worker0
    <3>2. QED BY <3>1 DEF UrlInPass
  <2>2. CASE gr' = gr
    BY <1>2, <2>1, <2>2
  <2>3. CASE gr' = [gr EXCEPT !.status = w.next]
    <3>1. gr'.status = w.next
      BY <2>3, StatusWrite DEF TS, WorkerTypes
    <3>2. Ready(w.next) => w.next.url # Absent
      BY <1>0, <1>4 DEF UrlInPass, UpdateStatus
    <3>3. QED BY <2>1, <3>1, <3>2 DEF ReadyHasUrl
  <2>4. QED BY <1>4, <2>2, <2>3 DEF UpdateStatus, WriteGrafana, clusterVars
<1>5. CASE Dequeue
  <2> DEFINE g == grcache
             next == [g.status EXCEPT !.stage = "complete", !.result = "success", !.url = g.spec.external]
  <2>1. g.status \in Status
    BY DEF TS, GrafanaTypes, Resource
  <2>2. gr' = gr
    BY <1>5 DEF Dequeue
  <2>3. CASE w' = Worker0
    BY <1>2, <2>2, <2>3 DEF Worker0, UrlInPass
  <2>4. CASE /\ w' = [pc |-> "status", cr |-> g, next |-> next, hash |-> Absent, plugins |-> <<>>]
             /\ g.spec.external # Absent
    <3>1. next.url = g.spec.external
      BY <2>1 DEF Status
    <3> HIDE DEF next, g
    <3>2. w'.pc = "status" /\ w'.next.url # Absent
      BY <2>4, <3>1
    <3>3. QED BY <1>2, <2>2, <3>2 DEF UrlInPass
  <2>5. CASE w' = [pc |-> "run", cr |-> g, next |-> [g.status EXCEPT !.stage = "admin user"],
                   hash |-> Absent, plugins |-> <<>>]
    <3>1. w'.pc = "run" /\ w'.next.stage = "admin user"
      BY <2>1, <2>5 DEF Status
    <3>2. QED BY <1>2, <2>2, <3>1 DEF UrlInPass
  <2>6. QED BY <1>5, <2>3, <2>4, <2>5 DEF Dequeue, Begin, Worker0
<1>6. CASE EditsGrafana
  <2>1. PICK new : gr' = new /\ Successor(new)
    BY <1>6, EditSteps DEF TS, WriteGrafana
  <2>2. w' = w
    BY <1>6, EditSteps DEF TS
  <2>3. UrlInPass'
    BY <1>0, <2>2 DEF UrlInPass
  <2>4. gr.uid \in Nat
    BY UidType DEF TS, GrafanaTypes
  <2>5. ASSUME Live(new), Ready(new.status)
        PROVE  Live(gr) /\ Ready(gr.status) /\ new.status.url = gr.status.url
    BY <2>1, <2>4, <2>5 DEF Successor
  <2>6. ReadyHasUrl'
    BY <1>0, <2>1, <2>5 DEF ReadyHasUrl
  <2>7. QED BY <2>3, <2>6
<1>7. CASE gr' = gr /\ (w' = w \/ w' = Worker0)
  <2>1. UrlInPass'
    BY <1>0, <1>7 DEF UrlInPass, Worker0
  <2>2. QED BY <1>2, <1>7, <2>1
<1>8. QED BY <1>3, <1>4, <1>5, <1>6, <1>7, WhoseStep

-----------------------------------------------------------------------------
(* The inductive invariant *)

LEMMA InitIInv == Init => TS /\ IInv
<1> SUFFICES ASSUME Init PROVE IInv
  BY InitTS
<1>1. ShapeOK
  BY InitTS, TSisTypeAndShape
<1>2. w.pc = "idle"
  BY DEF Init, Worker0
<1>3. \A k \in Kinds : obj[k] = Absent /\ ocache[k] = Absent
  BY DEF Init
<1>4. gr.uid = 0 /\ ~Live(gr)
  BY DEF Init, Gone, Live
<1>5. CopiesOK
  BY <1>2, <1>3 DEF Init, CopiesOK, GrafanaCopiesOK, ObjectCopiesOK
<1>6. PassOK /\ StagesOK /\ KeptOK
  BY <1>2, <1>4 DEF PassOK, StagesOK, KeptOK
<1>7. UrlOK
  BY <1>2, <1>3, <1>4, EachKind DEF UrlOK, ReadyHasUrl
<1>8. QED BY <1>1, <1>5, <1>6, <1>7 DEF IInv

LEMMA ShapeAfter == TS' => ShapeOK'
<1>1. ASSUME TS' PROVE ShapeOK'
  <2>1. gr'.uid \in Nat /\ grcache'.uid \in Nat /\ w'.cr.uid \in Nat
    BY <1>1, UidType DEF TS, GrafanaTypes, WorkerTypes
  <2>2. \A g \in {gr', grcache'} : g.uid <= gr'.uid /\ (Live(g) => g.uid > 0)
    BY <1>1 DEF TS, GrafanaTypes
  <2>3. w'.cr.uid <= gr'.uid /\ (Live(w'.cr) => w'.cr.uid > 0)
    BY <1>1 DEF TS, WorkerTypes
  <2>4. \A g \in {gr', grcache', w'.cr} : g.uid \in 0..gr'.uid /\ (Live(g) => g.uid > 0)
    BY <2>1, <2>2, <2>3
  <2>5. QED BY <1>1, <2>4 DEF TS, ShapeOK, IsObject, ObjectTypes, Owned, WorkerTypes
<1>2. QED BY <1>1

LEMMA NextIInv == TS /\ IInv /\ AnyStep => (TS /\ IInv)'
<1> SUFFICES ASSUME TS, IInv, AnyStep
             PROVE  TS' /\ IInv'
  OBVIOUS
<1>0. ShapeOK /\ CopiesOK /\ PassOK /\ KeptOK /\ StagesOK /\ (UrlCertain => UrlOK)
  BY DEF IInv
<1>1. TS' /\ PassOK'
  BY <1>0, StepTS
<1>2. ShapeOK'
  BY <1>1, ShapeAfter
<1>3. CopiesOK' /\ KeptOK' /\ StagesOK'
  BY <1>0, CopiesStep, KeptStep, StagesStep
<1>4. (UrlCertain => UrlOK)'
  BY <1>0, UrlStep DEF UrlCertain
<1>5. QED BY <1>1, <1>2, <1>3, <1>4 DEF IInv

-----------------------------------------------------------------------------
(* What the steps of the controller do to a password, a Deployment, a list *)

\* The password in a Secret stays, or becomes that of a spec.
PasswordStep ==
    obj["secret"] # Absent /\ obj'["secret"] # Absent /\ obj'["secret"].v # obj["secret"].v
    => obj'["secret"].v \in {spec.password : spec \in Specs}

LEMMA PasswordSteps == TS /\ IInv /\ AnyStep => PasswordStep
<1> SUFFICES ASSUME TS, IInv, AnyStep, obj["secret"] # Absent,
                    obj'["secret"] # Absent, obj'["secret"].v # obj["secret"].v
             PROVE  obj'["secret"].v \in {spec.password : spec \in Specs}
  BY DEF PasswordStep
<1>0. CopiesOK /\ PassOK
  BY DEF IInv
<1>1. CASE Elsewhere
  BY <1>1, EachKind DEF Elsewhere, Made
<1>2. CASE OfAStage
  <2>1. PICK o \in Outcomes : \/ MovesSecret(o) \/ MovesConfig(o) \/ MovesSimple(o)
                              \/ MovesIngress(o) \/ MovesPlugins(o) \/ MovesDeployment(o)
    BY <1>2 DEF OfAStage
  <2>2. w.cr.spec \in Specs
    <3>1. Live(w.cr) /\ w.cr \in Resource
      BY <1>0, <1>2 DEF OfAStage, PassOK, TS, WorkerTypes
    <3>2. QED BY <3>1 DEF Live, Resource
  <2>3. ASSUME NEW k \in Kinds, k # "secret", NEW stage, NEW v, NEW url, NEW hash, NEW plugins,
               Moves(stage, k, v, o, url, hash, plugins)
        PROVE  FALSE
    BY <2>3, MovesOne, EachKind
  <2>4. MovesSecret(o)
    BY <2>1, <2>3, EachKind
       DEF MovesConfig, MovesSimple, MovesIngress, MovesPlugins, MovesDeployment
  <2>5. PICK password \in AdminPassword(w.cr.spec, ocache["secret"]) :
          Moves("admin user", "secret", password, o, w.next.url, w.hash, w.plugins)
    BY <2>4 DEF MovesSecret
  <2>6. obj'["secret"] = obj["secret"] \/ (obj'["secret"] = Asked("secret", password) /\ Accepted("secret"))
    BY <2>5, MovesOne, EachKind
  <2>7. Accepted("secret") /\ obj'["secret"].v = password
    BY <2>6 DEF Asked
  <2>8. ocache["secret"] = obj["secret"]
    BY <1>0, <2>7, EachKind DEF Accepted, CopiesOK, ObjectCopiesOK
  <2>9. password = w.cr.spec.password
    BY <2>5, <2>7, <2>8 DEF AdminPassword
  <2>10. QED BY <2>2, <2>7, <2>9
<1>3. QED BY <1>0, <1>1, <1>2, ElsewhereSteps

\* What the pods are told, and what they refer to
DeploymentStep ==
    Live(gr) /\ gr.uid = 1 /\ obj'["deployment"] # obj["deployment"] /\ obj'["deployment"] # Absent
    => /\ Present("config") /\ obj["config"].v = obj'["deployment"].v.config
       /\ Present("secret") /\ Present("account") /\ (w.cr.spec.pvc => Present("pvc"))

LEMMA DeploymentSteps == "config" \notin Lagging /\ TS /\ IInv /\ AnyStep => DeploymentStep
<1> SUFFICES ASSUME "config" \notin Lagging, TS, IInv, AnyStep, Live(gr), gr.uid = 1,
                    obj'["deployment"] # obj["deployment"], obj'["deployment"] # Absent
             PROVE  /\ Present("config") /\ obj["config"].v = obj'["deployment"].v.config
                    /\ Present("secret") /\ Present("account")
                    /\ (w.cr.spec.pvc => Present("pvc"))
  BY DEF DeploymentStep
<1>0. StagesOK /\ PassOK
  BY DEF IInv
<1>1. CASE Elsewhere
  BY <1>1 DEF Elsewhere, Made
<1>2. CASE OfAStage
  <2>1. PICK o \in Outcomes : \/ MovesSecret(o) \/ MovesConfig(o) \/ MovesSimple(o)
                              \/ MovesIngress(o) \/ MovesPlugins(o) \/ MovesDeployment(o)
    BY <1>2 DEF OfAStage
  <2>2. ASSUME NEW k \in Kinds, k # "deployment", NEW stage, NEW v, NEW url, NEW hash, NEW plugins,
               Moves(stage, k, v, o, url, hash, plugins)
        PROVE  FALSE
    BY <2>2, MovesOne, EachKind
  <2>3. Moves("deployment", "deployment", Template, o, w.next.url, w.hash, w.plugins)
    BY <2>1, <2>2, EachKind
       DEF MovesSecret, MovesConfig, MovesSimple, MovesIngress, MovesPlugins, MovesDeployment
  <2>4. obj'["deployment"] = Asked("deployment", Template)
    BY <2>3, MovesOne, EachKind
  <2>5. obj'["deployment"].v.config = w.hash
    BY <2>4 DEF Asked, Template
  <2>6. w.next.stage = "deployment" /\ w.pc = "run" /\ FirstAlive
    BY <1>2, <2>3 DEF Moves, OfAStage, FirstAlive
  <2>7. SecretThere /\ ConfigThere /\ PvcThere /\ AccountThere
    BY <1>0, <2>6, StagesMean
  <2>8. QED BY <2>5, <2>7 DEF SecretThere, ConfigThere, PvcThere, AccountThere, Present
<1>3. QED BY <1>0, <1>1, <1>2, ElsewhereSteps

\* The controller's own writes of the status leave the lists alone.
ContentStep == Controller => gr'.status.list = gr.status.list

LEMMA ContentSteps == TS /\ IInv => ContentStep
<1> SUFFICES ASSUME TS, IInv, Controller
             PROVE  gr'.status.list = gr.status.list
  BY DEF ContentStep
<1>0. CopiesOK /\ PassOK
  BY DEF IInv
<1>1. CASE Dequeue
  BY <1>1 DEF Dequeue
<1>2. ASSUME NEW o \in Outcomes, UpdateStatus(o)
      PROVE  gr'.status.list = gr.status.list
  <2>1. CASE UNCHANGED clusterVars
    BY <2>1 DEF clusterVars
  <2>2. CASE StatusAccepted(o) /\ WriteGrafana([gr EXCEPT !.status = w.next])
    <3>1. gr'.status = w.next
      BY <2>2, StatusWrite DEF TS, WorkerTypes, WriteGrafana
    <3>2. w.cr = gr
      BY <1>0, <1>2, <2>2 DEF StatusAccepted, UpdateStatus, CopiesOK, GrafanaCopiesOK
    <3>3. w.next.list = w.cr.status.list
      BY <1>0, <1>2 DEF UpdateStatus, PassOK
    <3>4. QED BY <3>1, <3>2, <3>3
  <2>3. QED BY <1>2, <2>1, <2>2 DEF UpdateStatus
<1>3. ASSUME NEW o \in Outcomes, ReconcileStep(o), ~UpdateStatus(o)
      PROVE  gr' = gr
  BY <1>3, AnyMoves DEF TS, Moves, Unmoved, clusterVars
<1>4. QED BY <1>1, <1>2, <1>3 DEF Controller

-----------------------------------------------------------------------------
(* The theorems *)

LEMMA Inductive ==
  /\ Init => TS /\ IInv
  /\ TS /\ IInv /\ [Next]_vars => (TS /\ IInv)'
  /\ TS /\ IInv /\ [AccessNext]_varsAccess => (TS /\ IInv)'
BY InitIInv, NextIInv DEF AnyStep

(* The variables of the Grafana controller keep their types, for any specs,*)
(* passwords, plugins and kinds with late caches, and any number of        *)
(* Grafanas of the name, one after the other.                              *)
THEOREM GrafanaTypeCorrect == Spec => []TypeOK
<1>1. TS => TypeOK
  BY TSisTypeAndShape
<1>2. QED BY <1>1, Inductive, PTL DEF Spec

(* The invariant the properties below rest on: copies nobody overtook      *)
(* equal their object, a pass carries along the lists it found, and what   *)
(* the stages behind have made is there.                                   *)
THEOREM Invariance == Spec => []IInv
BY Inductive, PTL DEF Spec

(* The same beside a load balancer and a kubelet *)
THEOREM AccessInvariance == AccessSpec => []IInv
BY Inductive, PTL DEF AccessSpec, AccessInit

(* A Grafana reported ready has a url (dashboard_controller.go:194-195),   *)
(* when a Route is sure to have a host.                                    *)
THEOREM ReadyUrl == UrlCertain => (AccessSpec => []ReadyHasUrl)
<1>1. ASSUME UrlCertain PROVE IInv => ReadyHasUrl
  BY <1>1 DEF IInv, UrlOK
<1>2. SUFFICES ASSUME UrlCertain PROVE AccessSpec => []ReadyHasUrl
  OBVIOUS
<1>3. IInv => ReadyHasUrl
  BY <1>1, <1>2
<1>4. QED BY <1>3, AccessInvariance, PTL

(* No pass draws a password anew for a Secret that is there, however old   *)
(* the cached copy it looks at (admin_secret_reconciler.go:52).            *)
THEOREM PasswordIsKept == Spec => PasswordKept
<1>1. TS /\ IInv /\ [Next]_vars => [PasswordStep]_vars
  BY PasswordSteps DEF AnyStep
<1>2. Spec => [][PasswordStep]_vars
  BY <1>1, Inductive, PTL DEF Spec
<1>3. QED BY <1>2, PTL DEF PasswordKept, PasswordStep

(* Pods are told of a configuration only when it and all else they refer   *)
(* to is there (deployment_reconciler.go:159-163), when the cache of       *)
(* ConfigMaps is not late; all other caches may be.                        *)
THEOREM PodsFind == "config" \notin Lagging => (Spec => PodsFindEverything)
<1> SUFFICES ASSUME "config" \notin Lagging PROVE Spec => PodsFindEverything
  OBVIOUS
<1>1. TS /\ IInv /\ [Next]_vars => [DeploymentStep]_vars
  BY DeploymentSteps DEF AnyStep
<1>2. Spec => [][DeploymentStep]_vars
  BY <1>1, Inductive, PTL DEF Spec
<1>3. QED BY <1>2 DEF PodsFindEverything, DeploymentStep

(* The whole status is rewritten in every pass, and what the content       *)
(* controllers recorded in it meanwhile is never dropped (lines 129-138).  *)
THEOREM ContentIsKept == Spec => ContentKept
<1>1. TS /\ IInv /\ [Next]_vars => [ContentStep]_vars
  BY ContentSteps
<1>2. Spec => [][ContentStep]_vars
  BY <1>1, Inductive, PTL DEF Spec
<1>3. QED BY <1>2 DEF ContentKept, ContentStep

-----------------------------------------------------------------------------
(* The password a running Grafana took, and the one the operator logs in   *)
(* with: the order of configurations                                       *)

\* Unlike NotNewer's definition, what the provers are to know of it.
OrderOK(before) ==
    /\ \A c, d, e \in Configs : NotNewer(before, c, d) /\ NotNewer(before, d, e) => NotNewer(before, c, e)
    /\ \A c, d \in Configs : NotNewer(before, c, d) /\ NotNewer(before, d, c) => c = d
    /\ \A c : NotNewer(before, c, c)
    /\ \A step \in SpecSteps : NotNewer(before, step[1].config, step[2].config)

LEMMA ConfigOrder ==
  ASSUME NEW before, ConfigsForward(before)
  PROVE  OrderOK(before)
<1>1. IsTransitive(before, Configs) /\ IsAntiSymmetric(before, Configs)
  BY DEF ConfigsForward, GoesForward, IsStrictlyPartiallyOrdered
<1>2. \A c, d, e \in Configs : before[c, d] /\ before[d, e] => before[c, e]
  BY <1>1, Zenon DEF IsTransitive
<1>3. \A c, d \in Configs : before[c, d] /\ before[d, c] => c = d
  BY <1>1, Zenon DEF IsAntiSymmetric
<1>4. ASSUME NEW step \in SpecSteps
      PROVE  NotNewer(before, step[1].config, step[2].config)
  <2> DEFINE steps == {<<t[1].config, t[2].config>> : t \in SpecSteps}
             pair == <<step[1].config, step[2].config>>
  <2>1. pair \in steps /\ pair[1] = step[1].config /\ pair[2] = step[2].config
    OBVIOUS
  <2>2. \A p \in steps : p[1] # p[2] => before[p[1], p[2]]
    BY Zenon DEF ConfigsForward, GoesForward
  <2> HIDE DEF pair, steps
  <2>3. pair[1] # pair[2] => before[pair[1], pair[2]]
    BY <2>1, <2>2, Zenon
  <2>4. QED BY <2>1, <2>3, Zenon DEF NotNewer
<1>5. \A c, d, e \in Configs : NotNewer(before, c, d) /\ NotNewer(before, d, e) => NotNewer(before, c, e)
  BY <1>2, Zenon DEF NotNewer
<1>6. \A c, d \in Configs : NotNewer(before, c, d) /\ NotNewer(before, d, c) => c = d
  BY <1>3, Zenon DEF NotNewer
<1>7. \A c : NotNewer(before, c, c)
  BY Zenon DEF NotNewer
<1>8. QED BY <1>4, <1>5, <1>6, <1>7 DEF OrderOK

-----------------------------------------------------------------------------
(* How the resource, its copies and the pod move *)

AccessStep == [AccessNext]_varsAccess

\* Only an edit changes the spec of a Grafana that is there.
SpecEdited ==
    /\ UNCHANGED <<grcache, objVars, w>>
    /\ \E step \in SpecSteps : gr.spec = step[1] /\ gr'.spec = step[2]

LEMMA SpecMoves ==
  ASSUME TS, PassOK, FirstAlive, FirstAlive', AnyStep
  PROVE  gr'.spec = gr.spec \/ SpecEdited
<1>0. gr \in Resource
  BY DEF TS, GrafanaTypes
<1>1. CASE OfAStage
  <2>1. PICK o \in Outcomes : \/ MovesSecret(o) \/ MovesConfig(o) \/ MovesSimple(o)
                              \/ MovesIngress(o) \/ MovesPlugins(o) \/ MovesDeployment(o)
    BY <1>1 DEF OfAStage
  <2>2. Unmoved
    BY <2>1 DEF MovesSecret, MovesConfig, MovesSimple, MovesIngress, MovesPlugins,
                MovesDeployment, Moves
  <2>3. QED BY <2>2 DEF Unmoved, clusterVars
<1>2. ASSUME NEW o, UpdateStatus(o) PROVE gr'.spec = gr.spec
  <2>1. CASE UNCHANGED clusterVars
    BY <2>1 DEF clusterVars
  <2>2. CASE WriteGrafana([gr EXCEPT !.status = w.next])
    BY <2>2, StatusWrite DEF WriteGrafana, TS, WorkerTypes
  <2>3. QED BY <1>2, <2>1, <2>2 DEF UpdateStatus
<1>3. CASE EditsGrafana
  <2>1. UNCHANGED <<objVars, w>>
    BY <1>3, EditSteps DEF TS
  <2>2. CASE CreateGrafana
    BY <2>2 DEF CreateGrafana, FirstAlive
  <2>3. CASE EditGrafana
    <3>1. PICK step \in SpecSteps : gr.spec = step[1] /\ WriteGrafana([gr EXCEPT !.spec = step[2]])
      BY <2>3 DEF EditGrafana
    <3>2. gr'.spec = step[2] /\ grcache' = grcache
      BY <1>0, <3>1 DEF WriteGrafana, Resource
    <3>3. QED BY <2>1, <3>1, <3>2 DEF SpecEdited
  <2>4. CASE DeleteGrafana
    BY <2>4 DEF DeleteGrafana, WriteGrafana, Gone, FirstAlive, Live
  <2>5. CASE \E c \in Content : RecordContent(c)
    <3>1. PICK c : WriteGrafana([gr EXCEPT !.status.list = IF c \in @ THEN @ \ {c} ELSE @ \cup {c}])
      BY <2>5 DEF RecordContent
    <3>2. QED BY <1>0, <3>1 DEF WriteGrafana, Resource
  <2>6. QED BY <1>3, <2>2, <2>3, <2>4, <2>5 DEF EditsGrafana
<1>4. CASE Dequeue
  BY <1>4 DEF Dequeue
<1>5. QED BY <1>1, <1>2, <1>3, <1>4, WhoseStep

\* The cache takes the resource over only when nobody writes it.
LEMMA CacheMoves ==
  ASSUME TS, PassOK, AnyStep
  PROVE  grcache' = grcache \/ (gr' = gr /\ grcache' = gr)
<1>1. ASSUME NEW o \in Outcomes, ReconcileStep(o) PROVE grcache' = grcache
  BY <1>1, AnyMoves DEF TS, UpdateStatus, WriteGrafana, Moves, Unmoved, clusterVars
<1>2. CASE EditsGrafana
  BY <1>2, EditSteps DEF TS, WriteGrafana
<1>3. CASE EditsObject
  BY <1>3, ObjectEditSteps DEF TS, clusterVars
<1>4. CASE Dequeue \/ Crash \/ Start \/ SyncGrafanaCache \/ Relist \/ UNCHANGED vars
  BY <1>4 DEF Dequeue, Crash, Start, SyncGrafanaCache, Relist, vars, clusterVars
<1>5. ASSUME NEW k \in Kinds, Touch(k) \/ SyncObjectCache(k) PROVE grcache' = grcache
  BY <1>5 DEF Touch, SyncObjectCache, clusterVars
<1>6. ASSUME NEW ks \in Collections, CollectGarbage(ks) PROVE grcache' = grcache
  BY <1>6 DEF CollectGarbage, clusterVars
<1>7. QED BY <1>1, <1>2, <1>3, <1>4, <1>5, <1>6, AllSteps

\* A pass keeps the copy it began with, which was the cache's.
LEMMA PassMoves ==
  ASSUME TS, AnyStep, w'.pc # "idle"
  PROVE  \/ w.pc # "idle" /\ w'.cr = w.cr
         \/ Live(grcache) /\ w'.cr = grcache /\ grcache' = grcache
<1>1. CASE OfAStage
  <2>1. PICK o \in Outcomes : \/ MovesSecret(o) \/ MovesConfig(o) \/ MovesSimple(o)
                              \/ MovesIngress(o) \/ MovesPlugins(o) \/ MovesDeployment(o)
    BY <1>1 DEF OfAStage
  <2>2. (\E url, hash, plugins : Continues(url, hash, plugins)) \/ \E result : Stops(result)
    BY <2>1 DEF MovesSecret, MovesConfig, MovesSimple, MovesIngress, MovesPlugins,
                MovesDeployment, Moves
  <2>3. ASSUME NEW result, Stops(result) PROVE w'.cr = w.cr
    BY <2>3 DEF Stops
  <2>4. w'.cr = w.cr
    BY <2>2, <2>3, ContinuesTo
  <2>5. QED BY <1>1, <2>4 DEF OfAStage
<1>2. ASSUME NEW o, UpdateStatus(o) PROVE FALSE
  BY <1>2 DEF UpdateStatus, Worker0
<1>3. CASE Dequeue
  <2>1. Live(grcache)
    BY <1>3 DEF Dequeue, Begin, Worker0
  <2>2. w' = Begin(grcache)
    BY <1>3 DEF Dequeue
  <2>3. w'.cr = grcache
    BY <2>1, <2>2 DEF Begin, Worker0
  <2>4. QED BY <1>3, <2>1, <2>3 DEF Dequeue
<1>4. CASE EditsGrafana
  BY <1>4, EditSteps DEF TS
<1>5. CASE gr' = gr /\ (w' = w \/ w' = Worker0)
  BY <1>5 DEF Worker0
<1>6. QED BY <1>1, <1>2, <1>3, <1>4, <1>5, WhoseStep

\* A pod is as it was, or is gone, or is started of what is there.
Started ==
    /\ Present("deployment") /\ Present("secret") /\ UNCHANGED vars
    /\ pod' = [of |-> obj["deployment"], password |-> obj["secret"].v]

LEMMA PodMoves ==
  ASSUME AccessStep
  PROVE  pod' = pod \/ (pod' = Absent /\ UNCHANGED vars) \/ Started
BY DEF AccessStep, AccessNext, Surroundings, StartPod, LosePod, LoadBalancer, varsAccess, Started

\* A Deployment is written by its stage alone, for the hash of the configuration, ...
LEMMA DeploymentMoves ==
  ASSUME TS, PassOK, AnyStep, obj'["deployment"] # obj["deployment"], obj'["deployment"] # Absent
  PROVE  /\ w.pc = "run" /\ w.next.stage = "deployment" /\ obj'["deployment"].v.config = w.hash
         /\ UNCHANGED clusterVars /\ obj'["secret"] = obj["secret"]
<1>1. CASE Elsewhere
  BY <1>1 DEF Elsewhere, Made
<1>2. CASE OfAStage
  <2>1. PICK o \in Outcomes : \/ MovesSecret(o) \/ MovesConfig(o) \/ MovesSimple(o)
                              \/ MovesIngress(o) \/ MovesPlugins(o) \/ MovesDeployment(o)
    BY <1>2 DEF OfAStage
  <2>2. ASSUME NEW k \in Kinds, k # "deployment", NEW stage, NEW v, NEW url, NEW hash, NEW plugins,
               Moves(stage, k, v, o, url, hash, plugins)
        PROVE  FALSE
    BY <2>2, MovesOne, EachKind
  <2>3. Moves("deployment", "deployment", Template, o, w.next.url, w.hash, w.plugins)
    BY <2>1, <2>2, EachKind
       DEF MovesSecret, MovesConfig, MovesSimple, MovesIngress, MovesPlugins, MovesDeployment
  <2>4. /\ obj'["deployment"] = Asked("deployment", Template)
        /\ UNCHANGED clusterVars /\ obj'["secret"] = obj["secret"]
    BY <2>3, MovesOne, EachKind
  <2>5. obj'["deployment"].v.config = w.hash
    BY <2>4 DEF Asked, Template
  <2>6. w.pc = "run" /\ w.next.stage = "deployment"
    BY <1>2, <2>3 DEF Moves, OfAStage
  <2>7. QED BY <2>4, <2>5, <2>6
<1>3. QED BY <1>1, <1>2, ElsewhereSteps

\* ... and a Secret, while the first Grafana is there, for what its pass works on.
LEMMA SecretMoves ==
  ASSUME "secret" \notin Lagging, TS, IInv, AnyStep, FirstAlive', obj'["secret"] # obj["secret"]
  PROVE  /\ w.pc = "run" /\ UNCHANGED clusterVars /\ obj'["secret"] # Absent
         /\ obj'["secret"].v \in AdminPassword(w.cr.spec, obj["secret"])
         /\ obj'["deployment"] = obj["deployment"]
<1>0. CopiesOK /\ PassOK
  BY DEF IInv
<1>1. CASE Elsewhere
  BY <1>1, EachKind DEF Elsewhere, Made
<1>2. CASE OfAStage
  <2>1. PICK o \in Outcomes : \/ MovesSecret(o) \/ MovesConfig(o) \/ MovesSimple(o)
                              \/ MovesIngress(o) \/ MovesPlugins(o) \/ MovesDeployment(o)
    BY <1>2 DEF OfAStage
  <2>2. ASSUME NEW k \in Kinds, k # "secret", NEW stage, NEW v, NEW url, NEW hash, NEW plugins,
               Moves(stage, k, v, o, url, hash, plugins)
        PROVE  FALSE
    BY <2>2, MovesOne, EachKind
  <2>3. MovesSecret(o)
    BY <2>1, <2>2, EachKind
       DEF MovesConfig, MovesSimple, MovesIngress, MovesPlugins, MovesDeployment
  <2>4. PICK password \in AdminPassword(w.cr.spec, ocache["secret"]) :
          Moves("admin user", "secret", password, o, w.next.url, w.hash, w.plugins)
    BY <2>3 DEF MovesSecret
  <2>5. /\ UNCHANGED clusterVars /\ obj'["deployment"] = obj["deployment"]
        /\ obj'["secret"] = Asked("secret", password)
    BY <2>4, MovesOne, EachKind
  <2>6. ocache["secret"] = obj["secret"]
    BY <1>0, EachKind DEF CopiesOK, ObjectCopiesOK, TS, ObjectTypes
  <2>7. obj'["secret"] # Absent /\ obj'["secret"].v = password
    <3>1. Asked("secret", password) # Absent
      BY <1>0, <1>2, <2>4, AskedPresent DEF AskedOK, OfAStage
    <3>2. Asked("secret", password).v = password
      BY DEF Asked
    <3>3. QED BY <2>5, <3>1, <3>2
  <2>8. QED BY <1>2, <2>4, <2>5, <2>6, <2>7 DEF OfAStage
<1>3. QED BY <1>0, <1>1, <1>2, ElsewhereSteps

-----------------------------------------------------------------------------
(* What a Deployment with the present configuration says *)

AI(before) == TS /\ IInv /\ AccessInv(before)

LEMMA SpecTypes ==
  ASSUME TS
  PROVE  \A g \in {gr, grcache, w.cr} : Live(g) => g.spec \in Specs /\ g.spec.config \in Configs
BY DEF TS, GrafanaTypes, WorkerTypes, Resource, Live, Configs

LEMMA TrailsMean ==
  ASSUME NEW before, AI(before), FirstAlive
  PROVE  /\ w.pc # "idle" \/ Deployments # {Absent} => Live(grcache)
         /\ Live(grcache) => ConfigsTrail(before)
         /\ SecretFirst
BY DEF AI, AccessInv, FirstAlive

\* The pass, if any, has the present configuration too, for it is between the two.
LEMMA DeployedTrails ==
  ASSUME NEW before, OrderOK(before), AI(before), FirstAlive, NEW d \in Deployments \ {Absent}
  PROVE  /\ d.v.config \in Configs /\ NotNewer(before, d.v.config, gr.spec.config)
         /\ w.pc # "idle" /\ d.v.config = gr.spec.config => w.cr.spec.config = gr.spec.config
<1>0. TS /\ PassOK
  BY DEF AI, IInv
<1>1. Live(grcache) /\ ConfigsTrail(before)
  BY TrailsMean
<1>2. /\ d.v.config \in Configs /\ NotNewer(before, d.v.config, grcache.spec.config)
      /\ NotNewer(before, grcache.spec.config, gr.spec.config)
      /\ w.pc # "idle" => /\ NotNewer(before, d.v.config, w.cr.spec.config)
                          /\ NotNewer(before, w.cr.spec.config, grcache.spec.config)
  BY <1>1 DEF ConfigsTrail
<1>3. gr.spec.config \in Configs /\ grcache.spec.config \in Configs
  BY <1>0, <1>1, SpecTypes DEF FirstAlive
<1>4. w.pc # "idle" => w.cr.spec.config \in Configs
  BY <1>0, SpecTypes DEF PassOK
<1>5. NotNewer(before, d.v.config, gr.spec.config)
  BY <1>2, <1>3 DEF OrderOK
<1>6. ASSUME w.pc # "idle", d.v.config = gr.spec.config
      PROVE  w.cr.spec.config = gr.spec.config
  <2>1. NotNewer(before, w.cr.spec.config, gr.spec.config)
    BY <1>2, <1>3, <1>4, <1>6 DEF OrderOK
  <2>2. NotNewer(before, gr.spec.config, w.cr.spec.config)
    BY <1>2, <1>6
  <2>3. QED BY <1>3, <1>4, <1>6, <2>1, <2>2 DEF OrderOK
<1>7. QED BY <1>2, <1>5, <1>6

LEMMA EditTypes == \A step \in SpecSteps : step[1] \in Specs /\ step[2] \in Specs
BY GrafanaAssumption

LEMMA SamePassword ==
  ASSUME NEW s \in Specs, NEW t \in Specs, s.config = t.config
  PROVE  s.password = t.password
BY AccessAssumption

\* So no step takes the Secret of such a Deployment away or changes it.
LEMMA StillSuits ==
  ASSUME "secret" \notin Lagging, NEW before, OrderOK(before), AI(before),
         AnyStep, FirstAlive, FirstAlive', NEW d \in Deployments \ {Absent},
         d.v.config = gr'.spec.config
  PROVE  /\ d.v.config = gr.spec.config /\ gr'.spec.password = gr.spec.password
         /\ Suits(gr.spec) /\ Present("secret")' /\ obj'["secret"].v = obj["secret"].v
<1>0. TS /\ IInv /\ PassOK
  BY DEF AI, IInv
<1>1. gr.spec \in Specs /\ gr.spec.config \in Configs
  BY <1>0, SpecTypes DEF FirstAlive
<1>2. d.v.config = gr.spec.config /\ gr'.spec.password = gr.spec.password
  <2>1. CASE SpecEdited
    <3>1. PICK step \in SpecSteps : gr.spec = step[1] /\ gr'.spec = step[2]
      BY <2>1 DEF SpecEdited
    <3>2. gr'.spec \in Specs
      BY <3>1, EditTypes
    <3>4. NotNewer(before, gr.spec.config, d.v.config)
      BY <3>1 DEF OrderOK
    <3>5. NotNewer(before, d.v.config, gr.spec.config) /\ d.v.config \in Configs
      BY DeployedTrails
    <3>6. d.v.config = gr.spec.config
      BY <1>1, <3>4, <3>5 DEF OrderOK
    <3>7. QED BY <1>1, <3>2, <3>6, SamePassword
  <2>2. CASE gr'.spec = gr.spec
    BY <2>2
  <2>3. QED BY <1>0, <2>1, <2>2, SpecMoves
<1>3. Suits(gr.spec)
  BY <1>2, TrailsMean DEF SecretFirst
<1>4. CASE obj'["secret"] = obj["secret"]
  BY <1>2, <1>3, <1>4 DEF Suits, Present
<1>5. CASE obj'["secret"] # obj["secret"]
  <2>1. /\ w.pc = "run" /\ UNCHANGED clusterVars /\ obj'["secret"] # Absent
        /\ obj'["secret"].v \in AdminPassword(w.cr.spec, obj["secret"])
    BY <1>0, <1>5, SecretMoves
  <2>2. w.cr.spec \in Specs /\ w.cr.spec.config = gr.spec.config
    BY <1>0, <1>2, <2>1, SpecTypes, DeployedTrails DEF PassOK
  <2>3. w.cr.spec.password = gr.spec.password
    BY <1>1, <2>2, SamePassword
  <2>4. obj'["secret"].v = obj["secret"].v
    BY <1>3, <2>1, <2>3 DEF AdminPassword, Suits, Present
  <2>5. QED BY <1>2, <1>3, <2>1, <2>4 DEF Present
<1>6. QED BY <1>4, <1>5

-----------------------------------------------------------------------------
(* The invariant is kept *)

\* Nothing is there before the first Grafana is.
LEMMA FirstCreated ==
  ASSUME NEW before, AI(before), AccessStep, AnyStep, gr.uid = 0, FirstAlive'
  PROVE  /\ w'.pc = "idle" /\ ~Live(grcache') /\ pod' = Absent
         /\ obj'["deployment"] = Absent
<1>0. TS /\ PassOK
  BY DEF AI, IInv
<1>1. w.pc = "idle" /\ obj["deployment"] = Absent
  BY <1>0, NothingYet, EachKind
<1>2. pod = Absent
  BY DEF AI, AccessInv
<1>3. gr' # gr
  BY DEF FirstAlive
<1>4. pod' = Absent
  BY <1>2, <1>3, PodMoves DEF Started, vars, clusterVars
<1>5. EditsGrafana
  BY <1>0, <1>1, <1>3, WhoseStep DEF OfAStage, UpdateStatus, Dequeue
<1>6. UNCHANGED <<objVars, w, grcache>>
  BY <1>0, <1>5, EditSteps DEF TS, WriteGrafana
<1>7. ~Live(grcache)
  <2>1. grcache \in Resource /\ grcache.uid <= gr.uid /\ (Live(grcache) => grcache.uid > 0)
    BY <1>0 DEF TS, GrafanaTypes
  <2>2. QED BY <2>1, UidType
<1>8. QED BY <1>1, <1>4, <1>6, <1>7 DEF objVars

\* A Deployment, or a pod's, is an earlier one, or was made in this step.
Deployed(d) ==
    /\ w.pc = "run" /\ w.next.stage = "deployment" /\ d.v.config = w.hash
    /\ UNCHANGED clusterVars /\ obj'["secret"] = obj["secret"]

LEMMA DeploymentsMove ==
  ASSUME TS, PassOK, AccessStep, AnyStep, NEW d \in Deployments' \ {Absent}
  PROVE  d \in Deployments \ {Absent} \/ Deployed(d)
<1>1. CASE d = obj'["deployment"]
  BY <1>1, DeploymentMoves DEF Deployed, Deployments
<1>2. CASE pod' # Absent /\ d = pod'.of
  <2>1. CASE pod' = pod
    BY <1>2, <2>1 DEF Deployments
  <2>2. CASE Started
    <3>1. d = obj["deployment"]
      BY <1>2, <2>2 DEF Started
    <3>2. QED BY <3>1 DEF Deployments
  <2>3. QED BY <1>2, <2>1, <2>2, PodMoves
<1>3. QED BY <1>1, <1>2 DEF Deployments

\* What is made in this step is made for the configuration of the pass.
LEMMA DeployedNow ==
  ASSUME NEW before, AI(before), FirstAlive, NEW d, Deployed(d)
  PROVE  d.v.config = w.cr.spec.config /\ Suits(w.cr.spec) /\ w.pc # "idle"
BY TrailsMean DEF Deployed, SecretFirst

\* The cache knows of the Grafana when there is a pass or a Deployment.
LEMMA CacheKnows ==
  ASSUME NEW before, AI(before), AccessStep, AnyStep, FirstAlive, FirstAlive',
         w'.pc # "idle" \/ Deployments' # {Absent}
  PROVE  Live(grcache)'
<1>0. TS /\ PassOK
  BY DEF AI, IInv
<1>1. CASE grcache' = gr
  BY <1>1 DEF FirstAlive, Live
<1>2. CASE grcache' = grcache
  <2>1. w'.pc # "idle" => Live(grcache)
    BY <1>0, PassMoves, TrailsMean
  <2>2. ASSUME NEW d \in Deployments' \ {Absent} PROVE Live(grcache)
    BY <1>0, <2>2, DeploymentsMove, DeployedNow, TrailsMean DEF Deployments
  <2>3. Deployments' # {Absent} => \E d \in Deployments' : d # Absent
    BY DEF Deployments
  <2>4. Live(grcache)
    BY <2>1, <2>2, <2>3
  <2>5. QED BY <1>2, <2>4 DEF Live
<1>3. QED BY <1>0, <1>1, <1>2, CacheMoves

LEMMA TrailStep ==
  ASSUME NEW before, OrderOK(before), AI(before), AccessStep, AnyStep, FirstAlive, FirstAlive',
         TS', PassOK', Live(grcache)'
  PROVE  ConfigsTrail(before)'
<1>0. TS /\ PassOK
  BY DEF AI, IInv
<1> DEFINE Older(c, d) == NotNewer(before, c, d)
<1>1. /\ gr.spec.config \in Configs /\ gr'.spec.config \in Configs
      /\ grcache'.spec.config \in Configs
      /\ Live(grcache) => grcache.spec.config \in Configs
  BY <1>0, SpecTypes DEF FirstAlive, Live, TS, GrafanaTypes, Resource, Configs
<1>2. Older(gr.spec.config, gr'.spec.config)
  BY <1>0, SpecMoves DEF SpecEdited, OrderOK
<1>3. \/ gr' = gr /\ grcache' = gr
      \/ grcache' = grcache /\ Live(grcache)
  BY <1>0, CacheMoves DEF Live
<1>4. Live(grcache) => Older(grcache.spec.config, gr.spec.config)
  BY TrailsMean DEF ConfigsTrail
<1>5. Older(grcache'.spec.config, gr'.spec.config)
  BY <1>1, <1>2, <1>3, <1>4 DEF OrderOK
<1>6. Live(grcache) => Older(grcache.spec.config, grcache'.spec.config)
  BY <1>3, <1>4 DEF OrderOK
<1>7. ASSUME w'.pc # "idle"
      PROVE  /\ w'.cr.spec.config \in Configs
             /\ Older(w'.cr.spec.config, grcache'.spec.config)
  <2>1. w'.cr.spec.config \in Configs
    BY <1>7 DEF TS, WorkerTypes, PassOK, Resource, Live, Configs
  <2>2. CASE w.pc # "idle" /\ w'.cr = w.cr
    <3>1. Live(grcache) /\ Older(w.cr.spec.config, grcache.spec.config)
      BY <2>2, TrailsMean DEF ConfigsTrail
    <3>2. QED BY <1>1, <1>6, <2>1, <2>2, <3>1 DEF OrderOK
  <2>3. CASE w'.cr = grcache /\ grcache' = grcache
    BY <2>1, <2>3 DEF OrderOK
  <2>4. QED BY <1>0, <1>7, <2>1, <2>2, <2>3, PassMoves
<1>8. ASSUME NEW d \in Deployments' \ {Absent}
      PROVE  /\ d.v.config \in Configs /\ Older(d.v.config, grcache'.spec.config)
             /\ w'.pc # "idle" => Older(d.v.config, w'.cr.spec.config)
  <2>1. CASE d \in Deployments \ {Absent}
    <3>1. Live(grcache) /\ ConfigsTrail(before)
      BY <2>1, TrailsMean
    <3>2. /\ d.v.config \in Configs /\ Older(d.v.config, grcache.spec.config)
          /\ w.pc # "idle" => Older(d.v.config, w.cr.spec.config)
      BY <2>1, <3>1 DEF ConfigsTrail
    <3>3. Older(d.v.config, grcache'.spec.config)
      BY <1>1, <1>6, <3>1, <3>2 DEF OrderOK
    <3>4. w'.pc # "idle" => Older(d.v.config, w'.cr.spec.config)
      BY <1>0, <3>2, PassMoves
    <3>5. QED BY <3>2, <3>3, <3>4
  <2>2. CASE Deployed(d)
    <3>1. d.v.config = w.cr.spec.config /\ w.pc # "idle"
      BY <2>2, DeployedNow
    <3>2. Live(grcache) /\ grcache' = grcache
      BY <2>2, <3>1, TrailsMean DEF Deployed, clusterVars
    <3>3. Older(w.cr.spec.config, grcache.spec.config) /\ w.cr.spec.config \in Configs
      BY <1>0, <3>1, <3>2, TrailsMean, SpecTypes DEF ConfigsTrail, PassOK
    <3>4. w'.pc # "idle" => Older(d.v.config, w'.cr.spec.config)
      BY <1>0, <3>1, <3>3, PassMoves DEF OrderOK
    <3>5. QED BY <3>1, <3>2, <3>3, <3>4
  <2>3. QED BY <1>0, <1>8, <2>1, <2>2, DeploymentsMove
<1>9. QED BY <1>5, <1>7, <1>8 DEF ConfigsTrail

LEMMA SecretGoesOn ==
  ASSUME TS, w'.pc = "run", NEW password, NEW o, NEW url, NEW hash, NEW plugins,
         Moves("admin user", "secret", password, o, url, hash, plugins)
  PROVE  w'.next.stage = "config" /\ w'.cr = w.cr /\ Succeeds("secret", password, o)
<1>1. "secret" # "plugins"
  OBVIOUS
<1>2. /\ w'.next.stage = After("admin user", w.cr.spec) /\ w'.cr = w.cr
      /\ "secret" = "plugins" \/ Succeeds("secret", password, o)
  BY StageGoesOn, EachKind
<1>3. QED BY <1>1, <1>2, AfterSteps

LEMMA OthersGoOn ==
  ASSUME TS, w'.pc = "run", NEW k \in Kinds, k # "secret", NEW stage, NEW v, NEW o, NEW url,
         NEW hash, NEW plugins, Moves(stage, k, v, o, url, hash, plugins)
  PROVE  /\ w.next.stage = stage /\ w'.cr = w.cr /\ w'.hash = hash
         /\ obj'["secret"] = obj["secret"]
BY StageGoesOn, EachKind

LEMMA SecretFirstStep ==
  ASSUME "secret" \notin Lagging, NEW before, OrderOK(before), AI(before), AccessStep, AnyStep,
         FirstAlive, FirstAlive'
  PROVE  SecretFirst'
<1>0. TS /\ IInv /\ CopiesOK /\ KeptOK /\ PassOK
  BY DEF AI, IInv
<1>1. SecretFirst
  BY TrailsMean
<1>2. /\ w'.pc = "run" /\ w'.next.stage # "admin user" => Suits(w.cr.spec)'
      /\ w'.pc = "run" /\ w'.next.stage \notin {"admin user", "config"} => w'.hash = w'.cr.spec.config
  <2> SUFFICES ASSUME w'.pc = "run", w'.next.stage # "admin user"
               PROVE  /\ Suits(w.cr.spec)'
                      /\ w'.next.stage # "config" => w'.hash = w'.cr.spec.config
    OBVIOUS
  <2>1. CASE Elsewhere
    <3>1. w' = w /\ obj'["secret"] = obj["secret"]
      BY <2>1, EachKind DEF Elsewhere, Made
    <3>2. QED BY <1>1, <3>1 DEF SecretFirst, Suits, Present
  <2>2. CASE OfAStage
    <3>0. PICK o \in Outcomes : \/ MovesSecret(o) \/ MovesConfig(o) \/ MovesSimple(o)
                                \/ MovesIngress(o) \/ MovesPlugins(o) \/ MovesDeployment(o)
      BY <2>2 DEF OfAStage
    <3>1. ASSUME NEW k \in Kinds, k # "secret", NEW stage, stage # "admin user", NEW v, NEW url,
                 NEW hash, NEW plugins, Moves(stage, k, v, o, url, hash, plugins),
                 \/ stage # "config" /\ hash = w.hash
                 \/ hash = w.cr.spec.config
          PROVE  /\ Suits(w.cr.spec)'
                 /\ w'.next.stage # "config" => w'.hash = w'.cr.spec.config
      <4>1. /\ w.next.stage = stage /\ w'.cr = w.cr /\ w'.hash = hash
            /\ obj'["secret"] = obj["secret"]
        BY <1>0, <3>1, OthersGoOn
      <4>2. Suits(w.cr.spec) /\ (stage # "config" => w.hash = w.cr.spec.config)
        BY <1>1, <2>2, <3>1, <4>1 DEF SecretFirst, OfAStage
      <4>3. QED BY <3>1, <4>1, <4>2 DEF Suits, Present
    <3>2. CASE MovesSecret(o)
      <4>1. PICK password \in AdminPassword(w.cr.spec, ocache["secret"]) :
              Moves("admin user", "secret", password, o, w.next.url, w.hash, w.plugins)
        BY <3>2 DEF MovesSecret
      <4>2. w'.next.stage = "config" /\ w'.cr = w.cr /\ Succeeds("secret", password, o)
        BY <1>0, <4>1, SecretGoesOn
      <4>4. Asked("secret", password) # Absent
        BY <1>0, <2>2, <4>1, AskedPresent DEF AskedOK, OfAStage
      <4>5. obj'["secret"] # Absent /\ obj'["secret"].v = password
        BY <1>0, <4>1, <4>2, <4>4, MovesKeep, EachKind
      <4>6. w.cr.spec.password \in {Absent, password}
        BY DEF AdminPassword
      <4>7. QED BY <4>2, <4>5, <4>6 DEF Suits, Present
    <3>3. CASE MovesConfig(o)
      BY <3>1, <3>3, EachKind DEF MovesConfig
    <3>4. CASE MovesSimple(o)
      BY <3>1, <3>4, EachKind DEF MovesSimple
    <3>5. CASE MovesIngress(o)
      BY <3>1, <3>5, EachKind DEF MovesIngress
    <3>6. CASE MovesPlugins(o)
      BY <3>1, <3>6, EachKind DEF MovesPlugins
    <3>7. CASE MovesDeployment(o)
      BY <3>1, <3>7, EachKind DEF MovesDeployment
    <3>8. QED BY <3>0, <3>2, <3>3, <3>4, <3>5, <3>6, <3>7
  <2>3. QED BY <1>0, <2>1, <2>2, ElsewhereSteps
<1>3. ASSUME NEW d \in Deployments' \ {Absent}, d.v.config = gr'.spec.config
      PROVE  Suits(gr.spec)'
  <2>1. CASE d \in Deployments \ {Absent}
    <3>1. /\ gr'.spec.password = gr.spec.password /\ Suits(gr.spec)
          /\ Present("secret")' /\ obj'["secret"].v = obj["secret"].v
      BY <1>3, <2>1, StillSuits
    <3>2. QED BY <3>1 DEF Suits
  <2>2. CASE Deployed(d)
    <3>1. /\ d.v.config = w.cr.spec.config /\ Suits(w.cr.spec) /\ w.pc # "idle"
          /\ gr' = gr /\ obj'["secret"] = obj["secret"]
      BY <2>2, DeployedNow DEF Deployed, clusterVars
    <3>2. w.cr.spec \in Specs /\ gr.spec \in Specs
      BY <1>0, <3>1, SpecTypes DEF PassOK, FirstAlive
    <3>3. w.cr.spec.password = gr.spec.password
      BY <1>3, <3>1, <3>2, SamePassword
    <3>4. QED BY <3>1, <3>3 DEF Suits, Present
  <2>3. QED BY <1>0, <1>3, <2>1, <2>2, DeploymentsMove
<1>4. ASSUME pod' # Absent, pod'.of.v.config = gr'.spec.config
      PROVE  pod'.password = obj'["secret"].v
  <2>1. CASE Started
    BY <2>1 DEF Started, vars, objVars
  <2>2. CASE pod' = pod
    <3>1. pod.of \in Deployments \ {Absent}
      BY <1>4, <2>2 DEF AI, AccessInv, Deployments
    <3>2. pod.of.v.config = gr.spec.config /\ obj'["secret"].v = obj["secret"].v
      BY <1>4, <2>2, <3>1, StillSuits
    <3>3. QED BY <1>1, <1>4, <2>2, <3>2 DEF SecretFirst
  <2>3. QED BY <1>4, <2>1, <2>2, PodMoves
<1>5. QED BY <1>2, <1>3, <1>4 DEF SecretFirst

-----------------------------------------------------------------------------
(* The theorem about passwords *)

LEMMA UidGrows ==
  ASSUME TS, AnyStep
  PROVE  gr.uid <= gr'.uid
<1>0. gr.uid \in Nat
  BY UidType DEF TS, GrafanaTypes
<1>1. OfAStage => gr' = gr
  BY DEF OfAStage, MovesSecret, MovesConfig, MovesSimple, MovesIngress, MovesPlugins,
         MovesDeployment, Moves, Unmoved, clusterVars
<1>2. ASSUME NEW o, UpdateStatus(o) PROVE gr.uid <= gr'.uid
  <2>1. CASE UNCHANGED clusterVars
    BY <1>0, <2>1 DEF clusterVars
  <2>2. CASE WriteGrafana([gr EXCEPT !.status = w.next])
    BY <2>2, StatusWrite DEF WriteGrafana, TS, WorkerTypes
  <2>3. QED BY <1>2, <2>1, <2>2 DEF UpdateStatus
<1>3. EditsGrafana => gr.uid <= gr'.uid
  BY <1>0, EditSteps DEF TS, WriteGrafana, Successor
<1>4. Dequeue => gr' = gr
  BY DEF Dequeue
<1>5. QED BY <1>0, <1>1, <1>2, <1>3, <1>4, WhoseStep

LEMMA PodStep ==
  ASSUME NEW before, AI(before), AccessStep, AnyStep, TS', pod' # Absent
  PROVE  gr'.uid > 0 /\ pod'.of # Absent
<1>0. TS /\ gr.uid \in Nat /\ gr'.uid \in Nat
  BY UidType DEF AI, TS, GrafanaTypes
<1>1. CASE Started
  <2>1. obj["deployment"] # Absent /\ Owned(obj["deployment"])
    BY <1>0, <1>1, EachKind DEF Started, Present, TS, ObjectTypes
  <2>2. gr.uid > 0
    BY <1>0, <2>1 DEF Owned
  <2>3. QED BY <1>1, <2>1, <2>2 DEF Started, vars, clusterVars
<1>2. CASE pod' = pod
  <2>1. gr.uid > 0 /\ pod.of # Absent
    BY <1>2 DEF AI, AccessInv
  <2>2. gr.uid <= gr'.uid
    BY <1>0, UidGrows
  <2>3. QED BY <1>0, <1>2, <2>1, <2>2
<1>3. QED BY <1>1, <1>2, PodMoves

LEMMA AccessInductive ==
  ASSUME "secret" \notin Lagging, NEW before, OrderOK(before)
  PROVE  /\ AccessInit => AI(before)
         /\ AI(before) /\ [AccessNext]_varsAccess => AI(before)'
<1>1. ASSUME AccessInit PROVE AI(before)
  <2>1. TS /\ IInv
    BY <1>1, Inductive DEF AccessInit
  <2>2. pod = Absent /\ ~Live(gr)
    BY <1>1 DEF AccessInit, Init, Gone, Live
  <2>3. QED BY <2>1, <2>2 DEF AI, AccessInv
<1>2. ASSUME AI(before), [AccessNext]_varsAccess PROVE AI(before)'
  <2>0. TS /\ IInv /\ PassOK
    BY <1>2 DEF AI, IInv
  <2>1. AccessStep /\ AnyStep
    BY <1>2 DEF AccessStep, AnyStep
  <2>2. TS' /\ IInv' /\ PassOK'
    <3>1. (TS /\ IInv)'
      BY <1>2, <2>0, Inductive
    <3>2. QED BY <3>1 DEF IInv
  <2>3. pod' # Absent => gr'.uid > 0 /\ pod'.of # Absent
    BY <1>2, <2>1, <2>2, PodStep
  <2>4. ASSUME FirstAlive'
        PROVE  /\ w'.pc # "idle" \/ Deployments' # {Absent} => Live(grcache)'
               /\ Live(grcache)' => ConfigsTrail(before)'
               /\ SecretFirst'
    <3>1. CASE FirstAlive
      BY <1>2, <2>1, <2>2, <2>4, <3>1, CacheKnows, TrailStep, SecretFirstStep
    <3>2. CASE gr.uid = 0
      <4>1. w'.pc = "idle" /\ ~Live(grcache') /\ pod' = Absent /\ obj'["deployment"] = Absent
        BY <1>2, <2>1, <2>4, <3>2, FirstCreated
      <4>2. Deployments' = {Absent}
        BY <4>1 DEF Deployments
      <4>3. QED BY <4>1, <4>2 DEF SecretFirst, Live
    <3>3. FirstAlive \/ gr.uid = 0
      <4>1. OfAStage => gr' = gr
        BY DEF OfAStage, MovesSecret, MovesConfig, MovesSimple, MovesIngress, MovesPlugins,
               MovesDeployment, Moves, Unmoved, clusterVars
      <4>2. QED BY <2>0, <2>1, <2>4, <4>1, ElsewhereSteps DEF Elsewhere, FirstAlive
    <3>4. QED BY <3>1, <3>2, <3>3
  <2>5. QED BY <2>2, <2>3, <2>4 DEF AI, AccessInv, FirstAlive
<1>3. QED BY <1>1, <1>2

(* The first Grafana of its name, once it runs with the configuration that *)
(* its resource asks for, is never sent another password than it took (or  *)
(* none at all), whatever stage failed, whichever copies were late and     *)
(* however often its pod was replaced, when configurations only go on to   *)
(* new ones and the Secret the operator reads is current.                  *)
THEOREM PasswordAgrees ==
  ASSUME "secret" \notin Lagging, NEW before, ConfigsForward(before)
  PROVE  AccessSpec => []NoWrongPassword
<1>1. OrderOK(before)
  BY ConfigOrder
<1>2. ASSUME AI(before) PROVE NoWrongPassword
  <2>1. ocache["secret"] = obj["secret"]
    BY <1>2, EachKind DEF AI, IInv, CopiesOK, ObjectCopiesOK, TS, ObjectTypes
  <2>2. FirstAlive => SecretFirst
    BY <1>2, TrailsMean
  <2>3. QED BY <2>1, <2>2 DEF NoWrongPassword, FirstAlive, SecretFirst, AdminCredentials
<1>3. AI(before) => NoWrongPassword
  BY <1>2
<1>4. /\ AccessInit => AI(before)
      /\ AI(before) /\ [AccessNext]_varsAccess => AI(before)'
  BY <1>1, AccessInductive
<1>5. QED BY <1>3, <1>4, PTL DEF AccessSpec

(* The Deployment, its pod and the worker's copy trail the resource, in    *)
(* every order in which configurations go forward, and each came after the *)
(* Secret that suits it (grafana_controller.go:118): the stages of a       *)
(* reconciliation run in order and stop at the first that fails.           *)
THEOREM AccessTrail ==
  ASSUME "secret" \notin Lagging
  PROVE  AccessSpec => []AccessTrails
<1>1. \A before \in ConfigOrders : OrderOK(before)
  BY ConfigOrder DEF ConfigOrders
<1>2. ASSUME NEW before \in ConfigOrders
      PROVE  /\ AccessInit => AI(before)
             /\ AI(before) /\ [AccessNext]_varsAccess => AI(before)'
  BY <1>1, AccessInductive
<1>3. ASSUME AccessInit PROVE AccessTrails
  BY <1>2, <1>3 DEF AccessTrails, AI
<1>4. ASSUME TS, IInv, AccessTrails, [AccessNext]_varsAccess PROVE AccessTrails'
  <2>1. ASSUME NEW before \in ConfigOrders PROVE AccessInv(before)'
    <3>1. AI(before)
      BY <1>4 DEF AccessTrails, AI
    <3>2. AI(before)'
      BY <1>2, <1>4, <3>1
    <3>3. QED BY <3>2 DEF AI
  <2>2. QED BY <2>1 DEF AccessTrails
<1>5. /\ AccessInit => AccessTrails
      /\ TS /\ IInv /\ AccessTrails /\ [AccessNext]_varsAccess => AccessTrails'
  BY <1>3, <1>4
<1>6. AccessInit => TS /\ IInv
  BY Inductive DEF AccessInit
<1>7. QED BY <1>5, <1>6, Inductive, PTL DEF AccessSpec
=============================================================================
