--------------------------- MODULE DashboardSource ---------------------------
(***************************************************************************)
(* Where the content of a dashboard comes from when its resource gives a   *)
(* url (fetchers/url_fetcher.go, api/v1beta1/grafanadashboard_types.go):   *)
(* fetched content is cached in the resource's status, data source inputs  *)
(* are replaced in it, and the hash of the result is compared with the     *)
(* status.  One resource and one Grafana; the caches' lag, deletion and    *)
(* the status lists are DashboardController's.                             *)
(***************************************************************************)
EXTENDS Naturals, FiniteSets

CONSTANTS
    Absent,      \* a model value
    Urls,
    Sources,     \* what a resource may ask for: a url, data source inputs, and how
                 \* many ticks a cache lasts (contentCacheDuration; 0: for ever)
    EditSteps,   \* <<old, new>> pairs of Sources a user may edit the resource along
    MaxVersion,  \* bound on how often the content behind a url changes
    MaxAge,      \* bound on the age of an answer that is told apart
    Outcomes     \* "ok", "fail", "lost": what may happen to a remote call

ASSUME SourceAssumption ==
    /\ \A src \in Sources : src.url \in Urls /\ src.duration \in 0..MaxAge
    /\ EditSteps \subseteq Sources \X Sources
    /\ MaxVersion \in Nat /\ MaxAge \in Nat /\ "ok" \in Outcomes

VARIABLES
    web,      \* per url, the version of the content served there
    res,      \* the resource on the API server: spec.source and status
    job,      \* the worker: program counter, its copy of the resource, content
    outdated, \* the worker's copy is not the resource any more
    dash,     \* content of the dashboard in Grafana, or Absent
    asked     \* per url, the age of the last answer fetched from it, or Absent

vars == <<web, res, job, outdated, dash, asked>>

Expired(age, src) == src.duration > 0 /\ age >= src.duration
Older(age) == IF age = Absent \/ age = MaxAge THEN age ELSE age + 1

\* Status before the first reconcile: no content, no hash.
NoCache == [from |-> Absent, version |-> 0, age |-> Absent]
New(src) == [source |-> src, cache |-> NoCache, hash |-> Absent]

Idle == [pc |-> "idle", cr |-> Absent, json |-> Absent]

Init == /\ web = [u \in Urls |-> 1]
        /\ res \in {New(src) : src \in Sources}
        /\ job = Idle /\ outdated = FALSE
        /\ dash = Absent
        /\ asked = [u \in Urls |-> Absent]

-----------------------------------------------------------------------------
(* The worker: one pass of Reconcile and onDashboardCreated *)

Dequeue == /\ job.pc = "idle"
           /\ job' = [pc |-> "fetch", cr |-> res, json |-> Absent]
           /\ outdated' = FALSE
           /\ UNCHANGED <<web, res, dash, asked>>

\* Variant: the url is not compared.
CachedForAnyUrl(c) == c.cache.from # Absent /\ ~Expired(c.cache.age, c.source)

\* Variant: the age is not looked at.
CachedForEver(c) == c.cache.from = c.source.url

\* getContentCache returns something: a cache of this url that is not too old.
Cached(c) == c.cache.from = c.source.url /\ ~Expired(c.cache.age, c.source)

\* resolveDatasources: the inputs replaced in the content
Resolved(c) == [url |-> c.cache.from, version |-> c.cache.version, inputs |-> c.source.inputs]

\* From here on spec.json holds the content (onDashboardCreated, line 307).
Continue(c) == job' = [pc |-> "exists", cr |-> c, json |-> Resolved(c)]

UseCache == /\ job.pc = "fetch" /\ Cached(job.cr)
            /\ Continue(job.cr)
            /\ UNCHANGED <<web, res, outdated, dash, asked>>

\* A request to the url; the answer is kept in the worker's copy of the status.
FetchDashboardFromUrl(o) ==
    /\ job.pc = "fetch" /\ ~Cached(job.cr)
    /\ LET u == job.cr.source.url
       IN IF o = "ok"
          THEN /\ Continue([job.cr EXCEPT !.cache = [from |-> u, version |-> web[u], age |-> 0]])
               /\ asked' = [asked EXCEPT ![u] = 0]
          ELSE job' = Idle /\ UNCHANGED asked
    /\ UNCHANGED <<web, res, outdated, dash>>

\* Variant: the hash is of the content before its inputs are replaced.
HashUnresolved(json) == <<"sha256", json.url, json.version>>

Hash(json) == <<"sha256", json>>

\* exists && Unchanged() ends the pass; what was fetched is dropped with it.
Exists(o) ==
    /\ job.pc = "exists"
    /\ job' = IF o = "ok" /\ (dash = Absent \/ Hash(job.json) # job.cr.hash)
              THEN [job EXCEPT !.pc = "push"] ELSE Idle
    /\ UNCHANGED <<web, res, outdated, dash, asked>>

NewDashboard(o) ==
    /\ job.pc = "push"
    /\ dash' = IF o = "fail" THEN dash ELSE job.json
    /\ job' = IF o = "ok" THEN [job EXCEPT !.pc = "status"] ELSE Idle
    /\ UNCHANGED <<web, res, outdated, asked>>

\* The record in the Grafana, then hash and cache; refused if the copy is outdated
UpdateStatus(o) ==
    /\ job.pc = "status"
    /\ outdated => o = "fail"
    /\ res' = IF o = "fail" THEN res ELSE [job.cr EXCEPT !.hash = Hash(job.json)]
    /\ job' = Idle
    /\ UNCHANGED <<web, outdated, dash, asked>>

-----------------------------------------------------------------------------
(* Users, the servers behind the urls, time *)

EditSource == /\ \E step \in EditSteps :
                    res.source = step[1] /\ res' = [res EXCEPT !.source = step[2]]
              /\ outdated' = TRUE
              /\ UNCHANGED <<web, job, dash, asked>>

Publish(u) == /\ web[u] < MaxVersion
              /\ web' = [web EXCEPT ![u] = @ + 1]
              /\ UNCHANGED <<res, job, outdated, dash, asked>>

LoseDashboard == /\ dash' = Absent
                 /\ UNCHANGED <<web, res, job, outdated, asked>>

Tick == /\ res' = [res EXCEPT !.cache.age = Older(@)]
        /\ job' = IF job.cr = Absent THEN job ELSE [job EXCEPT !.cr.cache.age = Older(@)]
        /\ asked' = [u \in Urls |-> Older(asked[u])]
        /\ UNCHANGED <<web, outdated, dash>>

Call(o) == FetchDashboardFromUrl(o) \/ Exists(o) \/ NewDashboard(o) \/ UpdateStatus(o)

Next == \/ Dequeue \/ UseCache \/ (\E o \in Outcomes : Call(o))
        \/ EditSource \/ LoseDashboard \/ Tick \/ (\E u \in Urls : Publish(u))

Spec == Init /\ [][Next]_vars

\* The resync timer starts pass after pass, time goes on, and a call that is
\* made again and again succeeds at some point.
FairSpec == /\ Spec
            /\ WF_vars(Dequeue) /\ WF_vars(UseCache) /\ WF_vars(Tick)
            /\ WF_vars(\E o \in Outcomes : Call(o))
            /\ SF_vars(FetchDashboardFromUrl("ok")) /\ SF_vars(Exists("ok"))
            /\ SF_vars(NewDashboard("ok")) /\ SF_vars(UpdateStatus("ok"))

-----------------------------------------------------------------------------
\* Once dashboards are no longer lost in Grafana, it comes to show the content of
\* the url and with the inputs the resource asks for now, and if the cache expires
\* the version served there now, though an unchanged pass writes nothing back.
\* Edits and new versions end by their bounds.
FollowsSource ==
    <>[][~LoseDashboard]_dash =>
        <>[](/\ dash # Absent
             /\ dash.url = res.source.url /\ dash.inputs = res.source.inputs
             /\ res.source.duration > 0 => dash.version = web[dash.url])

\* A url that answered is not asked again before the cache's duration is over:
\* what contentCacheDuration is for.
AskedOncePerPeriod ==
    [][\A u \in Urls : (FetchDashboardFromUrl("ok") /\ u = job.cr.source.url) =>
          asked[u] = Absent \/ Expired(asked[u], job.cr.source)]_vars
=============================================================================
