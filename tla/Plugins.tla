-------------------------------- MODULE Plugins --------------------------------
(***************************************************************************)
(* The plugins of one internal Grafana: each dashboard and data source     *)
(* writes what it asks for into the Grafana's plugins ConfigMap, under a   *)
(* key of its own; the plugins stage reads the ConfigMap and hands one     *)
(* list to the Deployment.  When a resource is deleted its key may be      *)
(* cleared, or not.                                                        *)
(***************************************************************************)
EXTENDS PluginList

CONSTANTS
    Resources,    \* dashboards and data sources: <<namespace, name, kind>>
    Requests,     \* the plugin lists a resource may ask for
    MaxEdits      \* bound: how often resources are created or edited

\* A plugin as a resource asks for it
Plugin == [name : STRING, version : Nat \cup {BadVersion}]

ASSUME PluginsAssumption == Requests \subseteq Seq(Plugin) /\ MaxEdits \in Nat

VARIABLES
    alive,        \* the resources there are
    asked,        \* spec.plugins of each of them
    edits,        \* how often they were created or edited
    binaryData,   \* the ConfigMap: a list under each key written so far
    installed     \* GF_INSTALL_PLUGINS of the Deployment, as a list

vars == <<alive, asked, edits, binaryData, installed>>

\* Variant: the kind is left out as well.
KeyWithoutKind(r) == r[2]

\* fmt.Sprintf("%v-dashboard", Name) or "%v-datasource": no namespace
Key(r) == <<r[2], r[3]>>

\* A resource is created, or its list edited.
EditPlugins(r) ==
    /\ edits < MaxEdits /\ edits' = edits + 1
    /\ alive' = alive \cup {r}
    /\ \E list \in Requests : asked' = [asked EXCEPT ![r] = list]
    /\ UNCHANGED <<binaryData, installed>>

DeleteResource(r) ==
    /\ r \in alive /\ alive' = alive \ {r}
    /\ UNCHANGED <<asked, edits, binaryData, installed>>

\* A refused update leaves everything as it is.
Write(r, list) ==
    /\ LET val == Sanitize(list)
       IN  /\ Key(r) \in DOMAIN binaryData => binaryData[Key(r)] # val
           /\ binaryData' = [k \in DOMAIN binaryData \cup {Key(r)} |->
                               IF k = Key(r) THEN val ELSE binaryData[k]]
    /\ UNCHANGED <<alive, asked, edits, installed>>

\* Every pass of a resource writes what it asks for.
ReconcilePlugins(r) == r \in alive /\ Write(r, asked[r])

\* The worker that deletes a resource's content clears its key.  It need not
\* come to this: the sync goroutine may have been quicker and forgets the
\* resource without it, and a data source is looked for in one Grafana only.
ClearPlugins(r) == r \notin alive /\ Write(r, <<>>)

\* A list that cannot be consolidated fails the stage and leaves the Deployment alone.
PluginsStage ==
    /\ \E list \in Consolidations(binaryData) :
         installed' = IF list = NoList THEN installed ELSE list
    /\ UNCHANGED <<alive, asked, edits, binaryData>>

Init ==
    /\ alive = Resources /\ asked \in [Resources -> Requests]
    /\ edits = 0
    /\ binaryData = << >>
    /\ installed = <<>>

Next ==
    \/ \E r \in Resources : EditPlugins(r) \/ DeleteResource(r)
                         \/ ReconcilePlugins(r) \/ ClearPlugins(r)
    \/ PluginsStage

Spec == Init /\ [][Next]_vars

\* Resources are resynced every five minutes, Grafanas relisted every ten hours.
FairSpec ==
    /\ Spec
    /\ \A r \in Resources : WF_vars(ReconcilePlugins(r))
    /\ WF_vars(PluginsStage)

-----------------------------------------------------------------------------
Requested == {p \in UNION {{asked[r][i] : i \in DOMAIN asked[r]} : r \in alive} :
                p.version # BadVersion}
Under(keys) == UNION {{binaryData[k][i] : i \in DOMAIN binaryData[k]} : k \in keys}
Written == Under(DOMAIN binaryData)

\* What stands under the keys of resources that have been deleted
LeftBehind == Under({Key(r) : r \in Resources \ alive} \cap DOMAIN binaryData)

\* A list that can be consolidated with any other of its kind
Installable(list) ==
    /\ list \in Seq(Plugin)
    /\ \A i, j \in DOMAIN list : list[i].name = list[j].name => i = j
    /\ \A i \in DOMAIN list : list[i].version # BadVersion

TypeOK ==
    /\ alive \subseteq Resources /\ asked \in [Resources -> Seq(Plugin)] /\ edits \in 0..MaxEdits
    /\ DOMAIN binaryData \subseteq {Key(r) : r \in Resources} /\ IsFiniteSet(DOMAIN binaryData)
    /\ \A k \in DOMAIN binaryData : Installable(binaryData[k])
    /\ Installable(installed)

\* No plugin is handed to Grafana twice (grafana would install one version over
\* the other): the list the stage makes has each name once, whatever the
\* resources ask for and in whichever order the map is read.
InstalledOnce ==
    \A i, j \in DOMAIN installed : installed[i].name = installed[j].name => i = j

\* All that the ConfigMap asks for is handed to Grafana and nothing else: in no
\* order of its keys does a plugin get lost, or one list make another fail the
\* stage ("error checking existing plugins", plugins_reconciler.go:82), so no
\* resource can keep the plugins of the others from being installed.
AllWrittenInstalled ==
    \A list \in Consolidations(binaryData) : PluginNames(list) = {p.name : p \in Written}

\* Once resources stop changing, the stage comes to install every plugin that a
\* living one asks for, though every resource rewrites one ConfigMap, and besides
\* these only what deleted ones have left there (plugins_reconciler.go:60-100 with
\* controller_shared.go:25-52).  A key that nobody clears keeps its plugins
\* installed for good.  Two resources of one kind and name share a key, whatever
\* their namespaces: then the later one wins, and nothing is claimed.
RequestsHeeded ==
    (\A q, r \in Resources : q[2] = r[2] /\ q[3] = r[3] => q = r) =>
      <>[](PluginNames(installed) = {p.name : p \in Requested \cup LeftBehind})

\* Of the versions asked for, the stage installs the newest ("some version is
\* installed, but it is not newer and it is not the same: must be older", then
\* Update, plugins_reconciler.go:95-96).  The code does not: Update changes a copy.
NewestInstalled ==
    [][PluginsStage =>
         \A i \in DOMAIN installed', p \in Written :
            p.name = installed'[i].name => p.version <= installed'[i].version]_vars
===============================================================================
