------------------------------ MODULE PluginList ------------------------------
(***************************************************************************)
(* Lists of plugins (api/v1beta1/plugin_list.go) and how the plugins stage *)
(* makes one of them out of all that dashboards and data sources ask for   *)
(* (controllers/reconcilers/grafana/plugins_reconciler.go).                *)
(*                                                                         *)
(* A version is a number, in the order semver gives it, or BadVersion when *)
(* semver cannot parse it.  A plugin is a record [name, version].          *)
(***************************************************************************)
EXTENDS Integers, Sequences, SequencesExt

BadVersion == -1
NoList == <<[name |-> "error", version |-> BadVersion]>>

HasSomeVersionOf(list, p) == \E i \in DOMAIN list : list[i].name = p.name

HasExactVersionOf(list, p) == \E i \in DOMAIN list : list[i] = p

\* The first entry of that name decides, and the comparison may fail.
Incomparable(list, p) ==
    \E i \in DOMAIN list :
        list[i].name = p.name /\ BadVersion \in {list[i].version, p.version}

HasNewerVersionOf(list, p) ==
    \E i \in DOMAIN list : list[i].name = p.name /\ list[i].version > p.version

\* The loop variable is a copy of the entry: nothing is updated.
Update(list, p) == list

\* Variant: a version semver cannot parse is kept.
SanitizedAnyVersion(list, p) == IF HasSomeVersionOf(list, p) THEN list ELSE Append(list, p)

\* Variant: a plugin may be listed again in another version.
SanitizedByVersion(list, p) ==
    IF p.version = BadVersion \/ HasExactVersionOf(list, p) THEN list ELSE Append(list, p)

\* One plugin of Sanitize's loop
Sanitized(list, p) ==
    IF p.version = BadVersion \/ HasSomeVersionOf(list, p) THEN list ELSE Append(list, p)

Sanitize(list) == FoldLeft(Sanitized, <<>>, list)

\* Variant: only the very same version counts as installed.
ConsolidatedByVersion(list, p) ==
    IF HasExactVersionOf(list, p) THEN list ELSE Append(list, p)

\* One plugin of the stage's inner loop
Consolidated(list, p) ==
    IF list = NoList THEN NoList
    ELSE IF ~HasSomeVersionOf(list, p) THEN Append(list, p)
    ELSE IF Incomparable(list, p) THEN NoList
    ELSE IF HasNewerVersionOf(list, p) \/ HasExactVersionOf(list, p) THEN list
    ELSE Update(list, p)

\* One key of the ConfigMap
Added(list, plugins) == FoldLeft(Consolidated, list, plugins)

\* The lists of the ConfigMap, in the order Go's map iteration takes them
Consolidate(lists) == FoldLeft(Added, <<>>, lists)

\* Every order of the ConfigMap's keys is possible.
Consolidations(data) ==
    {Consolidate([i \in DOMAIN order |-> data[order[i]]]) : order \in SetToSeqs(DOMAIN data)}

PluginNames(list) == {list[i].name : i \in DOMAIN list}
===============================================================================
