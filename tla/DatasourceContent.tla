------------------------- MODULE DatasourceContent --------------------------
(***************************************************************************)
(* What a GrafanaDatasource resource asks for, and when a change of it is  *)
(* noticed (api/v1beta1/grafanadatasource_types.go): variables taken from  *)
(* secrets are expanded in the marshalled data source, and a hash of the   *)
(* specification decides whether it is pushed again.  One resource and one *)
(* Grafana, a pass of the worker at a time, with what can go wrong in it:  *)
(* a missing secret, a refused push, a refused status.                     *)
(***************************************************************************)
EXTENDS Naturals, SequencesExt

CONSTANTS
    Absent,      \* a model value
    Specs,       \* what a resource may ask for, see Spec fields below
    EditSteps,   \* <<old, new>> pairs of Specs a user may edit it along
    SecretNames,
    Secrets,     \* per name, the data (key -> value) it may hold, or Absent
    SecretSteps  \* <<name, old, new>>: the ways secrets may change

\* Texts are sequences of tokens; a key is one or two name tokens, so that one
\* key may begin with another.  A field is a sequence of pieces: text, or a
\* reference to a key, written $key or ${key}.
Text(t) == [text |-> t, ref |-> FALSE, braced |-> FALSE]
Ref(key) == [text |-> key, ref |-> TRUE, braced |-> FALSE]
Braced(key) == [text |-> key, ref |-> TRUE, braced |-> TRUE]

Dollar == "$"
Open == "{"
Close == "}"

ASSUME ContentAssumption ==
    /\ EditSteps \subseteq Specs \X Specs
    /\ \A s \in Specs : /\ {s.basicAuth, s.isDefault, s.editable} \subseteq BOOLEAN
                        /\ s.secrets \in Seq(SecretNames)
    /\ \A step \in SecretSteps : step[1] \in SecretNames /\ step[3] \in Secrets[step[1]]

VARIABLES
    spec,    \* spec of the resource
    hash,    \* status.hash
    secrets, \* data of each secret
    pushed,  \* the data source in Grafana, or Absent
    missed   \* history: a pass has pushed and not written the hash, or written
             \* the hash of a change and not pushed it

vars == <<spec, hash, secrets, pushed, missed>>

Pattern(piece) == CASE ~piece.ref -> piece.text
                    [] piece.braced -> <<Dollar, Open>> \o piece.text \o <<Close>>
                    [] OTHER -> <<Dollar>> \o piece.text

Rendered(field) == FoldLeft(LAMBDA t, piece : t \o Pattern(piece), <<>>, field)

-----------------------------------------------------------------------------
(* Variables *)

\* The data of the secrets a resource names, in its order
Given(names) == [i \in DOMAIN names |-> secrets[names[i]]]

\* Variables m after those of one more secret
Overridden(m, data) == [key \in DOMAIN m \cup DOMAIN data |->
                          IF key \in DOMAIN data THEN data[key] ELSE m[key]]

\* CollectVariablesFromSecrets: later secrets override the keys of earlier ones.
Collect(given) == FoldLeft(Overridden, <<>>, given)

\* bytes.ReplaceAll, from left to right
ReplaceBytes(t, pattern, value) ==
    LET n == Len(pattern)
        from[i \in 1..Len(t) + n] ==
            CASE i > Len(t) -> <<>>
              [] i + n <= Len(t) + 1 /\ SubSeq(t, i, i + n - 1) = pattern
                   -> value \o from[i + n]
              [] OTHER -> <<t[i]>> \o from[i + 1]
    IN from[1]

Expand(t, key, value) ==
    ReplaceBytes(ReplaceBytes(t, Pattern(Ref(key)), value), Pattern(Braced(key)), value)

\* ExpandVariables goes through the variables in an order nobody chooses.
ExpandVariables(field, order, variables) ==
    FoldLeft(LAMBDA t, key : Expand(t, key, variables[key]), Rendered(field), order)

\* Reference: a reference stands for what the last secret that has the key says,
\* and nothing else changes.
Meant(field, given) ==
    LET having(key) == {i \in DOMAIN given : key \in DOMAIN given[i]}
        value(key) == given[Max(having(key))][key]
    IN Rendered([i \in DOMAIN field |-> IF field[i].ref /\ having(field[i].text) # {}
                                        THEN Text(value(field[i].text)) ELSE field[i]])

-----------------------------------------------------------------------------
(* The hash *)

Flag(b) == IF b THEN <<"_">> ELSE <<>>

\* Variant: the names of the secrets are left out.
HashWithoutSecrets(s) == Rendered(s.user) \o Rendered(s.url)
             \o Flag(s.basicAuth) \o Flag(s.isDefault) \o s.orgId \o Flag(s.editable)

\* The bytes written to the hash, one field after the other, unseparated.
Hash(s) == Rendered(s.user) \o Rendered(s.url) \o s.secrets
             \o Flag(s.basicAuth) \o Flag(s.isDefault) \o s.orgId \o Flag(s.editable)

DataSource(s, user, url) ==
    [user |-> user, url |-> url, orgId |-> s.orgId, basicAuth |-> s.basicAuth,
     isDefault |-> s.isDefault, editable |-> s.editable]

-----------------------------------------------------------------------------
AllSecrets == {f \in [SecretNames -> UNION {Secrets[s] : s \in SecretNames}] :
                 \A s \in SecretNames : f[s] \in Secrets[s]}

Init == /\ spec \in Specs /\ hash = <<>>
        /\ secrets \in AllSecrets
        /\ pushed = Absent /\ missed = FALSE

\* The data source is created, or overwritten if the hash differs.
Outdated == pushed = Absent \/ Hash(spec) # hash

\* onDatasourceCreated gets through; the status with the hash may be refused, there
\* and at the end of the pass.
Push ==
    /\ Outdated
    /\ Absent \notin Range(Given(spec.secrets))
    /\ LET variables == Collect(Given(spec.secrets))
       IN \E order \in SetToSeqs(DOMAIN variables) :
             pushed' = DataSource(spec, ExpandVariables(spec.user, order, variables),
                                        ExpandVariables(spec.url, order, variables))
    /\ hash' \in {hash, Hash(spec)}
    /\ missed' = (hash' # Hash(spec))
    /\ UNCHANGED <<spec, secrets>>

\* A secret is missing, or Grafana refuses.  The pass goes on to its end, where the
\* hash is written all the same.
FailToPush ==
    /\ Outdated
    /\ hash' = Hash(spec)
    /\ missed' = (missed \/ pushed # Absent)
    /\ UNCHANGED <<spec, secrets, pushed>>

EditSpec == /\ \E step \in EditSteps : spec = step[1] /\ spec' = step[2]
            /\ UNCHANGED <<hash, secrets, pushed, missed>>

EditSecret == /\ \E step \in SecretSteps :
                    /\ secrets[step[1]] = step[2]
                    /\ secrets' = [secrets EXCEPT ![step[1]] = step[3]]
              /\ UNCHANGED <<spec, hash, pushed, missed>>

LoseDataSource == pushed' = Absent /\ UNCHANGED <<spec, hash, secrets, missed>>

Next == Push \/ FailToPush \/ EditSpec \/ EditSecret \/ LoseDataSource

Spec == Init /\ [][Next]_vars

-----------------------------------------------------------------------------
\* A data source that exists and whose hash matches is what the resource asks for,
\* every reference to a variable expanded: "exists and is unchanged, nothing to do"
\* (line 309).  The exception, and the only one: the last pass that had something to
\* push and write did one without the other (lines 205-219, 307, 313-325).
UnchangedIsCurrent ==
    LET given == Given(spec.secrets)
    IN pushed # Absent /\ hash = Hash(spec) /\ ~missed /\ Absent \notin Range(given) =>
         pushed = DataSource(spec, Meant(spec.user, given), Meant(spec.url, given))
=============================================================================
