------------------------ MODULE MCDatasourceContent -------------------------
(* Specifications and secrets of the TLC instances. *)
EXTENDS DatasourceContent

UserKey == <<"user">>
NameKey == <<"user", "name">>

\* Two keys, one of which begins with the other
Users == {<<>>, <<Braced(UserKey)>>, <<Braced(NameKey)>>}
Urls == {<<Text(<<"http", "prometheus">>)>>,
         <<Text(<<"http">>), Braced(UserKey), Text(<<"prometheus">>)>>}

Asks(users, names, orgs, flags) ==
    {[user |-> u, url |-> h, secrets |-> n, orgId |-> o,
      basicAuth |-> f[1], isDefault |-> f[2], editable |-> f[3]] :
        u \in users, h \in Urls, n \in names, o \in orgs, f \in flags}

\* basicAuth is written to the hash before the organization, editable after it.
DistinctSpecs == Asks(Users, {<<"s1">>, <<"s1", "s2">>, <<"s2", "s1">>},
                      {<<"1">>}, {<<FALSE, FALSE, FALSE>>, <<TRUE, FALSE, FALSE>>, <<FALSE, FALSE, TRUE>>})

\* basicAuth and isDefault are each a "_" in the hash.
FlagSpecs == Asks({<<>>}, {<<>>}, {<<>>}, BOOLEAN \X BOOLEAN \X BOOLEAN)

PlainSpecs == Asks({<<Braced(UserKey)>>}, {<<"s1">>}, {<<>>}, {<<FALSE, FALSE, FALSE>>})

AnyEdit == Specs \X Specs

Root == UserKey :> <<"root">>
Both == UserKey :> <<"admin">> @@ NameKey :> <<"sue">>
SecretData == [s1 |-> {Root}, s2 |-> {Absent, Both}]
Creation == {<<"s2", Absent, Both>>}
RotatedData == [s1 |-> {Root, Both}, s2 |-> {Absent}]
Rotation == {<<"s1", Root, Both>>}
=============================================================================
