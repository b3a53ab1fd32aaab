------------------------------- MODULE MCPlugins -------------------------------
EXTENDS Plugins

P(name, version) == [name |-> name, version |-> version]

SomeRequests == {<<>>, <<P("clock", 1)>>, <<P("clock", 2), P("pie", 1)>>,
                 <<P("pie", 2), P("clock", BadVersion), P("pie", 1)>>}

TwoResources == {<<"ns", "a", "dashboard">>, <<"ns", "a", "datasource">>}
===============================================================================
