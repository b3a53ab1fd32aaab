------------------------------- MODULE MCAccess --------------------------------
EXTENDS AdminAccess

CONSTANTS password1, drawn1, url1

\* An external Grafana is taken over by the operator; then a password is set, and
\* the Ingress is to be used from outside.
External == [external |-> url1, config |-> 1, password |-> Absent, pvc |-> FALSE,
             prefer |-> FALSE, host |-> FALSE]
Drawn == [External EXCEPT !.external = Absent]
Set == [Drawn EXCEPT !.config = 2, !.password = password1, !.prefer = TRUE]
Hosted == [Set EXCEPT !.host = TRUE]
AccessSpecs == {External, Drawn, Set, Hosted}
ForwardSteps == {<<External, Drawn>>, <<Drawn, Set>>, <<Set, Hosted>>}

\* One password, another, and the first again
Other == [Set EXCEPT !.config = 3, !.password = drawn1]
BackSpecs == {Set, Other}
BackSteps == {<<Set, Other>>, <<Other, Set>>}

NoRequests == {}
===============================================================================
