------------------------------ MODULE MCSource ------------------------------
(* Sources of the TLC instances: two urls, with and without an input mapped,  *)
(* and caches that last one tick, two ticks or for ever.                      *)
EXTENDS DashboardSource

Asks(u, i, d) == [url |-> u, inputs |-> i, duration |-> d]
SomeSources == {Asks("a", "plain", 1), Asks("b", "plain", 0), Asks("b", "plain", 2),
                Asks("b", "mapped", 2), Asks("b", "mapped", 0)}

\* Another url, a duration for it, an input and no duration any more: no edit
\* leads back, so that there are finitely many.
Forward == {<<Asks("a", "plain", 1), Asks("b", "plain", 0)>>,
            <<Asks("b", "plain", 0), Asks("b", "plain", 2)>>,
            <<Asks("b", "plain", 2), Asks("b", "mapped", 2)>>,
            <<Asks("b", "mapped", 2), Asks("b", "mapped", 0)>>}
=============================================================================
