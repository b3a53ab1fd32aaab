------------------------------- MODULE MCGrafana -------------------------------
(* Small instances of GrafanaController for TLC *)
EXTENDS GrafanaController, TLC

CONSTANTS password1, drawn1, drawn2

Base == [external |-> Absent, config |-> 1, password |-> Absent, pvc |-> FALSE,
         prefer |-> FALSE, host |-> FALSE]

\* One configuration after another, the second with a password and a claim
Reconfigured == [Base EXCEPT !.config = 2, !.password = password1, !.pvc = TRUE]
TwoSpecs == {Base, Reconfigured}
ForwardSteps == {<<Base, Reconfigured>>}

\* To be reached through a Route
JustPreferred == {[Base EXCEPT !.prefer = TRUE]}
NoSteps == {}

\* The configuration changed back
BackSteps == ForwardSteps \cup {<<Reconfigured, Base>>}

OneRequest == {"a" :> <<[name |-> "pie", version |-> 1]>>}
TwoRequests == {"a" :> <<[name |-> "pie", version |-> 1]>>
                @@ "b" :> <<[name |-> "clock", version |-> 1]>>}

\* The passwords that may be drawn are alike.
PasswordSymmetry == Permutations(Passwords)
===============================================================================
