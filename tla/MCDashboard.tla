----------------------------- MODULE MCDashboard -----------------------------
(* Small instances of DashboardController for TLC *)
EXTENDS DashboardController, TLC

\* spec.json may be edited to something new, and back
AnyEdit == Contents \X Contents
ForwardEdit == {<<a, b>> \in AnyEdit : a < b}

\* every Grafana selects everything
AllSelected == {Names}

ContentSymmetry == Permutations(Contents)
NoFolder == [n \in Names |-> Absent]
OneFolder == [n \in Names |-> "ops"]
=============================================================================
