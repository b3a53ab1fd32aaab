---------------------------- MODULE MCDatasource ----------------------------
(* Small instances of DatasourceController for TLC *)
EXTENDS DatasourceController, TLC

AnyEdit == Contents \X Contents
ForwardEdit == {<<a, b>> \in AnyEdit : a < b}
AllSelected == {Names}
NoFolder == [n \in Names |-> Absent]
OwnTitle == [n \in Names |-> n]
=============================================================================
