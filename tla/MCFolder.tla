------------------------------ MODULE MCFolder ------------------------------
(* Small instances of FolderController for TLC; titles are numbers *)
EXTENDS FolderController, TLC

ForwardEdit == {<<a, b>> \in Contents \X Contents : a < b}
AllSelected == {Names}
NoFolder == [n \in Names |-> Absent]
=============================================================================
