------------------------------- MODULE MCStandby -------------------------------
EXTENDS Standby

NoEdit == {}
AllSelected == {Names}
NoFolder == [n \in Names |-> Absent]
===============================================================================
