-------------------------------- MODULE Forward --------------------------------
(***************************************************************************)
(* What trails what, when edits only go forward.                           *)
(***************************************************************************)
EXTENDS Relation

\* Every step goes on to a later value, in an order that is never gone back in.
GoesForward(before, values, steps) ==
    /\ IsStrictlyPartiallyOrdered(before, values)
    /\ \A step \in steps : step[1] # step[2] => before[step[1], step[2]]

NotNewer(before, c, d) == c = d \/ before[c, d]
===============================================================================
