------------------------------- MODULE MCFeed -------------------------------
(***************************************************************************)
(* Feed for one apex.  A behaviour is bounded in one of two ways: three    *)
(* sessions compete for two streams while two names come, or two sessions  *)
(* are open together while three names come, which is what it takes for a  *)
(* name to follow a gap.                                                   *)
(***************************************************************************)
EXTENDS Feed

CONSTANTS a1, s3, n1, n2, n3

MCApexOf == [n \in Names |-> a1]

\* All names are of one apex, so that one order of them stands for every order.
MCOrder == <<n1, n2, n3>>

VARIABLE crowded  \* bound: of the two, this behaviour is one of the first kind

MCInit == Init /\ crowded \in BOOLEAN

MCNext ==
    /\ Next
    /\ IsPrefix(log', MCOrder)
    /\ IF crowded THEN Len(log') <= 2 ELSE pc'[s3] = "idle"
    /\ UNCHANGED crowded

\* The bound takes nothing away from the steps that Fairness is about.
MCSpec == MCInit /\ [][MCNext]_<<vars, crowded>> /\ Fairness
=============================================================================
