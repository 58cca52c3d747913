------------------------------ MODULE MCStore ------------------------------
(***************************************************************************)
(* Store on small sets: the name b1 belongs to the apex B, the others to   *)
(* A.  A behaviour is bounded in one of two ways: one caller sends         *)
(* watermarks and the name b1, or all of them send records and recounts.   *)
(***************************************************************************)
EXTENDS Store

CONSTANTS b1, A, B, c1

MCApexOf == [n \in Names |-> IF n = b1 THEN B ELSE A]

VARIABLE marked  \* bound: of the two, this behaviour is one of the first kind

MCInit == Init /\ marked \in BOOLEAN

MCNext ==
    /\ Next
    /\ \A s \in Callers :
          sending'[s] # None =>
              IF marked
              THEN /\ s = c1
                   /\ \/ sending'[s].kind = "mark"
                      \/ sending'[s].kind = "record" /\ sending'[s].name = b1
              ELSE sending'[s].kind # "mark"
    /\ UNCHANGED marked

\* The bound takes nothing away from the steps that Fairness is about.
MCSpec == MCInit /\ [][MCNext]_<<vars, marked>> /\ Fairness
=============================================================================
