----------------------------- MODULE FeedStream -----------------------------
(***************************************************************************)
(* What the streams of /v1/feed promise the clients that read them (the    *)
(* API section of src/README.md: a slow consumer gets a resync event       *)
(* instead of silent gaps).  The names of a stream's apex come in the      *)
(* order of their numbers, each at most once, and before a name follows a  *)
(* gap the client has been told to resync, at a time when every name of    *)
(* the gap had been found.                                                 *)
(***************************************************************************)
EXTENDS Naturals

CONSTANT Streams

VARIABLES
    newest,   \* the number of the newest name
    owed,     \* per stream, the numbers of the names of its apex
    written,  \* per stream, the numbers it has carried
    told      \* per stream, the newest number of all at its last resync

streamVars == <<newest, owed, written, told>>

Init ==
    /\ newest = 0
    /\ owed = [s \in Streams |-> {}]
    /\ written = [s \in Streams |-> {}]
    /\ told = [s \in Streams |-> 0]

\* A new name, for the streams of its apex.
Publish ==
    /\ newest' = newest + 1
    /\ \E S \in SUBSET Streams :
           owed' = [s \in Streams |-> owed[s] \cup (IF s \in S THEN {newest'} ELSE {})]
    /\ UNCHANGED <<written, told>>

\* The next name on a stream, after a resync or without.
Write(s) ==
    /\ \/ told' = [told EXCEPT ![s] = newest]
       \/ UNCHANGED told
    /\ \E k \in owed[s] \ written[s] :
           /\ \A j \in written[s] : j < k
           /\ \A j \in owed[s] : j < k => j \in written[s] \/ j <= told'[s]
           /\ written' = [written EXCEPT ![s] = @ \cup {k}]
    /\ UNCHANGED <<newest, owed>>

\* A stream ends.
End(s) ==
    /\ owed' = [owed EXCEPT ![s] = {}]
    /\ written' = [written EXCEPT ![s] = {}]
    /\ told' = [told EXCEPT ![s] = 0]
    /\ UNCHANGED newest

Next == Publish \/ \E s \in Streams : Write(s) \/ End(s)

Spec == Init /\ [][Next]_streamVars
=============================================================================
