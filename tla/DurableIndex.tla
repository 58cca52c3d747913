---------------------------- MODULE DurableIndex ----------------------------
(***************************************************************************)
(* What the rest of subidx relies on the store for, without its queue, its *)
(* batch or its caches.  The index maps each name to the sequence number   *)
(* it was given when it was first stored (0: never stored) and each log to *)
(* its watermark.  `mem' is what the ingest loop has accepted so far,      *)
(* `disk' what a crash leaves.  The disk is always some earlier value of   *)
(* `mem' as a whole: names and watermarks become durable together or not   *)
(* at all, and a name stored later has a larger number than every name     *)
(* stored before it.                                                       *)
(***************************************************************************)
EXTENDS Naturals

CONSTANTS Names, Logs

VARIABLES mem, disk

indexVars == <<mem, disk>>

States == [seq : [Names -> Nat], mark : [Logs -> Nat]]

Empty == [seq |-> [n \in Names |-> 0], mark |-> [l \in Logs |-> 0]]

Init == mem = Empty /\ disk = Empty

\* A name seen for the first time takes number k, above every number in use.
Put(n, k) ==
    /\ mem.seq[n] = 0
    /\ \A m \in Names : k > mem.seq[m]
    /\ mem' = [mem EXCEPT !.seq[n] = k]
    /\ UNCHANGED disk

Mark(l, w) ==
    /\ mem' = [mem EXCEPT !.mark[l] = w]
    /\ UNCHANGED disk

Commit ==
    /\ disk' = mem
    /\ UNCHANGED mem

Crash ==
    /\ mem' = disk
    /\ UNCHANGED disk

\* The new number and mark are read from mem', so that neither is bounded.
Next ==
    \/ \E n \in Names : Put(n, mem'.seq[n])
    \/ \E l \in Logs : Mark(l, mem'.mark[l])
    \/ Commit
    \/ Crash

Spec == Init /\ [][Next]_indexVars
=============================================================================
