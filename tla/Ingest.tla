------------------------------- MODULE Ingest -------------------------------
(***************************************************************************)
(* internal/tailer/tailer.go on top of Store: one goroutine per CT log     *)
(* reads the log from its watermark and hands every name to the store,     *)
(* then the new watermark.  The process may be told to stop, may shut      *)
(* down with tailers still running, or may crash, and starts again.        *)
(*                                                                         *)
(* An entry of a log is a date (the earliest of its timestamps) and the    *)
(* set of its names; an entry that cannot be decoded has no names.         *)
(***************************************************************************)
EXTENDS Store

CONSTANTS
    Entries,     \* per log, the sequence of its entries
    Frozen,      \* the logs that grow no more and are to be drained
    Window,      \* bound: entries in one answer (512 are asked for)
    MaxRestarts  \* bound: crashes and shutdowns

ASSUME TailersAssumption ==
    /\ Entries \in [Logs -> Seq([date : Dates, names : SUBSET Names])]
    /\ \A l \in Logs : Len(Entries[l]) <= MaxMark
    /\ Frozen \subseteq Logs
    /\ Logs \subseteq Callers
    /\ Window \in Nat \ {0}

VARIABLES
    size,       \* per log, how many entries it has published
    pc,         \* per log, where its tailer is
    wm,         \* per log, the tailer's own watermark
    target,     \* the tree size it reads up to
    drain,      \* drainTarget; None for a log that is tailed forever
    pos,        \* the first entry of the window it is reading
    got,        \* how many entries of that window count as read
    todo,       \* what is left of the window: entry numbers with names
    cancelled,  \* whether the context of the tailers is cancelled
    restarts,   \* crashes and shutdowns so far
    lost        \* history: names not stored since a failed read dropped one

tailVars == <<pc, wm, target, drain, pos, got, todo>>
ingestVars == <<vars, size, tailVars, cancelled, restarts, lost>>

Size(l) == Len(Entries[l])

\* The names in the entries from..to of log l, with the entry they are in.
NamesIn(l, from, to) ==
    UNION {{<<i, n>> : n \in Entries[l][i].names} : i \in from..to}

-----------------------------------------------------------------------------
(* tailOne *)

Goto(l, where) == pc' = [pc EXCEPT ![l] = where]

\* What a log is drained to: its size, from the list or from a tree head.  When
\* the list has no final head, or the head cannot be fetched, it is followed for
\* ever like a log that grows.
DrainTargets(l) == IF l \in Frozen THEN {size[l], None} ELSE {None}

\* Mutant: a restarted tailer begins at the start of the log.
StartTailer_FromZero(l) ==
    /\ Up
    /\ pc[l] = "off"
    /\ Goto(l, "poll")
    /\ wm' = [wm EXCEPT ![l] = 0]
    /\ \E d \in DrainTargets(l) : drain' = [drain EXCEPT ![l] = d]
    /\ UNCHANGED <<vars, size, target, pos, got, todo, cancelled, restarts, lost>>

\* Sync starts each log once.  The watermark is read through the store, so the
\* log is given up when the store is closed or the read fails.
StartTailer(l) ==
    /\ Up
    /\ pc[l] = "off"
    /\ \/ /\ ~closed
          /\ Goto(l, "poll")
          /\ wm' = [wm EXCEPT ![l] = db.mark[l]]
          /\ \E d \in DrainTargets(l) : drain' = [drain EXCEPT ![l] = d]
       \/ /\ closed \/ "mark" \in FailingReads
          /\ Goto(l, "done")
          /\ UNCHANGED <<wm, drain>>
    /\ UNCHANGED <<vars, size, target, pos, got, todo, cancelled, restarts, lost>>

\* A verified tree head of s entries that goes beyond the watermark.  A head
\* that cannot be fetched or verified, or says nothing new, changes nothing.
Poll(l, s) ==
    /\ pc[l] = "poll"
    /\ ~cancelled
    /\ LET t == IF drain[l] # None /\ drain[l] < s THEN drain[l] ELSE s
       IN  /\ t > wm[l]
           /\ target' = [target EXCEPT ![l] = t]
    /\ pos' = [pos EXCEPT ![l] = wm[l]]
    /\ Goto(l, "fetch")
    /\ UNCHANGED <<vars, size, wm, drain, got, todo, cancelled, restarts, lost>>

\* A drained log is left for good, and every log once the context is cancelled.
Leave(l) ==
    /\ pc[l] = "poll"
    /\ cancelled \/ (drain[l] # None /\ wm[l] >= drain[l])
    /\ Goto(l, "done")
    /\ UNCHANGED <<vars, size, wm, target, drain, pos, got, todo, cancelled, restarts, lost>>

\* Mutant: the watermark is moved to the end of the range, read or not.
SendMark_Target(l) ==
    /\ pc[l] = "mark"
    /\ wm' = [wm EXCEPT ![l] = target[l]]
    /\ BeginSend(l, [kind |-> "mark", log |-> l, mark |-> target[l]])
    /\ Goto(l, "marking")
    /\ UNCHANGED <<size, target, drain, pos, got, todo, cancelled, restarts, lost>>

\* Mutant: the watermark sent is the one from before the range.
SendMark_Stale(l) ==
    /\ pc[l] = "mark"
    /\ BeginSend(l, [kind |-> "mark", log |-> l, mark |-> wm[l]])
    /\ wm' = [wm EXCEPT ![l] = pos[l]]
    /\ Goto(l, "marking")
    /\ UNCHANGED <<size, target, drain, pos, got, todo, cancelled, restarts, lost>>

\* The watermark is moved once, after the whole range, by what was read of it.
\* A closed store refuses it at once.
SendMark(l) ==
    /\ pc[l] = "mark"
    /\ wm' = [wm EXCEPT ![l] = pos[l]]
    /\ \/ /\ BeginSend(l, [kind |-> "mark", log |-> l, mark |-> pos[l]])
          /\ Goto(l, "marking")
       \/ /\ closed
          /\ Goto(l, "poll")
          /\ UNCHANGED vars
    /\ UNCHANGED <<size, target, drain, pos, got, todo, cancelled, restarts, lost>>

MarkSent(l) ==
    /\ pc[l] = "marking"
    /\ CompleteSend(l) \/ RefuseSend(l)
    /\ Goto(l, "poll")
    /\ UNCHANGED <<size, wm, target, drain, pos, got, todo, cancelled, restarts, lost>>

-----------------------------------------------------------------------------
(* fetchRange *)

\* The log returns k entries, and the spot check passes.  An answer may be longer
\* than the range asked for: all its names are stored, but the range ends where
\* it should.
Fetch(l, k) ==
    /\ pc[l] = "fetch"
    /\ pos[l] < target[l]
    /\ pos[l] + k <= size[l]
    /\ got' = [got EXCEPT ![l] = IF pos[l] + k > target[l] THEN target[l] - pos[l] ELSE k]
    /\ todo' = [todo EXCEPT ![l] = NamesIn(l, pos[l] + 1, pos[l] + k)]
    /\ Goto(l, "names")
    /\ UNCHANGED <<vars, size, wm, target, drain, pos, cancelled, restarts, lost>>

\* The range is read, or the request or its spot check fails, the answer is
\* empty, or the context is cancelled: what was read before still counts.
EndRange(l) ==
    /\ pc[l] = "fetch"
    /\ Goto(l, "mark")
    /\ UNCHANGED <<vars, size, wm, target, drain, pos, got, todo, cancelled, restarts, lost>>

\* The next name of the window, in the order of the entries, goes to Ingest.  An
\* error gives up the window, and the range with it.
SendName(l) ==
    /\ pc[l] = "names"
    /\ sending[l] = None
    /\ \E e \in todo[l] :
           /\ \A f \in todo[l] : e[1] <= f[1]
           /\ \/ /\ BeginSend(l, [kind |-> "record", name |-> e[2],
                                  date |-> Entries[l][e[1]].date])
                 /\ todo' = [todo EXCEPT ![l] = @ \ {e}]
                 /\ UNCHANGED pc
              \/ /\ closed
                 /\ Goto(l, "mark")
                 /\ UNCHANGED <<vars, todo>>
    /\ UNCHANGED <<size, wm, target, drain, pos, got, cancelled, restarts, lost>>

NameSent(l) ==
    /\ pc[l] = "names"
    /\ \/ CompleteSend(l) /\ UNCHANGED pc
       \/ RefuseSend(l) /\ Goto(l, "mark")
    /\ UNCHANGED <<size, wm, target, drain, pos, got, todo, cancelled, restarts, lost>>

\* Every name of the window is accepted: on to the next one.
EndWindow(l) ==
    /\ pc[l] = "names"
    /\ sending[l] = None
    /\ todo[l] = {}
    /\ pos' = [pos EXCEPT ![l] = @ + got[l]]
    /\ Goto(l, "fetch")
    /\ UNCHANGED <<vars, size, wm, target, drain, got, todo, cancelled, restarts, lost>>

-----------------------------------------------------------------------------
(* The logs, and the process *)

\* The log publishes an entry.
Grow(l) ==
    /\ size[l] < Size(l)
    /\ size' = [size EXCEPT ![l] = @ + 1]
    /\ UNCHANGED <<vars, tailVars, cancelled, restarts, lost>>

\* A signal: main cancels the context of the tailers ...
Cancel ==
    /\ Up
    /\ ~cancelled
    /\ restarts < MaxRestarts
    /\ cancelled' = TRUE
    /\ UNCHANGED <<vars, size, tailVars, restarts, lost>>

\* ... waits for them, but no longer than ten seconds, and closes the store.
Shutdown ==
    /\ cancelled
    /\ CloseStep
    /\ UNCHANGED <<size, tailVars, cancelled, restarts, lost>>

TailersOff ==
    /\ pc' = [l \in Logs |-> "off"]
    /\ wm' = [l \in Logs |-> 0]
    /\ target' = [l \in Logs |-> 0]
    /\ drain' = [l \in Logs |-> None]
    /\ pos' = [l \in Logs |-> 0]
    /\ got' = [l \in Logs |-> 0]
    /\ todo' = [l \in Logs |-> {}]
    /\ cancelled' = FALSE

StopProcess ==
    /\ restarts < MaxRestarts
    /\ Exit \/ Crash
    /\ TailersOff
    /\ restarts' = restarts + 1
    /\ UNCHANGED <<size, lost>>

\* What a failed read has dropped is lost until its name is stored after all.
StoreStep ==
    /\ \/ LoopStep \/ Open
    /\ lost' = (IF DropRecord THEN lost \cup {Head(ch).name} ELSE lost)
                   \ Stored(db'.rec)
    /\ UNCHANGED <<size, tailVars, cancelled, restarts>>

TailStep(l) ==
    \/ StartTailer(l)
    \/ \E s \in 0..size[l] : Poll(l, s)
    \/ Leave(l)
    \/ \E k \in 1..Window : Fetch(l, k)
    \/ EndRange(l)
    \/ SendName(l)
    \/ NameSent(l)
    \/ EndWindow(l)
    \/ SendMark(l)
    \/ MarkSent(l)

IngestInit ==
    /\ Init
    /\ size = [l \in Logs |-> IF l \in Frozen THEN Size(l) ELSE 0]
    /\ pc = [l \in Logs |-> "off"]
    /\ wm = [l \in Logs |-> 0]
    /\ target = [l \in Logs |-> 0]
    /\ drain = [l \in Logs |-> None]
    /\ pos = [l \in Logs |-> 0]
    /\ got = [l \in Logs |-> 0]
    /\ todo = [l \in Logs |-> {}]
    /\ cancelled = FALSE
    /\ restarts = 0
    /\ lost = {}

IngestNext ==
    \/ StoreStep
    \/ \E l \in Logs : TailStep(l) \/ Grow(l)
    \/ Cancel
    \/ Shutdown
    \/ StopProcess

IngestSpec == IngestInit /\ [][IngestNext]_ingestVars

\* Goroutines run on; senders get their turn; the operator starts the process
\* again and a shutdown runs to its end; each log publishes its entries, serves
\* its latest tree head again and again, and does not fail every request.
IngestFairness ==
    /\ WF_ingestVars(StoreStep)
    /\ WF_ingestVars(Shutdown)
    /\ WF_ingestVars(loop = "stopped" /\ StopProcess)
    /\ \A l \in Logs :
          /\ WF_ingestVars(Grow(l))
          /\ WF_ingestVars(TailStep(l))
          /\ SF_ingestVars(Poll(l, size[l]))
          /\ SF_ingestVars(\E k \in 1..Window : Fetch(l, k))
          /\ SF_ingestVars(NameSent(l) \/ MarkSent(l))

FairIngestSpec == IngestSpec /\ IngestFairness

-----------------------------------------------------------------------------
(* Properties *)

\* Every name of the first w entries of log l is among names.
Covered(l, w, names) ==
    \A i \in 1..w : Entries[l][i].names \subseteq names

\* store.go:279, "a crash can never persist the marker without the data it
\* covers": the durable watermark of a log (AdvanceWatermark, fetchRange) is
\* backed by durable records for every entry below it, the names apart that a
\* failed read made the loop drop (ingestLoop) and nothing has stored since.
WatermarkCovered == \A l \in Logs : Covered(l, db.mark[l], Stored(db.rec) \cup lost)

\* README.md:45, "a per-log watermark that never moves backwards across
\* restarts": although a new process forgets the marks it has handled (wmHigh)
\* and a failed range sends its old mark again.
WatermarkNeverMovesBack ==
    [][\A l \in Logs : db'.mark[l] >= db.mark[l]]_ingestVars

\* Every entry of every log becomes durable and stays so, whatever is fetched
\* again after crashes and shutdowns (tailOne, ingestLoop).
EverythingIsStored ==
    <>[](\A l \in Logs : db.mark[l] = Size(l) /\ Covered(l, Size(l), Stored(db.rec)))

\* README.md:27, first_seen is the earliest date the name appeared in any
\* watched log: of the entries below the durable watermarks, none has an
\* earlier date than the record (apply).
FirstSeenIsEarliest ==
    \A l \in Logs : \A i \in 1..db.mark[l] : \A n \in Entries[l][i].names :
        db.rec[n] # None => db.rec[n].date <= Entries[l][i].date
=============================================================================
