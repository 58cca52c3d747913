------------------------------- MODULE Store -------------------------------
(***************************************************************************)
(* internal/store/store.go: one pebble database, one ingest loop that owns *)
(* every write, and a bounded queue between the loop and the goroutines    *)
(* that call Ingest, AdvanceWatermark and Recount.                         *)
(*                                                                         *)
(* A name stands for a record key (apex and subdomain); a record's value   *)
(* is its earliest date and its sequence number.  The source byte and the  *)
(* byte encodings are left out.  A pebble commit is atomic; a failed       *)
(* commit ends the process, so it is a crash.                              *)
(***************************************************************************)
EXTENDS Naturals, Sequences, FiniteSets

CONSTANTS
    Names,       \* record keys: an apex and a subdomain
    Apexes,      \* registrable domains
    ApexOf,      \* the apex of each name
    Dates,       \* first-seen dates
    Logs,        \* CT logs, the owners of watermarks
    Callers,     \* goroutines that send operations to the ingest loop
    QueueCap,    \* capacity of the queue (4096 in the code)
    FlushAt,     \* records that force a flush (512 in the code)
    CountChunk,  \* counters per commit of a recount (4096 in the code)
    MaxSeq,      \* bound: the largest sequence number given out
    MaxMark,     \* bound: largest watermark a caller sends
    FailingReads, \* reads of the database that may fail
    None         \* a missing record, counter, mark or operation

\* What is read of the database: the sequence number and the total (Open), a
\* record (apply), a counter (pendingCount), a watermark (Watermark), and all
\* records (recountInLoop).
Reads == {"seq", "total", "record", "counter", "mark", "recount"}

ASSUME SizesAssumption ==
    /\ {QueueCap, FlushAt, CountChunk} \subseteq Nat \ {0}
    /\ {MaxSeq, MaxMark} \subseteq Nat
    /\ FailingReads \subseteq Reads

ASSUME DataAssumption ==
    /\ ApexOf \in [Names -> Apexes]
    /\ Dates \subseteq Nat
    /\ IsFiniteSet(Names) /\ IsFiniteSet(Apexes)

Records == [date : Dates, seq : Nat]

RecordOps  == [kind : {"record"}, name : Names, date : Dates]
MarkOps    == [kind : {"mark"}, log : Logs, mark : 0..MaxMark]
RecountOps == [kind : {"recount"}, from : Callers]
Ops == RecordOps \cup MarkOps \cup RecountOps

ASSUME NoneAssumption ==
    None \notin Records \cup Nat \cup Ops \cup Callers

VARIABLES
    db,        \* what is durable: records, counters, total, seq, watermarks
    batch,     \* record writes of the uncommitted batch
    cache,     \* pendingRecords
    counts,    \* pendingCounts, also the counter writes of the batch
    total,     \* pendingTotal
    base,      \* totalBase
    marks,     \* pendingWM
    high,      \* wmHigh
    seq,       \* last sequence number given out
    pending,   \* records handled since the last flush
    ch,        \* the queue
    loop,      \* where the ingest loop is; "down" when no process runs
    draining,  \* whether the loop has left its main select
    asker,     \* the caller whose recount the loop is running
    counted,   \* apexes whose counter that recount has committed
    closed,    \* the closed flag
    quit,      \* whether the quit channel is closed
    sending,   \* per caller, the operation it is blocked on in sendOp
    awaiting   \* callers of Recount that wait for the answer

batchVars == <<batch, cache, counts, total, marks>>
closeVars == <<closed, quit>>
callVars  == <<sending, awaiting>>
recountVars == <<asker, counted>>
vars == <<db, batch, cache, counts, total, base, marks, high, seq, pending,
          ch, loop, draining, asker, counted, closed, quit, sending, awaiting>>

NoRecords == [n \in Names |-> None]
NoCounts  == [a \in Apexes |-> None]
NoMarks   == [l \in Logs |-> None]

EmptyDb == [rec   |-> NoRecords,
            count |-> [a \in Apexes |-> 0],
            total |-> 0,
            seq   |-> 0,
            mark  |-> [l \in Logs |-> 0]]

-----------------------------------------------------------------------------
(* Views of the records. *)

\* The batch laid over the database: what the next commit makes durable.
View == [n \in Names |-> IF batch[n] # None THEN batch[n] ELSE db.rec[n]]

Stored(recs) == {n \in Names : recs[n] # None}

StoredOf(recs, a) == {n \in Stored(recs) : ApexOf[n] = a}

\* ScanAfter, without its cap: the apex's rows above the cursor, and the
\* cursor to use next.
RowsAfter(recs, a, after) == {n \in StoredOf(recs, a) : recs[n].seq > after}

LargestSeq(recs, a) ==
    CHOOSE m \in {0} \cup {recs[n].seq : n \in StoredOf(recs, a)} :
        \A n \in StoredOf(recs, a) : recs[n].seq <= m

\* A read whose error is swallowed, or whose value is corrupt, counts as 0.
ReadOrZero(key, value) == {value} \cup (IF key \in FailingReads THEN {0} ELSE {})

-----------------------------------------------------------------------------
(* flush *)

NothingToCommit == batch = NoRecords /\ marks = NoMarks

\* Mutant: the flush forgets the sequence number.
CommittedDb_NoSeq ==
    [rec   |-> View,
     count |-> [a \in Apexes |-> IF counts[a] # None THEN counts[a]
                                                     ELSE db.count[a]],
     total |-> IF total > 0 THEN base + total ELSE db.total,
     seq   |-> db.seq,
     mark  |-> [l \in Logs |-> IF marks[l] # None THEN marks[l]
                                                  ELSE db.mark[l]]]

\* The database once the batch is committed.  The total is written with every
\* new record, from the base of Open or of the last recount.
CommittedDb ==
    [rec   |-> View,
     count |-> [a \in Apexes |-> IF counts[a] # None THEN counts[a]
                                                     ELSE db.count[a]],
     total |-> IF total > 0 THEN base + total ELSE db.total,
     seq   |-> seq,
     mark  |-> [l \in Logs |-> IF marks[l] # None THEN marks[l]
                                                  ELSE db.mark[l]]]

\* Mutant: the watermarks are left out of the commit.
Flush_NoMarks ==
    IF NothingToCommit
    THEN UNCHANGED <<db, batchVars>>
    ELSE /\ db' = [CommittedDb EXCEPT !.mark = db.mark]
         /\ batch' = NoRecords
         /\ cache' = NoRecords
         /\ counts' = NoCounts
         /\ marks' = NoMarks
         /\ total' = 0

\* An empty batch is not committed, and then nothing is reset either.
Flush ==
    IF NothingToCommit
    THEN UNCHANGED <<db, batchVars>>
    ELSE /\ db' = CommittedDb
         /\ batch' = NoRecords
         /\ cache' = NoRecords
         /\ counts' = NoCounts
         /\ marks' = NoMarks
         /\ total' = 0

-----------------------------------------------------------------------------
(* apply *)

\* The record the loop compares with: its cache first, then the database.
Known(n) == IF cache[n] # None THEN cache[n] ELSE db.rec[n]

\* Mutant: the counter is always read from the database.
CountBases_NoCache(a) == IF closed THEN {0} ELSE {db.count[a]}

\* The counter a new record of apex a is added to.  The read goes through
\* getRaw, which answers with an error once the store is closed: the loop
\* then starts from 0.
CountBases(a) ==
    IF counts[a] # None THEN {counts[a]}
    ELSE IF closed THEN {0}
    ELSE ReadOrZero("counter", db.count[a])

StoreNew(n, date) ==
    LET new == [date |-> date, seq |-> seq + 1]
    IN  /\ batch' = [batch EXCEPT ![n] = new]
        /\ cache' = [cache EXCEPT ![n] = new]
        /\ \E c \in CountBases(ApexOf[n]) :
               counts' = [counts EXCEPT ![ApexOf[n]] = c + 1]
        /\ total' = total + 1

\* Mutant: a known record is rewritten whatever its date.
StoreKnown_AnyDate(n, date) ==
    /\ cache' = [cache EXCEPT ![n] = Known(n)]
    /\ batch' = [batch EXCEPT ![n] = [date |-> date, seq |-> Known(n).seq]]
    /\ UNCHANGED <<counts, total>>

\* Mutant: a known record counts towards the total as well.
StoreKnown_Counted(n, date) ==
    /\ cache' = [cache EXCEPT ![n] = Known(n)]
    /\ batch' = IF Known(n).date <= date
                THEN batch
                ELSE [batch EXCEPT ![n] = [date |-> date, seq |-> Known(n).seq]]
    /\ total' = total + 1
    /\ UNCHANGED counts

\* A known record is rewritten when the date is earlier than the cached one;
\* the cache keeps the date it has.
StoreKnown(n, date) ==
    /\ cache' = [cache EXCEPT ![n] = Known(n)]
    /\ batch' = IF Known(n).date <= date
                THEN batch
                ELSE [batch EXCEPT ![n] = [date |-> date, seq |-> Known(n).seq]]
    /\ UNCHANGED <<counts, total>>

-----------------------------------------------------------------------------
(* The ingest loop *)

\* The loop is at its select and receives the operation at the head.
Receive(kind) ==
    /\ loop = "select"
    /\ ch # <<>>
    /\ Head(ch).kind = kind
    /\ ch' = Tail(ch)

TakeRecord ==
    /\ Receive("record")
    /\ LET op == Head(ch)
       IN  IF Known(op.name) = None THEN StoreNew(op.name, op.date)
                                    ELSE StoreKnown(op.name, op.date)
    /\ seq' = seq + 1
    /\ pending' = pending + 1
    /\ loop' = IF pending + 1 >= FlushAt THEN "full" ELSE "select"
    /\ UNCHANGED <<db, base, marks, high, draining, recountVars, closeVars, callVars>>

\* A failed read of the record: the operation is logged and dropped.
DropRecord ==
    /\ "record" \in FailingReads
    /\ Receive("record")
    /\ cache[Head(ch).name] = None
    /\ UNCHANGED <<db, batchVars, base, high, seq, pending, loop, draining,
                   recountVars, closeVars, callVars>>

\* The flush that ends the handling of a record once the batch is full.
FlushFull ==
    /\ loop = "full"
    /\ Flush
    /\ pending' = 0
    /\ loop' = "select"
    /\ UNCHANGED <<base, high, seq, ch, draining, recountVars, closeVars, callVars>>

\* Only a mark above every mark this process has handled for the log counts.
TakeMark ==
    /\ Receive("mark")
    /\ LET op == Head(ch)
       IN  IF high[op.log] = None \/ op.mark > high[op.log]
           THEN /\ high' = [high EXCEPT ![op.log] = op.mark]
                /\ marks' = [marks EXCEPT ![op.log] = op.mark]
           ELSE UNCHANGED <<high, marks>>
    /\ UNCHANGED <<db, batch, cache, counts, total, base, seq, pending, loop,
                   draining, recountVars, closeVars, callVars>>

\* The 20 ms timer of the main select.
Tick ==
    /\ loop = "select"
    /\ ~draining
    /\ pending > 0 \/ marks # NoMarks
    /\ Flush
    /\ pending' = 0
    /\ UNCHANGED <<base, high, seq, ch, loop, draining, recountVars, closeVars,
                   callVars>>

StartDrain ==
    /\ loop = "select"
    /\ quit
    /\ ~draining
    /\ draining' = TRUE
    /\ UNCHANGED <<db, batchVars, base, high, seq, pending, ch, loop,
                   recountVars, closeVars, callVars>>

\* Mutant: the loop stops without its final flush.
FinishDrain_NoFlush ==
    /\ loop = "select"
    /\ draining
    /\ ch = <<>>
    /\ loop' = "stopped"
    /\ UNCHANGED <<db, batchVars, base, high, seq, pending, ch, draining,
                   recountVars, closeVars, callVars>>

\* The queue is found empty: the final flush, and the loop is done.
FinishDrain ==
    /\ loop = "select"
    /\ draining
    /\ ch = <<>>
    /\ Flush
    /\ loop' = "stopped"
    /\ UNCHANGED <<base, high, seq, pending, ch, draining, recountVars,
                   closeVars, callVars>>

-----------------------------------------------------------------------------
(* recountInLoop *)

\* The flush before the scan resets `pending' only if it commits.
TakeRecount ==
    /\ Receive("recount")
    /\ Flush
    /\ pending' = IF NothingToCommit THEN pending ELSE 0
    /\ asker' = Head(ch).from
    /\ counted' = {}
    /\ loop' = "recount"
    /\ UNCHANGED <<base, high, seq, draining, closeVars, callVars>>

\* Apexes that have records and whose counter is still to be written.
ToCount == {a \in Apexes : StoredOf(db.rec, a) # {}} \ counted

Recounted(S) ==
    [a \in Apexes |-> IF a \in S THEN Cardinality(StoredOf(db.rec, a))
                                 ELSE db.count[a]]

\* Every CountChunk counters are committed on their own.
RecountChunk ==
    /\ loop = "recount"
    /\ \E S \in SUBSET ToCount :
           /\ Cardinality(S) = CountChunk
           /\ db' = [db EXCEPT !.count = Recounted(S)]
           /\ counted' = counted \cup S
    /\ UNCHANGED <<batchVars, base, high, seq, pending, ch, loop, draining,
                   asker, closeVars, callVars>>

\* Mutant: the total is written, but the loop goes on from its old base.
RecountFinish_OldBase ==
    /\ loop = "recount"
    /\ Cardinality(ToCount) < CountChunk
    /\ db' = [db EXCEPT !.count = Recounted(ToCount),
                        !.total = Cardinality(Stored(db.rec))]
    /\ total' = 0
    /\ counts' = NoCounts
    /\ cache' = NoRecords
    /\ batch' = NoRecords
    /\ awaiting' = awaiting \ {asker}
    /\ asker' = None
    /\ counted' = {}
    /\ loop' = "select"
    /\ UNCHANGED <<base, marks, high, seq, pending, ch, draining, closeVars, sending>>

\* Mutant: only a recount that succeeds is answered.
RecountFails_NoAnswer ==
    /\ "recount" \in FailingReads
    /\ loop = "recount"
    /\ counted = {}
    /\ asker' = None
    /\ loop' = "select"
    /\ UNCHANGED <<db, batchVars, base, high, seq, pending, ch, draining,
                   counted, closeVars, callVars>>

\* The scan of the records fails: the caller is answered with an error, and the
\* counters are as the flush has left them.
RecountFails ==
    /\ "recount" \in FailingReads
    /\ loop = "recount"
    /\ counted = {}
    /\ awaiting' = awaiting \ {asker}
    /\ asker' = None
    /\ loop' = "select"
    /\ UNCHANGED <<db, batchVars, base, high, seq, pending, ch, draining,
                   counted, closeVars, sending>>

\* The last counters and the total; the counter state starts afresh from it.
RecountFinish ==
    /\ loop = "recount"
    /\ Cardinality(ToCount) < CountChunk
    /\ LET n == Cardinality(Stored(db.rec))
       IN  /\ db' = [db EXCEPT !.count = Recounted(ToCount), !.total = n]
           /\ base' = n
    /\ total' = 0
    /\ counts' = NoCounts
    /\ cache' = NoRecords
    /\ batch' = NoRecords
    /\ awaiting' = awaiting \ {asker}
    /\ asker' = None
    /\ counted' = {}
    /\ loop' = "select"
    /\ UNCHANGED <<marks, high, seq, pending, ch, draining, closeVars, sending>>

-----------------------------------------------------------------------------
(* sendOp, called by Ingest, AdvanceWatermark and Recount *)

Up == loop # "down"

\* Records on their way to the loop, which is what MaxSeq has to bound.
InFlight ==
    Cardinality({i \in 1..Len(ch) : ch[i].kind = "record"})
    + Cardinality({s \in Callers : sending[s] # None /\ sending[s].kind = "record"})

\* The closed flag is read under the mutex; the send comes after the unlock.
BeginSend(s, op) ==
    /\ Up
    /\ ~closed
    /\ sending[s] = None
    /\ s \notin awaiting
    /\ sending' = [sending EXCEPT ![s] = op]
    /\ UNCHANGED <<db, batchVars, base, high, seq, pending, ch, loop, draining,
                   recountVars, closeVars, awaiting>>

\* Mutant: the queue takes operations beyond its capacity.
CompleteSend_NoBound(s) ==
    /\ Up
    /\ sending[s] # None
    /\ Len(ch) <= QueueCap
    /\ ch' = Append(ch, sending[s])
    /\ sending' = [sending EXCEPT ![s] = None]
    /\ awaiting' = IF sending[s].kind = "recount" THEN awaiting \cup {s} ELSE awaiting
    /\ UNCHANGED <<db, batchVars, base, high, seq, pending, loop, draining,
                   recountVars, closeVars>>

\* The select of sendOp: the queue has room ...
CompleteSend(s) ==
    /\ Up
    /\ sending[s] # None
    /\ Len(ch) < QueueCap
    /\ ch' = Append(ch, sending[s])
    /\ sending' = [sending EXCEPT ![s] = None]
    /\ awaiting' = IF sending[s].kind = "recount" THEN awaiting \cup {s} ELSE awaiting
    /\ UNCHANGED <<db, batchVars, base, high, seq, pending, loop, draining,
                   recountVars, closeVars>>

\* Mutant: the send does not watch the quit channel.
RefuseSend_Never(s) == FALSE

\* ... or quit is closed, and the caller is told that the store is closed.
RefuseSend(s) ==
    /\ Up
    /\ sending[s] # None
    /\ quit
    /\ sending' = [sending EXCEPT ![s] = None]
    /\ UNCHANGED <<db, batchVars, base, high, seq, pending, ch, loop, draining,
                   recountVars, closeVars, awaiting>>

-----------------------------------------------------------------------------
(* Open, Close, and the end of the process *)

\* What a process holds before Open and after it ends.
ProcessReset ==
    /\ batch' = NoRecords
    /\ cache' = NoRecords
    /\ counts' = NoCounts
    /\ total' = 0
    /\ marks' = NoMarks
    /\ high' = NoMarks
    /\ pending' = 0
    /\ ch' = <<>>
    /\ draining' = FALSE
    /\ asker' = None
    /\ counted' = {}
    /\ closed' = FALSE
    /\ quit' = FALSE
    /\ sending' = [s \in Callers |-> None]
    /\ awaiting' = {}

\* Mutant: the sequence number is read from the key of the total.
Open_SeqFromTotal ==
    /\ loop = "down"
    /\ ProcessReset
    /\ seq' \in ReadOrZero("seq", db.total)
    /\ base' \in ReadOrZero("total", db.total)
    /\ loop' = "select"
    /\ UNCHANGED db

\* The errors of both reads are swallowed, and the process goes on from 0.
Open ==
    /\ loop = "down"
    /\ ProcessReset
    /\ seq' \in ReadOrZero("seq", db.seq)
    /\ base' \in ReadOrZero("total", db.total)
    /\ loop' = "select"
    /\ UNCHANGED db

\* Close marks the store closed, and closes quit after the unlock.
CloseMark ==
    /\ Up
    /\ ~closed
    /\ closed' = TRUE
    /\ UNCHANGED <<db, batchVars, base, high, seq, pending, ch, loop, draining,
                   recountVars, quit, callVars>>

CloseQuit ==
    /\ closed
    /\ ~quit
    /\ quit' = TRUE
    /\ UNCHANGED <<db, batchVars, base, high, seq, pending, ch, loop, draining,
                   recountVars, closed, callVars>>

ProcessEnd ==
    /\ ProcessReset
    /\ loop' = "down"
    /\ seq' = 0
    /\ base' = 0
    /\ UNCHANGED db

\* The process returns from main once Close has waited for the loop.
Exit == loop = "stopped" /\ ProcessEnd

\* The process dies at any point; what is committed stays.
Crash == Up /\ ProcessEnd

-----------------------------------------------------------------------------

Init ==
    /\ db = EmptyDb
    /\ batch = NoRecords /\ cache = NoRecords /\ counts = NoCounts
    /\ total = 0 /\ base = 0 /\ seq = 0 /\ pending = 0
    /\ marks = NoMarks /\ high = NoMarks
    /\ ch = <<>>
    /\ loop = "down" /\ draining = FALSE
    /\ asker = None /\ counted = {}
    /\ closed = FALSE /\ quit = FALSE
    /\ sending = [s \in Callers |-> None]
    /\ awaiting = {}

\* Ingest, AdvanceWatermark and Recount, by any caller.
Call(s) ==
    \/ /\ seq + InFlight < MaxSeq
       /\ \E op \in RecordOps : BeginSend(s, op)
    \/ \E op \in MarkOps : BeginSend(s, op)
    \/ BeginSend(s, [kind |-> "recount", from |-> s])

SendStep(s) == CompleteSend(s) \/ RefuseSend(s)

LoopStep ==
    \/ TakeRecord
    \/ DropRecord
    \/ FlushFull
    \/ TakeMark
    \/ Tick
    \/ TakeRecount
    \/ RecountChunk
    \/ RecountFails
    \/ RecountFinish
    \/ StartDrain
    \/ FinishDrain

CloseStep == CloseMark \/ CloseQuit

Next ==
    \/ \E s \in Callers : Call(s) \/ SendStep(s)
    \/ LoopStep
    \/ CloseStep
    \/ Open
    \/ Exit
    \/ Crash

Spec == Init /\ [][Next]_vars

\* The loop is a goroutine that always runs on; blocked senders are served in
\* the order in which they arrived, so each one is among those that get room;
\* and Close goes on from its unlock to close(quit).
Fairness ==
    /\ WF_vars(LoopStep)
    /\ \A s \in Callers : SF_vars(SendStep(s))
    /\ WF_vars(CloseQuit)

FairSpec == Spec /\ Fairness
-----------------------------------------------------------------------------
(* Properties *)

DbOK ==
    db \in [rec   : [Names -> Records \cup {None}],
            count : [Apexes -> Nat],
            total : Nat,
            seq   : Nat,
            mark  : [Logs -> 0..MaxMark]]

BatchOK ==
    /\ batch \in [Names -> Records \cup {None}]
    /\ cache \in [Names -> Records \cup {None}]
    /\ counts \in [Apexes -> Nat \cup {None}]
    /\ marks \in [Logs -> (0..MaxMark) \cup {None}]
    /\ total \in Nat

LoopOK ==
    /\ high \in [Logs -> (0..MaxMark) \cup {None}]
    /\ base \in Nat /\ seq \in Nat /\ pending \in Nat
    /\ loop \in {"down", "select", "full", "recount", "stopped"}
    /\ draining \in BOOLEAN
    /\ asker \in Callers \cup {None}
    /\ counted \subseteq Apexes

CallersOK ==
    /\ ch \in Seq(Ops) /\ Len(ch) <= QueueCap
    /\ closed \in BOOLEAN /\ quit \in BOOLEAN
    /\ quit => closed
    /\ sending \in [Callers -> Ops \cup {None}]
    /\ awaiting \subseteq Callers

\* The shape of every variable: what Open, the loop, sendOp and Close may
\* leave in the database and in the fields of Store.
TypeOK == DbOK /\ BatchOK /\ LoopOK /\ CallersOK

\* Sequence numbers (seq in apply and in the ingest loop): no two names, stored
\* or about to be, share a number, in this process or after a restart, and the
\* next number is above all of them.  This needs a database in which Open can
\* read the last number; where it cannot, the numbers start again from 1.
SeqsDistinct ==
    /\ \A n, m \in Stored(View) :
           n # m => View[n].seq # View[m].seq
    /\ \A n \in Stored(View) : Up => View[n].seq <= seq
    /\ \A n \in Stored(db.rec) : db.rec[n].seq <= db.seq

\* Cursors (ScanAfter): a client that polled an apex and polls again from the
\* cursor it got is given exactly the names stored in between, whatever was
\* committed, rewritten, recounted or lost to a crash meanwhile.  This, too,
\* needs an Open that can read the last number (see NewNamesCanBePolled).
CursorMissesNothing ==
    [][\A a \in Apexes :
          RowsAfter(db'.rec, a, LargestSeq(db.rec, a))
              = StoredOf(db'.rec, a) \ StoredOf(db.rec, a)]_vars

\* "Nothing is deleted" (apply): a stored name stays stored, with its number,
\* and its date only ever moves to an earlier one.
StoredNamesAreKept ==
    [][\A n \in Stored(db.rec) :
          /\ n \in Stored(db'.rec)
          /\ db'.rec[n].seq = db.rec[n].seq
          /\ db'.rec[n].date <= db.rec[n].date]_vars

\* Counters (apply, pendingCount, flush, recountInLoop): what Count and Total
\* report never exceeds the records stored, through shutdowns, crashes, failed
\* reads and recounts cut short.
CountersNeverOvercount ==
    /\ \A a \in Apexes : db.count[a] <= Cardinality(StoredOf(db.rec, a))
    /\ db.total <= Cardinality(Stored(db.rec))

\* The counters a commit would write are those of the records it would write.
CountsMatch(recs, cs) ==
    \A a \in Apexes : cs[a] = Cardinality(StoredOf(recs, a))

CountsExact ==
    CountsMatch(db.rec, db.count) /\ CountsMatch(View, CommittedDb.count)

\* Per-apex counters (pendingCount, apply): once exact they stay exact across
\* every step of a store that is not shutting down, restarts included.
OnlyShutdownBreaksCounts ==
    [][CountsExact /\ ~closed => CountsExact']_vars

\* Recount: whatever the counters had become, one that does not answer with an
\* error leaves each of them, and the total, equal to the number of records,
\* and the counters it goes on from are the same.
RecountRepairs ==
    [][loop = "recount" /\ loop' = "select" /\ ~RecountFails =>
          /\ CountsMatch(db'.rec, db'.count)
          /\ db'.total = Cardinality(Stored(db'.rec))
          /\ View' = db'.rec
          /\ base' = db'.total /\ total' = 0]_vars

\* Close: when the loop is done, nothing it has handled is left uncommitted.
StopLeavesNothingBehind ==
    loop = "stopped" =>
        /\ View = db.rec
        /\ \A l \in Logs : high[l] # None => db.mark[l] = high[l]

\* The refinement: what is accepted and what is durable, of the real store.
NumbersOf(recs) == [n \in Names |-> IF recs[n] = None THEN 0 ELSE recs[n].seq]

Accepted == [seq |-> NumbersOf(View), mark |-> CommittedDb.mark]
Durable  == [seq |-> NumbersOf(db.rec), mark |-> db.mark]

Index == INSTANCE DurableIndex WITH mem <- Accepted, disk <- Durable

\* The store implements the index: names and marks reach the disk together and
\* in the order they were handled, although the loop commits on a timer, on a
\* full batch, before a recount and at shutdown.  A new name is above all that
\* are stored as long as Open can read the last number.
ImplementsIndex == Index!Spec

\* A Recount is answered (recountInLoop), be it with an error, whatever is
\* queued before it, whatever others send meanwhile and however many chunks it
\* takes, unless the process ends or the request was sent after the loop had
\* drained the queue: then its caller waits for ever.
RecountsAreAnswered ==
    \A s \in Callers : (s \in awaiting) ~> (s \notin awaiting \/ loop \in {"down", "stopped"})

\* A caller of Ingest, AdvanceWatermark or Recount gets out of sendOp (sendOp):
\* a full queue or a shutdown never holds it forever.
SendersReturn == \A s \in Callers : [](sending[s] # None => <>(sending[s] = None))

-----------------------------------------------------------------------------
(* Why these hold: the inductive invariant *)

\* The batch and the cache: every name of the batch is in the cache, the cache
\* knows a name as the database does, or else with the number the batch gives
\* it, and the batch is empty where the loop relies on it.
RecordsInv ==
    /\ loop \in {"down", "recount", "stopped"} => NothingToCommit
    /\ \A n \in Names :
          /\ batch[n] # None => cache[n] # None
          /\ cache[n] # None =>
                View[n] # None /\ View[n].seq = cache[n].seq
          /\ cache[n] # None /\ db.rec[n] # None => cache[n] = db.rec[n]
          /\ batch[n] # None /\ db.rec[n] # None =>
                batch[n].date <= db.rec[n].date

\* Sequence numbers: given out once, below the counter, durable with it.
NumbersInv ==
    /\ \A n, m \in Names :
          View[n] # None /\ View[m] # None /\ n # m => View[n].seq # View[m].seq
    /\ \A n \in Names : View[n] # None /\ Up => View[n].seq <= seq
    /\ \A n \in Names : IF db.rec[n] # None THEN db.rec[n].seq <= db.seq
                        ELSE View[n] # None => View[n].seq > db.seq
    /\ Up => db.seq <= seq

\* Watermarks: the last mark the process has taken is the one a commit writes.
MarksInv == \A l \in Logs : high[l] # None => CommittedDb.mark[l] = high[l]

\* Of the numbers something can be said only where Open can read the last one.
SeqIsRead == "seq" \notin FailingReads

StoreInv == RecordsInv /\ MarksInv /\ (SeqIsRead => NumbersInv)

\* Counters: the pending ones count records of the view, the pending total new
\* ones among them, and the base records on disk.
CountersInv ==
    /\ CountersNeverOvercount
    /\ \A a \in Apexes :
          counts[a] # None => counts[a] <= Cardinality(StoredOf(View, a))
    /\ total <= Cardinality(Stored(View) \ Stored(db.rec))
    /\ base <= Cardinality(Stored(db.rec))

-----------------------------------------------------------------------------
(* What the documentation says of the store and the code does not do *)

\* README.md:57, `stats' prints the total records: the total Total reads
\* (written by apply from totalBase) is the number of records stored.
TotalIsRecordCount == db.total = Cardinality(Stored(db.rec))

\* README.md:96, /v1/watch gives the "names collected since sequence `N`": a
\* name that is new on disk lies above every cursor its apex has given out.
NewNamesCanBePolled ==
    [][\A n \in Stored(db'.rec) \ Stored(db.rec) :
          n \in RowsAfter(db'.rec, ApexOf[n], LargestSeq(db.rec, ApexOf[n]))]_vars

\* store.go:167, "a shutdown loses no accepted writes": the loop does not stop
\* with operations in the queue that sendOp has accepted.
ShutdownLosesNothing == loop = "stopped" => ch = <<>>
=============================================================================
