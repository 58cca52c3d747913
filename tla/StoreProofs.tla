---------------------------- MODULE StoreProofs ----------------------------
(***************************************************************************)
(* Proofs about Store, for every value of its constants.                   *)
(***************************************************************************)
EXTENDS Store, FiniteSetTheorems, WellFoundedInduction, TLAPS

USE SizesAssumption, DataAssumption DEF Up

-----------------------------------------------------------------------------
(***************************************************************************)
(* The bounds on what is sent are there for TLC.  What is proved here      *)
(* holds without the bound on records: any caller may send any operation   *)
(* at any time, as the tailers of Ingest do.                               *)
(***************************************************************************)

AnyCall(s) == \E op \in Ops : BeginSend(s, op)

FreeNext ==
    \/ \E s \in Callers : AnyCall(s) \/ SendStep(s)
    \/ LoopStep
    \/ CloseStep
    \/ Open
    \/ Exit
    \/ Crash

FreeSpec == Init /\ [][FreeNext]_vars

\* The store with the bound on records (Ingest, AdvanceWatermark, Recount) is one
\* of those.
LEMMA NextIsFree ==
    ASSUME [Next]_vars PROVE [FreeNext]_vars
  <1>1. ASSUME NEW s \in Callers, Call(s) PROVE AnyCall(s)
    BY <1>1 DEF Call, AnyCall, Ops, RecountOps
  <1>2. QED BY <1>1 DEF Next, FreeNext

\* So what holds without the bound holds with it.
LEMMA SpecIsFree == Spec => FreeSpec
  <1>1. [Next]_vars => [FreeNext]_vars
    BY NextIsFree
  <1>2. QED BY <1>1, PTL DEF Spec, FreeSpec

-----------------------------------------------------------------------------
(* Lemmas about the operators *)

\* The kind of a queued operation (ingestOp) tells its fields.
LEMMA OpKinds ==
    ASSUME NEW op \in Ops
    PROVE  /\ op # None
           /\ op.kind = "record" => op \in RecordOps /\ op.name \in Names /\ op.date \in Dates
           /\ op.kind = "mark" => op \in MarkOps /\ op.log \in Logs /\ op.mark \in 0..MaxMark
           /\ op.kind = "recount" => op \in RecountOps /\ op.from \in Callers
           /\ op.kind \in {"record", "mark", "recount"}
  BY NoneAssumption DEF Ops, RecordOps, MarkOps, RecountOps

\* A receive takes an operation of the kind asked for off a queue that stays
\* within its capacity.
LEMMA ReceiveTypes ==
    ASSUME CallersOK, NEW kind, Receive(kind)
    PROVE  /\ Head(ch) \in Ops
           /\ Head(ch).kind = kind
           /\ ch' \in Seq(Ops)
           /\ Len(ch') <= QueueCap
  BY DEF CallersOK, Receive

\* The batch laid over the database is a map of records, and so is what a
\* commit writes.
LEMMA CommitTypes ==
    ASSUME DbOK, BatchOK, LoopOK
    PROVE  /\ View \in [Names -> Records \cup {None}]
           /\ CommittedDb \in [rec   : [Names -> Records \cup {None}],
                               count : [Apexes -> Nat],
                               total : Nat,
                               seq   : Nat,
                               mark  : [Logs -> 0..MaxMark]]
  <1>1. View \in [Names -> Records \cup {None}]
    BY DEF DbOK, BatchOK, View
  <1>2. [a \in Apexes |-> IF counts[a] # None THEN counts[a] ELSE db.count[a]]
            \in [Apexes -> Nat]
    BY DEF DbOK, BatchOK
  <1>3. (IF total > 0 THEN base + total ELSE db.total) \in Nat
    BY DEF DbOK, BatchOK, LoopOK
  <1>4. [l \in Logs |-> IF marks[l] # None THEN marks[l] ELSE db.mark[l]]
            \in [Logs -> 0..MaxMark]
    BY DEF DbOK, BatchOK
  <1>5. QED BY <1>1, <1>2, <1>3, <1>4 DEF CommittedDb, LoopOK

\* A flush keeps the shape of the database and of the batch.
LEMMA FlushTypes ==
    ASSUME DbOK, BatchOK, LoopOK, Flush
    PROVE  DbOK' /\ BatchOK'
  <1>1. CASE NothingToCommit
    BY <1>1 DEF Flush, DbOK, BatchOK, batchVars
  <1>2. CASE ~NothingToCommit
    <2>1. DbOK'
      BY <1>2, CommitTypes DEF Flush, DbOK
    <2>2. BatchOK'
      BY <1>2 DEF Flush, BatchOK, NoRecords, NoCounts, NoMarks
    <2>3. QED BY <2>1, <2>2
  <1>3. QED BY <1>1, <1>2

\* The record known for a name is a record or missing.
LEMMA KnownType ==
    ASSUME DbOK, BatchOK, NEW n \in Names
    PROVE  Known(n) \in Records \cup {None}
  BY DEF DbOK, BatchOK, Known

\* The names with a record, and those of one apex, are finitely many.
LEMMA StoredFinite ==
    ASSUME NEW recs
    PROVE  /\ IsFiniteSet(Stored(recs)) /\ Cardinality(Stored(recs)) \in Nat
           /\ \A a : /\ IsFiniteSet(StoredOf(recs, a))
                     /\ Cardinality(StoredOf(recs, a)) \in Nat
  <1>1. Stored(recs) \subseteq Names
    BY DEF Stored
  <1>2. \A a : StoredOf(recs, a) \subseteq Names
    BY DEF StoredOf, Stored
  <1>3. QED BY <1>1, <1>2, FS_Subset, FS_CardinalityType

-----------------------------------------------------------------------------
(* Type correctness *)

\* An empty queue is a queue.
LEMMA EmptyQueue == <<>> \in Seq(Ops) /\ Len(<<>>) <= QueueCap
  <1>1. Len(<<>>) = 0 /\ QueueCap \in Nat
    OBVIOUS
  <1>2. QED BY <1>1

\* The store starts well typed.
LEMMA InitTypes == Init => TypeOK
  <1> SUFFICES ASSUME Init PROVE TypeOK
    OBVIOUS
  <1>1. DbOK
    BY DEF Init, DbOK, EmptyDb, NoRecords
  <1>2. BatchOK
    BY DEF Init, BatchOK, NoRecords, NoCounts, NoMarks
  <1>3. LoopOK
    BY DEF Init, LoopOK, NoMarks
  <1>4. CallersOK
    BY EmptyQueue DEF Init, CallersOK
  <1>5. QED BY <1>1, <1>2, <1>3, <1>4 DEF TypeOK

\* A record that is handled: apply (StoreNew, StoreKnown).
LEMMA TakeRecordTypes == TypeOK /\ TakeRecord => TypeOK'
  <1> SUFFICES ASSUME TypeOK, TakeRecord PROVE TypeOK'
    OBVIOUS
  <1> USE DEF TypeOK
  <1>1. PICK op \in RecordOps : op = Head(ch) /\ op.name \in Names /\ op.date \in Dates
    BY ReceiveTypes, OpKinds DEF TakeRecord
  <1>2. DbOK'
    BY DEF TakeRecord, DbOK
  <1>3. BatchOK'
    <2>1. CASE Known(op.name) = None
      <3>1. [date |-> op.date, seq |-> seq + 1] \in Records
        BY <1>1 DEF Records, LoopOK
      <3>2. ApexOf[op.name] \in Apexes
        BY <1>1
      <3>3. \A c \in CountBases(ApexOf[op.name]) : c + 1 \in Nat
        BY <3>2 DEF CountBases, ReadOrZero, BatchOK, DbOK
      <3>4. StoreNew(op.name, op.date)
        BY <1>1, <2>1 DEF TakeRecord
      <3>5. QED
        BY <1>1, <3>1, <3>2, <3>3, <3>4 DEF StoreNew, BatchOK, TakeRecord
    <2>2. CASE Known(op.name) # None
      <3>1. Known(op.name) \in Records
        BY <1>1, <2>2, KnownType
      <3>2. [date |-> op.date, seq |-> Known(op.name).seq] \in Records
        BY <1>1, <3>1 DEF Records
      <3>3. StoreKnown(op.name, op.date)
        BY <1>1, <2>2 DEF TakeRecord
      <3>4. QED
        BY <1>1, <3>1, <3>2, <3>3 DEF StoreKnown, BatchOK, TakeRecord
    <2>3. QED BY <2>1, <2>2
  <1>4. LoopOK'
    BY DEF TakeRecord, LoopOK, recountVars
  <1>5. CallersOK'
    BY ReceiveTypes DEF TakeRecord, CallersOK, closeVars, callVars
  <1>6. QED BY <1>2, <1>3, <1>4, <1>5

\* The steps of the loop that flush: a full batch, the timer, the final flush,
\* and the flush before a recount.
LEMMA FlushStepTypes ==
    ASSUME TypeOK, FlushFull \/ Tick \/ FinishDrain \/ TakeRecount
    PROVE  TypeOK'
  <1> USE DEF TypeOK
  <1>1. DbOK' /\ BatchOK'
    BY FlushTypes DEF FlushFull, Tick, FinishDrain, TakeRecount
  <1>2. LoopOK'
    <2>1. CASE FlushFull \/ Tick \/ FinishDrain
      BY <2>1 DEF FlushFull, Tick, FinishDrain, LoopOK, recountVars
    <2>2. CASE TakeRecount
      <3>1. Head(ch).from \in Callers
        BY <2>2, ReceiveTypes, OpKinds DEF TakeRecount
      <3>2. QED BY <2>2, <3>1 DEF TakeRecount, LoopOK
    <2>3. QED BY <2>1, <2>2
  <1>3. CallersOK'
    <2>1. CASE FlushFull \/ Tick \/ FinishDrain
      BY <2>1 DEF FlushFull, Tick, FinishDrain, CallersOK, closeVars, callVars
    <2>2. CASE TakeRecount
      BY <2>2, ReceiveTypes DEF TakeRecount, CallersOK, closeVars, callVars
    <2>3. QED BY <2>1, <2>2
  <1>4. QED BY <1>1, <1>2, <1>3

\* The loop takes a watermark, drops a record, or leaves its main select.
LEMMA TakeMarkTypes ==
    ASSUME TypeOK, TakeMark \/ DropRecord \/ StartDrain
    PROVE  TypeOK'
  <1> USE DEF TypeOK
  <1>1. CASE TakeMark
    <2>1. Head(ch).log \in Logs /\ Head(ch).mark \in 0..MaxMark
      BY <1>1, ReceiveTypes, OpKinds DEF TakeMark
    <2>2. DbOK' /\ BatchOK'
      BY <1>1, <2>1 DEF TakeMark, DbOK, BatchOK
    <2>3. LoopOK'
      BY <1>1, <2>1 DEF TakeMark, LoopOK, recountVars
    <2>4. CallersOK'
      BY <1>1, ReceiveTypes DEF TakeMark, CallersOK, closeVars, callVars
    <2>5. QED BY <2>2, <2>3, <2>4
  <1>2. CASE DropRecord
    <2>1. DbOK' /\ BatchOK' /\ LoopOK'
      BY <1>2 DEF DropRecord, DbOK, BatchOK, LoopOK, batchVars, recountVars
    <2>2. CallersOK'
      BY <1>2, ReceiveTypes DEF DropRecord, CallersOK, closeVars, callVars
    <2>3. QED BY <2>1, <2>2
  <1>3. CASE StartDrain
    BY <1>3 DEF StartDrain, DbOK, BatchOK, LoopOK, CallersOK, batchVars,
                recountVars, closeVars, callVars
  <1>4. QED BY <1>1, <1>2, <1>3

\* The counters a recount writes, and the one that fails (recountInLoop).
LEMMA RecountTypes ==
    ASSUME TypeOK, RecountChunk \/ RecountFails \/ RecountFinish
    PROVE  TypeOK'
  <1> USE DEF TypeOK
  <1>1. \A S : Recounted(S) \in [Apexes -> Nat]
    BY StoredFinite DEF Recounted, DbOK
  <1>2. ToCount \subseteq Apexes
    BY DEF ToCount
  <1>3. CASE RecountChunk
    <2>1. PICK S \in SUBSET ToCount :
             db' = [db EXCEPT !.count = Recounted(S)] /\ counted' = counted \cup S
      BY <1>3 DEF RecountChunk
    <2>2. DbOK'
      BY <1>1, <2>1 DEF DbOK
    <2>3. BatchOK' /\ LoopOK' /\ CallersOK'
      BY <1>2, <1>3, <2>1
         DEF RecountChunk, BatchOK, LoopOK, CallersOK, batchVars, closeVars, callVars
    <2>4. QED BY <2>2, <2>3
  <1>4. CASE RecountFinish
    <2>1. Cardinality(Stored(db.rec)) \in Nat
      BY StoredFinite
    <2>2. DbOK'
      BY <1>1, <1>4, <2>1 DEF RecountFinish, DbOK
    <2>3. BatchOK'
      BY <1>4 DEF RecountFinish, BatchOK, NoRecords, NoCounts
    <2>4. LoopOK' /\ CallersOK'
      BY <1>4, <2>1 DEF RecountFinish, LoopOK, CallersOK, closeVars
    <2>5. QED BY <2>2, <2>3, <2>4
  <1>5. CASE RecountFails
    BY <1>5 DEF RecountFails, DbOK, BatchOK, LoopOK, CallersOK, batchVars, closeVars
  <1>6. QED BY <1>3, <1>4, <1>5

\* sendOp and Close touch the queue, the callers and the two flags only.
LEMMA CallerStepTypes ==
    ASSUME TypeOK,
           \/ \E s \in Callers : AnyCall(s) \/ SendStep(s)
           \/ CloseStep
    PROVE  TypeOK'
  <1> USE DEF TypeOK
  <1> USE DEF DbOK, BatchOK, LoopOK, batchVars, recountVars, closeVars, callVars
  <1>1. ASSUME NEW s \in Callers, AnyCall(s)
        PROVE  TypeOK'
    <2>1. PICK op \in Ops : BeginSend(s, op)
      BY <1>1 DEF AnyCall
    <2>2. QED BY <2>1 DEF BeginSend, CallersOK
  <1>2. ASSUME NEW s \in Callers, CompleteSend(s)
        PROVE  TypeOK'
    <2>1. sending[s] \in Ops
      BY <1>2 DEF CompleteSend, CallersOK
    <2>2. Append(ch, sending[s]) \in Seq(Ops) /\ Len(Append(ch, sending[s])) <= QueueCap
      BY <1>2, <2>1 DEF CompleteSend, CallersOK
    <2>3. QED BY <1>2, <2>2 DEF CompleteSend, CallersOK
  <1>3. ASSUME NEW s \in Callers, RefuseSend(s)
        PROVE  TypeOK'
    BY <1>3 DEF RefuseSend, CallersOK
  <1>4. CASE CloseStep
    BY <1>4 DEF CloseStep, CloseMark, CloseQuit, CallersOK
  <1>5. QED BY <1>1, <1>2, <1>3, <1>4 DEF SendStep

\* A process that starts or ends holds nothing.
LEMMA ProcessTypes ==
    ASSUME TypeOK, Open \/ Exit \/ Crash
    PROVE  TypeOK'
  <1> USE DEF TypeOK
  <1>1. DbOK'
    BY DEF Open, Exit, Crash, ProcessEnd, DbOK
  <1>2. ProcessReset /\ loop' \in {"select", "down"} /\ seq' \in Nat /\ base' \in Nat
    BY DEF Open, Exit, Crash, ProcessEnd, ReadOrZero, DbOK
  <1>3. BatchOK'
    BY <1>2 DEF ProcessReset, BatchOK, NoRecords, NoCounts, NoMarks
  <1>4. LoopOK'
    BY <1>2 DEF ProcessReset, LoopOK, NoMarks
  <1>5. CallersOK'
    BY <1>2, EmptyQueue DEF ProcessReset, CallersOK
  <1>6. QED BY <1>1, <1>3, <1>4, <1>5

\* A step keeps the shape of every variable.
LEMMA TypesNext ==
    ASSUME TypeOK, [FreeNext]_vars
    PROVE  TypeOK'
  <1>1. CASE LoopStep
    BY <1>1, TakeRecordTypes, FlushStepTypes, TakeMarkTypes, RecountTypes DEF LoopStep
  <1>2. CASE CloseStep \/ \E s \in Callers : AnyCall(s) \/ SendStep(s)
    BY <1>2, CallerStepTypes
  <1>3. CASE Open \/ Exit \/ Crash
    BY <1>3, ProcessTypes
  <1>4. CASE UNCHANGED vars
    BY <1>4 DEF vars, TypeOK, DbOK, BatchOK, LoopOK, CallersOK
  <1>5. QED BY <1>1, <1>2, <1>3, <1>4 DEF FreeNext

\* The shape is kept throughout, with no bound on the records.
LEMMA FreeTypes == FreeSpec => []TypeOK
  <1>1. TypeOK /\ [FreeNext]_vars => TypeOK'
    BY TypesNext
  <1>2. QED BY <1>1, InitTypes, PTL DEF FreeSpec

\* Every variable keeps its shape: the queue never holds more than its capacity,
\* whatever the callers, the loop and Close do (sendOp, ingestLoop).
THEOREM TypeCorrect == Spec => []TypeOK
  BY FreeTypes, SpecIsFree, PTL

-----------------------------------------------------------------------------
(***************************************************************************)
(* What each step does to the records, the numbers and the watermarks.     *)
(* The actions of Store fall into seven kinds; the proofs below go by kind *)
(***************************************************************************)

NewEffect ==
    \E n \in Names, d \in Dates :
        LET new == [date |-> d, seq |-> seq + 1]
        IN  /\ Known(n) = None
            /\ batch' = [batch EXCEPT ![n] = new]
            /\ cache' = [cache EXCEPT ![n] = new]
            /\ seq' = seq + 1
            /\ UNCHANGED <<db, marks, high>>
            /\ loop = "select" /\ loop' \in {"select", "full"}

KnownEffect ==
    \E n \in Names, d \in Dates :
        /\ Known(n) # None
        /\ cache' = [cache EXCEPT ![n] = Known(n)]
        /\ \/ batch' = batch
           \/ /\ d <= Known(n).date
              /\ batch' = [batch EXCEPT ![n] = [date |-> d, seq |-> Known(n).seq]]
        /\ seq' = seq + 1
        /\ UNCHANGED <<db, marks, high>>
        /\ loop = "select" /\ loop' \in {"select", "full"}

FlushEffect ==
    /\ Flush
    /\ UNCHANGED <<high, seq>>
    /\ loop \in {"select", "full"} /\ loop' \in {"select", "recount", "stopped"}

MarkEffect ==
    /\ \E l \in Logs, w \in 0..MaxMark :
          /\ high' = [high EXCEPT ![l] = w]
          /\ marks' = [marks EXCEPT ![l] = w]
    /\ UNCHANGED <<db, batch, cache, seq>>
    /\ loop = "select" /\ loop' = "select"

RecountEffect ==
    /\ db'.rec = db.rec /\ db'.seq = db.seq /\ db'.mark = db.mark
    /\ batch' \in {batch, NoRecords} /\ cache' \in {cache, NoRecords}
    /\ UNCHANGED <<marks, high, seq>>
    /\ loop = "recount" /\ loop' \in {"recount", "select"}

ProcessEffect ==
    /\ UNCHANGED db
    /\ batch' = NoRecords /\ cache' = NoRecords
    /\ marks' = NoMarks /\ high' = NoMarks
    /\ \/ loop' = "down"
       \/ loop = "down" /\ (SeqIsRead => seq' = db.seq)

IdleEffect == UNCHANGED <<db, batch, cache, marks, high, seq, loop>>

\* What the steps of the ingest loop do (ingestLoop, apply, flush, recountInLoop).
LEMMA LoopEffects ==
    ASSUME TypeOK, LoopStep
    PROVE  NewEffect \/ KnownEffect \/ FlushEffect \/ MarkEffect \/ RecountEffect
               \/ IdleEffect
  <1> USE DEF TypeOK
  <1>1. CASE TakeRecord
    <2>1. PICK op \in RecordOps : op = Head(ch) /\ op.name \in Names /\ op.date \in Dates
      BY <1>1, ReceiveTypes, OpKinds DEF TakeRecord
    <2>2. /\ seq' = seq + 1
          /\ UNCHANGED <<db, marks, high>>
          /\ loop = "select" /\ loop' \in {"select", "full"}
      BY <1>1 DEF TakeRecord, Receive
    <2>3. CASE Known(op.name) = None
      <3>1. StoreNew(op.name, op.date)
        BY <1>1, <2>1, <2>3 DEF TakeRecord
      <3>2. NewEffect
        BY <2>1, <2>2, <2>3, <3>1 DEF StoreNew, NewEffect
      <3>3. QED BY <3>2
    <2>4. CASE Known(op.name) # None
      <3>1. StoreKnown(op.name, op.date)
        BY <1>1, <2>1, <2>4 DEF TakeRecord
      <3>2. Known(op.name).date \in Nat /\ op.date \in Nat
        BY <2>1, <2>4, KnownType DEF Records
      <3>3. \/ batch' = batch
            \/ /\ op.date <= Known(op.name).date
               /\ batch' = [batch EXCEPT ![op.name] =
                                [date |-> op.date, seq |-> Known(op.name).seq]]
        BY <3>1, <3>2 DEF StoreKnown
      <3>4. cache' = [cache EXCEPT ![op.name] = Known(op.name)]
        BY <3>1 DEF StoreKnown
      <3>5. KnownEffect
        BY <2>1, <2>2, <2>4, <3>3, <3>4 DEF KnownEffect
      <3>6. QED BY <3>5
    <2>5. QED BY <2>3, <2>4
  <1>2. CASE FlushFull \/ Tick \/ FinishDrain \/ TakeRecount
    BY <1>2 DEF FlushFull, Tick, FinishDrain, TakeRecount, Receive, FlushEffect
  <1>3. CASE TakeMark
    <2>1. Head(ch).log \in Logs /\ Head(ch).mark \in 0..MaxMark
      BY <1>3, ReceiveTypes, OpKinds DEF TakeMark
    <2>2. MarkEffect \/ IdleEffect
      BY <1>3, <2>1 DEF TakeMark, Receive, MarkEffect, IdleEffect
    <2>3. QED BY <2>2
  <1>4. CASE DropRecord \/ StartDrain
    BY <1>4 DEF DropRecord, StartDrain, IdleEffect, batchVars
  <1>5. CASE RecountChunk
    <2>1. /\ db'.rec = db.rec /\ db'.seq = db.seq /\ db'.mark = db.mark
          /\ UNCHANGED <<batch, cache, marks, high, seq, loop>> /\ loop = "recount"
      <3>1. PICK S : db' = [db EXCEPT !.count = Recounted(S)]
        BY <1>5 DEF RecountChunk
      <3>2. DEFINE R == Recounted(S)
      <3>3. db' = [db EXCEPT !.count = R]
        BY <3>1
      <3> HIDE DEF R
      <3>4. db'.rec = db.rec /\ db'.seq = db.seq /\ db'.mark = db.mark
        BY <3>3 DEF DbOK
      <3>5. QED BY <1>5, <3>4 DEF RecountChunk, batchVars
    <2>2. QED BY <2>1 DEF RecountEffect
  <1>6. CASE RecountFinish
    <2>1. DEFINE R == Recounted(ToCount)
                 C == Cardinality(Stored(db.rec))
    <2>2. db' = [db EXCEPT !.count = R, !.total = C]
      BY <1>6 DEF RecountFinish
    <2> HIDE DEF R, C
    <2>3. db'.rec = db.rec /\ db'.seq = db.seq /\ db'.mark = db.mark
      BY <2>2 DEF DbOK
    <2>4. QED BY <1>6, <2>3 DEF RecountFinish, RecountEffect
  <1>7. CASE RecountFails
    BY <1>7 DEF RecountFails, RecountEffect, batchVars
  <1>8. QED BY <1>1, <1>2, <1>3, <1>4, <1>5, <1>6, <1>7 DEF LoopStep

\* What any step does: one of the loop, of Close, or a process that ends or begins.
LEMMA Effects ==
    ASSUME TypeOK, [FreeNext]_vars
    PROVE  NewEffect \/ KnownEffect \/ FlushEffect \/ MarkEffect \/ RecountEffect
               \/ ProcessEffect \/ IdleEffect
  <1>1. CASE LoopStep
    BY <1>1, LoopEffects
  <1>2. CASE CloseStep
    BY <1>2 DEF CloseStep, CloseMark, CloseQuit, IdleEffect, batchVars
  <1>3. ASSUME NEW s \in Callers, AnyCall(s) \/ SendStep(s) PROVE IdleEffect
    BY <1>3 DEF AnyCall, SendStep, BeginSend, CompleteSend, RefuseSend, IdleEffect, batchVars
  <1>4. CASE Open \/ Exit \/ Crash
    BY <1>4 DEF Open, Exit, Crash, ProcessEnd, ProcessReset, ReadOrZero, SeqIsRead,
                ProcessEffect
  <1>5. CASE UNCHANGED vars
    BY <1>5 DEF vars, IdleEffect
  <1>6. QED BY <1>1, <1>2, <1>3, <1>4, <1>5 DEF FreeNext

-----------------------------------------------------------------------------
(* How each kind of step changes what the next commit would make durable *)

\* A name not known is in neither the cache, the batch nor the database.
LEMMA UnknownName ==
    ASSUME TypeOK, RecordsInv, NEW n \in Names, Known(n) = None
    PROVE  cache[n] = None /\ batch[n] = None /\ db.rec[n] = None /\ View[n] = None
  BY DEF Known, RecordsInv, View

\* A known name has a record in the view, with the number the loop knows.
LEMMA KnownName ==
    ASSUME TypeOK, RecordsInv, NEW n \in Names, Known(n) # None
    PROVE  /\ Known(n) \in Records
           /\ View[n] \in Records /\ View[n].seq = Known(n).seq
           /\ db.rec[n] # None => Known(n) = db.rec[n]
           /\ batch[n] = None => View[n] = db.rec[n]
  <1>1. Known(n) \in Records
    BY KnownType DEF TypeOK
  <1>2. View[n] \in Records \cup {None}
    BY CommitTypes DEF TypeOK
  <1>3. View[n] # None /\ View[n].seq = Known(n).seq
    <2>1. CASE cache[n] # None
      BY <2>1 DEF RecordsInv, Known
    <2>2. CASE cache[n] = None
      BY <2>2 DEF RecordsInv, Known, View
    <2>3. QED BY <2>1, <2>2
  <1>4. QED BY <1>1, <1>2, <1>3 DEF Known, RecordsInv, View

\* A new record enters the view with the next number.
LEMMA NewView ==
    ASSUME TypeOK, RecordsInv, NEW n \in Names, NEW new,
           new # None,
           batch' = [batch EXCEPT ![n] = new], UNCHANGED db
    PROVE  View' = [View EXCEPT ![n] = new]
  BY DEF TypeOK, BatchOK, View

\* A known record keeps its number, and every other record is as it was.
LEMMA KnownView ==
    ASSUME TypeOK, RecordsInv, NEW n \in Names, NEW d \in Dates,
           Known(n) # None,
           UNCHANGED db,
           \/ batch' = batch
           \/ batch' = [batch EXCEPT ![n] = [date |-> d, seq |-> Known(n).seq]]
    PROVE  /\ \A m \in Names : m # n => View'[m] = View[m]
           /\ View'[n] # None /\ View'[n].seq = View[n].seq
  <1> DEFINE r == [date |-> d, seq |-> Known(n).seq]
  <1>1. Known(n) \in Records /\ View[n] \in Records /\ View[n].seq = Known(n).seq
    BY KnownName
  <1>2. r \in Records /\ r.seq = Known(n).seq
    BY <1>1 DEF Records
  <1>3. r # None /\ View[n] # None
    BY <1>1, <1>2, NoneAssumption
  <1>4. CASE batch' = batch
    BY <1>3, <1>4 DEF View
  <1>5. CASE batch' = [batch EXCEPT ![n] = r]
    <2> HIDE DEF r
    <2>1. batch'[n] = r /\ \A m \in Names : m # n => batch'[m] = batch[m]
      BY <1>5 DEF TypeOK, BatchOK
    <2>2. View'[n] = r
      BY <1>3, <2>1 DEF View
    <2>3. QED BY <1>1, <1>2, <1>3, <2>1, <2>2 DEF View
  <1>6. QED BY <1>4, <1>5

\* A flush moves the view to the database as a whole, or does nothing.
LEMMA FlushView ==
    ASSUME TypeOK, Flush
    PROVE  /\ View' = View
           /\ CommittedDb'.mark = CommittedDb.mark
           /\ \/ /\ NothingToCommit
                 /\ UNCHANGED <<db, batch, cache, marks>>
              \/ /\ db'.rec = View /\ db'.seq = seq /\ db'.mark = CommittedDb.mark
                 /\ batch' = NoRecords /\ cache' = NoRecords /\ marks' = NoMarks
  <1>1. CASE NothingToCommit
    BY <1>1 DEF Flush, batchVars, View, CommittedDb
  <1>2. CASE ~NothingToCommit
    <2>1. /\ db'.rec = View /\ db'.seq = seq /\ db'.mark = CommittedDb.mark
          /\ batch' = NoRecords /\ cache' = NoRecords /\ marks' = NoMarks
      BY <1>2 DEF Flush, CommittedDb
    <2>2. View' = View
      BY <2>1, CommitTypes DEF View, NoRecords, TypeOK
    <2>3. CommittedDb'.mark = CommittedDb.mark
      BY <2>1, CommitTypes DEF CommittedDb, NoMarks, TypeOK
    <2>4. QED BY <2>1, <2>2, <2>3
  <1>3. QED BY <1>1, <1>2

\* An empty batch: the view is the database.
LEMMA EmptyBatchView ==
    /\ DbOK /\ batch = NoRecords => View = db.rec
    /\ DbOK /\ marks = NoMarks => CommittedDb.mark = db.mark
  BY DEF DbOK, View, NoRecords, CommittedDb, NoMarks

-----------------------------------------------------------------------------
(* The inductive invariant *)

\* An empty store satisfies the invariant.
LEMMA InitInv == Init => StoreInv
  <1> SUFFICES ASSUME Init PROVE StoreInv
    OBVIOUS
  <1>1. View = NoRecords
    BY DEF Init, EmptyDb, View, NoRecords
  <1>2. RecordsInv
    BY <1>1 DEF Init, RecordsInv, NothingToCommit, NoRecords, EmptyDb
  <1>3. NumbersInv
    BY <1>1 DEF Init, NumbersInv, NoRecords, EmptyDb
  <1>4. MarksInv
    BY DEF Init, MarksInv, NoMarks
  <1>5. QED BY <1>2, <1>3, <1>4 DEF StoreInv

\* A new process starts from the database, and so does an ended one.
LEMMA ProcessView ==
    ASSUME TypeOK, ProcessEffect
    PROVE  View' = db.rec /\ NothingToCommit'
  BY DEF TypeOK, DbOK, ProcessEffect, View, NothingToCommit, NoRecords, NoMarks

\* The batch is empty during a recount.
LEMMA RecountView ==
    ASSUME TypeOK, RecordsInv, RecountEffect
    PROVE  /\ batch = NoRecords /\ batch' = NoRecords
           /\ View = db.rec /\ View' = View
           /\ CommittedDb'.mark = CommittedDb.mark
           /\ NothingToCommit'
  <1>1. batch = NoRecords /\ batch' = NoRecords /\ marks' = NoMarks /\ marks = NoMarks
    BY DEF RecordsInv, RecountEffect, NothingToCommit
  <1>2. View = db.rec /\ View' = View
    BY <1>1 DEF RecountEffect, View, NoRecords, TypeOK, DbOK
  <1>3. CommittedDb'.mark = CommittedDb.mark
    BY <1>1 DEF RecountEffect, CommittedDb
  <1>4. QED BY <1>1, <1>2, <1>3 DEF NothingToCommit

\* Every kind of step keeps what the batch, the cache and the disk are to each other.
LEMMA RecordsNext ==
    ASSUME TypeOK, TypeOK', RecordsInv, [FreeNext]_vars
    PROVE  RecordsInv'
  <1>1. CASE NewEffect
    <2>1. PICK n \in Names, d \in Dates :
             /\ Known(n) = None
             /\ batch' = [batch EXCEPT ![n] = [date |-> d, seq |-> seq + 1]]
             /\ cache' = [cache EXCEPT ![n] = [date |-> d, seq |-> seq + 1]]
      BY <1>1 DEF NewEffect
    <2> DEFINE new == [date |-> d, seq |-> seq + 1]
    <2>2. new # None
      BY NoneAssumption DEF Records, TypeOK, LoopOK
    <2> HIDE DEF new
    <2>3. View' = [View EXCEPT ![n] = new]
      BY <1>1, <2>1, <2>2, NewView DEF NewEffect, new
    <2>4. View'[n] = new /\ \A m \in Names : m # n => View'[m] = View[m]
      BY <2>3, CommitTypes DEF TypeOK
    <2>5. batch'[n] = new /\ cache'[n] = new
      BY <2>1 DEF new, TypeOK, BatchOK
    <2>6. \A m \in Names : m # n => batch'[m] = batch[m] /\ cache'[m] = cache[m]
      BY <2>1 DEF TypeOK, BatchOK
    <2>7. db' = db /\ db.rec[n] = None /\ loop' \in {"select", "full"}
      BY <1>1, <2>1, UnknownName DEF NewEffect
    <2>8. QED BY <2>2, <2>4, <2>5, <2>6, <2>7 DEF RecordsInv
  <1>2. CASE KnownEffect
    <2>1. PICK n \in Names, d \in Dates :
             /\ Known(n) # None
             /\ cache' = [cache EXCEPT ![n] = Known(n)]
             /\ \/ batch' = batch
                \/ /\ d <= Known(n).date
                   /\ batch' = [batch EXCEPT ![n] = [date |-> d, seq |-> Known(n).seq]]
      BY <1>2 DEF KnownEffect
    <2>2. db' = db /\ loop' \in {"select", "full"}
      BY <1>2 DEF KnownEffect
    <2>3. /\ \A m \in Names : m # n => View'[m] = View[m]
          /\ View'[n] # None /\ View'[n].seq = View[n].seq
      BY <2>1, <2>2, KnownView
    <2>4. /\ Known(n) \in Records
          /\ View[n].seq = Known(n).seq
          /\ db.rec[n] # None => Known(n) = db.rec[n]
      BY <2>1, KnownName
    <2>5. cache'[n] = Known(n) /\ \A m \in Names : m # n => cache'[m] = cache[m]
      BY <2>1 DEF TypeOK, BatchOK
    <2>6. \A m \in Names : m # n => batch'[m] = batch[m]
      BY <2>1 DEF TypeOK, BatchOK
    <2>7. batch'[n] # None /\ db.rec[n] # None => batch'[n].date <= db.rec[n].date
      BY <2>1, <2>4 DEF TypeOK, BatchOK, RecordsInv
    <2>8. QED BY <2>1, <2>2, <2>3, <2>4, <2>5, <2>6, <2>7 DEF RecordsInv
  <1>3. CASE FlushEffect
    <2>1. CASE NothingToCommit /\ UNCHANGED <<db, batch, cache, marks>>
      BY <2>1 DEF RecordsInv, NothingToCommit, View
    <2>2. CASE batch' = NoRecords /\ cache' = NoRecords /\ marks' = NoMarks
      BY <2>2 DEF RecordsInv, NothingToCommit, NoRecords
    <2>3. QED BY <1>3, <2>1, <2>2, FlushView DEF FlushEffect
  <1>4. CASE MarkEffect
    BY <1>4 DEF MarkEffect, RecordsInv, View
  <1>5. CASE RecountEffect
    <2>1. NothingToCommit' /\ View' = View /\ batch' = NoRecords /\ db'.rec = db.rec
      BY <1>5, RecountView DEF RecountEffect
    <2>2. cache' = cache \/ cache' = NoRecords
      BY <1>5 DEF RecountEffect
    <2>3. QED BY <2>1, <2>2 DEF RecordsInv, NoRecords
  <1>6. CASE ProcessEffect
    BY <1>6, ProcessView DEF ProcessEffect, RecordsInv, NoRecords
  <1>7. CASE IdleEffect
    BY <1>7 DEF IdleEffect, RecordsInv, NothingToCommit, View
  <1>8. QED BY <1>1, <1>2, <1>3, <1>4, <1>5, <1>6, <1>7, Effects

\* Every kind of step keeps the order of the numbers, as long as a process that
\* starts can read the last one.
LEMMA NumbersNext ==
    ASSUME SeqIsRead, TypeOK, TypeOK', RecordsInv, NumbersInv, [FreeNext]_vars
    PROVE  NumbersInv'
  <1>0. /\ seq \in Nat /\ db.seq \in Nat
        /\ \A m \in Names : View[m] # None => View[m].seq \in Nat
        /\ \A m \in Names : db.rec[m] # None => db.rec[m].seq \in Nat
    BY CommitTypes DEF TypeOK, LoopOK, DbOK, Records
  <1>1. CASE NewEffect
    <2>1. PICK n \in Names, d \in Dates :
             /\ Known(n) = None
             /\ batch' = [batch EXCEPT ![n] = [date |-> d, seq |-> seq + 1]]
      BY <1>1 DEF NewEffect
    <2> DEFINE new == [date |-> d, seq |-> seq + 1]
    <2>2. new # None /\ new.seq = seq + 1
      BY NoneAssumption, <1>0 DEF Records
    <2> HIDE DEF new
    <2>3. View' = [View EXCEPT ![n] = new]
      BY <1>1, <2>1, <2>2, NewView DEF NewEffect, new
    <2>4. View'[n] = new /\ \A m \in Names : m # n => View'[m] = View[m]
      BY <2>3, CommitTypes DEF TypeOK
    <2>5. db' = db /\ seq' = seq + 1 /\ loop = "select"
      BY <1>1 DEF NewEffect
    <2>6. QED BY <1>0, <2>2, <2>4, <2>5 DEF NumbersInv
  <1>2. CASE KnownEffect
    <2>1. PICK n \in Names, d \in Dates :
             /\ Known(n) # None
             /\ \/ batch' = batch
                \/ batch' = [batch EXCEPT ![n] = [date |-> d, seq |-> Known(n).seq]]
      BY <1>2 DEF KnownEffect
    <2>2. db' = db /\ seq' = seq + 1 /\ loop = "select"
      BY <1>2 DEF KnownEffect
    <2>3. /\ \A m \in Names : m # n => View'[m] = View[m]
          /\ View'[n].seq = View[n].seq
      BY <2>1, <2>2, KnownView
    <2>4. View[n] # None
      BY <2>1, KnownName, NoneAssumption
    <2>5. QED BY <1>0, <2>2, <2>3, <2>4 DEF NumbersInv
  <1>3. CASE FlushEffect
    <2>1. seq' = seq /\ View' = View /\ Up /\ Up'
      BY <1>3, FlushView DEF FlushEffect
    <2>2. CASE db' = db
      BY <2>1, <2>2 DEF NumbersInv
    <2>3. CASE db'.rec = View /\ db'.seq = seq
      BY <1>0, <2>1, <2>3 DEF NumbersInv
    <2>4. QED BY <1>3, <2>2, <2>3, FlushView DEF FlushEffect
  <1>4. CASE MarkEffect
    BY <1>4 DEF MarkEffect, NumbersInv, View
  <1>5. CASE RecountEffect
    BY <1>5, RecountView DEF RecountEffect, NumbersInv
  <1>6. CASE ProcessEffect
    <2>1. db' = db /\ View' = db.rec /\ (loop' # "down" => seq' = db.seq)
      BY <1>6, ProcessView DEF ProcessEffect
    <2>2. \A n, m \in Names :
             db.rec[n] # None /\ db.rec[m] # None /\ n # m => db.rec[n].seq # db.rec[m].seq
      <3>1. \A n \in Names : db.rec[n] # None => View[n] # None /\ View[n].seq = db.rec[n].seq
        BY DEF RecordsInv, View
      <3>2. QED BY <3>1 DEF NumbersInv
    <2>3. QED BY <1>0, <2>1, <2>2 DEF NumbersInv
  <1>7. CASE IdleEffect
    BY <1>7 DEF IdleEffect, NumbersInv, View
  <1>8. QED BY <1>1, <1>2, <1>3, <1>4, <1>5, <1>6, <1>7, Effects

\* Every kind of step keeps the marks of the loop those of the next commit.
LEMMA MarksNext ==
    ASSUME TypeOK, TypeOK', RecordsInv, MarksInv, [FreeNext]_vars
    PROVE  MarksInv'
  <1>1. CASE NewEffect \/ KnownEffect
    BY <1>1 DEF NewEffect, KnownEffect, MarksInv, CommittedDb
  <1>2. CASE FlushEffect
    BY <1>2, FlushView DEF FlushEffect, MarksInv
  <1>3. CASE MarkEffect
    <2>1. PICK l \in Logs, w \in 0..MaxMark :
             high' = [high EXCEPT ![l] = w] /\ marks' = [marks EXCEPT ![l] = w]
      BY <1>3 DEF MarkEffect
    <2>2. w # None
      BY NoneAssumption
    <2>3. high'[l] = w /\ marks'[l] = w
      BY <2>1 DEF TypeOK, BatchOK, LoopOK
    <2>4. \A k \in Logs : k # l => high'[k] = high[k] /\ marks'[k] = marks[k]
      BY <2>1 DEF TypeOK, BatchOK, LoopOK
    <2>5. db' = db
      BY <1>3 DEF MarkEffect
    <2>6. QED BY <2>2, <2>3, <2>4, <2>5 DEF MarksInv, CommittedDb
  <1>4. CASE RecountEffect
    BY <1>4, RecountView DEF RecountEffect, MarksInv
  <1>5. CASE ProcessEffect
    BY <1>5 DEF ProcessEffect, MarksInv, NoMarks
  <1>6. CASE IdleEffect
    BY <1>6 DEF IdleEffect, MarksInv, CommittedDb
  <1>7. QED BY <1>1, <1>2, <1>3, <1>4, <1>5, <1>6, Effects

\* The invariant holds throughout, with no bound on the records.
LEMMA FreeInvariant == FreeSpec => [](TypeOK /\ StoreInv)
  <1>1. TypeOK /\ StoreInv /\ TypeOK' /\ [FreeNext]_vars => StoreInv'
    BY RecordsNext, NumbersNext, MarksNext DEF StoreInv, SeqIsRead
  <1>2. QED BY <1>1, InitTypes, InitInv, FreeTypes, PTL DEF FreeSpec

\* The invariant holds of the store and of the goroutines that call it.  What it
\* says of the numbers it says of a database whose last number can be read.
THEOREM InvariantHolds == Spec => [](TypeOK /\ StoreInv)
  BY FreeInvariant, SpecIsFree, PTL

-----------------------------------------------------------------------------
(* The theorems *)

\* apply and the ingest loop never give a sequence number to two names, and the
\* numbers on disk never run ahead of the counter on disk, if Open can read that
\* counter: it swallows a failed read and then gives the numbers out again
\* (NewNamesCanBePolled shows it).
THEOREM NumbersAreDistinct ==
    ASSUME SeqIsRead
    PROVE  Spec => []SeqsDistinct
  <1>1. StoreInv => SeqsDistinct
    BY DEF StoreInv, NumbersInv, SeqsDistinct, Stored
  <1>2. QED BY <1>1, InvariantHolds, PTL

\* When the loop is done the batch is empty, whatever callers there are.
LEMMA FreeNothingBehind == FreeSpec => []StopLeavesNothingBehind
  <1>1. TypeOK /\ StoreInv => StopLeavesNothingBehind
    <2> SUFFICES ASSUME TypeOK, StoreInv, loop = "stopped"
                 PROVE  View = db.rec /\ \A l \in Logs : high[l] # None => db.mark[l] = high[l]
      BY DEF StopLeavesNothingBehind
    <2>1. NothingToCommit
      BY DEF StoreInv, RecordsInv
    <2>2. View = db.rec /\ CommittedDb.mark = db.mark
      BY <2>1, EmptyBatchView DEF NothingToCommit, TypeOK
    <2>3. QED BY <2>2 DEF StoreInv, MarksInv
  <1>2. QED BY <1>1, FreeInvariant, PTL

\* Close leaves no handled record or watermark uncommitted (ingestLoop's drain).
THEOREM NothingBehind == Spec => []StopLeavesNothingBehind
  BY FreeNothingBehind, SpecIsFree, PTL

\* What a step does to the records on disk: nothing, or it puts the view there.
LEMMA DiskSteps ==
    ASSUME TypeOK, StoreInv, [FreeNext]_vars
    PROVE  db'.rec = db.rec \/ db'.rec = View
  BY Effects, FlushView
     DEF NewEffect, KnownEffect, FlushEffect, MarkEffect, RecountEffect,
         ProcessEffect, IdleEffect

\* A record on disk and the one in the view have the same number, and the view
\* has no later date.
LEMMA ViewOfStored ==
    ASSUME TypeOK, StoreInv, NEW n \in Names, db.rec[n] # None
    PROVE  /\ View[n] # None
           /\ View[n].seq = db.rec[n].seq
           /\ View[n].date <= db.rec[n].date
  <1>1. db.rec[n].date \in Nat
    BY DEF TypeOK, DbOK, Records
  <1>2. QED BY <1>1 DEF StoreInv, RecordsInv, View

\* Nothing that is stored is deleted, renumbered or given a later date (apply).
THEOREM StoredKept == Spec => StoredNamesAreKept
  <1>1. TypeOK /\ StoreInv /\ [FreeNext]_vars =>
           \A n \in Stored(db.rec) :
              /\ n \in Stored(db'.rec)
              /\ db'.rec[n].seq = db.rec[n].seq
              /\ db'.rec[n].date <= db.rec[n].date
    <2> SUFFICES ASSUME TypeOK, StoreInv, [FreeNext]_vars, NEW n \in Stored(db.rec)
                 PROVE  /\ n \in Stored(db'.rec)
                        /\ db'.rec[n].seq = db.rec[n].seq
                        /\ db'.rec[n].date <= db.rec[n].date
      OBVIOUS
    <2>1. n \in Names /\ db.rec[n] # None /\ db.rec[n].date \in Nat
      BY DEF Stored, TypeOK, DbOK, Records
    <2>2. CASE db'.rec = db.rec
      BY <2>1, <2>2
    <2>3. CASE db'.rec = View
      BY <2>1, <2>3, ViewOfStored DEF Stored
    <2>4. QED BY <2>2, <2>3, DiskSteps
  <1>2. QED BY <1>1, InvariantHolds, SpecIsFree, PTL DEF FreeSpec, StoredNamesAreKept

-----------------------------------------------------------------------------
(* Cursors *)

\* The cursor of an apex (ScanAfter) is the largest number of its rows: among
\* finitely many rows there is one that no other row is above.
LEMMA LargestIsLargest ==
    ASSUME NEW recs \in [Names -> Records \cup {None}], NEW a
    PROVE  /\ LargestSeq(recs, a) \in {0} \cup {recs[n].seq : n \in StoredOf(recs, a)}
           /\ \A n \in StoredOf(recs, a) : recs[n].seq <= LargestSeq(recs, a)
  <1> DEFINE S == StoredOf(recs, a)
             Above(n) == {k \in S : recs[k].seq > recs[n].seq}
             T == {Above(n) : n \in S}
  <1>1. IsFiniteSet(S) /\ \A n \in S : recs[n].seq \in Nat
    <2>1. \A n \in S : n \in Names /\ recs[n] # None
      BY DEF StoredOf, Stored
    <2>2. QED BY <2>1, StoredFinite DEF Records
  <1> HIDE DEF S
  <1>2. \E m \in {0} \cup {recs[n].seq : n \in S} : \A n \in S : recs[n].seq <= m
    <2>1. CASE S = {}
      BY <2>1
    <2>2. CASE S # {}
      <3>1. IsWellFoundedOn(StrictSubsetOrdering(S), SUBSET S)
        BY <1>1, FS_StrictSubsetOrderingWellFounded, FS_FiniteSubsetsOfFinite
      <3>2. T \subseteq SUBSET S /\ T # {}
        <4>1. \A n \in S : Above(n) \in SUBSET S
          OBVIOUS
        <4> HIDE DEF Above
        <4>2. QED BY <2>2, <4>1
      <3>3. PICK A \in T : \A B \in T : <<B, A>> \notin StrictSubsetOrdering(S)
        <4> HIDE DEF T
        <4>1. QED BY <3>1, <3>2, WFMin
      <3>4. PICK n \in S : A = Above(n)
        BY <3>3
      <3>5. ASSUME NEW k \in S, recs[k].seq > recs[n].seq
            PROVE  FALSE
        <4>1. Above(k) \in T /\ Above(k) \in SUBSET S /\ Above(n) \in SUBSET S
          OBVIOUS
        <4>2. Above(k) \subseteq Above(n)
          BY <1>1, <3>5
        <4>3. k \in Above(n) /\ k \notin Above(k)
          BY <1>1, <3>5
        <4>4. <<Above(k), Above(n)>> \in StrictSubsetOrdering(S)
          <5> HIDE DEF Above
          <5>1. QED BY <4>1, <4>2, <4>3 DEF StrictSubsetOrdering
        <4>5. QED BY <3>3, <3>4, <4>1, <4>4
      <3>6. \A k \in S : recs[k].seq <= recs[n].seq
        BY <1>1, <3>5
      <3>7. QED BY <3>6
    <2>3. QED BY <2>1, <2>2
  <1>3. QED BY <1>2 DEF LargestSeq, S

\* A client that polls again from the cursor it got misses no name stored in
\* between: new names are committed in order, above all numbers on disk
\* (ScanAfter), if Open can read the last of these.
LEMMA FreeCursors ==
    ASSUME SeqIsRead
    PROVE  FreeSpec => CursorMissesNothing
  <1>1. ASSUME TypeOK, StoreInv, [FreeNext]_vars, NEW a \in Apexes
        PROVE  RowsAfter(db'.rec, a, LargestSeq(db.rec, a))
                   = StoredOf(db'.rec, a) \ StoredOf(db.rec, a)
    <2> DEFINE last == LargestSeq(db.rec, a)
    <2>1. /\ db.rec \in [Names -> Records \cup {None}] /\ db.seq \in Nat
          /\ View \in [Names -> Records \cup {None}]
      BY <1>1, CommitTypes DEF TypeOK, DbOK
    <2>2. \A n \in Names : db.rec[n] # None => db.rec[n].seq \in Nat /\ db.rec[n].seq <= db.seq
      BY <1>1, <2>1 DEF StoreInv, NumbersInv, Records
    <2>3. last \in Nat /\ last <= db.seq
      BY <2>1, <2>2, LargestIsLargest DEF StoredOf, Stored
    <2>4. \A n \in StoredOf(db.rec, a) : db.rec[n].seq <= last
      BY <2>1, LargestIsLargest
    <2> HIDE DEF last
    <2>5. CASE db'.rec = db.rec
      BY <2>2, <2>3, <2>4, <2>5 DEF RowsAfter, StoredOf, Stored, last
    <2>6. CASE db'.rec = View
      <3>1. \A n \in Names : db.rec[n] # None =>
               View[n] # None /\ View[n].seq = db.rec[n].seq
        BY <1>1, ViewOfStored
      <3>2. \A n \in Names : View[n] # None /\ db.rec[n] = None =>
               View[n].seq \in Nat /\ View[n].seq > db.seq
        BY <1>1, <2>1 DEF StoreInv, NumbersInv, Records
      <3>3. \A n \in Names : n \in StoredOf(View, a) /\ n \in StoredOf(db.rec, a) =>
               ~(View[n].seq > last)
        BY <2>2, <2>3, <2>4, <3>1 DEF StoredOf, Stored
      <3>4. \A n \in Names : n \in StoredOf(View, a) /\ n \notin StoredOf(db.rec, a) =>
               View[n].seq > last
        BY <2>1, <2>3, <3>2 DEF StoredOf, Stored
      <3>5. StoredOf(View, a) \subseteq Names
        BY DEF StoredOf, Stored
      <3>6. QED BY <2>6, <3>3, <3>4, <3>5 DEF RowsAfter, last
    <2>7. QED BY <1>1, <2>5, <2>6, DiskSteps
  <1>2. TypeOK /\ StoreInv /\ [FreeNext]_vars =>
           \A a \in Apexes : RowsAfter(db'.rec, a, LargestSeq(db.rec, a))
                                 = StoredOf(db'.rec, a) \ StoredOf(db.rec, a)
    BY <1>1
  <1>3. QED BY <1>2, FreeInvariant, PTL DEF FreeSpec, CursorMissesNothing

\* So it is for the callers of the store.
THEOREM CursorsMissNothing ==
    ASSUME SeqIsRead
    PROVE  Spec => CursorMissesNothing
  BY FreeCursors, SpecIsFree, PTL

-----------------------------------------------------------------------------
(* The refinement *)

\* The numbers of a map of records.
LEMMA NumbersTypes ==
    ASSUME NEW recs \in [Names -> Records \cup {None}]
    PROVE  /\ NumbersOf(recs) \in [Names -> Nat]
           /\ \A n \in Names : recs[n] = None => NumbersOf(recs)[n] = 0
           /\ \A n \in Names : recs[n] # None => NumbersOf(recs)[n] = recs[n].seq
  BY DEF NumbersOf, Records

\* A new record is put into the index with the next number.
LEMMA NewIsPut ==
    ASSUME SeqIsRead, TypeOK, TypeOK', StoreInv, NewEffect
    PROVE  Index!Next
  <1>1. PICK n \in Names, d \in Dates :
           /\ Known(n) = None
           /\ batch' = [batch EXCEPT ![n] = [date |-> d, seq |-> seq + 1]]
    BY DEF NewEffect
  <1> DEFINE new == [date |-> d, seq |-> seq + 1]
  <1>2. new # None /\ new.seq = seq + 1 /\ seq \in Nat
    BY NoneAssumption DEF Records, TypeOK, LoopOK
  <1> HIDE DEF new
  <1>3. View' = [View EXCEPT ![n] = new] /\ View[n] = None
    BY <1>1, <1>2, NewView, UnknownName DEF NewEffect, new, StoreInv
  <1>4. View \in [Names -> Records \cup {None}]
    BY CommitTypes DEF TypeOK
  <1>5. NumbersOf(View') = [NumbersOf(View) EXCEPT ![n] = seq + 1]
    BY <1>2, <1>3, <1>4 DEF NumbersOf
  <1>6. CommittedDb'.mark = CommittedDb.mark /\ Durable' = Durable
    BY DEF NewEffect, CommittedDb, Durable
  <1>7. Accepted' = [Accepted EXCEPT !.seq[n] = seq + 1]
    BY <1>5, <1>6 DEF Accepted
  <1>8. Accepted.seq[n] = 0 /\ Accepted'.seq[n] = seq + 1
    BY <1>3, <1>4, <1>5, NumbersTypes DEF Accepted
  <1>9. \A m \in Names : seq + 1 > Accepted.seq[m]
    <2> SUFFICES ASSUME NEW m \in Names PROVE seq + 1 > NumbersOf(View)[m]
      BY DEF Accepted
    <2>1. NumbersOf(View)[m] \in Nat
      BY <1>4, NumbersTypes
    <2>2. CASE View[m] = None
      BY <1>2, <1>4, <2>2, NumbersTypes
    <2>3. CASE View[m] # None
      BY <1>2, <1>4, <2>1, <2>3, NumbersTypes DEF StoreInv, NumbersInv, NewEffect
    <2>4. QED BY <2>2, <2>3
  <1>10. Index!Put(n, Accepted'.seq[n])
    BY <1>6, <1>7, <1>8, <1>9 DEF Index!Put
  <1>11. QED BY <1>10 DEF Index!Next

\* A known record leaves every number as it is.
LEMMA KnownIsStutter ==
    ASSUME TypeOK, TypeOK', StoreInv, KnownEffect
    PROVE  UNCHANGED <<Accepted, Durable>>
  <1>1. PICK n \in Names, d \in Dates :
           /\ Known(n) # None
           /\ \/ batch' = batch
              \/ batch' = [batch EXCEPT ![n] = [date |-> d, seq |-> Known(n).seq]]
    BY DEF KnownEffect
  <1>2. UNCHANGED <<db, marks>>
    BY DEF KnownEffect
  <1>3. /\ \A m \in Names : m # n => View'[m] = View[m]
        /\ View'[n] # None /\ View'[n].seq = View[n].seq /\ View[n] # None
    BY <1>1, <1>2, KnownView, KnownName, NoneAssumption DEF StoreInv
  <1>4. NumbersOf(View') = NumbersOf(View)
    BY <1>3 DEF NumbersOf
  <1>5. QED BY <1>2, <1>4 DEF Accepted, Durable, CommittedDb

\* The timer, a full batch, a recount and the final flush all commit the index.
LEMMA FlushIsCommit ==
    ASSUME TypeOK, FlushEffect
    PROVE  [Index!Next]_(Index!indexVars)
  <1>1. Accepted' = Accepted
    BY FlushView DEF FlushEffect, Accepted
  <1>2. Durable' = Durable \/ Durable' = Accepted
    BY FlushView DEF FlushEffect, Accepted, Durable
  <1>3. QED BY <1>1, <1>2 DEF Index!Next, Index!Commit, Index!indexVars

\* A watermark is accepted.
LEMMA MarkIsMark ==
    ASSUME TypeOK, MarkEffect
    PROVE  Index!Next
  <1>1. PICK l \in Logs, w \in 0..MaxMark : marks' = [marks EXCEPT ![l] = w]
    BY DEF MarkEffect
  <1>2. UNCHANGED <<db, batch>>
    BY DEF MarkEffect
  <1>3. w # None /\ marks'[l] = w /\ \A k \in Logs : k # l => marks'[k] = marks[k]
    BY <1>1, NoneAssumption DEF TypeOK, BatchOK
  <1>4. CommittedDb.mark \in [Logs -> 0..MaxMark]
    BY CommitTypes DEF TypeOK
  <1>5. CommittedDb'.mark = [CommittedDb.mark EXCEPT ![l] = w]
    BY <1>2, <1>3 DEF CommittedDb
  <1>6. View' = View /\ Durable' = Durable
    BY <1>2 DEF View, Durable
  <1>7. Accepted' = [Accepted EXCEPT !.mark[l] = w] /\ Accepted'.mark[l] = w
    BY <1>4, <1>5, <1>6 DEF Accepted
  <1>8. Index!Mark(l, Accepted'.mark[l])
    BY <1>6, <1>7 DEF Index!Mark
  <1>9. QED BY <1>8 DEF Index!Next

\* A process that ends or starts has what is durable, and nothing else.
LEMMA ProcessIsCrash ==
    ASSUME TypeOK, TypeOK', ProcessEffect
    PROVE  Index!Next
  <1>1. View' = db.rec /\ Durable' = Durable
    BY ProcessView DEF ProcessEffect, Durable
  <1>2. CommittedDb'.mark = db.mark
    BY EmptyBatchView DEF ProcessEffect, CommittedDb, NoMarks, TypeOK, DbOK
  <1>3. Accepted' = Durable
    BY <1>1, <1>2 DEF Accepted, Durable
  <1>4. QED BY <1>1, <1>3 DEF Index!Crash, Index!Next

\* Every step of the store is one of the index, or none.
LEMMA FreeImplementsIndex ==
    ASSUME SeqIsRead
    PROVE  FreeSpec => ImplementsIndex
  <1>1. Init => Index!Init
    <2> SUFFICES ASSUME Init PROVE Index!Init
      OBVIOUS
    <2>1. TypeOK
      BY InitTypes
    <2>2. View = db.rec /\ CommittedDb.mark = db.mark
      BY <2>1, EmptyBatchView DEF Init, TypeOK
    <2>3. NumbersOf(db.rec) = [n \in Names |-> 0] /\ db.mark = [l \in Logs |-> 0]
      BY DEF Init, EmptyDb, NumbersOf, NoRecords
    <2>4. QED BY <2>2, <2>3 DEF Index!Init, Index!Empty, Accepted, Durable
  <1>2. TypeOK /\ TypeOK' /\ StoreInv /\ [FreeNext]_vars => [Index!Next]_(Index!indexVars)
    <2> SUFFICES ASSUME TypeOK, TypeOK', StoreInv, [FreeNext]_vars
                 PROVE  [Index!Next]_(Index!indexVars)
      OBVIOUS
    <2>1. CASE NewEffect
      BY <2>1, NewIsPut
    <2>2. CASE KnownEffect
      BY <2>2, KnownIsStutter DEF Index!indexVars
    <2>3. CASE FlushEffect
      BY <2>3, FlushIsCommit
    <2>4. CASE MarkEffect
      BY <2>4, MarkIsMark
    <2>5. CASE RecountEffect
      BY <2>5, RecountView DEF RecountEffect, Accepted, Durable, StoreInv, Index!indexVars
    <2>6. CASE ProcessEffect
      BY <2>6, ProcessIsCrash
    <2>7. CASE IdleEffect
      BY <2>7 DEF IdleEffect, Accepted, Durable, View, CommittedDb, Index!indexVars
    <2>8. QED BY <2>1, <2>2, <2>3, <2>4, <2>5, <2>6, <2>7, Effects
  <1>3. QED BY <1>1, <1>2, FreeTypes, FreeInvariant, PTL DEF FreeSpec, ImplementsIndex, Index!Spec

\* The store implements the durable index: what is on disk is at any time some
\* earlier value, as a whole, of what the loop has accepted (flush, Open).  The
\* index gives a new name a number above all others, which the store does as long
\* as Open can read the last number.
THEOREM StoreImplementsIndex ==
    ASSUME SeqIsRead
    PROVE  Spec => ImplementsIndex
  BY FreeImplementsIndex, SpecIsFree, PTL

-----------------------------------------------------------------------------
(* Lemmas about the sets that are counted *)

\* The names that one map of records has and another lacks are finitely many.
LEMMA NewFinite ==
    ASSUME NEW r, NEW s
    PROVE  /\ IsFiniteSet(Stored(r) \ Stored(s))
           /\ Cardinality(Stored(r) \ Stored(s)) \in Nat
  <1>1. IsFiniteSet(Stored(r) \ Stored(s))
    BY StoredFinite, FS_Difference
  <1>2. QED BY <1>1, FS_CardinalityType

\* The view has every record of the database, and the new ones besides.
LEMMA ViewGrows ==
    ASSUME TypeOK, StoreInv
    PROVE  /\ \A a \in Apexes : Cardinality(StoredOf(db.rec, a)) <= Cardinality(StoredOf(View, a))
           /\ Cardinality(Stored(View)) =
                  Cardinality(Stored(db.rec)) + Cardinality(Stored(View) \ Stored(db.rec))
  <1>1. Stored(db.rec) \subseteq Stored(View)
    BY ViewOfStored DEF Stored
  <1>2. \A a : StoredOf(db.rec, a) \subseteq StoredOf(View, a)
    BY <1>1 DEF StoredOf
  <1>3. \A a : Cardinality(StoredOf(db.rec, a)) <= Cardinality(StoredOf(View, a))
    BY <1>2, StoredFinite, FS_Subset
  <1>4. Cardinality(Stored(View) \ Stored(db.rec)) =
            Cardinality(Stored(View)) - Cardinality(Stored(db.rec))
    <2>1. Stored(View) \cap Stored(db.rec) = Stored(db.rec)
      BY <1>1
    <2>2. QED BY <2>1, StoredFinite, FS_Difference
  <1>5. QED BY <1>3, <1>4, StoredFinite, NewFinite

\* A name that gets its first record is one more, in its apex and in all.
LEMMA OneMore ==
    ASSUME TypeOK, NEW n \in Names, View[n] = None, db.rec[n] = None,
           NEW new, new # None, View' = [View EXCEPT ![n] = new]
    PROVE  /\ Cardinality(StoredOf(View', ApexOf[n])) =
                  Cardinality(StoredOf(View, ApexOf[n])) + 1
           /\ \A a : a # ApexOf[n] => StoredOf(View', a) = StoredOf(View, a)
           /\ Cardinality(Stored(View') \ Stored(db.rec)) =
                  Cardinality(Stored(View) \ Stored(db.rec)) + 1
  <1>1. View'[n] = new /\ \A m \in Names : m # n => View'[m] = View[m]
    BY CommitTypes DEF TypeOK
  <1>2. Stored(View') = Stored(View) \cup {n} /\ n \notin Stored(View) /\ n \notin Stored(db.rec)
    BY <1>1 DEF Stored
  <1>3. /\ StoredOf(View', ApexOf[n]) = StoredOf(View, ApexOf[n]) \cup {n}
        /\ n \notin StoredOf(View, ApexOf[n])
        /\ \A a : a # ApexOf[n] => StoredOf(View', a) = StoredOf(View, a)
    BY <1>2 DEF StoredOf
  <1>4. /\ Stored(View') \ Stored(db.rec) = (Stored(View) \ Stored(db.rec)) \cup {n}
        /\ n \notin Stored(View) \ Stored(db.rec)
    BY <1>2
  <1>5. QED BY <1>3, <1>4, StoredFinite, NewFinite, FS_AddElement

-----------------------------------------------------------------------------
(* Each step keeps the invariant *)

\* Steps that store no new name and touch no counter.
LEMMA SameCounters ==
    ASSUME CountersInv, Stored(View') = Stored(View), UNCHANGED <<db, counts, total, base>>
    PROVE  CountersInv'
  <1>1. \A a : StoredOf(View', a) = StoredOf(View, a)
    BY DEF StoredOf
  <1>2. QED BY <1>1 DEF CountersInv, CountersNeverOvercount

\* A new record (apply): its counter goes on from the pending one, or from the
\* stored one, or from zero where that one cannot be read.
LEMMA NewRecordCounts ==
    ASSUME TypeOK, TypeOK', StoreInv, CountersInv, TakeRecord,
           Known(Head(ch).name) = None
    PROVE  CountersInv'
  <1> DEFINE n == Head(ch).name
             d == Head(ch).date
             new == [date |-> d, seq |-> seq + 1]
  <1>1. n \in Names /\ d \in Dates
    BY ReceiveTypes, OpKinds DEF TakeRecord, TypeOK
  <1>2. /\ StoreNew(n, d)
        /\ UNCHANGED <<db, base>>
    BY DEF TakeRecord
  <1>3. new # None
    BY NoneAssumption, <1>1 DEF Records, TypeOK, LoopOK
  <1>4. View[n] = None /\ db.rec[n] = None
    BY <1>1, UnknownName DEF StoreInv
  <1>5. batch' = [batch EXCEPT ![n] = new] /\ total' = total + 1
    BY <1>2 DEF StoreNew
  <1>6. PICK c \in CountBases(ApexOf[n]) : counts' = [counts EXCEPT ![ApexOf[n]] = c + 1]
    BY <1>2 DEF StoreNew
  <1> HIDE DEF n, d, new
  <1>7. View' = [View EXCEPT ![n] = new]
    BY <1>1, <1>2, <1>3, <1>5, NewView DEF StoreInv
  <1>8. /\ Cardinality(StoredOf(View', ApexOf[n])) =
               Cardinality(StoredOf(View, ApexOf[n])) + 1
        /\ \A a : a # ApexOf[n] => StoredOf(View', a) = StoredOf(View, a)
        /\ Cardinality(Stored(View') \ Stored(db.rec)) =
               Cardinality(Stored(View) \ Stored(db.rec)) + 1
    BY <1>1, <1>3, <1>4, <1>7, OneMore
  <1>9. ApexOf[n] \in Apexes
    BY <1>1, DataAssumption
  <1>10. c \in Nat /\ c <= Cardinality(StoredOf(View, ApexOf[n]))
    <2>1. \/ c = counts[ApexOf[n]] /\ counts[ApexOf[n]] # None
          \/ c = 0
          \/ c = db.count[ApexOf[n]]
      BY DEF CountBases, ReadOrZero
    <2>2. QED BY <1>9, <2>1, ViewGrows, StoredFinite, NewFinite
              DEF CountersInv, CountersNeverOvercount, TypeOK, BatchOK, DbOK
  <1>11. \A a \in Apexes : counts'[a] # None => counts'[a] <= Cardinality(StoredOf(View', a))
    <2>1. counts'[ApexOf[n]] = c + 1 /\ \A a \in Apexes : a # ApexOf[n] => counts'[a] = counts[a]
      BY <1>6, <1>9 DEF TypeOK, BatchOK
    <2>2. QED BY <1>8, <1>10, <2>1, StoredFinite, NewFinite DEF CountersInv
  <1>12. total' <= Cardinality(Stored(View') \ Stored(db'.rec))
    <2>1. total \in Nat /\ db' = db
      BY <1>2 DEF TypeOK, BatchOK
    <2>2. total <= Cardinality(Stored(View) \ Stored(db.rec))
      BY DEF CountersInv
    <2>3. Cardinality(Stored(View) \ Stored(db.rec)) \in Nat
      BY NewFinite
    <2>4. QED BY <1>5, <1>8, <2>1, <2>2, <2>3
  <1>13. QED BY <1>2, <1>11, <1>12 DEF CountersInv, CountersNeverOvercount

\* A known record (apply) is in the view already.
LEMMA KnownStored ==
    ASSUME TypeOK, StoreInv, TakeRecord, Known(Head(ch).name) # None
    PROVE  Stored(View') = Stored(View) /\ UNCHANGED <<db, base, counts, total>>
  <1> DEFINE n == Head(ch).name
             d == Head(ch).date
  <1>1. n \in Names /\ d \in Dates
    BY ReceiveTypes, OpKinds DEF TakeRecord, TypeOK
  <1>2. StoreKnown(n, d) /\ UNCHANGED <<db, base>>
    BY DEF TakeRecord
  <1>3. /\ UNCHANGED <<counts, total>>
        /\ \/ batch' = batch
           \/ batch' = [batch EXCEPT ![n] = [date |-> d, seq |-> Known(n).seq]]
    BY <1>2 DEF StoreKnown
  <1> HIDE DEF n, d
  <1>4. /\ \A m \in Names : m # n => View'[m] = View[m]
        /\ View'[n] # None /\ View[n] # None
    BY <1>1, <1>2, <1>3, KnownView, KnownName, NoneAssumption DEF StoreInv, n
  <1>5. Stored(View') = Stored(View)
    BY <1>1, <1>4 DEF Stored
  <1>6. QED BY <1>2, <1>3, <1>5

\* So nothing that is counted changes.
LEMMA KnownRecordCounts ==
    ASSUME TypeOK, StoreInv, CountersInv, TakeRecord, Known(Head(ch).name) # None
    PROVE  CountersInv'
  BY KnownStored, SameCounters

\* A flush: what was pending becomes what is stored.
LEMMA FlushCounts ==
    ASSUME TypeOK, TypeOK', StoreInv, CountersInv, Flush, base' = base
    PROVE  CountersInv'
  <1>1. View' = View
    BY FlushView
  <1>2. CASE NothingToCommit
    <2>1. UNCHANGED <<db, counts, total>>
      BY <1>2 DEF Flush, batchVars
    <2>2. QED BY <1>1, <2>1, SameCounters
  <1>3. CASE ~NothingToCommit
    <2>1. /\ db'.rec = View
          /\ \A a \in Apexes : db'.count[a] = IF counts[a] # None THEN counts[a] ELSE db.count[a]
          /\ db'.total = IF total > 0 THEN base + total ELSE db.total
          /\ total' = 0 /\ counts' = NoCounts
      BY <1>3 DEF Flush, CommittedDb
    <2>2. Cardinality(Stored(db.rec)) <= Cardinality(Stored(View))
      BY ViewGrows, StoredFinite, NewFinite
    <2>3. \A a \in Apexes : db'.count[a] <= Cardinality(StoredOf(View, a))
      <3> SUFFICES ASSUME NEW a \in Apexes
                   PROVE  db'.count[a] <= Cardinality(StoredOf(View, a))
        OBVIOUS
      <3>1. CASE counts[a] # None
        BY <2>1, <3>1 DEF CountersInv
      <3>2. CASE counts[a] = None
        <4>1. db.count[a] \in Nat
          BY DEF TypeOK, DbOK
        <4>2. QED BY <2>1, <3>2, <4>1, ViewGrows, StoredFinite, NewFinite DEF CountersInv, CountersNeverOvercount
      <3>3. QED BY <3>1, <3>2
    <2>4. db'.total <= Cardinality(Stored(View))
      <3>1. /\ db.total \in Nat /\ base \in Nat /\ total \in Nat
            /\ db.total <= Cardinality(Stored(db.rec))
            /\ base <= Cardinality(Stored(db.rec))
            /\ total <= Cardinality(Stored(View) \ Stored(db.rec))
        BY DEF CountersInv, CountersNeverOvercount, TypeOK, DbOK, BatchOK, LoopOK
      <3>2. /\ Cardinality(Stored(View)) \in Nat
            /\ Cardinality(Stored(db.rec)) \in Nat
            /\ Cardinality(Stored(View) \ Stored(db.rec)) \in Nat
        BY StoredFinite, NewFinite
      <3>3. base + total <= Cardinality(Stored(View))
        BY <3>1, <3>2, ViewGrows
      <3>4. QED BY <2>1, <2>2, <3>1, <3>2, <3>3
    <2>5. base' <= Cardinality(Stored(View))
      BY <2>2, StoredFinite, NewFinite DEF CountersInv, TypeOK, LoopOK
    <2>6. total' <= Cardinality(Stored(View') \ Stored(db'.rec))
      <3>1. Cardinality(Stored(View') \ Stored(db'.rec)) \in Nat
        BY NewFinite
      <3>2. QED BY <2>1, <3>1
    <2>7. \A a \in Apexes : counts'[a] = None
      BY <2>1 DEF NoCounts
    <2>8. QED BY <2>1, <2>3, <2>4, <2>5, <2>6, <2>7 DEF CountersInv, CountersNeverOvercount
  <1>4. QED BY <1>2, <1>3

\* The counters a recount writes are the sizes themselves (recountInLoop).
LEMMA RecountCounts ==
    ASSUME TypeOK, TypeOK', StoreInv, CountersInv, RecountChunk \/ RecountFinish
    PROVE  CountersInv'
  <1>1. ASSUME NEW S
        PROVE  \A a \in Apexes : Recounted(S)[a] <= Cardinality(StoredOf(db.rec, a))
    BY StoredFinite, NewFinite DEF Recounted, CountersInv, CountersNeverOvercount
  <1>2. CASE RecountChunk
    <2>1. PICK S : db' = [db EXCEPT !.count = Recounted(S)]
      BY <1>2 DEF RecountChunk
    <2>2. db'.rec = db.rec /\ db'.count = Recounted(S) /\ db'.total = db.total
      BY <2>1 DEF TypeOK, DbOK
    <2>3. UNCHANGED <<batch, counts, total, base>>
      BY <1>2 DEF RecountChunk, batchVars
    <2>4. View' = View
      BY <2>2, <2>3 DEF View
    <2>5. QED BY <1>1, <2>2, <2>3, <2>4 DEF CountersInv, CountersNeverOvercount
  <1>3. CASE RecountFinish
    <2> DEFINE N == Cardinality(Stored(db.rec))
    <2>1. db' = [db EXCEPT !.count = Recounted(ToCount), !.total = N] /\ base' = N
      BY <1>3 DEF RecountFinish
    <2>2. total' = 0 /\ counts' = NoCounts
      BY <1>3 DEF RecountFinish
    <2>3. db'.rec = db.rec /\ db'.count = Recounted(ToCount) /\ db'.total = N
      BY <2>1 DEF TypeOK, DbOK
    <2>4. N \in Nat /\ total' <= Cardinality(Stored(View') \ Stored(db'.rec))
      BY <2>2, StoredFinite, NewFinite
    <2>5. \A a \in Apexes : counts'[a] = None
      BY <2>2 DEF NoCounts
    <2>6. QED BY <1>1, <2>1, <2>3, <2>4, <2>5 DEF CountersInv, CountersNeverOvercount
  <1>4. QED BY <1>2, <1>3

\* A process that starts takes its base from the database.
LEMMA ProcessCounts ==
    ASSUME TypeOK, TypeOK', CountersInv, Open \/ Exit \/ Crash
    PROVE  CountersInv'
  <1>1. /\ UNCHANGED db
        /\ counts' = NoCounts /\ total' = 0
        /\ base' \in {db.total, 0}
    BY DEF Open, Exit, Crash, ProcessEnd, ProcessReset, ReadOrZero
  <1>2. base' <= Cardinality(Stored(db.rec)) /\ total' <= Cardinality(Stored(View') \ Stored(db'.rec))
    BY <1>1, StoredFinite, NewFinite DEF CountersInv, CountersNeverOvercount
  <1>3. \A a \in Apexes : counts'[a] = None
    BY <1>1 DEF NoCounts
  <1>4. QED BY <1>1, <1>2, <1>3 DEF CountersInv, CountersNeverOvercount

\* Nothing is counted and nothing pending at the start.
LEMMA InitCounts == Init => CountersInv
  <1> SUFFICES ASSUME Init PROVE CountersInv
    OBVIOUS
  <1>1. /\ db.total = 0 /\ total = 0 /\ base = 0
        /\ \A a \in Apexes : db.count[a] = 0 /\ counts[a] = None
    BY DEF Init, EmptyDb, NoCounts
  <1>2. QED BY <1>1, StoredFinite, NewFinite DEF CountersInv, CountersNeverOvercount

\* Every step keeps the counters at or below what they count.
LEMMA CountersNext ==
    ASSUME TypeOK, TypeOK', StoreInv, CountersInv, [FreeNext]_vars
    PROVE  CountersInv'
  <1>1. CASE TakeRecord
    BY <1>1, NewRecordCounts, KnownRecordCounts
  <1>2. CASE FlushFull \/ Tick \/ FinishDrain \/ TakeRecount
    BY <1>2, FlushCounts DEF FlushFull, Tick, FinishDrain, TakeRecount
  <1>3. CASE RecountChunk \/ RecountFinish
    BY <1>3, RecountCounts
  <1>4. CASE Open \/ Exit \/ Crash
    BY <1>4, ProcessCounts
  <1>5. CASE UNCHANGED <<db, batch, counts, total, base>>
    BY <1>5, SameCounters DEF View
  <1>6. CASE DropRecord \/ TakeMark \/ RecountFails \/ StartDrain \/ CloseStep
    BY <1>5, <1>6 DEF DropRecord, TakeMark, RecountFails, StartDrain, CloseStep, CloseMark,
                      CloseQuit, batchVars
  <1>7. ASSUME NEW s \in Callers, AnyCall(s) \/ SendStep(s)
        PROVE  CountersInv'
    BY <1>5, <1>7 DEF AnyCall, SendStep, BeginSend, CompleteSend, RefuseSend, batchVars
  <1>8. CASE UNCHANGED vars
    BY <1>5, <1>8 DEF vars
  <1>9. QED BY <1>1, <1>2, <1>3, <1>4, <1>6, <1>7, <1>8 DEF FreeNext, LoopStep

-----------------------------------------------------------------------------

\* The counter invariant holds throughout.
THEOREM CountersInvariant == Spec => []CountersInv
  <1>1. TypeOK /\ TypeOK' /\ StoreInv /\ CountersInv /\ [FreeNext]_vars => CountersInv'
    BY CountersNext
  <1>2. QED BY <1>1, InitCounts, TypeCorrect, InvariantHolds, SpecIsFree, PTL DEF FreeSpec

\* Count and Total never claim more records than are stored (pendingCount, flush,
\* recountInLoop), through failed reads, shutdowns, crashes and recounts cut short.
THEOREM CountersAreBounded == Spec => []CountersNeverOvercount
  <1>1. CountersInv => CountersNeverOvercount
    BY DEF CountersInv
  <1>2. QED BY <1>1, CountersInvariant, PTL

-----------------------------------------------------------------------------
(* Counters that are exact stay so *)

\* What a commit writes for an apex.
LEMMA CommittedCount ==
    ASSUME NEW a \in Apexes
    PROVE  CommittedDb.count[a] = IF counts[a] # None THEN counts[a] ELSE db.count[a]
  BY DEF CommittedDb

\* Steps that store no new name and touch no counter.
LEMMA SameExact ==
    ASSUME CountsExact, Stored(View') = Stored(View), UNCHANGED <<db, counts>>
    PROVE  CountsExact'
  <1>1. \A a : StoredOf(View', a) = StoredOf(View, a)
    BY DEF StoredOf
  <1>2. CommittedDb'.count = CommittedDb.count
    BY DEF CommittedDb
  <1>3. QED BY <1>1, <1>2 DEF CountsExact, CountsMatch

\* Steps after which nothing is pending and the counters on disk are exact.
LEMMA NothingPending ==
    ASSUME TypeOK', CountsMatch(db'.rec, db'.count), View' = db'.rec, counts' = NoCounts
    PROVE  CountsExact'
  <1>1. CommittedDb'.count = db'.count
    BY DEF CommittedDb, NoCounts, TypeOK, DbOK
  <1>2. QED BY <1>1 DEF CountsExact

\* A new record, while its counter can be read (pendingCount): the counter goes on
\* from what a commit would write.
LEMMA NewExact ==
    ASSUME TypeOK, StoreInv, CountsExact, ~closed, "counter" \notin FailingReads,
           TakeRecord, Known(Head(ch).name) = None
    PROVE  CountsExact'
  <1> DEFINE n == Head(ch).name
             d == Head(ch).date
             new == [date |-> d, seq |-> seq + 1]
  <1>1. n \in Names /\ d \in Dates /\ ApexOf[n] \in Apexes
    BY ReceiveTypes, OpKinds, DataAssumption DEF TakeRecord, TypeOK
  <1>2. StoreNew(n, d) /\ db' = db
    BY DEF TakeRecord
  <1>3. new # None
    BY NoneAssumption, <1>1 DEF Records, TypeOK, LoopOK
  <1>4. View[n] = None /\ db.rec[n] = None
    BY <1>1, UnknownName DEF StoreInv
  <1>5. batch' = [batch EXCEPT ![n] = new]
    BY <1>2 DEF StoreNew
  <1>6. PICK c \in CountBases(ApexOf[n]) : counts' = [counts EXCEPT ![ApexOf[n]] = c + 1]
    BY <1>2 DEF StoreNew
  <1> HIDE DEF n, d, new
  <1>7. View' = [View EXCEPT ![n] = new]
    BY <1>1, <1>2, <1>3, <1>5, NewView DEF StoreInv
  <1>8. /\ Cardinality(StoredOf(View', ApexOf[n])) = Cardinality(StoredOf(View, ApexOf[n])) + 1
        /\ \A a : a # ApexOf[n] => StoredOf(View', a) = StoredOf(View, a)
    BY <1>1, <1>3, <1>4, <1>7, OneMore
  <1>9. c = CommittedDb.count[ApexOf[n]] /\ c \in Nat
    BY <1>1, CommittedCount DEF CountBases, ReadOrZero, TypeOK, BatchOK, DbOK
  <1>10. counts'[ApexOf[n]] = c + 1 /\ \A a \in Apexes : a # ApexOf[n] => counts'[a] = counts[a]
    BY <1>1, <1>6 DEF TypeOK, BatchOK
  <1>11. \A a \in Apexes : CommittedDb'.count[a] =
             IF a = ApexOf[n] THEN c + 1 ELSE CommittedDb.count[a]
    <2>1. c + 1 # None
      BY <1>9, NoneAssumption
    <2>2. \A a \in Apexes : CommittedDb'.count[a] = IF counts'[a] # None THEN counts'[a] ELSE db'.count[a]
      BY DEF CommittedDb
    <2>3. QED BY <1>2, <1>10, <2>1, <2>2, CommittedCount
  <1>12. QED BY <1>2, <1>8, <1>9, <1>11 DEF CountsExact, CountsMatch

\* A flush commits exact counters with their records.
LEMMA FlushExact ==
    ASSUME TypeOK, TypeOK', CountsExact, Flush
    PROVE  CountsExact'
  <1>1. View' = View
    BY FlushView
  <1>2. CASE NothingToCommit
    BY <1>1, <1>2, SameExact DEF Flush, batchVars
  <1>3. CASE ~NothingToCommit
    <2>1. db'.rec = View /\ db'.count = CommittedDb.count /\ counts' = NoCounts
      BY <1>3 DEF Flush, CommittedDb
    <2>2. QED BY <1>1, <2>1, NothingPending DEF CountsExact
  <1>4. QED BY <1>2, <1>3

\* A chunk of a recount writes exact counters over exact ones.
LEMMA ChunkExact ==
    ASSUME TypeOK, StoreInv, CountsExact, RecountChunk
    PROVE  CountsExact'
  <1>1. PICK S : db' = [db EXCEPT !.count = Recounted(S)]
    BY DEF RecountChunk
  <1>2. db'.rec = db.rec /\ db'.count = Recounted(S) /\ UNCHANGED <<batch, counts>>
    BY <1>1 DEF TypeOK, DbOK, RecountChunk, batchVars
  <1>3. View = db.rec /\ View' = View
    <2>1. batch = NoRecords
      BY DEF RecountChunk, StoreInv, RecordsInv, NothingToCommit
    <2>2. QED BY <1>2, <2>1, EmptyBatchView DEF View, TypeOK
  <1>4. CountsMatch(db.rec, db'.count)
    BY <1>2 DEF Recounted, CountsExact, CountsMatch
  <1>5. \A a \in Apexes : CommittedDb'.count[a] = IF counts[a] # None THEN counts[a] ELSE db'.count[a]
    BY <1>2 DEF CommittedDb
  <1>6. \A a \in Apexes : counts[a] # None => counts[a] = Cardinality(StoredOf(View, a))
    BY CommittedCount DEF CountsExact, CountsMatch
  <1>7. QED BY <1>2, <1>3, <1>4, <1>5, <1>6 DEF CountsExact, CountsMatch

\* What a recount has committed: the chunks it has written are exact.
RecountInv ==
    loop = "recount" =>
        \A a \in counted : db.count[a] = Cardinality(StoredOf(db.rec, a))

\* What the last commit of a recount leaves: an apex it has not counted has no
\* records, and its counter, which never claims too many, is zero.
LEMMA FinishExact ==
    ASSUME TypeOK, TypeOK', StoreInv, CountersInv, RecountInv, RecountFinish
    PROVE  /\ CountsMatch(db'.rec, db'.count) /\ db'.total = Cardinality(Stored(db'.rec))
           /\ View' = db'.rec /\ base' = db'.total /\ total' = 0 /\ counts' = NoCounts
  <1> DEFINE N == Cardinality(Stored(db.rec))
  <1>1. db' = [db EXCEPT !.count = Recounted(ToCount), !.total = N] /\ base' = N
    BY DEF RecountFinish
  <1>2. total' = 0 /\ counts' = NoCounts /\ batch' = NoRecords /\ loop = "recount"
    BY DEF RecountFinish
  <1>3. db'.rec = db.rec /\ db'.count = Recounted(ToCount) /\ db'.total = N
    BY <1>1 DEF TypeOK, DbOK
  <1>4. View' = db'.rec
    BY <1>2 DEF View, NoRecords, TypeOK, DbOK
  <1>5. ASSUME NEW a \in Apexes PROVE db'.count[a] = Cardinality(StoredOf(db.rec, a))
    <2>1. CASE a \in ToCount
      BY <1>3, <2>1 DEF Recounted
    <2>2. CASE a \notin ToCount /\ a \in counted
      BY <1>2, <1>3, <2>2 DEF Recounted, RecountInv
    <2>3. CASE StoredOf(db.rec, a) = {}
      <3>1. Cardinality(StoredOf(db.rec, a)) = 0
        BY <2>3, FS_EmptySet
      <3>2. db.count[a] = 0
        BY <3>1 DEF CountersInv, CountersNeverOvercount, TypeOK, DbOK
      <3>3. QED BY <1>3, <3>1, <3>2 DEF Recounted
    <2>4. QED BY <2>1, <2>2, <2>3 DEF ToCount
  <1>6. QED BY <1>1, <1>2, <1>3, <1>4, <1>5 DEF CountsMatch

\* Every step keeps the committed chunks of a recount exact.
LEMMA RecountNext ==
    ASSUME TypeOK, StoreInv, RecountInv, [FreeNext]_vars
    PROVE  RecountInv'
  <1>1. CASE RecountChunk
    <2>1. PICK S : db' = [db EXCEPT !.count = Recounted(S)] /\ counted' = counted \cup S
                   /\ S \subseteq Apexes
      BY <1>1 DEF RecountChunk, ToCount
    <2>2. db'.rec = db.rec /\ db'.count = Recounted(S) /\ counted \subseteq Apexes /\ loop = "recount"
      BY <1>1, <2>1 DEF TypeOK, DbOK, LoopOK, RecountChunk
    <2>3. QED BY <2>1, <2>2 DEF RecountInv, Recounted
  <1>2. CASE TakeRecount
    BY <1>2 DEF TakeRecount, RecountInv
  <1>3. CASE UNCHANGED <<db, counted, loop>>
    BY <1>3 DEF RecountInv
  <1>4. CASE loop' # "recount"
    BY <1>4 DEF RecountInv
  <1>5. CASE DropRecord \/ TakeMark \/ StartDrain \/ CloseStep
    BY <1>3, <1>5 DEF DropRecord, TakeMark, StartDrain, CloseStep, CloseMark, CloseQuit, recountVars
  <1>6. ASSUME NEW s \in Callers, AnyCall(s) \/ SendStep(s) PROVE RecountInv'
    BY <1>3, <1>6 DEF AnyCall, SendStep, BeginSend, CompleteSend, RefuseSend, recountVars
  <1>7. CASE \/ TakeRecord \/ FlushFull \/ Tick \/ FinishDrain
             \/ RecountFails \/ RecountFinish \/ Open \/ Exit \/ Crash
    BY <1>4, <1>7 DEF TakeRecord, Receive, FlushFull, Tick, FinishDrain, RecountFails,
                      RecountFinish, Open, Exit, Crash, ProcessEnd
  <1>8. CASE UNCHANGED vars
    BY <1>3, <1>8 DEF vars
  <1>9. QED BY <1>1, <1>2, <1>5, <1>6, <1>7, <1>8 DEF FreeNext, LoopStep

\* The chunks of a recount stay right while it runs: the loop does nothing else.
THEOREM RecountInvariant == Spec => []RecountInv
  <1>1. Init => RecountInv
    BY DEF Init, RecountInv
  <1>2. TypeOK /\ StoreInv /\ RecountInv /\ [FreeNext]_vars => RecountInv'
    BY RecountNext
  <1>3. QED BY <1>1, <1>2, InvariantHolds, SpecIsFree, PTL DEF FreeSpec

\* A recount that is not answered with an error leaves exact counters, whatever
\* they had become, and goes on from them (recountInLoop): a chunk that is written stays right until the last one.
THEOREM RecountsRepair == Spec => RecountRepairs
  <1>1. ASSUME TypeOK, TypeOK', StoreInv, CountersInv, RecountInv, [FreeNext]_vars,
               loop = "recount", loop' = "select", ~RecountFails
        PROVE  /\ CountsMatch(db'.rec, db'.count)
               /\ db'.total = Cardinality(Stored(db'.rec))
               /\ View' = db'.rec
               /\ base' = db'.total /\ total' = 0
    <2>1. CASE LoopStep
      <3>1. RecountFinish
        BY <1>1, <2>1 DEF LoopStep, TakeRecord, DropRecord, FlushFull, TakeMark, Tick, TakeRecount,
                          Receive, RecountChunk, StartDrain, FinishDrain
      <3>2. QED BY <1>1, <3>1, FinishExact
    <2>2. CASE CloseStep \/ Open \/ Exit \/ Crash \/ UNCHANGED vars
      BY <1>1, <2>2 DEF CloseStep, CloseMark, CloseQuit, Open, Exit, Crash, ProcessEnd, vars
    <2>3. ASSUME NEW s \in Callers, AnyCall(s) \/ SendStep(s) PROVE loop' = loop
      BY <2>3 DEF AnyCall, SendStep, BeginSend, CompleteSend, RefuseSend
    <2>4. QED BY <1>1, <2>1, <2>2, <2>3 DEF FreeNext
  <1>2. TypeOK /\ TypeOK' /\ StoreInv /\ CountersInv /\ RecountInv /\ [FreeNext]_vars =>
           (loop = "recount" /\ loop' = "select" /\ ~RecountFails =>
              /\ CountsMatch(db'.rec, db'.count)
              /\ db'.total = Cardinality(Stored(db'.rec))
              /\ View' = db'.rec
              /\ base' = db'.total /\ total' = 0)
    BY <1>1
  <1>3. QED BY <1>2, InvariantHolds, CountersInvariant, RecountInvariant, SpecIsFree, PTL
            DEF FreeSpec, RecountRepairs

\* Where the counters can be read, only a store that is shutting down makes an
\* exact one wrong (pendingCount, apply, flush): no interleaving of new and known
\* records, flushes, recounts, crashes and restarts does.
THEOREM OnlyAShutdownBreaksCounts ==
    ASSUME "counter" \notin FailingReads
    PROVE  Spec => OnlyShutdownBreaksCounts
  <1>1. ASSUME TypeOK, TypeOK', StoreInv, CountersInv, RecountInv, [FreeNext]_vars,
               CountsExact, ~closed
        PROVE  CountsExact'
    <2>1. CASE TakeRecord
      <3>1. CASE Known(Head(ch).name) = None
        BY <1>1, <2>1, <3>1, NewExact
      <3>2. CASE Known(Head(ch).name) # None
        BY <1>1, <2>1, <3>2, KnownStored, SameExact
      <3>3. QED BY <3>1, <3>2
    <2>2. CASE FlushFull \/ Tick \/ FinishDrain \/ TakeRecount
      BY <1>1, <2>2, FlushExact DEF FlushFull, Tick, FinishDrain, TakeRecount
    <2>3. CASE RecountChunk
      BY <1>1, <2>3, ChunkExact
    <2>4. CASE RecountFinish
      BY <1>1, <2>4, FinishExact, NothingPending
    <2>5. CASE Open \/ Exit \/ Crash
      <3>1. db' = db /\ batch' = NoRecords /\ counts' = NoCounts
        BY <2>5 DEF Open, Exit, Crash, ProcessEnd, ProcessReset
      <3>2. View' = db'.rec
        BY <1>1, <3>1 DEF View, NoRecords, TypeOK, DbOK
      <3>3. QED BY <1>1, <3>1, <3>2, NothingPending DEF CountsExact
    <2>6. CASE UNCHANGED <<db, batch, counts>>
      BY <1>1, <2>6, SameExact DEF View
    <2>7. CASE DropRecord \/ TakeMark \/ RecountFails \/ StartDrain \/ CloseStep
      BY <2>6, <2>7 DEF DropRecord, TakeMark, RecountFails, StartDrain, CloseStep, CloseMark,
                        CloseQuit, batchVars
    <2>8. ASSUME NEW s \in Callers, AnyCall(s) \/ SendStep(s)
          PROVE  UNCHANGED <<db, batch, counts>>
      BY <2>8 DEF AnyCall, SendStep, BeginSend, CompleteSend, RefuseSend, batchVars
    <2>9. CASE UNCHANGED vars
      BY <2>6, <2>9 DEF vars
    <2>10. QED BY <1>1, <2>1, <2>2, <2>3, <2>4, <2>5, <2>6, <2>7, <2>8, <2>9 DEF FreeNext, LoopStep
  <1>2. TypeOK /\ TypeOK' /\ StoreInv /\ CountersInv /\ RecountInv /\ [FreeNext]_vars =>
           (CountsExact /\ ~closed => CountsExact')
    BY <1>1
  <1>3. QED BY <1>2, InvariantHolds, CountersInvariant, RecountInvariant, SpecIsFree, PTL
            DEF FreeSpec, OnlyShutdownBreaksCounts
=============================================================================
