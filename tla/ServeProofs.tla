---------------------------- MODULE ServeProofs ----------------------------
(***************************************************************************)
(* Proofs about Serve, for every value of its constants: a process that is *)
(* started, told to stop or killed runs the store of Store, and what Close *)
(* promises the handlers and the tailers it waits for.                     *)
(***************************************************************************)
EXTENDS Serve, StoreProofs, NaturalLemmas

-----------------------------------------------------------------------------
(* The process runs the store *)

\* What the loop, the tailers and main do to the store are steps of Store.
LEMMA WorkIsStoreStep ==
    ASSUME tailing \subseteq Tailers, Work
    PROVE  Next
  <1>1. CASE LoopStep
    BY <1>1 DEF Next
  <1>2. ASSUME NEW s \in tailing, seq + InFlight < MaxSeq, \E op \in RecordOps : BeginSend(s, op)
        PROVE  Next
    <2>1. s \in Callers /\ Call(s)
      BY <1>2, ServeAssumption DEF Call
    <2>2. QED BY <2>1 DEF Next
  <1>3. ASSUME NEW s \in Callers, SendStep(s) PROVE Next
    BY <1>3 DEF Next
  <1>4. QED BY <1>1, <1>2, <1>3 DEF Work

\* Whatever main, the tailers and the handlers do, the store takes one of its
\* steps or none.
LEMMA StepIsStoreStep ==
    ASSUME tailing \subseteq Tailers, [ServeNext]_serveVars
    PROVE  [Next]_vars
  <1>1. ASSUME NEW c \in Commands, Start(c) PROVE Next
    BY <1>1 DEF Start, Next
  <1>2. CASE Work
    BY <1>2, WorkIsStoreStep
  <1>3. ASSUME NEW s \in Tailers, TailerReturns(s) PROVE UNCHANGED vars
    BY <1>3 DEF TailerReturns
  <1>4. ASSUME NEW r \in Clients, Request(r) \/ Handle(r) PROVE UNCHANGED vars
    BY <1>4 DEF Request, Handle, OpenIter, ScanPanics, ScanDone, OpenGet, GetRefused,
                GetDone, Answered
  <1>5. CASE Signal
    BY <1>5 DEF Signal
  <1>6. CASE AskRecount
    BY <1>6, ServeAssumption DEF AskRecount, Call, Next
  <1>7. CASE MainStep
    BY <1>7 DEF MainStep, HttpStopped, TailersStopped, StatsDone, CloseStore, ClosePebble,
                CloseStep, Next
  <1>8. CASE MainReturns \/ Die
    BY <1>8 DEF MainReturns, Die, Next
  <1>9. CASE UNCHANGED serveVars
    BY <1>9 DEF serveVars
  <1>10. QED BY <1>1, <1>2, <1>3, <1>4, <1>5, <1>6, <1>7, <1>8, <1>9 DEF ServeNext

-----------------------------------------------------------------------------
(***************************************************************************)
(* The inductive invariant.  What main has done tells what the store is    *)
(* doing: the store is closed only by the last call of main, and nothing   *)
(* is sent but by a tailer that has not returned or a main that waits for  *)
(* its recount.  From the order of the shutdown it then follows that no    *)
(* handler is left, or the history says why, once pebble is closed.        *)
(***************************************************************************)

\* The shape of the variables of the process.
ProcessOK ==
    /\ cmd \in Commands \cup {None}
    /\ main \in {"off", "run", "asked", "drain", "wait", "close", "exit"}
    /\ tailing \subseteq Tailers
    /\ late \in BOOLEAN /\ hurried \in BOOLEAN
    /\ at \in [Clients -> {"idle", "search", "watch", "searching", "watching",
                          "scanned", "getting", "counted"}]

\* Where main is, and what it has done to the store by then.
MainInv ==
    /\ loop = "down" => main = "off"
    /\ closed => main \in {"close", "exit"}
    /\ main = "exit" => loop = "stopped"
    /\ draining => quit
    /\ loop = "stopped" => draining

\* Handlers: none holds the mutex of a closed store, and none is left after a
\* shutdown of the HTTP server that did not give up.
HandlersInv ==
    /\ closed => \A r \in Clients : at[r] # "getting"
    /\ main \in {"wait", "close", "exit"} /\ ~late => \A r \in Clients : at[r] = "idle"
    /\ main = "off" \/ ~Serving => \A r \in Clients : at[r] = "idle"

\* Senders: tailers that have not returned and the main of stats -recount; none
\* at all once the tailers were waited for, and then an empty queue stays empty.
SendersInv ==
    /\ \A s \in Callers : sending[s] # None =>
           s \in tailing \/ (s = Main /\ main = "asked")
    /\ main # "off" /\ cmd = "stats" => tailing = {}
    /\ main \in {"close", "exit"} /\ ~hurried => tailing = {}
    /\ loop = "stopped" /\ ~hurried => ch = <<>>

ServeInv == ProcessOK /\ MainInv /\ HandlersInv /\ SendersInv

\* The invariant with that of the store under it.
Inv == TypeOK /\ ServeInv

\* Where the process and its handlers start.
LEMMA ServeInitInv == ServeInit => ServeInv
  BY DEF ServeInit, Init, ServeInv, ProcessOK, MainInv, HandlersInv, SendersInv

\* The shape is kept.
LEMMA ProcessNext ==
    ASSUME ProcessOK, [ServeNext]_serveVars
    PROVE  ProcessOK'
  <1> USE DEF ProcessOK
  <1>1. ASSUME NEW c \in Commands, Start(c) PROVE ProcessOK'
    BY <1>1 DEF Start, clientVars
  <1>2. CASE Work
    BY <1>2 DEF Work, mainVars, clientVars
  <1>3. ASSUME NEW s \in Tailers, TailerReturns(s) PROVE ProcessOK'
    BY <1>3 DEF TailerReturns, clientVars
  <1>4. ASSUME NEW r \in Clients, Request(r) \/ Handle(r) PROVE ProcessOK'
    BY <1>4 DEF Request, Handle, OpenIter, ScanPanics, ScanDone, OpenGet, GetRefused,
                GetDone, Answered, Goto, mainVars
  <1>5. CASE Signal \/ AskRecount
    BY <1>5 DEF Signal, AskRecount, clientVars
  <1>6. CASE MainStep
    BY <1>6 DEF MainStep, HttpStopped, TailersStopped, StatsDone, CloseStore, ClosePebble,
                mainVars, clientVars
  <1>7. CASE MainReturns \/ Die
    BY <1>7 DEF MainReturns, Die, ProcessGone
  <1>8. CASE UNCHANGED serveVars
    BY <1>8 DEF serveVars, mainVars, clientVars
  <1>9. QED BY <1>1, <1>2, <1>3, <1>4, <1>5, <1>6, <1>7, <1>8 DEF ServeNext

\* What the loop does to the variables that Close, the callers and main share:
\* it starts to drain once quit is closed, and stops on an empty queue.
LEMMA LoopFrame ==
    ASSUME LoopStep
    PROVE  /\ UNCHANGED <<closed, quit, sending>>
           /\ loop \notin {"down", "stopped"} /\ loop' # "down"
           /\ loop' = "stopped" => draining /\ ch' = <<>>
           /\ draining' => draining \/ quit
           /\ draining => draining'
  <1> USE DEF batchVars, recountVars, closeVars, callVars
  <1>1. CASE TakeRecord \/ DropRecord \/ TakeMark
    BY <1>1 DEF TakeRecord, DropRecord, TakeMark, Receive
  <1>2. CASE FlushFull \/ Tick \/ StartDrain \/ FinishDrain
    BY <1>2 DEF FlushFull, Tick, StartDrain, FinishDrain
  <1>3. CASE TakeRecount \/ RecountChunk \/ RecountFails \/ RecountFinish
    BY <1>3 DEF TakeRecount, RecountChunk, RecountFails, RecountFinish, Receive
  <1>4. QED BY <1>1, <1>2, <1>3 DEF LoopStep

\* What sendOp does to them: a caller that is not blocked begins to send, one
\* that is blocked gets out, and only a blocked one adds to the queue.
LEMMA SendFrame ==
    ASSUME TypeOK, NEW s \in Callers
    PROVE  /\ SendStep(s) =>
                 /\ UNCHANGED <<closed, quit, loop, draining>>
                 /\ sending[s] # None
                 /\ sending' = [sending EXCEPT ![s] = None]
           /\ \A op : BeginSend(s, op) =>
                 /\ UNCHANGED <<closed, quit, loop, draining, ch>>
                 /\ ~closed
                 /\ sending' = [sending EXCEPT ![s] = op]
  BY DEF SendStep, CompleteSend, RefuseSend, BeginSend, closeVars

\* The steps that leave the store as it is.
LEMMA IdleFrame ==
    ASSUME \/ \E s \in Tailers : TailerReturns(s)
           \/ \E r \in Clients : Request(r) \/ Handle(r)
           \/ Signal \/ HttpStopped \/ TailersStopped \/ StatsDone \/ ClosePebble
           \/ UNCHANGED serveVars
    PROVE  UNCHANGED <<closed, quit, loop, draining, ch, sending>>
  BY DEF TailerReturns, Request, Handle, OpenIter, ScanPanics, ScanDone, OpenGet, GetRefused,
         GetDone, Answered, Signal, HttpStopped, TailersStopped, StatsDone, ClosePebble,
         serveVars, vars

\* main ends with its process, and Close alone closes the store.
LEMMA MainNext ==
    ASSUME TypeOK, ServeInv, [ServeNext]_serveVars
    PROVE  MainInv'
  <1> USE DEF ServeInv, ProcessOK, MainInv
  <1>1. ASSUME NEW c \in Commands, Start(c) PROVE MainInv'
    BY <1>1 DEF Start, Open, ProcessReset
  <1>2. CASE Work
    <2>1. CASE LoopStep
      BY <1>2, <2>1, LoopFrame DEF Work, mainVars
    <2>2. CASE ~LoopStep
      <3>1. UNCHANGED <<closed, quit, loop, draining>>
        BY <1>2, <2>2, SendFrame, ServeAssumption DEF Work
      <3>2. QED BY <1>2, <3>1 DEF Work, mainVars
    <2>3. QED BY <2>1, <2>2
  <1>3. ASSUME NEW s \in Tailers, TailerReturns(s) PROVE MainInv'
    BY <1>3, IdleFrame DEF TailerReturns
  <1>4. ASSUME NEW r \in Clients, Request(r) \/ Handle(r) PROVE MainInv'
    <2>1. main' = main
      BY <1>4 DEF Request, Handle, OpenIter, ScanPanics, ScanDone, OpenGet, GetRefused,
                  GetDone, Answered, mainVars
    <2>2. QED BY <1>4, <2>1, IdleFrame
  <1>5. CASE Signal
    BY <1>5, IdleFrame DEF Signal
  <1>6. CASE AskRecount
    BY <1>6, SendFrame, ServeAssumption DEF AskRecount
  <1>7. CASE HttpStopped \/ TailersStopped \/ StatsDone \/ ClosePebble
    <2>1. UNCHANGED <<closed, quit, loop, draining, ch, sending>>
      BY <1>7, IdleFrame
    <2>2. QED BY <1>7, <2>1 DEF HttpStopped, TailersStopped, StatsDone, ClosePebble
  <1>8. CASE CloseStore
    BY <1>8 DEF CloseStore, CloseMark, CloseQuit, mainVars
  <1>9. CASE MainReturns \/ Die
    BY <1>9 DEF MainReturns, Die, ProcessGone, Exit, Crash, ProcessEnd, ProcessReset
  <1>10. CASE UNCHANGED serveVars
    BY <1>10, IdleFrame DEF serveVars, mainVars
  <1>11. QED
    BY <1>1, <1>2, <1>3, <1>4, <1>5, <1>6, <1>7, <1>8, <1>9, <1>10 DEF ServeNext, MainStep

\* A request comes and goes with the server, and a read of a counter with the
\* mutex (handleSearch, getRaw).
LEMMA HandlersNext ==
    ASSUME TypeOK, ServeInv, [ServeNext]_serveVars
    PROVE  HandlersInv'
  <1> USE DEF ServeInv, ProcessOK, MainInv, HandlersInv, Serving
  <1>1. ASSUME NEW c \in Commands, Start(c) PROVE HandlersInv'
    BY <1>1 DEF Start, Open, ProcessReset, clientVars
  <1>2. CASE Work
    <2>1. closed' = closed
      BY <1>2, LoopFrame, SendFrame, ServeAssumption DEF Work
    <2>2. QED BY <1>2, <2>1 DEF Work, mainVars, clientVars
  <1>3. ASSUME NEW s \in Tailers, TailerReturns(s) PROVE HandlersInv'
    <2>1. UNCHANGED <<closed, quit, loop, draining, ch, sending>>
      BY <1>3, IdleFrame
    <2>2. QED BY <1>3, <2>1 DEF TailerReturns, clientVars
  <1>4. ASSUME NEW r \in Clients, Request(r) PROVE HandlersInv'
    <2>1. UNCHANGED <<closed, quit, loop, draining, ch, sending>>
      BY <1>4, IdleFrame
    <2>2. QED BY <1>4, <2>1 DEF Request, Goto, mainVars
  <1>5. ASSUME NEW r \in Clients, Handle(r) PROVE HandlersInv'
    <2>1. /\ UNCHANGED mainVars
          /\ at[r] # "idle"
          /\ \A q \in Clients : q # r => at'[q] = at[q]
          /\ at'[r] = "getting" => ~closed
      BY <1>5 DEF Handle, OpenIter, ScanPanics, ScanDone, OpenGet, GetRefused,
                  GetDone, Answered, Goto
    <2>2. closed' = closed
      BY <1>5, IdleFrame
    <2>3. QED BY <2>1, <2>2 DEF mainVars
  <1>6. CASE Signal
    <2>1. UNCHANGED <<closed, quit, loop, draining, ch, sending>>
      BY <1>6, IdleFrame
    <2>2. QED BY <1>6, <2>1 DEF Signal, clientVars
  <1>7. CASE AskRecount
    BY <1>7, SendFrame, ServeAssumption DEF AskRecount, clientVars
  <1>8. CASE HttpStopped \/ TailersStopped \/ StatsDone \/ ClosePebble
    <2>1. UNCHANGED <<closed, quit, loop, draining, ch, sending>>
      BY <1>8, IdleFrame
    <2>2. QED BY <1>8, <2>1 DEF HttpStopped, TailersStopped, StatsDone, ClosePebble, clientVars
  <1>9. CASE CloseStore
    BY <1>9 DEF CloseStore, CloseMark, CloseQuit, mainVars, clientVars
  <1>10. CASE MainReturns \/ Die
    BY <1>10 DEF MainReturns, Die, ProcessGone
  <1>11. CASE UNCHANGED serveVars
    <2>1. UNCHANGED <<closed, quit, loop, draining, ch, sending>>
      BY <1>11, IdleFrame
    <2>2. QED BY <1>11, <2>1 DEF serveVars, mainVars, clientVars
  <1>12. QED
    BY <1>1, <1>2, <1>3, <1>4, <1>5, <1>6, <1>7, <1>8, <1>9, <1>10, <1>11
       DEF ServeNext, MainStep

\* Who is sending, and what an orderly stop leaves in the queue.
LEMMA SendersNext ==
    ASSUME TypeOK, ServeInv, [ServeNext]_serveVars
    PROVE  SendersInv'
  <1> USE DEF ServeInv, ProcessOK, MainInv, SendersInv
  <1>1. ASSUME NEW c \in Commands, Start(c) PROVE SendersInv'
    BY <1>1 DEF Start, Open, ProcessReset
  <1>2. CASE Work
    <2>1. CASE LoopStep
      BY <1>2, <2>1, LoopFrame DEF Work, mainVars
    <2>2. ASSUME NEW s \in tailing, \E op \in RecordOps : BeginSend(s, op) PROVE SendersInv'
      <3>1. PICK op \in RecordOps : BeginSend(s, op)
        BY <2>2
      <3>2. s \in Callers
        BY ServeAssumption
      <3>3. QED BY <1>2, <3>1, <3>2, SendFrame DEF Work, mainVars, TypeOK, CallersOK
    <2>3. ASSUME NEW s \in Callers, SendStep(s) PROVE SendersInv'
      <3>1. loop = "stopped" => closed
        BY DEF TypeOK, CallersOK
      <3>2. s \in tailing \/ main = "asked"
        BY <2>3, SendFrame
      <3>3. loop = "stopped" => hurried
        BY <3>1, <3>2
      <3>4. QED BY <1>2, <2>3, <3>3, SendFrame DEF Work, mainVars, TypeOK, CallersOK
    <2>4. QED BY <1>2, <2>1, <2>2, <2>3 DEF Work
  <1>3. ASSUME NEW s \in Tailers, TailerReturns(s) PROVE SendersInv'
    BY <1>3, IdleFrame DEF TailerReturns
  <1>4. ASSUME NEW r \in Clients, Request(r) \/ Handle(r) PROVE SendersInv'
    <2>1. UNCHANGED mainVars
      BY <1>4 DEF Request, Handle, OpenIter, ScanPanics, ScanDone, OpenGet, GetRefused,
                  GetDone, Answered
    <2>2. QED BY <1>4, <2>1, IdleFrame DEF mainVars
  <1>5. CASE Signal
    BY <1>5, IdleFrame DEF Signal
  <1>6. CASE AskRecount
    BY <1>6, SendFrame, ServeAssumption DEF AskRecount, TypeOK, CallersOK
  <1>7. CASE HttpStopped \/ TailersStopped
    <2>1. loop # "stopped"
      BY <1>7 DEF HttpStopped, TailersStopped, TypeOK, CallersOK
    <2>2. QED BY <1>7, <2>1, IdleFrame DEF HttpStopped, TailersStopped
  <1>8. CASE StatsDone
    BY <1>8, IdleFrame DEF StatsDone
  <1>9. CASE ClosePebble
    BY <1>9, IdleFrame DEF ClosePebble
  <1>10. CASE CloseStore
    BY <1>10 DEF CloseStore, CloseMark, CloseQuit, mainVars, callVars
  <1>11. CASE MainReturns \/ Die
    BY <1>11 DEF MainReturns, Die, ProcessGone, Exit, Crash, ProcessEnd, ProcessReset
  <1>12. CASE UNCHANGED serveVars
    BY <1>12, IdleFrame DEF serveVars, mainVars
  <1>13. QED
    BY <1>1, <1>2, <1>3, <1>4, <1>5, <1>6, <1>7, <1>8, <1>9, <1>10, <1>11, <1>12
       DEF ServeNext, MainStep

\* The invariant of the process is kept.
LEMMA ServeInvNext ==
    ASSUME TypeOK, ServeInv, [ServeNext]_serveVars
    PROVE  ServeInv'
  BY ProcessNext, MainNext, HandlersNext, SendersNext DEF ServeInv

-----------------------------------------------------------------------------
(* The theorems *)

\* Serve refines Store: a process of main.go, with its tailers, its handlers and
\* its shutdown, does to the store what Store allows and nothing else, so every
\* theorem about Store holds of it.
THEOREM ServeRunsStore == ServeSpec => Spec
  <1>1. ServeInit => Init /\ ProcessOK
    BY ServeInitInv DEF ServeInit, ServeInv
  <1>2. ProcessOK /\ [ServeNext]_serveVars => ProcessOK' /\ [Next]_vars
    BY ProcessNext, StepIsStoreStep DEF ProcessOK
  <1>3. QED BY <1>1, <1>2, PTL DEF ServeSpec, Spec

\* The invariant holds throughout.
THEOREM ServeInvariantHolds == ServeSpec => []Inv
  <1>1. ServeInit => ServeInv
    BY ServeInitInv
  <1>2. TypeOK /\ ServeInv /\ [ServeNext]_serveVars => ServeInv'
    BY ServeInvNext
  <1>3. QED BY <1>1, <1>2, ServeRunsStore, TypeCorrect, PTL DEF ServeSpec, Inv

\* getRaw, Shutdown and Close: pebble is not closed under a counter read, nor
\* under an iterator unless Shutdown had given up on its request.
THEOREM ReadsAreSafe == ServeSpec => []ReadsOutliveClose
  <1>1. Inv => ReadsOutliveClose
    BY DEF Inv, ServeInv, ProcessOK, MainInv, HandlersInv, ReadsOutliveClose, TypeOK, CallersOK
  <1>2. QED BY <1>1, ServeInvariantHolds, PTL

\* cmdServe and cmdTail: unless the wait for the tailers was cut short, Close
\* leaves nothing in the queue, nothing uncommitted and nobody sending.
THEOREM OrderlyStop == ServeSpec => []OrderlyStopLosesNothing
  <1>1. Inv /\ StopLeavesNothingBehind => OrderlyStopLosesNothing
    BY DEF Inv, ServeInv, MainInv, SendersInv, StopLeavesNothingBehind, OrderlyStopLosesNothing
  <1>2. QED BY <1>1, ServeInvariantHolds, ServeRunsStore, NothingBehind, PTL

-----------------------------------------------------------------------------
(* The scans *)

\* The rows up to a number: what a client that has the number as its cursor was
\* offered.
UpTo(recs, a, c) == {n \in StoredOf(recs, a) : recs[n].seq <= c}

\* What the heap holds once the iterator has shown it the names of seen: the
\* newest of them, all of them while there is room.
NewestOf(heap, recs, seen) ==
    /\ heap \subseteq seen
    /\ Cardinality(heap) <= MaxResults
    /\ Cardinality(heap) < MaxResults => heap = seen
    /\ \A n \in seen \ heap, m \in heap : recs[n].seq <= recs[m].seq

RecordMaps == [Names -> Records \cup {None}]

\* A row has a number.
LEMMA RowNumbers ==
    ASSUME NEW recs \in RecordMaps, NEW a
    PROVE  /\ StoredOf(recs, a) \subseteq Names /\ IsFiniteSet(StoredOf(recs, a))
           /\ \A n \in StoredOf(recs, a) : recs[n].seq \in Nat
  BY StoredFinite DEF StoredOf, Stored, Records, RecordMaps

\* The top of a heap that is not empty is its oldest row (resultHeap).
LEMMA OldestIsOldest ==
    ASSUME NEW recs \in RecordMaps, NEW a, NEW heap \in SUBSET StoredOf(recs, a), heap # {}
    PROVE  /\ Oldest(recs, heap) \in heap
           /\ \A m \in heap : recs[Oldest(recs, heap)].seq <= recs[m].seq
  <1> DEFINE S == {recs[n].seq : n \in heap}
  <1>1. S \in SUBSET Nat /\ S # {}
    BY RowNumbers
  <1>2. PICK least \in S : \A q \in S : least <= q
    BY <1>1, LeastNatural
  <1>3. PICK n \in heap : recs[n].seq = least
    OBVIOUS
  <1>4. \A m \in heap : recs[n].seq <= recs[m].seq
    BY <1>2, <1>3
  <1>5. QED BY <1>4 DEF Oldest

\* One more row goes to the heap (Scan): it still holds the newest.
LEMMA PushKeepsNewest ==
    ASSUME NEW recs \in RecordMaps, NEW a, NEW seen \in SUBSET StoredOf(recs, a),
           NEW n \in StoredOf(recs, a), n \notin seen,
           NEW heap, NewestOf(heap, recs, seen)
    PROVE  NewestOf(Push(heap, recs, n), recs, seen \cup {n})
  <1>1. /\ heap \subseteq StoredOf(recs, a) /\ IsFiniteSet(heap) /\ n \notin heap
        /\ Cardinality(heap) \in Nat
        /\ \A m \in StoredOf(recs, a) : recs[m].seq \in Nat
        /\ MaxResults \in Nat \ {0}
    <2>1. heap \subseteq StoredOf(recs, a) /\ n \notin heap
      BY DEF NewestOf
    <2>2. IsFiniteSet(heap)
      BY <2>1, RowNumbers, FS_Subset
    <2>3. QED BY <2>1, <2>2, RowNumbers, FS_CardinalityType, ServeAssumption
  <1>2. CASE Cardinality(heap) < MaxResults
    <2>1. Push(heap, recs, n) = heap \cup {n} /\ heap = seen
      BY <1>2 DEF Push, NewestOf
    <2>2. Cardinality(heap \cup {n}) = Cardinality(heap) + 1
      BY <1>1, FS_AddElement
    <2>3. QED BY <1>1, <1>2, <2>1, <2>2 DEF NewestOf
  <1>3. CASE Cardinality(heap) = MaxResults
    <2> DEFINE oldest == Oldest(recs, heap)
    <2>1. heap # {}
      BY <1>1, <1>3, FS_EmptySet
    <2>2. oldest \in heap /\ \A m \in heap : recs[oldest].seq <= recs[m].seq
      BY <1>1, <2>1, OldestIsOldest
    <2>3. recs[oldest].seq \in Nat /\ recs[n].seq \in Nat
      BY <1>1, <2>2
    <2> HIDE DEF oldest
    <2>4. CASE recs[n].seq > recs[oldest].seq
      <3> DEFINE new == (heap \ {oldest}) \cup {n}
      <3>1. Push(heap, recs, n) = new
        BY <1>1, <1>3, <2>4 DEF Push, oldest
      <3>2. Cardinality(new) = MaxResults
        <4>1. IsFiniteSet(heap \ {oldest}) /\ Cardinality(heap \ {oldest}) = MaxResults - 1
          BY <1>1, <1>3, <2>2, FS_RemoveElement
        <4>2. Cardinality(new) = (MaxResults - 1) + 1
          BY <1>1, <4>1, FS_AddElement
        <4>3. QED BY <1>1, <4>2
      <3>3. ASSUME NEW p \in (seen \cup {n}) \ new, NEW m \in new
            PROVE  recs[p].seq <= recs[m].seq
        <4>1. p \in StoredOf(recs, a) /\ m \in StoredOf(recs, a)
          BY <1>1, <3>3
        <4>2. recs[p].seq <= recs[oldest].seq
          BY <2>2, <3>3, <2>3 DEF NewestOf
        <4>3. recs[oldest].seq <= recs[m].seq
          BY <2>2, <2>3, <2>4, <3>3
        <4>4. QED BY <1>1, <2>3, <4>1, <4>2, <4>3
      <3>4. new \subseteq seen \cup {n}
        BY DEF NewestOf
      <3> HIDE DEF new
      <3>5. QED BY <1>1, <3>1, <3>2, <3>3, <3>4 DEF NewestOf
    <2>5. CASE ~(recs[n].seq > recs[oldest].seq)
      <3>1. Push(heap, recs, n) = heap
        BY <1>1, <1>3, <2>5 DEF Push, oldest
      <3>2. \A m \in heap : recs[n].seq <= recs[m].seq
        BY <1>1, <2>2, <2>3, <2>5
      <3>3. QED BY <1>1, <1>3, <3>1, <3>2 DEF NewestOf
    <2>6. QED BY <2>4, <2>5
  <1>4. QED BY <1>1, <1>2, <1>3 DEF NewestOf

\* Scan answers with the newest rows of an apex, and with all of them when they
\* are not more than an answer takes, whatever the order of the keys.
THEOREM ScanKeepsTheNewest ==
    ASSUME NEW recs \in RecordMaps, NEW a
    PROVE  NewestOf(Scan(recs, a), recs, StoredOf(recs, a))
  <1> DEFINE N == Len(KeyOrder)
             Next1(heap, i) == IF KeyOrder[i] \in StoredOf(recs, a)
                               THEN Push(heap, recs, KeyOrder[i]) ELSE heap
             Equation(f) == f = [i \in 0..N |-> IF i = 0 THEN {} ELSE Next1(f[i - 1], i)]
             heap == CHOOSE f : Equation(f)
             Seen(i) == {KeyOrder[j] : j \in 1..i} \cap StoredOf(recs, a)
  <1>1. /\ N \in Nat /\ KeyOrder \in [1..N -> Names]
        /\ \A i, j \in 1..N : KeyOrder[i] = KeyOrder[j] => i = j
        /\ \A n \in Names : \E i \in 1..N : KeyOrder[i] = n
    BY ServeAssumption DEF IsInjective, Range
  <1>2. Scan(recs, a) = heap[N]
    BY DEF Scan
  <1> HIDE DEF N
  <1>3. Equation(heap)
    <2> DEFINE D == SUBSET Names
               Body == {<<h, i, Next1(h, i)>> : h \in D, i \in 1..N}
    <2>1. \A h \in D, i \in 1..N : Next1(h, i) \in D
      BY <1>1 DEF Push
    <2> HIDE DEF Next1
    <2>2. {} \in D /\ \A h \in D, i \in 1..N : \E e \in D : <<h, i, e>> \in Body
      BY <2>1
    <2>3. \A h, i, e : <<h, i, e>> \in Body => e = Next1(h, i)
      OBVIOUS
    <2> HIDE DEF D, Body
    <2>4. PICK f \in [0..N -> D] :
             f[0] = {} /\ \A i \in 1..N : <<f[i - 1], i, f[i]>> \in Body
      <3>1. \A base0 \in D, n \in Nat : \A B :
               (\A d \in D, i \in 1..n : \E e \in D : <<d, i, e>> \in B)
               => \E f \in [0..n -> D] :
                      f[0] = base0 /\ \A i \in 1..n : <<f[i - 1], i, f[i]>> \in B
        BY RunExists
      <3>2. QED BY <1>1, <2>2, <3>1
    <2>5. \A i \in 0..N : f[i] = IF i = 0 THEN {} ELSE Next1(f[i - 1], i)
      <3>1. \A i \in 1..N : f[i] = Next1(f[i - 1], i)
        BY <2>3, <2>4
      <3>2. \A i \in 0..N : i = 0 \/ i \in 1..N
        BY <1>1
      <3>3. QED BY <2>4, <3>1, <3>2
    <2>6. Equation(f)
      BY <2>4, <2>5
    <2> HIDE DEF Equation
    <2>7. QED BY <2>6
  <1>4. heap[0] = {} /\ \A i \in 1..N : heap[i] = Next1(heap[i - 1], i)
    <2> HIDE DEF heap, Next1
    <2>1. heap = [i \in 0..N |-> IF i = 0 THEN {} ELSE Next1(heap[i - 1], i)]
      BY <1>3
    <2>2. 0 \in 0..N /\ \A i \in 1..N : i \in 0..N /\ i # 0
      BY <1>1
    <2>3. \A i \in 0..N : heap[i] = IF i = 0 THEN {} ELSE Next1(heap[i - 1], i)
      BY <2>1
    <2>4. QED BY <2>2, <2>3
  <1> HIDE DEF heap
  <1> DEFINE S == {i \in Nat : i <= N => NewestOf(heap[i], recs, Seen(i))}
  <1>5. 0 \in S
    <2>1. heap[0] = {} /\ Seen(0) = {} /\ Cardinality({}) = 0 /\ 0 <= MaxResults
      BY <1>4, FS_EmptySet, ServeAssumption
    <2>2. NewestOf(heap[0], recs, Seen(0))
      BY <2>1 DEF NewestOf
    <2>3. QED BY <2>2
  <1>6. ASSUME NEW i \in Nat, i \in S PROVE i + 1 \in S
    <2>1. SUFFICES ASSUME i + 1 <= N PROVE NewestOf(heap[i + 1], recs, Seen(i + 1))
      OBVIOUS
    <2> DEFINE n == KeyOrder[i + 1]
    <2>2. i + 1 \in 1..N /\ NewestOf(heap[i], recs, Seen(i))
      BY <1>1, <1>6, <2>1
    <2>3. heap[i + 1] = Next1(heap[i], i + 1)
      BY <1>4, <2>2
    <2>4. n \notin Seen(i) /\ Seen(i) \subseteq StoredOf(recs, a)
      BY <1>1, <2>2
    <2>5. Seen(i + 1) = Seen(i) \cup ({n} \cap StoredOf(recs, a))
      <3>1. 1..(i + 1) = 1..i \cup {i + 1}
        OBVIOUS
      <3>2. QED BY <3>1
    <2>6. CASE n \in StoredOf(recs, a)
      <3>1. Seen(i + 1) = Seen(i) \cup {n} /\ heap[i + 1] = Push(heap[i], recs, n)
        BY <2>3, <2>5, <2>6
      <3> HIDE DEF n, Seen
      <3>2. QED BY <2>2, <2>4, <2>6, <3>1, PushKeepsNewest
    <2>7. CASE n \notin StoredOf(recs, a)
      <3>1. Seen(i + 1) = Seen(i) /\ heap[i + 1] = heap[i]
        BY <2>3, <2>5, <2>7
      <3>2. QED BY <2>2, <3>1
    <2>8. QED BY <2>6, <2>7
  <1>7. NewestOf(heap[N], recs, Seen(N))
    <2> HIDE DEF S
    <2>1. N \in S
      BY <1>1, <1>5, <1>6, SetInduction
    <2>2. QED BY <1>1, <2>1 DEF S
  <1>8. Seen(N) = StoredOf(recs, a)
    BY <1>1, RowNumbers
  <1>9. QED BY <1>2, <1>7, <1>8

\* The answer of a search covers the rows of the apex up to the cursor it gives:
\* every one of them is a row or was left out (handleSearch).
LEMMA SearchAnswerCovers ==
    ASSUME NEW recs \in RecordMaps, NEW a, NEW b \in Nat,
           \A n \in StoredOf(recs, a) : recs[n].seq <= b
    PROVE  LET ans == SearchAnswer(recs, a)
           IN  /\ ans \in [rows : SUBSET Names, max : 0..b, left : SUBSET Names, count : {None}]
               /\ ans.rows \cup ans.left = UpTo(recs, a, ans.max)
  <1> DEFINE rows == Scan(recs, a)
             S == {0} \cup {recs[n].seq : n \in rows}
             max == Max(S)
  <1>1. NewestOf(rows, recs, StoredOf(recs, a))
    BY ScanKeepsTheNewest
  <1> HIDE DEF rows
  <1>2. rows \subseteq StoredOf(recs, a) /\ S \in SUBSET Nat /\ S # {} /\ \A q \in S : q <= b
    BY <1>1, RowNumbers DEF NewestOf
  <1>3. max \in S /\ \A q \in S : q <= max
    <2>1. PICK m \in S : \A q \in S : q <= m
      BY <1>2, LargestNatural
    <2>2. \A q \in S : m >= q
      BY <1>2, <2>1
    <2> HIDE DEF S
    <2>3. max \in S /\ \A q \in S : max >= q
      BY <2>2 DEF Max
    <2>4. QED BY <1>2, <2>3
  <1>4. max \in 0..b
    BY <1>2, <1>3
  <1>5. \A n \in rows : recs[n].seq <= max
    BY <1>3
  <1>6. ASSUME NEW n \in StoredOf(recs, a) PROVE recs[n].seq <= max
    <2>1. CASE n \in rows
      BY <1>5, <2>1
    <2>2. CASE n \notin rows
      <3>1. Cardinality(rows) # 0
        BY <1>1, <2>2, ServeAssumption DEF NewestOf
      <3>2. PICK m \in rows : TRUE
        BY <3>1, FS_EmptySet
      <3>3. recs[n].seq <= recs[m].seq /\ recs[m].seq <= max
        BY <1>1, <1>5, <2>2, <3>2 DEF NewestOf
      <3>4. recs[n].seq \in Nat /\ recs[m].seq \in Nat /\ max \in Nat
        BY <1>2, <1>4, RowNumbers
      <3>5. QED BY <3>3, <3>4
    <2>3. QED BY <2>1, <2>2
  <1>7. SearchAnswer(recs, a)
            = [rows |-> rows, max |-> max, left |-> StoredOf(recs, a) \ rows, count |-> None]
    BY DEF SearchAnswer, rows
  <1> HIDE DEF max, S
  <1>8. QED BY <1>2, <1>4, <1>6, <1>7, RowNumbers DEF UpTo

\* The answer of a poll covers the rows between the cursor it was asked with and
\* the one it gives, which no row is above (ScanAfter).
LEMMA WatchAnswerCovers ==
    ASSUME NEW recs \in RecordMaps, NEW a, NEW b \in Nat, NEW after \in Nat,
           \A n \in StoredOf(recs, a) : recs[n].seq <= b
    PROVE  LET ans == WatchAnswer(recs, a, after)
           IN  /\ ans \in [rows : SUBSET Names, max : 0..b, left : SUBSET Names, count : {None}]
               /\ ans.rows \cup ans.left = UpTo(recs, a, ans.max) \ UpTo(recs, a, after)
               /\ UpTo(recs, a, after) \subseteq UpTo(recs, a, ans.max)
  <1> DEFINE last == LargestSeq(recs, a)
             new == RowsAfter(recs, a, after)
             rows == {n \in new :
                         Cardinality({m \in new : Position(m) < Position(n)}) < MaxResults}
  <1>1. /\ last \in {0} \cup {recs[n].seq : n \in StoredOf(recs, a)}
        /\ \A n \in StoredOf(recs, a) : recs[n].seq <= last
    BY LargestIsLargest DEF RecordMaps
  <1>2. WatchAnswer(recs, a, after)
            = [rows |-> rows, max |-> last, left |-> new \ rows, count |-> None]
    BY DEF WatchAnswer
  <1>3. rows \subseteq new
    OBVIOUS
  <1> HIDE DEF last, rows
  <1>4. last \in 0..b
    BY <1>1, RowNumbers
  <1>5. new = UpTo(recs, a, last) \ UpTo(recs, a, after) /\ new \subseteq Names
    BY <1>1, RowNumbers DEF RowsAfter, UpTo
  <1>6. UpTo(recs, a, last) = StoredOf(recs, a)
    BY <1>1 DEF UpTo
  <1> HIDE DEF new
  <1>7. QED BY <1>2, <1>3, <1>4, <1>5, <1>6 DEF UpTo

-----------------------------------------------------------------------------
(***************************************************************************)
(* What the clients know.  A stored row stays stored, so what a search has *)
(* found is there when its total is read.  And where Open can read the     *)
(* last number, the rows up to a number on disk never change, whatever the *)
(* store commits: so an answer stays true while its handler goes on, and a *)
(* cursor stays true between two requests.                                 *)
(***************************************************************************)

\* The records on disk, and the bound on their numbers.
LEMMA DiskNumbers ==
    ASSUME SeqIsRead, TypeOK, StoreInv
    PROVE  /\ db.rec \in RecordMaps /\ db.seq \in Nat
           /\ \A a : \A n \in StoredOf(db.rec, a) : db.rec[n].seq <= db.seq
  BY DEF TypeOK, DbOK, StoreInv, NumbersInv, RecordMaps, StoredOf, Stored

\* No commit gives out a number again that a cursor has passed (flush).
LEMMA FirstRowsStay ==
    ASSUME SeqIsRead, TypeOK, StoreInv, [FreeNext]_vars
    PROVE  /\ db.seq <= db'.seq
           /\ \A a : \A c \in 0..db.seq : UpTo(db'.rec, a, c) = UpTo(db.rec, a, c)
  <1>1. db.seq <= db'.seq
    <2>1. db.seq \in Nat /\ seq \in Nat
      BY DEF TypeOK, DbOK, LoopOK
    <2>2. CASE FlushEffect
      <3>1. db.seq <= seq
        BY <2>2 DEF Up, FlushEffect, StoreInv, NumbersInv
      <3>2. QED BY <2>1, <2>2, <3>1 DEF FlushEffect, Flush, CommittedDb
    <2>3. CASE ~FlushEffect
      <3>1. db'.seq = db.seq
        BY <2>3, Effects
           DEF NewEffect, KnownEffect, MarkEffect, RecountEffect, ProcessEffect, IdleEffect
      <3>2. QED BY <2>1, <3>1
    <2>4. QED BY <2>2, <2>3
  <1>2. CASE db'.rec = db.rec
    BY <1>1, <1>2
  <1>3. CASE db'.rec = View
    <2>1. \A n \in Names : db.rec[n] # None => View[n] # None /\ View[n].seq = db.rec[n].seq
      BY ViewOfStored
    <2>2. View \in RecordMaps /\ db.seq \in Nat
      BY CommitTypes DEF TypeOK, DbOK, RecordMaps
    <2>3. \A n \in Names : View[n] # None /\ db.rec[n] = None =>
             View[n].seq \in Nat /\ View[n].seq > db.seq
      BY <2>2 DEF StoreInv, NumbersInv, Records, RecordMaps
    <2>4. \A n \in Names, c \in 0..db.seq :
             View[n] # None /\ View[n].seq <= c <=> db.rec[n] # None /\ db.rec[n].seq <= c
      BY <2>1, <2>2, <2>3
    <2>5. QED BY <1>1, <1>3, <2>1, <2>4 DEF UpTo, StoredOf, Stored
  <1>4. QED BY <1>2, <1>3, DiskSteps

\* The shape of what a client and its handler hold.
ClientsOK ==
    /\ answer \in [Clients -> [rows : SUBSET Names, max : Nat, left : SUBSET Names,
                               count : Nat \cup {None}]]
    /\ known \in [Clients -> SUBSET Names] /\ cut \in [Clients -> SUBSET Names]
    /\ cursor \in [Clients -> Nat \cup {None}]
    /\ \A r \in Clients : at[r] \in {"watch", "watching"} => cursor[r] # None

\* A search has found rows that are stored.
FoundInv ==
    \A r \in Clients : at[r] \in {"searching", "scanned", "getting", "counted"} =>
        answer[r].rows \cup answer[r].left \subseteq StoredOf(db.rec, Wants[r])

\* Cursors: a client was offered the rows up to its cursor and no others.
CursorsInv ==
    \A r \in Clients : cursor[r] # None =>
        /\ cursor[r] \in 0..db.seq
        /\ known[r] \cup cut[r] = UpTo(db.rec, Wants[r], cursor[r])

\* Answers: a search offers the rows up to its new cursor, a poll those between
\* the old one and the new.
AnswersInv ==
    \A r \in Clients :
        /\ at[r] \in {"searching", "scanned", "getting", "counted", "watching"} =>
              answer[r].max \in 0..db.seq
        /\ at[r] \in {"searching", "scanned", "getting", "counted"} =>
              answer[r].rows \cup answer[r].left = UpTo(db.rec, Wants[r], answer[r].max)
        /\ at[r] = "watching" =>
              /\ answer[r].rows \cup answer[r].left
                    = UpTo(db.rec, Wants[r], answer[r].max) \ UpTo(db.rec, Wants[r], cursor[r])
              /\ UpTo(db.rec, Wants[r], cursor[r]) \subseteq UpTo(db.rec, Wants[r], answer[r].max)

ClientsInv == ClientsOK /\ FoundInv /\ (SeqIsRead => CursorsInv /\ AnswersInv)

\* Where the clients start.
LEMMA ClientsInitInv == ServeInit => ClientsInv
  BY NoneAssumption
     DEF ServeInit, ClientsInv, ClientsOK, FoundInv, CursorsInv, AnswersInv, NoAnswer

\* A step of the process or of the store leaves what the clients hold as it was
\* and what searches have found stored.
LEMMA ProcessKeepsFound ==
    ASSUME TypeOK, StoreInv, [FreeNext]_vars, ClientsOK, FoundInv, ProcessOK,
           UNCHANGED <<known, cursor, cut>>,
           UNCHANGED <<at, answer>> \/ ProcessGone
    PROVE  ClientsOK' /\ FoundInv'
  <1>1. ClientsOK'
    BY DEF ClientsOK, ProcessGone, NoAnswer
  <1>2. CASE ProcessGone
    BY <1>1, <1>2 DEF ProcessGone, FoundInv
  <1>3. CASE UNCHANGED <<at, answer>>
    <2>1. \A a : StoredOf(db.rec, a) \subseteq StoredOf(db'.rec, a)
      BY DiskSteps, ViewOfStored DEF StoredOf, Stored
    <2>2. QED BY <1>1, <1>3, <2>1 DEF FoundInv
  <1>4. QED BY <1>2, <1>3

\* A process or a store that takes a step leaves cursors and answers true.
LEMMA ProcessKeepsCursors ==
    ASSUME SeqIsRead, TypeOK, TypeOK', StoreInv, [FreeNext]_vars,
           ClientsOK, CursorsInv, AnswersInv, ProcessOK,
           UNCHANGED <<known, cursor, cut>>,
           UNCHANGED <<at, answer>> \/ ProcessGone
    PROVE  CursorsInv' /\ AnswersInv'
  <1>1. /\ db.seq \in Nat /\ db'.seq \in Nat /\ 0..db.seq \subseteq 0..db'.seq
        /\ \A a : \A c \in 0..db.seq : UpTo(db'.rec, a, c) = UpTo(db.rec, a, c)
    <2>1. db.seq <= db'.seq /\ db.seq \in Nat /\ db'.seq \in Nat
      BY FirstRowsStay DEF TypeOK, DbOK
    <2>2. QED BY <2>1, FirstRowsStay
  <1>2. CursorsInv'
    BY <1>1 DEF CursorsInv
  <1>3. AnswersInv'
    <2>1. CASE ProcessGone
      BY <2>1 DEF ProcessGone, AnswersInv
    <2>2. CASE UNCHANGED <<at, answer>>
      <3>1. \A r \in Clients : at[r] = "watching" => cursor[r] \in 0..db.seq
        BY DEF ClientsOK, CursorsInv
      <3>2. QED BY <1>1, <2>2, <3>1 DEF AnswersInv
    <2>3. QED BY <2>1, <2>2
  <1>4. QED BY <1>2, <1>3

\* A row is at or below the largest number of its apex, whatever the numbers are.
LEMMA RowsHaveLargest ==
    ASSUME TypeOK, NEW a
    PROVE  /\ db.rec \in RecordMaps /\ LargestSeq(db.rec, a) \in Nat
           /\ \A n \in StoredOf(db.rec, a) : db.rec[n].seq <= LargestSeq(db.rec, a)
  <1>1. db.rec \in RecordMaps
    BY DEF TypeOK, DbOK, RecordMaps
  <1>2. QED BY <1>1, LargestIsLargest, RowNumbers DEF RecordMaps

\* The steps of a request that leave its answer alone.
LEMMA MovesOfRequest ==
    ASSUME ProcessOK, ClientsOK, NEW r \in Clients,
           Request(r) \/ ScanPanics(r) \/ ScanDone(r) \/ GetRefused(r) \/ GetDone(r)
    PROVE  /\ UNCHANGED <<answer, known, cursor, cut>>
           /\ \A q \in Clients \ {r} : at'[q] = at[q]
           /\ at'[r] \in {"watch", "watching"} => cursor[r] # None
           /\ at'[r] \in {"searching", "scanned", "getting", "counted"} =>
                 at[r] \in {"searching", "scanned", "getting", "counted"}
           /\ at'[r] # "watching"
  BY DEF Request, ScanPanics, ScanDone, GetRefused, GetDone, Goto, ProcessOK

\* A handler that opens its iterator answers from the records as they are.
LEMMA IterAnswers ==
    ASSUME ProcessOK, ClientsOK, NEW r \in Clients, OpenIter(r)
    PROVE  /\ UNCHANGED <<known, cursor, cut>>
           /\ \A q \in Clients \ {r} : at'[q] = at[q] /\ answer'[q] = answer[q]
           /\ \/ /\ at[r] = "search" /\ at'[r] = "searching"
                 /\ answer' = [answer EXCEPT ![r] = SearchAnswer(db.rec, Wants[r])]
              \/ /\ at[r] = "watch" /\ at'[r] = "watching"
                 /\ answer' = [answer EXCEPT ![r] = WatchAnswer(db.rec, Wants[r], cursor[r])]
                 /\ cursor[r] \in Nat
  BY DEF OpenIter, Goto, ProcessOK, ClientsOK

\* A handler that reads the total puts it into its answer and changes no more.
LEMMA GetAnswers ==
    ASSUME TypeOK, ProcessOK, ClientsOK, NEW r \in Clients, OpenGet(r)
    PROVE  /\ UNCHANGED <<known, cursor, cut>>
           /\ at[r] = "scanned" /\ at'[r] = "getting"
           /\ \A q \in Clients \ {r} : at'[q] = at[q] /\ answer'[q] = answer[q]
           /\ answer' = [answer EXCEPT ![r].count = db.count[Wants[r]]]
           /\ db.count[Wants[r]] \in Nat
           /\ answer'[r].rows = answer[r].rows /\ answer'[r].left = answer[r].left
           /\ answer'[r].max = answer[r].max
  <1>1. db.count[Wants[r]] \in Nat
    BY ServeAssumption DEF TypeOK, DbOK
  <1>2. QED BY <1>1 DEF OpenGet, Goto, ProcessOK, ClientsOK

\* The client gets its answer, and with it its new cursor.
LEMMA AnswerReaches ==
    ASSUME ProcessOK, ClientsOK, NEW r \in Clients, Answered(r)
    PROVE  /\ at[r] \in {"counted", "watching"} /\ at'[r] = "idle"
           /\ cursor' = [cursor EXCEPT ![r] = answer[r].max] /\ cursor'[r] = answer[r].max
           /\ answer' = [answer EXCEPT ![r] = NoAnswer]
           /\ known' \in [Clients -> SUBSET Names] /\ cut' \in [Clients -> SUBSET Names]
           /\ at[r] = "counted" => known'[r] = answer[r].rows /\ cut'[r] = answer[r].left
           /\ at[r] = "watching" =>
                 known'[r] \cup cut'[r]
                     = (known[r] \cup cut[r]) \cup (answer[r].rows \cup answer[r].left)
           /\ \A q \in Clients \ {r} : /\ at'[q] = at[q] /\ answer'[q] = answer[q]
                                       /\ cursor'[q] = cursor[q]
                                       /\ known'[q] = known[q] /\ cut'[q] = cut[q]
  <1>1. /\ at[r] \in {"counted", "watching"} /\ at' = [at EXCEPT ![r] = "idle"]
        /\ cursor' = [cursor EXCEPT ![r] = answer[r].max]
        /\ answer' = [answer EXCEPT ![r] = NoAnswer]
    BY DEF Answered, Goto
  <1>2. CASE at[r] = "counted"
    <2>1. /\ known' = [known EXCEPT ![r] = answer[r].rows]
          /\ cut' = [cut EXCEPT ![r] = answer[r].left]
      BY <1>2 DEF Answered, Goto
    <2>2. QED BY <1>1, <1>2, <2>1 DEF ClientsOK, ProcessOK
  <1>3. CASE at[r] = "watching"
    <2>1. /\ known' = [known EXCEPT ![r] = @ \cup answer[r].rows]
          /\ cut' = [cut EXCEPT ![r] = @ \cup answer[r].left]
      BY <1>3 DEF Answered, Goto
    <2>2. QED BY <1>1, <1>3, <2>1 DEF ClientsOK, ProcessOK
  <1>4. QED BY <1>1, <1>2, <1>3

\* The steps of a request are one of these.
LEMMA RequestSteps ==
    ASSUME NEW r \in Clients, Request(r) \/ Handle(r)
    PROVE  /\ db' = db /\ UNCHANGED vars
           /\ \/ Request(r) \/ ScanPanics(r) \/ ScanDone(r) \/ GetRefused(r) \/ GetDone(r)
              \/ OpenIter(r) \/ OpenGet(r) \/ Answered(r)
  BY DEF Request, Handle, OpenIter, ScanPanics, ScanDone, OpenGet, GetRefused, GetDone,
         Answered, vars

\* The steps of a request keep what the clients hold, and what searches find is
\* stored.
LEMMA RequestKeepsFound ==
    ASSUME TypeOK, ClientsOK, FoundInv, ProcessOK, NEW r \in Clients,
           Request(r) \/ Handle(r)
    PROVE  ClientsOK' /\ FoundInv'
  <1>1. db' = db
    BY RequestSteps
  <1>2. ASSUME Request(r) \/ ScanPanics(r) \/ ScanDone(r) \/ GetRefused(r) \/ GetDone(r)
        PROVE  ClientsOK' /\ FoundInv'
    BY <1>1, <1>2, MovesOfRequest DEF ClientsOK, FoundInv
  <1>3. ASSUME OpenIter(r) PROVE ClientsOK' /\ FoundInv'
    <2> DEFINE max == LargestSeq(db.rec, Wants[r])
    <2>1. /\ db.rec \in RecordMaps /\ max \in Nat
          /\ \A n \in StoredOf(db.rec, Wants[r]) : db.rec[n].seq <= max
      BY RowsHaveLargest
    <2>2. CASE at[r] = "search"
      <3> DEFINE ans == SearchAnswer(db.rec, Wants[r])
      <3>1. /\ ans \in [rows : SUBSET Names, max : 0..max, left : SUBSET Names, count : {None}]
            /\ ans.rows \cup ans.left = UpTo(db.rec, Wants[r], ans.max)
        BY <2>1, SearchAnswerCovers
      <3>2. answer' = [answer EXCEPT ![r] = ans] /\ at'[r] = "searching"
        BY <1>3, <2>2, IterAnswers
      <3> HIDE DEF ans, max
      <3>3. ans.rows \cup ans.left \subseteq StoredOf(db.rec, Wants[r])
        BY <3>1 DEF UpTo
      <3>4. ans \in [rows : SUBSET Names, max : Nat, left : SUBSET Names,
                     count : Nat \cup {None}]
        BY <2>1, <3>1
      <3>5. QED BY <1>1, <1>3, <3>2, <3>3, <3>4, IterAnswers DEF ClientsOK, FoundInv
    <2>3. CASE at[r] = "watch"
      <3> DEFINE ans == WatchAnswer(db.rec, Wants[r], cursor[r])
      <3>1. cursor[r] \in Nat /\ answer' = [answer EXCEPT ![r] = ans] /\ at'[r] = "watching"
        BY <1>3, <2>3, IterAnswers
      <3>2. ans \in [rows : SUBSET Names, max : 0..max, left : SUBSET Names, count : {None}]
        BY <2>1, <3>1, WatchAnswerCovers
      <3> HIDE DEF ans, max
      <3>3. ans \in [rows : SUBSET Names, max : Nat, left : SUBSET Names,
                     count : Nat \cup {None}]
        BY <2>1, <3>2
      <3>4. cursor[r] # None
        BY <3>1, NoneAssumption
      <3>5. QED BY <1>1, <1>3, <3>1, <3>3, <3>4, IterAnswers DEF ClientsOK, FoundInv
    <2>4. QED BY <1>3, <2>2, <2>3, IterAnswers
  <1>4. ASSUME OpenGet(r) PROVE ClientsOK' /\ FoundInv'
    <2>1. ClientsOK'
      <3>1. answer' = [answer EXCEPT ![r].count = db.count[Wants[r]]] /\ db.count[Wants[r]] \in Nat
        BY <1>4, GetAnswers
      <3>2. /\ UNCHANGED <<known, cursor, cut>>
            /\ at'[r] = "getting" /\ \A q \in Clients \ {r} : at'[q] = at[q]
        BY <1>4, GetAnswers
      <3>3. QED BY <3>1, <3>2 DEF ClientsOK
    <2>2. FoundInv'
      BY <1>1, <1>4, GetAnswers DEF FoundInv
    <2>3. QED BY <2>1, <2>2
  <1>5. ASSUME Answered(r) PROVE ClientsOK' /\ FoundInv'
    <2>1. ClientsOK'
      <3>1. answer' \in [Clients -> [rows : SUBSET Names, max : Nat, left : SUBSET Names,
                                      count : Nat \cup {None}]]
        <4>1. answer' = [answer EXCEPT ![r] = NoAnswer]
          BY <1>5, AnswerReaches
        <4>2. QED BY <4>1 DEF ClientsOK, NoAnswer
      <3>2. cursor' \in [Clients -> Nat \cup {None}]
        <4>1. cursor' = [cursor EXCEPT ![r] = answer[r].max]
          BY <1>5, AnswerReaches
        <4>2. QED BY <4>1 DEF ClientsOK
      <3>3. \A q \in Clients : at'[q] \in {"watch", "watching"} => cursor'[q] # None
        BY <1>5, AnswerReaches DEF ClientsOK
      <3>4. known' \in [Clients -> SUBSET Names] /\ cut' \in [Clients -> SUBSET Names]
        BY <1>5, AnswerReaches
      <3>5. QED BY <3>1, <3>2, <3>3, <3>4 DEF ClientsOK
    <2>2. QED BY <1>1, <1>5, <2>1, AnswerReaches DEF FoundInv
  <1>6. QED BY <1>2, <1>3, <1>4, <1>5, RequestSteps

\* The steps of a request keep cursors and answers true, with the store at rest.
LEMMA RequestKeepsCursors ==
    ASSUME SeqIsRead, TypeOK, StoreInv, ClientsOK, CursorsInv, AnswersInv, ProcessOK,
           NEW r \in Clients, Request(r) \/ Handle(r)
    PROVE  CursorsInv' /\ AnswersInv'
  <1>1. db' = db
    BY RequestSteps
  <1>2. ASSUME Request(r) \/ ScanPanics(r) \/ ScanDone(r) \/ GetRefused(r) \/ GetDone(r)
        PROVE  CursorsInv' /\ AnswersInv'
    BY <1>1, <1>2, MovesOfRequest DEF CursorsInv, AnswersInv
  <1>3. ASSUME OpenIter(r), at[r] = "search" PROVE CursorsInv' /\ AnswersInv'
    <2> DEFINE ans == SearchAnswer(db.rec, Wants[r])
    <2>1. /\ answer' = [answer EXCEPT ![r] = ans] /\ at'[r] = "searching"
          /\ UNCHANGED <<known, cursor, cut>>
          /\ \A q \in Clients \ {r} : at'[q] = at[q] /\ answer'[q] = answer[q]
      BY <1>3, IterAnswers
    <2>2. ans.max \in 0..db.seq /\ ans.rows \cup ans.left = UpTo(db.rec, Wants[r], ans.max)
      BY DiskNumbers, SearchAnswerCovers
    <2> HIDE DEF ans
    <2>3. answer'[r] = ans
      BY <2>1 DEF ClientsOK
    <2>4. QED BY <1>1, <2>1, <2>2, <2>3 DEF CursorsInv, AnswersInv
  <1>4. ASSUME OpenIter(r), at[r] = "watch" PROVE CursorsInv' /\ AnswersInv'
    <2> DEFINE ans == WatchAnswer(db.rec, Wants[r], cursor[r])
    <2>1. /\ answer' = [answer EXCEPT ![r] = ans] /\ at'[r] = "watching"
          /\ cursor[r] \in Nat /\ UNCHANGED <<known, cursor, cut>>
          /\ \A q \in Clients \ {r} : at'[q] = at[q] /\ answer'[q] = answer[q]
      BY <1>4, IterAnswers
    <2>2. /\ ans.max \in 0..db.seq
          /\ ans.rows \cup ans.left = UpTo(db.rec, Wants[r], ans.max) \ UpTo(db.rec, Wants[r], cursor[r])
          /\ UpTo(db.rec, Wants[r], cursor[r]) \subseteq UpTo(db.rec, Wants[r], ans.max)
      BY <2>1, DiskNumbers, WatchAnswerCovers
    <2> HIDE DEF ans
    <2>3. answer'[r] = ans
      BY <2>1 DEF ClientsOK
    <2>4. QED BY <1>1, <2>1, <2>2, <2>3 DEF CursorsInv, AnswersInv
  <1>5. ASSUME OpenGet(r) PROVE CursorsInv' /\ AnswersInv'
    BY <1>1, <1>5, GetAnswers DEF CursorsInv, AnswersInv
  <1>6. ASSUME Answered(r) PROVE CursorsInv' /\ AnswersInv'
    <2>1. AnswersInv'
      <3>1. /\ at'[r] = "idle"
            /\ \A q \in Clients \ {r} : /\ at'[q] = at[q] /\ answer'[q] = answer[q]
                                        /\ cursor'[q] = cursor[q]
        BY <1>6, AnswerReaches
      <3>2. QED BY <1>1, <3>1 DEF AnswersInv
    <2>2. /\ answer[r].max \in 0..db.seq
          /\ known'[r] \cup cut'[r] = UpTo(db.rec, Wants[r], answer[r].max)
      <3>1. CASE at[r] = "counted"
        BY <1>6, <3>1, AnswerReaches DEF AnswersInv
      <3>2. CASE at[r] = "watching"
        <4>1. known[r] \cup cut[r] = UpTo(db.rec, Wants[r], cursor[r])
          BY <3>2 DEF ClientsOK, CursorsInv
        <4>2. QED BY <1>6, <3>2, <4>1, AnswerReaches DEF AnswersInv
      <3>3. QED BY <1>6, <3>1, <3>2, AnswerReaches
    <2>3. CursorsInv'
      BY <1>1, <1>6, <2>2, AnswerReaches DEF CursorsInv
    <2>4. QED BY <2>1, <2>3
  <1>7. OpenIter(r) => at[r] \in {"search", "watch"}
    BY DEF OpenIter, Goto
  <1>8. QED BY <1>2, <1>3, <1>4, <1>5, <1>6, <1>7, RequestSteps

\* The invariant of the clients is kept.
LEMMA ClientsNext ==
    ASSUME TypeOK, TypeOK', StoreInv, ServeInv, ClientsInv, [ServeNext]_serveVars
    PROVE  ClientsInv'
  <1>1. CASE \E r \in Clients : Request(r) \/ Handle(r)
    BY <1>1, RequestKeepsFound, RequestKeepsCursors DEF ServeInv, ClientsInv, SeqIsRead
  <1>2. CASE ~\E r \in Clients : Request(r) \/ Handle(r)
    <2>1. /\ UNCHANGED <<known, cursor, cut>>
          /\ UNCHANGED <<at, answer>> \/ ProcessGone
      BY <1>2
         DEF ServeNext, Start, Work, TailerReturns, Signal, AskRecount, MainStep, HttpStopped,
             TailersStopped, StatsDone, CloseStore, ClosePebble, MainReturns, Die, ProcessGone,
             clientVars, serveVars
    <2>2. [FreeNext]_vars
      BY StepIsStoreStep, NextIsFree DEF ServeInv, ProcessOK
    <2>3. QED BY <2>1, <2>2, ProcessKeepsFound, ProcessKeepsCursors
              DEF ServeInv, ClientsInv, SeqIsRead
  <1>3. QED BY <1>1, <1>2

\* The invariant of the clients holds throughout; what it says of cursors, it says
\* of a database whose last number can be read.
THEOREM ClientsInvariantHolds == ServeSpec => [](StoreInv /\ ServeInv /\ ClientsInv)
  <1>1. TypeOK /\ TypeOK' /\ StoreInv /\ ServeInv /\ ClientsInv /\ [ServeNext]_serveVars
           => ClientsInv'
    BY ClientsNext
  <1>2. QED
    BY <1>1, ClientsInitInv, ServeInvariantHolds, ServeRunsStore, InvariantHolds, PTL
       DEF ServeSpec, Inv

\* handleSearch, handleWatch, Scan and ScanAfter: a client that searches and polls
\* on from its cursor misses no name, through commits, crashes and restarts, as
\* long as Open can read the last number.
THEOREM PollersMissNothing ==
    ASSUME SeqIsRead
    PROVE  ServeSpec => []PollerMissesNothing
  <1>1. TypeOK /\ StoreInv /\ ClientsInv => PollerMissesNothing
    <2>1. SUFFICES ASSUME TypeOK, StoreInv, ClientsInv, NEW r \in Clients, cursor[r] # None
                   PROVE  known[r] \cup cut[r]
                              = StoredOf(db.rec, Wants[r])
                                    \ RowsAfter(db.rec, Wants[r], cursor[r])
      BY DEF PollerMissesNothing
    <2>2. known[r] \cup cut[r] = UpTo(db.rec, Wants[r], cursor[r]) /\ cursor[r] \in Nat
      BY <2>1, DiskNumbers DEF ClientsInv, CursorsInv
    <2>3. \A n \in StoredOf(db.rec, Wants[r]) : db.rec[n].seq \in Nat
      BY <2>1, DiskNumbers, RowNumbers
    <2>4. QED BY <2>2, <2>3 DEF UpTo, RowsAfter
  <1>2. QED BY <1>1, ClientsInvariantHolds, ServeInvariantHolds, PTL DEF Inv

\* The x-total-count that handleSearch reads after its rows counts all of them,
\* the ones without room included, while the counters are right.  This needs no
\* sequence number: a row that the scan has found stays stored.
THEOREM TotalsCountTheRows == ServeSpec => TotalCountsTheRows
  <1> DEFINE A == \A r \in Clients :
          at[r] = "scanned" /\ at'[r] = "getting" /\ CountsMatch(db.rec, db.count)
              => answer'[r].count >= Cardinality(answer[r].rows \cup answer[r].left)
  <1>1. ASSUME TypeOK, StoreInv, ServeInv, ClientsInv, [ServeNext]_serveVars PROVE A
    <2> SUFFICES ASSUME NEW r \in Clients, at[r] = "scanned", at'[r] = "getting",
                        CountsMatch(db.rec, db.count)
                 PROVE  answer'[r].count >= Cardinality(answer[r].rows \cup answer[r].left)
      OBVIOUS
    <2>1. OpenGet(r)
      <3>1. ~ProcessGone /\ at' # at
        BY DEF ProcessGone
      <3>2. \E q \in Clients : Request(q) \/ Handle(q)
        BY <1>1, <3>1
           DEF ServeNext, Start, Work, TailerReturns, Signal, AskRecount, MainStep,
               HttpStopped, TailersStopped, StatsDone, CloseStore, ClosePebble, MainReturns,
               Die, clientVars, serveVars
      <3>3. QED
        BY <1>1, <3>2 DEF Request, Handle, OpenIter, ScanPanics, ScanDone, OpenGet, GetRefused,
                    GetDone, Answered, Goto, ServeInv, ProcessOK
    <2> DEFINE stored == StoredOf(db.rec, Wants[r])
               offered == answer[r].rows \cup answer[r].left
    <2>2. answer'[r].count = Cardinality(stored)
      <3>1. Wants[r] \in Apexes
        BY ServeAssumption
      <3>2. QED
        BY <1>1, <2>1, <3>1 DEF OpenGet, ClientsInv, ClientsOK, CountsMatch
    <2>3. offered \in SUBSET stored
      BY <1>1 DEF ClientsInv, FoundInv
    <2> HIDE DEF stored, offered
    <2>4. IsFiniteSet(stored)
      BY StoredFinite DEF stored
    <2>5. Cardinality(offered) <= Cardinality(stored)
      BY <2>3, <2>4, FS_Subset
    <2>6. Cardinality(offered) \in Nat /\ Cardinality(stored) \in Nat
      BY <2>3, <2>4, FS_Subset, FS_CardinalityType
    <2>7. QED BY <2>2, <2>5, <2>6 DEF offered
  <1> HIDE DEF A
  <1>2. TypeOK /\ StoreInv /\ ServeInv /\ ClientsInv /\ [ServeNext]_serveVars => [A]_serveVars
    BY <1>1
  <1>3. ServeSpec => [][A]_serveVars
    BY <1>2, ClientsInvariantHolds, ServeInvariantHolds, PTL DEF ServeSpec, Inv
  <1>4. QED BY <1>3 DEF TotalCountsTheRows, A
=============================================================================
