------------------------------- MODULE Serve -------------------------------
(***************************************************************************)
(* src/main.go and the reads of internal/server: a process that runs serve *)
(* (with tailers or with -no-tail), tail or stats on top of Store, what it *)
(* does when it is told to stop, and clients that search an apex and then  *)
(* poll /v1/watch with the cursor they got, through crashes and restarts.  *)
(*                                                                         *)
(* A tailer is reduced to what matters here: it sends records and, once    *)
(* cancelled, returns between two of them.  Ingest has it in full.         *)
(***************************************************************************)
EXTENDS Store, Functions, FiniteSetsExt

CONSTANTS
    Tailers,     \* goroutines of runTailers
    Main,        \* the main goroutine, which calls Recount in stats
    Clients,     \* consumers of the API, each interested in one apex
    Wants,       \* the apex of each client
    KeyOrder,    \* the names in the order of their keys
    MaxResults   \* rows of one answer

ASSUME ServeAssumption ==
    /\ Tailers \subseteq Callers /\ Main \in Callers \ Tailers
    /\ Wants \in [Clients -> Apexes]
    /\ KeyOrder \in Seq(Names) /\ Range(KeyOrder) = Names
    /\ IsInjective(KeyOrder)
    /\ MaxResults \in Nat \ {0}

VARIABLES
    cmd,      \* the subcommand of the process
    main,     \* where it is: off, run, asked, drain, wait, close, exit
    tailing,  \* tailers that have not returned
    late,     \* history: httpSrv.Shutdown gave up on a request
    hurried,  \* history: the wait for the tailers gave up
    at,       \* per client, where the handler of its request is
    answer,   \* per client, what the handler has read
    known,    \* per client, the names it has been sent
    cursor,   \* per client, the x-max-seq it has; None before its first answer
    cut       \* history: per client, names its answers had no room for

clientVars == <<at, answer, known, cursor, cut>>
mainVars == <<cmd, main, tailing, late, hurried>>
serveVars == <<vars, mainVars, clientVars>>

NoAnswer == [rows |-> {}, max |-> 0, left |-> {}, count |-> None]

Serving == cmd \in {"serve", "serve -no-tail"}

-----------------------------------------------------------------------------
(* Reads of the store *)

\* Where the key of a name is in the order of an iterator.
Position(n) == CHOOSE i \in DOMAIN KeyOrder : KeyOrder[i] = n

Oldest(recs, S) == CHOOSE n \in S : \A m \in S : recs[n].seq <= recs[m].seq

\* Mutant: a full heap takes every further row.
Push_AnyRow(heap, recs, n) ==
    IF Cardinality(heap) < MaxResults THEN heap \cup {n}
    ELSE (heap \ {Oldest(recs, heap)}) \cup {n}

\* A heap of the newest rows: when it is full, a newer row takes the place of
\* the oldest one.
Push(heap, recs, n) ==
    IF Cardinality(heap) < MaxResults THEN heap \cup {n}
    ELSE IF recs[n].seq > recs[Oldest(recs, heap)].seq
         THEN (heap \ {Oldest(recs, heap)}) \cup {n}
    ELSE heap

\* Scan: the iterator takes the keys of the apex in their order to the heap.
Scan(recs, a) ==
    LET heap[i \in 0..Len(KeyOrder)] ==
            IF i = 0 THEN {}
            ELSE IF KeyOrder[i] \in StoredOf(recs, a)
                 THEN Push(heap[i - 1], recs, KeyOrder[i])
            ELSE heap[i - 1]
    IN  heap[Len(KeyOrder)]

\* handleSearch: the last row of the answer carries the cursor.
SearchAnswer(recs, a) ==
    LET rows == Scan(recs, a)
    IN  [rows |-> rows, max |-> Max({0} \cup {recs[n].seq : n \in rows}),
         left |-> StoredOf(recs, a) \ rows, count |-> None]

\* ScanAfter: the first rows above the cursor, and the largest number of all.
WatchAnswer(recs, a, after) ==
    LET new == RowsAfter(recs, a, after)
        rows == {n \in new :
                    Cardinality({m \in new : Position(m) < Position(n)}) < MaxResults}
    IN  [rows |-> rows, max |-> LargestSeq(recs, a),
         left |-> new \ rows, count |-> None]

-----------------------------------------------------------------------------
(* handleSearch and handleWatch *)

Goto(r, from, to) == at[r] = from /\ at' = [at EXCEPT ![r] = to]

\* The HTTP server takes a request until it is shut down.
Request(r) ==
    /\ main = "run" /\ Serving
    /\ \/ Goto(r, "idle", "search")
       \/ cursor[r] # None /\ Goto(r, "idle", "watch")
    /\ UNCHANGED <<vars, mainVars, answer, known, cursor, cut>>

\* Mutant: rows of the uncommitted batch are read as well.
OpenIter_Batch(r) ==
    /\ main # "exit"
    /\ \/ /\ Goto(r, "search", "searching")
          /\ answer' = [answer EXCEPT ![r] = SearchAnswer(View, Wants[r])]
       \/ /\ Goto(r, "watch", "watching")
          /\ answer' = [answer EXCEPT ![r] = WatchAnswer(View, Wants[r], cursor[r])]
    /\ UNCHANGED <<vars, mainVars, known, cursor, cut>>

\* NewIter: from here on the iterator reads the records as they are now.
OpenIter(r) ==
    /\ main # "exit"
    /\ \/ /\ Goto(r, "search", "searching")
          /\ answer' = [answer EXCEPT ![r] = SearchAnswer(db.rec, Wants[r])]
       \/ /\ Goto(r, "watch", "watching")
          /\ answer' = [answer EXCEPT ![r] = WatchAnswer(db.rec, Wants[r], cursor[r])]
    /\ UNCHANGED <<vars, mainVars, known, cursor, cut>>

\* A scan of a database that is closed panics, and net/http drops the request.
ScanPanics(r) ==
    /\ main = "exit"
    /\ \E pc \in {"search", "watch"} : Goto(r, pc, "idle")
    /\ UNCHANGED <<vars, mainVars, answer, known, cursor, cut>>

ScanDone(r) ==
    /\ Goto(r, "searching", "scanned")
    /\ UNCHANGED <<vars, mainVars, answer, known, cursor, cut>>

\* Count: getRaw holds the mutex from its look at the closed flag to the end.
OpenGet(r) ==
    /\ ~closed
    /\ Goto(r, "scanned", "getting")
    /\ answer' = [answer EXCEPT ![r].count = db.count[Wants[r]]]
    /\ UNCHANGED <<vars, mainVars, known, cursor, cut>>

GetRefused(r) ==
    /\ closed
    /\ Goto(r, "scanned", "counted")
    /\ UNCHANGED <<vars, mainVars, answer, known, cursor, cut>>

GetDone(r) ==
    /\ Goto(r, "getting", "counted")
    /\ UNCHANGED <<vars, mainVars, answer, known, cursor, cut>>

\* A search starts the client's view afresh; a poll adds to it.
Answered(r) ==
    /\ \/ /\ Goto(r, "counted", "idle")
          /\ known' = [known EXCEPT ![r] = answer[r].rows]
          /\ cut' = [cut EXCEPT ![r] = answer[r].left]
       \/ /\ Goto(r, "watching", "idle")
          /\ known' = [known EXCEPT ![r] = @ \cup answer[r].rows]
          /\ cut' = [cut EXCEPT ![r] = @ \cup answer[r].left]
    /\ cursor' = [cursor EXCEPT ![r] = answer[r].max]
    /\ answer' = [answer EXCEPT ![r] = NoAnswer]
    /\ UNCHANGED <<vars, mainVars>>

Handle(r) ==
    OpenIter(r) \/ ScanPanics(r) \/ ScanDone(r) \/ OpenGet(r) \/ GetRefused(r)
    \/ GetDone(r) \/ Answered(r)

-----------------------------------------------------------------------------
(* The process *)

Start(c) ==
    /\ main = "off"
    /\ Open
    /\ cmd' = c
    /\ main' = "run"
    /\ tailing' = IF c \in {"serve", "tail"} THEN Tailers ELSE {}
    /\ late' = FALSE /\ hurried' = FALSE
    /\ UNCHANGED clientVars

\* The store's loop, and a tailer's Ingest.
Work ==
    /\ \/ LoopStep
       \/ \E s \in tailing : seq + InFlight < MaxSeq /\ \E op \in RecordOps : BeginSend(s, op)
       \/ \E s \in Callers : SendStep(s)
    /\ UNCHANGED <<mainVars, clientVars>>

\* A signal: serve closes Stop and the hub and shuts the HTTP server down, tail
\* cancels its context.
Signal ==
    /\ main = "run" /\ cmd # "stats"
    /\ main' = IF Serving THEN "drain" ELSE "wait"
    /\ UNCHANGED <<vars, cmd, tailing, late, hurried, clientVars>>

\* Shutdown returns when no request is left, or after 30 seconds; then the
\* context is cancelled.
HttpStopped ==
    /\ main = "drain"
    /\ main' = "wait"
    /\ late' = (\E r \in Clients : at[r] # "idle")
    /\ UNCHANGED <<vars, cmd, tailing, hurried, clientVars>>

TailerReturns(s) ==
    /\ main \in {"wait", "close", "exit"}
    /\ s \in tailing
    /\ sending[s] = None
    /\ tailing' = tailing \ {s}
    /\ UNCHANGED <<vars, cmd, main, late, hurried, clientVars>>

\* Mutant: serve waits for tailerDone and for nothing else.
TailersStopped_NoTimeout ==
    /\ main = "wait"
    /\ tailing = {} /\ cmd # "serve -no-tail"
    /\ main' = "close"
    /\ UNCHANGED <<vars, cmd, tailing, late, hurried, clientVars>>

\* Mutant: tail does not wait for its tailers.
TailersStopped_AtOnce ==
    /\ main = "wait"
    /\ main' = "close"
    /\ hurried' = (Serving /\ tailing # {})
    /\ UNCHANGED <<vars, cmd, tailing, late, clientVars>>

\* tail waits for its tailers; serve does so for ten seconds.  With -no-tail
\* nobody closes tailerDone, and the ten seconds always pass.
TailersStopped ==
    /\ main = "wait"
    /\ Serving \/ tailing = {}
    /\ main' = "close"
    /\ hurried' = (tailing # {})
    /\ UNCHANGED <<vars, cmd, tailing, late, clientVars>>

\* stats, with -recount and without.
AskRecount ==
    /\ main = "run" /\ cmd = "stats"
    /\ BeginSend(Main, [kind |-> "recount", from |-> Main])
    /\ main' = "asked"
    /\ UNCHANGED <<cmd, tailing, late, hurried, clientVars>>

\* Where a read of cmdStats fails it returns without Close, and that is Die.
StatsDone ==
    /\ cmd = "stats"
    /\ main = "run" \/ (main = "asked" /\ sending[Main] = None /\ Main \notin awaiting)
    /\ main' = "close"
    /\ UNCHANGED <<vars, cmd, tailing, late, hurried, clientVars>>

\* Mutant: Close does not take the mutex.
CloseStore_NoLock ==
    /\ main = "close"
    /\ CloseStep
    /\ UNCHANGED <<mainVars, clientVars>>

\* Close: the flag under the mutex, quit, and once the loop is done, pebble.
CloseStore ==
    /\ main = "close"
    /\ \/ CloseMark /\ \A r \in Clients : at[r] # "getting"
       \/ CloseQuit
    /\ UNCHANGED <<mainVars, clientVars>>

ClosePebble ==
    /\ main = "close" /\ loop = "stopped"
    /\ main' = "exit"
    /\ UNCHANGED <<vars, cmd, tailing, late, hurried, clientVars>>

ProcessGone ==
    /\ main' = "off" /\ cmd' = None
    /\ tailing' = {}
    /\ late' = FALSE /\ hurried' = FALSE
    /\ at' = [r \in Clients |-> "idle"]
    /\ answer' = [r \in Clients |-> NoAnswer]
    /\ UNCHANGED <<known, cursor, cut>>

MainReturns == main = "exit" /\ Exit /\ ProcessGone

\* A crash, or what is the same to the store: the listener fails or stats cannot
\* read, and main returns without Close.
Die == Crash /\ ProcessGone

-----------------------------------------------------------------------------

ServeInit ==
    /\ Init
    /\ cmd = None /\ main = "off" /\ tailing = {}
    /\ late = FALSE /\ hurried = FALSE
    /\ at = [r \in Clients |-> "idle"]
    /\ answer = [r \in Clients |-> NoAnswer]
    /\ known = [r \in Clients |-> {}]
    /\ cursor = [r \in Clients |-> None]
    /\ cut = [r \in Clients |-> {}]

Commands == {"serve", "serve -no-tail", "tail", "stats"}

MainStep ==
    HttpStopped \/ TailersStopped \/ StatsDone \/ CloseStore \/ ClosePebble

ServeNext ==
    \/ \E c \in Commands : Start(c)
    \/ Work
    \/ \E s \in Tailers : TailerReturns(s)
    \/ \E r \in Clients : Request(r) \/ Handle(r)
    \/ Signal \/ AskRecount \/ MainStep
    \/ MainReturns \/ Die

ServeSpec == ServeInit /\ [][ServeNext]_serveVars

\* Goroutines run on, main among them, up to the end of Close; a timeout passes;
\* a blocked sender gets its turn; a cancelled tailer has only so much to send.
ServeFairness ==
    /\ WF_serveVars(LoopStep /\ UNCHANGED <<mainVars, clientVars>>)
    /\ \A s \in Callers : SF_serveVars(SendStep(s) /\ UNCHANGED <<mainVars, clientVars>>)
    /\ \A s \in Tailers : WF_serveVars(TailerReturns(s))
    /\ \A r \in Clients : WF_serveVars(Handle(r))
    /\ WF_serveVars(MainStep)

FairServeSpec == ServeSpec /\ ServeFairness

-----------------------------------------------------------------------------
(* Properties *)

\* Polling (handleSearch, handleWatch, Scan, ScanAfter): the cursor of a client
\* stands for exactly the names that it has been sent or that its answers had no
\* room for, so that a search cuts off only names older than its rows and a poll
\* finds the rest: whatever is committed between its requests, through crashes
\* and restarts, as long as Open can read the last number.
PollerMissesNothing ==
    \A r \in Clients : cursor[r] # None =>
        known[r] \cup cut[r]
            = StoredOf(db.rec, Wants[r]) \ RowsAfter(db.rec, Wants[r], cursor[r])

\* x-total-count (handleSearch) is read after the rows: it counts at least the
\* rows of the answer, as long as the counter is right when it is read.
TotalCountsTheRows ==
    [][\A r \in Clients :
          at[r] = "scanned" /\ at'[r] = "getting" /\ CountsMatch(db.rec, db.count)
              => answer'[r].count >= Cardinality(answer[r].rows \cup answer[r].left)]_serveVars

\* store.go:589, "a read that starts before Close finishes safely": pebble is
\* not closed under a read by getRaw, and under an iterator only if Shutdown
\* had given up on the request.
ReadsOutliveClose ==
    main = "exit" => \A r \in Clients :
        at[r] \in {"idle", "scanned", "counted"} \/ (late /\ at[r] # "getting")

\* Shutdown in order (cmdServe, cmdTail): unless the wait for the tailers was
\* cut short, everything a tailer was told is accepted is durable at the end.
OrderlyStopLosesNothing ==
    main = "exit" /\ ~hurried =>
        ch = <<>> /\ View = db.rec /\ \A s \in Callers : sending[s] = None

\* A process that was told to stop comes to the end of Close (main.go, Close): no
\* request, tailer, full queue or -no-tail holds it for ever.
EveryStopEnds == main \in {"drain", "wait", "close"} ~> main \in {"exit", "off"}
=============================================================================
