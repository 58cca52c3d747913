----------------------------- MODULE LiveClient -----------------------------
(***************************************************************************)
(* frontend/src/App.svelte and lib/api.ts: one page that shows the names   *)
(* of an apex, and keeps up with new ones.  A search fills the rows and    *)
(* sets the cursor lastSeq; live mode opens an event stream; catchUp asks  *)
(* /v1/watch for what lies above the cursor, after a resync event, after a *)
(* reconnection and some seconds after live mode was switched on.  Every   *)
(* request is answered at some later time, and its answer is handled later *)
(* still: in between the user may have gone to another apex.               *)
(*                                                                         *)
(* The server is seen from outside: the numbered names, how many of them   *)
(* are committed, and one stream, whose channel, flag and resync are those *)
(* of module Feed.  The number of a name is its place in log.              *)
(***************************************************************************)
EXTENDS Naturals, Sequences, FiniteSets, SequencesExt

CONSTANTS
    Names,
    Apexes,
    ApexOf,
    MaxResults,  \* rows of one answer (100000 in the code)
    Capacity,    \* of the stream's channel
    MaxMoves,    \* bound: searches and clicks of the user
    MaxTimers,   \* bound: gap timers that are counted
    MaxCrashes,  \* bound: restarts of the server
    None

ASSUME LiveClientAssumption ==
    /\ ApexOf \in [Names -> Apexes]
    /\ {MaxResults, Capacity} \subseteq Nat \ {0}
    /\ {MaxMoves, MaxTimers, MaxCrashes} \subseteq Nat
    /\ None \notin Apexes

VARIABLES
    log, committed, crashes,
    link,       \* the EventSource: "none", "connecting", "open" or "failed"
    channel,    \* names on their way to the page
    drop,       \* names were dropped since the last resync
    viewed,     \* viewedApex; None before the first search
    rows,       \* rowsRaw
    freshRows,
    known,      \* knownLc
    lastSeq,
    phase,      \* the search: "idle", "asked" or "streaming"
    coming,     \* rows of the search's answer, still arriving
    liveOn,
    hadFeedError,
    timers,     \* gap timers that have not fired
    watch,      \* the request of catchUp and, once served, its answer; or None
    moves,
    partial,    \* history: the last search ended in an error
    crossed,    \* history: an answer came in that was asked for before the last search
    cut         \* history: names the last search had no room for

serverVars == <<log, committed, crashes>>
streamVars == <<link, channel, drop>>
viewVars == <<viewed, rows, freshRows, known, lastSeq>>
searchVars == <<phase, coming>>
liveVars == <<liveOn, hadFeedError, timers>>
histVars == <<partial, crossed, cut>>
vars == <<serverVars, streamVars, viewVars, searchVars, liveVars, watch, moves, histVars>>

-----------------------------------------------------------------------------
(* What the server answers *)

\* The committed numbers of apex a above the cursor.
After(a, cursor) == {k \in cursor + 1..committed : ApexOf[log[k]] = a}

Largest(S) == IF S = {} THEN 0 ELSE CHOOSE k \in S : \A j \in S : j <= k

\* Scan keeps the newest rows when there are too many.
Newest(S) == {k \in S : Cardinality({j \in S : j > k}) < MaxResults}

NamesAt(S) == {log[k] : k \in S}

-----------------------------------------------------------------------------
(* The server *)

\* apply: the stream is offered the name, and flagged when its channel is full.
Collect(n) ==
    /\ ~Contains(log, n)
    /\ log' = Append(log, n)
    /\ IF link = "open" /\ ApexOf[n] = viewed
       THEN IF Len(channel) < Capacity
            THEN channel' = Append(channel, n) /\ UNCHANGED drop
            ELSE drop' = TRUE /\ UNCHANGED channel
       ELSE UNCHANGED <<channel, drop>>
    /\ UNCHANGED <<committed, crashes, link, viewVars, searchVars, liveVars, watch,
                   moves, histVars>>

Commit ==
    /\ committed' = Len(log)
    /\ UNCHANGED <<log, crashes, streamVars, viewVars, searchVars, liveVars, watch,
                   moves, histVars>>

-----------------------------------------------------------------------------
(* The search: run *)

CloseFeed ==
    /\ link' = "none"
    /\ channel' = <<>>
    /\ drop' = FALSE

\* Mutant: names that wait to be merged are kept.
Run_KeepsFresh(a) ==
    /\ viewed' = a
    /\ rows' = {}
    /\ lastSeq' = 0
    /\ phase' = "asked"
    /\ coming' = {}
    /\ CloseFeed
    /\ partial' = FALSE
    /\ crossed' = FALSE
    /\ cut' = {}
    /\ UNCHANGED <<freshRows, known>>

\* run(a): everything of the old view is reset, except knownLc.
Run(a) ==
    /\ viewed' = a
    /\ rows' = {}
    /\ freshRows' = {}
    /\ lastSeq' = 0
    /\ phase' = "asked"
    /\ coming' = {}
    /\ CloseFeed
    /\ partial' = FALSE
    /\ crossed' = FALSE
    /\ cut' = {}
    /\ UNCHANGED known

Search(a) ==
    /\ moves < MaxMoves
    /\ moves' = moves + 1
    /\ Run(a)
    \* a request of catchUp that is under way goes on
    /\ watch' = IF watch = None THEN None ELSE [watch EXCEPT !.old = TRUE]
    /\ UNCHANGED <<serverVars, liveVars>>

\* Mutant: the cursor is set to the newest number of all, not of the rows.
SearchMeta_AnyNumber ==
    /\ phase = "asked"
    /\ phase' = "streaming"
    /\ coming' = NamesAt(Newest(After(viewed, 0)))
    /\ lastSeq' = Len(log)
    /\ UNCHANGED <<serverVars, streamVars, viewed, rows, freshRows, known, liveVars,
                   watch, moves, histVars>>

\* The answer's headers: the snapshot is taken, x-max-seq is its last row.
SearchMeta ==
    /\ phase = "asked"
    /\ phase' = "streaming"
    /\ LET found == Newest(After(viewed, 0))
       IN  /\ coming' = NamesAt(found)
           /\ lastSeq' = Largest(found)
           /\ cut' = NamesAt(After(viewed, 0) \ found)
    /\ UNCHANGED <<serverVars, streamVars, viewed, rows, freshRows, known, liveVars,
                   watch, moves, partial, crossed>>

\* startLiveFeed
StartFeed ==
    /\ link' = "connecting"
    /\ channel' = <<>>
    /\ drop' = FALSE
    /\ hadFeedError' = FALSE
    /\ timers' = IF timers < MaxTimers THEN timers + 1 ELSE timers

\* The last row is in: rebuildKnown, and the feed starts again.
SearchDone ==
    /\ phase = "streaming"
    /\ phase' = "idle"
    /\ coming' = {}
    /\ rows' = rows \cup coming
    /\ known' = rows'
    /\ IF liveOn THEN StartFeed ELSE UNCHANGED <<streamVars, hadFeedError, timers>>
    /\ UNCHANGED <<serverVars, viewed, freshRows, lastSeq, liveOn, watch, moves, histVars>>

\* The search fails, or its answer breaks off after some of the rows.
SearchFail ==
    /\ phase # "idle"
    /\ phase' = "idle"
    /\ \E some \in SUBSET coming : rows' = rows \cup some
    /\ coming' = {}
    /\ partial' = TRUE
    /\ UNCHANGED <<serverVars, streamVars, viewed, freshRows, known, lastSeq, liveVars,
                   watch, moves, crossed, cut>>

-----------------------------------------------------------------------------
(* Live mode *)

ToggleLive ==
    /\ moves < MaxMoves
    /\ moves' = moves + 1
    /\ viewed # None /\ phase = "idle"
    /\ liveOn' = ~liveOn
    /\ IF liveOn THEN CloseFeed /\ UNCHANGED <<hadFeedError, timers>> ELSE StartFeed
    /\ UNCHANGED <<serverVars, viewVars, searchVars, watch, histVars>>

\* receiveFresh, for the names of a set; names already known are skipped.
Receive(names) ==
    /\ freshRows' = freshRows \cup (names \ known)
    /\ known' = known \cup names

\* Mutant: a connection that comes back asks for nothing.
CatchUp_Never == UNCHANGED watch

\* catchUp: one request at a time, and none without a cursor.
CatchUp ==
    IF watch # None \/ viewed = None \/ lastSeq = 0
    THEN UNCHANGED watch
    ELSE watch' = [apex |-> viewed, after |-> lastSeq, old |-> FALSE, served |-> FALSE,
                   names |-> {}, maxSeq |-> 0, truncated |-> FALSE]

\* onopen: the server has subscribed the page; after an error, it catches up.
FeedOpen ==
    /\ link = "connecting"
    /\ link' = "open"
    /\ IF hadFeedError THEN CatchUp ELSE UNCHANGED watch
    /\ UNCHANGED <<serverVars, channel, drop, viewVars, searchVars, liveVars, moves, histVars>>

\* onerror: what the channel held is lost; EventSource connects again.
FeedError ==
    /\ link \in {"open", "connecting"}
    /\ link' = "connecting"
    /\ channel' = <<>>
    /\ drop' = FALSE
    /\ hadFeedError' = TRUE
    /\ UNCHANGED <<serverVars, viewVars, searchVars, liveOn, timers, watch, moves, histVars>>

\* An answer other than 200 (429, 503) and EventSource gives up.
FeedRefused ==
    /\ link = "connecting"
    /\ link' = "failed"
    /\ hadFeedError' = TRUE
    /\ UNCHANGED <<serverVars, channel, drop, viewVars, searchVars, liveOn, timers,
                   watch, moves, histVars>>

\* The handler takes a name off the channel; the resync, if due, goes first.
Deliver ==
    /\ link = "open"
    /\ channel # <<>>
    /\ Receive({Head(channel)})
    /\ channel' = Tail(channel)
    /\ drop' = FALSE
    /\ IF drop THEN CatchUp ELSE UNCHANGED watch
    /\ UNCHANGED <<serverVars, link, viewed, rows, lastSeq, searchVars, liveVars, moves,
                   histVars>>

\* Three seconds after startLiveFeed, whatever has happened in between.
GapTimer ==
    /\ timers > 0
    /\ timers' = timers - 1
    /\ IF liveOn /\ link # "none" THEN CatchUp ELSE UNCHANGED watch
    /\ UNCHANGED <<serverVars, streamVars, viewVars, searchVars, liveOn, hadFeedError,
                   moves, histVars>>

\* mergeFresh, by its timer or the user's click; not while a search streams in.
Merge ==
    /\ freshRows # {}
    /\ phase = "idle"
    /\ rows' = rows \cup freshRows
    /\ freshRows' = {}
    /\ UNCHANGED <<serverVars, streamVars, viewed, known, lastSeq, searchVars, liveVars,
                   watch, moves, histVars>>

-----------------------------------------------------------------------------
(* The answer of /v1/watch *)

\* ScanAfter; when there are too many rows, the keys decide which are answered.
ServeWatch ==
    /\ watch # None
    /\ ~watch.served
    /\ LET found == After(watch.apex, watch.after)
           max == Largest(After(watch.apex, 0))
       IN  \E some \in SUBSET found :
               /\ IF Cardinality(found) > MaxResults
                  THEN Cardinality(some) = MaxResults
                  ELSE some = found
               /\ watch' = [watch EXCEPT !.served = TRUE, !.names = NamesAt(some),
                                         !.maxSeq = max, !.truncated = some # found]
    /\ UNCHANGED <<serverVars, streamVars, viewVars, searchVars, liveVars, moves, histVars>>

\* The rows go through receiveFresh; mergeNow, unless a search is streaming in.
WatchRows ==
    /\ watch # None /\ watch.served
    /\ ~watch.truncated
    /\ watch' = None
    /\ lastSeq' = watch.maxSeq
    /\ LET fresh == freshRows \cup (watch.names \ known)
       IN  IF phase = "idle"
           THEN rows' = rows \cup fresh /\ freshRows' = {}
           ELSE freshRows' = fresh /\ UNCHANGED rows
    /\ known' = known \cup watch.names
    /\ crossed' = (crossed \/ watch.old)
    /\ UNCHANGED <<serverVars, streamVars, viewed, searchVars, liveVars, moves, partial, cut>>

\* Mutant: a truncated answer is taken for a whole one.
WatchTruncated_NoReload ==
    /\ watch # None /\ watch.served
    /\ watch.truncated
    /\ watch' = None
    /\ lastSeq' = watch.maxSeq
    /\ Receive(watch.names)
    /\ crossed' = (crossed \/ watch.old)
    /\ UNCHANGED <<serverVars, streamVars, viewed, rows, searchVars, liveVars, moves, partial, cut>>

\* Too much was missed: the page searches again, for what it shows now.
WatchTruncated ==
    /\ watch # None /\ watch.served
    /\ watch.truncated
    /\ watch' = None
    /\ Run(viewed)
    /\ UNCHANGED <<serverVars, liveVars, moves>>

WatchFail ==
    /\ watch # None
    /\ watch' = None
    /\ UNCHANGED <<serverVars, streamVars, viewVars, searchVars, liveVars, moves, histVars>>

\* The server dies: uncommitted names are lost, and so are its connections.
ServerCrash ==
    /\ crashes < MaxCrashes
    /\ crashes' = crashes + 1
    /\ log' = SubSeq(log, 1, committed)
    /\ IF link = "open"
       THEN link' = "connecting" /\ channel' = <<>> /\ drop' = FALSE /\ hadFeedError' = TRUE
       ELSE UNCHANGED <<streamVars, hadFeedError>>
    /\ UNCHANGED <<committed, viewVars, searchVars, liveOn, timers, watch, moves, histVars>>

-----------------------------------------------------------------------------

Init ==
    /\ log = <<>> /\ committed = 0 /\ crashes = 0
    /\ link = "none" /\ channel = <<>> /\ drop = FALSE
    /\ viewed = None
    /\ rows = {} /\ freshRows = {} /\ known = {}
    /\ lastSeq = 0
    /\ phase = "idle" /\ coming = {}
    /\ liveOn = FALSE /\ hadFeedError = FALSE
    /\ timers = 0
    /\ watch = None
    /\ moves = 0
    /\ partial = FALSE /\ crossed = FALSE /\ cut = {}

Next ==
    \/ \E n \in Names : Collect(n)
    \/ Commit
    \/ \E a \in Apexes : Search(a)
    \/ SearchMeta \/ SearchDone \/ SearchFail
    \/ ToggleLive
    \/ FeedOpen \/ FeedError \/ FeedRefused
    \/ Deliver \/ GapTimer \/ Merge
    \/ ServeWatch \/ WatchRows \/ WatchTruncated \/ WatchFail
    \/ ServerCrash

Spec == Init /\ [][Next]_vars

\* EventSource connects again and again; the server's WriteTimeout ends every
\* stream after a minute; a request that is made again and again is answered.
FairSpec ==
    /\ Spec
    /\ WF_vars(FeedOpen)
    /\ WF_vars(FeedError)
    /\ SF_vars(ServeWatch)
    /\ SF_vars(WatchRows)
    /\ SF_vars(WatchTruncated)

-----------------------------------------------------------------------------
(* Properties *)

Numbers == 1..Len(log)

Shown == rows \cup freshRows

TypeOK ==
    /\ log \in Seq(Names)
    /\ committed \in 0..Len(log)
    /\ link \in {"none", "connecting", "open", "failed"}
    /\ channel \in Seq(Names) /\ Len(channel) <= Capacity
    /\ drop \in BOOLEAN
    /\ viewed \in Apexes \cup {None}
    /\ {rows, freshRows, known, coming} \subseteq SUBSET Names
    /\ lastSeq \in 0..committed
    /\ phase \in {"idle", "asked", "streaming"}
    /\ liveOn \in BOOLEAN /\ hadFeedError \in BOOLEAN
    /\ timers \in 0..MaxTimers
    /\ watch # None =>
           /\ watch.apex \in Apexes
           /\ watch.after \in 1..committed
           /\ watch.names \subseteq Names
           /\ watch.maxSeq \in 0..committed
    /\ link # "none" => liveOn /\ phase = "idle"

\* The cursor (x-max-seq, lastSeq): whatever was dropped, cut off, reloaded or
\* delivered twice, no committed name of the viewed apex lies at or below the
\* cursor without being on the page or among the rows that the search had no
\* room for: catchUp would never ask for it again.
CursorCoversThePage ==
    phase # "asked" /\ ~partial /\ ~crossed =>
        \A k \in 1..lastSeq :
            ApexOf[log[k]] = viewed => log[k] \in Shown \cup coming \cup cut

\* A search resets the live state for the new apex (run): only an answer to
\* catchUp that was asked for by an older view, and that nothing stops, can put
\* a name of another apex on the page.
OnlyLateAnswersMixApexes == \A n \in Shown : ApexOf[n] = viewed \/ crossed

\* The page is about to make up for whatever it misses.
Watching(a) ==
    /\ liveOn /\ viewed = a /\ phase = "idle"
    /\ link # "failed"
    /\ ~partial /\ ~crossed

\* On the page, or older than the rows a search has room for.
OnPage(n) == n \in Shown \cup cut

Durable(n) == \E k \in 1..committed : log[k] = n

\* Live mode: over dropped names, broken connections and restarts of the server,
\* a page with a cursor that stays on its apex gets to know every committed name.
\* A page whose search found nothing has no cursor, and catchUp never asks.
LivePageLearns ==
    \A n \in Names :
        (Watching(ApexOf[n]) /\ lastSeq > 0 /\ Durable(n))
            ~> (OnPage(n) \/ ~Watching(ApexOf[n]))
=============================================================================
