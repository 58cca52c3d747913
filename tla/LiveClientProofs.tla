-------------------------- MODULE LiveClientProofs --------------------------
(***************************************************************************)
(* What LiveClient promises of the page, proved for any names and apexes   *)
(* and any bounds.  What a request of catchUp was asked for, and what its  *)
(* answer holds, is related to the page as long as no search has begun     *)
(* since; the set knownLc, by which rows are skipped, must then hold no    *)
(* name that the page does not show.                                       *)
(***************************************************************************)
EXTENDS LiveClient, NaturalLemmas

-----------------------------------------------------------------------------
(* The inductive invariant *)

Requests ==
    [apex : Apexes, after : Nat, old : BOOLEAN, served : BOOLEAN,
     names : SUBSET Names, maxSeq : Nat, truncated : BOOLEAN]

\* A request of catchUp was asked for what the page shows, with its cursor, unless
\* a search has begun since.
RequestInv ==
    watch # None =>
        /\ watch \in Requests
        /\ watch.after \in 1..committed
        /\ watch.maxSeq \in 0..committed
        /\ ~watch.old => watch.apex = viewed /\ watch.after = lastSeq /\ phase = "idle"
        /\ \A n \in watch.names : ApexOf[n] = watch.apex

\* An answer that is not truncated holds every name between the cursor it was
\* asked with and the one that it brings.
AnswerInv ==
    watch # None /\ watch.served /\ ~watch.truncated =>
        \A k \in watch.after + 1..watch.maxSeq :
            ApexOf[log[k]] = watch.apex => log[k] \in watch.names

\* The names on their way to the page are of the apex it shows.
ComingInv ==
    /\ \A i \in 1..Len(channel) : ApexOf[channel[i]] = viewed
    /\ \A n \in coming : ApexOf[n] = viewed

\* Once a search is done, a name that receiveFresh would skip is on the page.
KnownInv == phase = "idle" /\ ~partial => known \subseteq Shown

Inv ==
    /\ TypeOK
    /\ RequestInv
    /\ AnswerInv
    /\ ComingInv
    /\ KnownInv
    /\ OnlyLateAnswersMixApexes
    /\ CursorCoversThePage

-----------------------------------------------------------------------------
(* The answers of the server *)

\* A set of committed numbers has a largest, the one Largest chooses.
LEMMA LargestOfSome ==
    ASSUME NEW S, S \subseteq 1..committed, committed \in Nat
    PROVE  Largest(S) \in 0..committed /\ \A k \in S : k <= Largest(S)
  <1>1. CASE S = {}
    BY <1>1 DEF Largest
  <1>2. CASE S # {}
    <2>1. S \in SUBSET Nat /\ \A k \in S : k <= committed
      OBVIOUS
    <2>2. PICK m \in S : \A k \in S : k <= m
      <3>1. PICK c \in Nat : c = committed
        OBVIOUS
      <3>2. \A k \in S : k <= c
        BY <2>1, <3>1
      <3>3. QED BY <1>2, <2>1, <3>2, LargestNatural
    <2> DEFINE max == CHOOSE k \in S : \A j \in S : j <= k
    <2>3. max \in S /\ \A j \in S : j <= max
      BY <2>2
    <2>4. Largest(S) = max
      BY <1>2 DEF Largest
    <2> HIDE DEF max
    <2>5. QED BY <2>3, <2>4
  <1>3. QED BY <1>1, <1>2

\* What the names of some numbers are.
LEMMA NamesOfNumbers ==
    ASSUME TypeOK, NEW a, NEW c \in Nat, NEW S, S \subseteq After(a, c)
    PROVE  /\ S \subseteq 1..committed
           /\ NamesAt(S) \subseteq Names
           /\ \A n \in NamesAt(S) : ApexOf[n] = a
           /\ \A k \in S : log[k] \in NamesAt(S)
  <1>1. /\ log \in Seq(Names) /\ Len(log) \in Nat /\ committed \in Nat /\ committed <= Len(log)
    BY DEF TypeOK
  <1>2. \A k \in 1..committed : log[k] \in Names
    BY <1>1
  <1>3. \A k \in S : k \in 1..committed /\ ApexOf[log[k]] = a
    BY <1>1 DEF After
  <1>4. QED BY <1>2, <1>3 DEF NamesAt

\* The numbers of committed names do not change their names: a restart of the
\* server takes back only what was not committed.
LEMMA LogKept ==
    ASSUME TypeOK, [Next]_vars
    PROVE  /\ log' \in Seq(Names)
           /\ committed' \in 0..Len(log')
           /\ committed \in Nat /\ committed' \in Nat /\ committed <= committed'
           /\ \A k \in 1..committed : log'[k] = log[k]
  <1>1. log \in Seq(Names) /\ Len(log) \in Nat /\ committed \in Nat /\ committed <= Len(log)
    BY DEF TypeOK
  <1>2. ASSUME NEW n \in Names, Collect(n)
        PROVE  /\ log' \in Seq(Names) /\ committed' = committed /\ committed' <= Len(log')
               /\ \A k \in 1..committed : log'[k] = log[k]
    <2>1. log' = Append(log, n) /\ committed' = committed
      BY <1>2 DEF Collect
    <2>2. QED BY <1>1, <2>1
  <1>3. CASE Commit
    <2>1. log' = log /\ committed' = Len(log)
      BY <1>3 DEF Commit
    <2>2. QED BY <1>1, <2>1
  <1>4. CASE ServerCrash
    <2>1. log' = SubSeq(log, 1, committed) /\ committed' = committed
      BY <1>4 DEF ServerCrash
    <2>2. QED BY <1>1, <2>1
  <1>5. CASE UNCHANGED <<log, committed>>
    BY <1>1, <1>5
  <1>6. (\E n \in Names : Collect(n)) \/ Commit \/ ServerCrash \/ UNCHANGED <<log, committed>>
    BY DEF Next, vars, serverVars, Search, SearchMeta, SearchDone, SearchFail, ToggleLive,
           FeedOpen, FeedError, FeedRefused, Deliver, GapTimer, Merge, ServeWatch, WatchRows,
           WatchTruncated, WatchFail
  <1>7. QED
    <2>1. ASSUME committed' \in Nat, committed' <= Len(log'), log' \in Seq(Names)
          PROVE  committed' \in 0..Len(log')
      BY <2>1
    <2>2. QED BY <1>1, <1>2, <1>3, <1>4, <1>5, <1>6, <2>1
-----------------------------------------------------------------------------
(* The request of catchUp and its answer *)

\* A step may leave the request alone, make one (only of a page whose search is
\* done: the stream that asks for it is open only then), serve it, end it, or
\* begin a search behind its back.
LEMMA RequestSteps ==
    ASSUME TypeOK, [Next]_vars
    PROVE  \/ UNCHANGED <<watch, viewed, lastSeq, phase>>
           \/ /\ CatchUp /\ phase = "idle"
              /\ UNCHANGED <<log, committed, viewed, lastSeq, phase>>
           \/ ServeWatch
           \/ watch' = None
           \/ \E a \in Apexes : Search(a)
           \/ phase # "idle" /\ UNCHANGED <<watch, viewed>>
  <1>1. ASSUME FeedOpen \/ Deliver \/ GapTimer
        PROVE  /\ CatchUp \/ UNCHANGED watch
               /\ phase = "idle" \/ UNCHANGED watch
               /\ UNCHANGED <<log, committed, viewed, lastSeq, phase>>
    BY <1>1 DEF FeedOpen, Deliver, GapTimer, TypeOK, serverVars, viewVars, searchVars, CatchUp
  <1>2. ASSUME SearchMeta \/ SearchDone \/ SearchFail
        PROVE  phase # "idle" /\ UNCHANGED <<watch, viewed>>
    BY <1>2 DEF SearchMeta, SearchDone, SearchFail
  <1>3. ASSUME WatchRows \/ WatchTruncated \/ WatchFail
        PROVE  watch' = None
    BY <1>3 DEF WatchRows, WatchTruncated, WatchFail
  <1>4. ASSUME \/ \E n \in Names : Collect(n)
               \/ Commit \/ ToggleLive \/ FeedError \/ FeedRefused \/ Merge \/ ServerCrash
               \/ UNCHANGED vars
        PROVE  UNCHANGED <<watch, viewed, lastSeq, phase>>
    BY <1>4 DEF Collect, Commit, ToggleLive, FeedError, FeedRefused, Merge, ServerCrash,
                vars, viewVars, searchVars
  <1>5. QED BY <1>1, <1>2, <1>3, <1>4 DEF Next

\* What the server answers to a request.
LEMMA ServedAnswer ==
    ASSUME TypeOK, RequestInv, ServeWatch
    PROVE  /\ UNCHANGED <<log, committed, viewed, lastSeq, phase>>
           /\ watch # None /\ watch' \in Requests
           /\ watch'.apex = watch.apex /\ watch'.after = watch.after /\ watch'.old = watch.old
           /\ watch'.maxSeq \in 0..committed
           /\ \A n \in watch'.names : ApexOf[n] = watch.apex
           /\ ~watch'.truncated =>
                 \A k \in watch.after + 1..watch'.maxSeq :
                     ApexOf[log[k]] = watch.apex => log[k] \in watch'.names
  <1> DEFINE found == After(watch.apex, watch.after)
             max == Largest(After(watch.apex, 0))
  <1>1. /\ watch # None /\ watch \in Requests /\ watch.after \in Nat /\ committed \in Nat
        /\ UNCHANGED <<log, committed, viewed, lastSeq, phase>>
    BY DEF ServeWatch, RequestInv, Requests, TypeOK, serverVars, viewVars, searchVars
  <1>2. PICK some \in SUBSET found :
           watch' = [watch EXCEPT !.served = TRUE, !.names = NamesAt(some),
                                  !.maxSeq = max, !.truncated = some # found]
    BY DEF ServeWatch
  <1>3. max \in 0..committed /\ max \in Nat
    <2>1. After(watch.apex, 0) \subseteq 1..committed
      BY <1>1 DEF After
    <2>2. QED BY <1>1, <2>1, LargestOfSome
  <1>4. /\ NamesAt(some) \subseteq Names
        /\ \A n \in NamesAt(some) : ApexOf[n] = watch.apex
        /\ \A k \in some : log[k] \in NamesAt(some)
    BY <1>1, NamesOfNumbers
  <1> HIDE DEF max
  <1>5. /\ watch' \in Requests
        /\ watch'.apex = watch.apex /\ watch'.after = watch.after /\ watch'.old = watch.old
        /\ watch'.maxSeq = max /\ watch'.names = NamesAt(some)
        /\ watch'.truncated <=> some # found
    <2> HIDE DEF found
    <2>1. QED BY <1>1, <1>2, <1>3, <1>4 DEF Requests
  <1>6. ASSUME some = found, NEW k \in watch.after + 1..max, ApexOf[log[k]] = watch.apex
        PROVE  log[k] \in NamesAt(some)
    <2>1. k \in found
      BY <1>1, <1>3, <1>6 DEF After
    <2>2. QED BY <1>4, <1>6, <2>1
  <1>7. QED BY <1>1, <1>3, <1>4, <1>5, <1>6

\* A request and the page agree until a search begins (catchUp, run).
LEMMA RequestNext ==
    ASSUME TypeOK, RequestInv, [Next]_vars
    PROVE  RequestInv'
  <1>1. committed \in Nat /\ committed' \in Nat /\ committed <= committed'
    BY LogKept
  <1>2. CASE UNCHANGED <<watch, viewed, lastSeq, phase>>
    BY <1>1, <1>2 DEF RequestInv
  <1>3. CASE CatchUp /\ phase = "idle" /\ UNCHANGED <<log, committed, viewed, lastSeq, phase>>
    <2>1. CASE UNCHANGED watch
      BY <1>3, <2>1 DEF RequestInv
    <2>2. CASE ~UNCHANGED watch
      <3>1. /\ watch' = [apex |-> viewed, after |-> lastSeq, old |-> FALSE, served |-> FALSE,
                         names |-> {}, maxSeq |-> 0, truncated |-> FALSE]
            /\ viewed # None /\ lastSeq # 0
        BY <1>3, <2>2 DEF CatchUp
      <3>2. viewed \in Apexes /\ lastSeq \in 1..committed /\ lastSeq \in Nat
        BY <1>1, <3>1 DEF TypeOK
      <3>3. watch' \in Requests
        BY <3>1, <3>2 DEF Requests
      <3>4. /\ watch'.apex = viewed /\ watch'.after = lastSeq
            /\ watch'.maxSeq = 0 /\ watch'.names = {}
        BY <3>1
      <3>5. QED BY <1>1, <1>3, <3>2, <3>3, <3>4 DEF RequestInv
    <2>3. QED BY <2>1, <2>2
  <1>4. CASE ServeWatch
    <2>1. /\ UNCHANGED <<committed, viewed, lastSeq, phase>>
          /\ watch # None /\ watch' \in Requests
          /\ watch'.apex = watch.apex /\ watch'.after = watch.after /\ watch'.old = watch.old
          /\ watch'.maxSeq \in 0..committed
          /\ \A n \in watch'.names : ApexOf[n] = watch.apex
      BY <1>4, ServedAnswer
    <2>2. QED BY <2>1 DEF RequestInv
  <1>5. CASE watch' = None
    BY <1>5 DEF RequestInv
  <1>6. ASSUME NEW a \in Apexes, Search(a)
        PROVE  RequestInv'
    <2>1. /\ committed' = committed
          /\ watch' = IF watch = None THEN None ELSE [watch EXCEPT !.old = TRUE]
      BY <1>6 DEF Search, serverVars
    <2>2. CASE watch = None
      BY <2>1, <2>2 DEF RequestInv
    <2>3. CASE watch # None
      <3>1. watch' = [watch EXCEPT !.old = TRUE] /\ watch \in Requests
        BY <2>1, <2>3 DEF RequestInv
      <3>2. /\ watch' \in Requests /\ watch'.old
            /\ watch'.after = watch.after /\ watch'.maxSeq = watch.maxSeq
            /\ watch'.names = watch.names /\ watch'.apex = watch.apex
        BY <3>1 DEF Requests
      <3>3. QED BY <2>1, <2>3, <3>2 DEF RequestInv
    <2>4. QED BY <2>2, <2>3
  <1>7. CASE phase # "idle" /\ UNCHANGED <<watch, viewed>>
    <2>1. watch # None => watch.old /\ watch' = watch
      BY <1>7 DEF RequestInv
    <2>2. QED BY <1>1, <1>7, <2>1 DEF RequestInv
  <1>8. QED BY <1>2, <1>3, <1>4, <1>5, <1>6, <1>7, RequestSteps

\* A whole answer stays whole: what it holds was committed.
LEMMA AnswerNext ==
    ASSUME TypeOK, RequestInv, AnswerInv, [Next]_vars
    PROVE  AnswerInv'
  <1>1. /\ committed \in Nat
        /\ \A k \in 1..committed : log'[k] = log[k]
    BY LogKept
  <1>2. ASSUME watch' # None, watch # None, watch'.after = watch.after, watch'.names = watch.names,
               watch'.maxSeq = watch.maxSeq, watch'.apex = watch.apex,
               watch'.served <=> watch.served, watch'.truncated <=> watch.truncated
        PROVE  AnswerInv'
    <2>1. SUFFICES ASSUME watch.served, ~watch.truncated,
                          NEW k \in watch.after + 1..watch.maxSeq, ApexOf[log'[k]] = watch.apex
                   PROVE  log'[k] \in watch.names
      BY <1>2 DEF AnswerInv
    <2>2. k \in 1..committed
      BY <1>1, <1>2 DEF RequestInv
    <2>3. log'[k] = log[k]
      BY <1>1, <2>2
    <2>4. QED BY <1>2, <2>1, <2>3 DEF AnswerInv
  <1>3. CASE UNCHANGED watch
    <2>1. CASE watch = None
      BY <1>3, <2>1 DEF AnswerInv
    <2>2. QED BY <1>2, <1>3, <2>1
  <1>4. CASE CatchUp
    <2>1. CASE UNCHANGED watch
      BY <1>3, <2>1
    <2>2. CASE ~UNCHANGED watch
      <3>1. ~watch'.served
        BY <1>4, <2>2 DEF CatchUp
      <3>2. QED BY <3>1 DEF AnswerInv
    <2>3. QED BY <2>1, <2>2
  <1>5. CASE ServeWatch
    <2>1. /\ UNCHANGED log
          /\ watch'.apex = watch.apex /\ watch'.after = watch.after
          /\ ~watch'.truncated =>
                \A k \in watch.after + 1..watch'.maxSeq :
                    ApexOf[log[k]] = watch.apex => log[k] \in watch'.names
      BY <1>5, ServedAnswer
    <2>2. QED BY <2>1 DEF AnswerInv
  <1>6. CASE watch' = None
    BY <1>6 DEF AnswerInv
  <1>7. ASSUME NEW a \in Apexes, Search(a)
        PROVE  AnswerInv'
    <2>1. watch' = IF watch = None THEN None ELSE [watch EXCEPT !.old = TRUE]
      BY <1>7 DEF Search
    <2>2. CASE watch = None
      BY <1>6, <2>1, <2>2
    <2>3. CASE watch # None
      <3>1. watch' = [watch EXCEPT !.old = TRUE] /\ watch \in Requests
        BY <2>1, <2>3 DEF RequestInv
      <3>2. CASE watch' = None
        BY <1>6, <3>2
      <3>3. CASE watch' # None
        <4>1. /\ watch'.after = watch.after /\ watch'.maxSeq = watch.maxSeq
              /\ watch'.names = watch.names /\ watch'.apex = watch.apex
              /\ watch'.served = watch.served /\ watch'.truncated = watch.truncated
          BY <3>1 DEF Requests
        <4>2. QED BY <1>2, <2>3, <3>3, <4>1
      <3>4. QED BY <3>2, <3>3
    <2>4. QED BY <2>2, <2>3
  <1>8. QED BY <1>3, <1>4, <1>5, <1>6, <1>7, RequestSteps

-----------------------------------------------------------------------------
(* The rows of the page *)

\* What a search finds.
LEMMA FoundBySearch ==
    ASSUME TypeOK, SearchMeta
    PROVE  /\ UNCHANGED <<log, committed, channel, viewed, partial, crossed>>
           /\ phase' = "streaming"
           /\ coming' \subseteq Names
           /\ \A n \in coming' : ApexOf[n] = viewed
           /\ lastSeq' \in 0..committed
           /\ \A k \in 1..lastSeq' : ApexOf[log[k]] = viewed => log[k] \in coming' \cup cut'
  <1> DEFINE all == After(viewed, 0)
             found == Newest(all)
  <1>1. /\ UNCHANGED <<log, committed, channel, viewed, partial, crossed>>
        /\ phase' = "streaming"
        /\ coming' = NamesAt(found) /\ lastSeq' = Largest(found) /\ cut' = NamesAt(all \ found)
    BY DEF SearchMeta, serverVars, streamVars
  <1>2. found \subseteq all /\ committed \in Nat
    BY DEF Newest, TypeOK
  <1>3. /\ found \subseteq 1..committed /\ coming' \subseteq Names
        /\ \A n \in coming' : ApexOf[n] = viewed
        /\ \A k \in found : log[k] \in coming'
        /\ \A k \in all \ found : log[k] \in cut'
    <2>1. 0 \in Nat /\ all \ found \subseteq all
      OBVIOUS
    <2> HIDE DEF found
    <2>2. QED BY <1>1, <1>2, <2>1, NamesOfNumbers
  <1>4. lastSeq' \in 0..committed
    <2> HIDE DEF found
    <2>1. QED BY <1>1, <1>2, <1>3, LargestOfSome
  <1>5. ASSUME NEW k \in 1..lastSeq', ApexOf[log[k]] = viewed
        PROVE  log[k] \in coming' \cup cut'
    <2>1. k \in all
      BY <1>2, <1>4, <1>5 DEF After
    <2>2. QED BY <1>3, <2>1
  <1>6. QED BY <1>1, <1>3, <1>4, <1>5

\* The stream and the search's answer are reset when another apex is searched (run).
LEMMA ComingNext ==
    ASSUME TypeOK, ComingInv, [Next]_vars
    PROVE  ComingInv'
  <1>1. ASSUME NEW n \in Names, Collect(n)
        PROVE  ComingInv'
    <2>1. /\ UNCHANGED <<viewed, coming>>
          /\ UNCHANGED channel \/ (channel' = Append(channel, n) /\ ApexOf[n] = viewed)
      BY <1>1 DEF Collect, viewVars, searchVars
    <2>2. channel \in Seq(Names)
      BY DEF TypeOK
    <2>3. ASSUME channel' = Append(channel, n), ApexOf[n] = viewed
          PROVE  \A i \in 1..Len(channel') : ApexOf[channel'[i]] = viewed
      <3>1. /\ Len(channel') = Len(channel) + 1 /\ Len(channel) \in Nat
            /\ \A i \in 1..Len(channel) : channel'[i] = channel[i]
            /\ channel'[Len(channel) + 1] = n
        BY <2>2, <2>3
      <3>2. TAKE i \in 1..Len(channel')
      <3>3. i \in 1..Len(channel) \/ i = Len(channel) + 1
        BY <3>1
      <3>4. QED BY <2>3, <3>1, <3>3 DEF ComingInv
    <2>4. QED BY <2>1, <2>3 DEF ComingInv
  <1>2. CASE Deliver
    <2>1. /\ channel' = Tail(channel) /\ channel # <<>> /\ channel \in Seq(Names)
          /\ UNCHANGED <<viewed, coming>>
      BY <1>2 DEF Deliver, TypeOK, searchVars
    <2>2. \A i \in 1..Len(channel') : i + 1 \in 1..Len(channel) /\ channel'[i] = channel[i + 1]
      BY <2>1
    <2>3. QED BY <2>1, <2>2 DEF ComingInv
  <1>3. CASE SearchMeta
    BY <1>3, FoundBySearch DEF ComingInv
  <1>4. CASE channel' \in {channel, <<>>} /\ coming' \in {coming, {}}
             /\ (viewed' = viewed \/ (channel' = <<>> /\ coming' = {}))
    <2>1. Len(<<>>) = 0
      OBVIOUS
    <2>2. \A i \in 1..Len(channel') : channel' = channel
      BY <1>4, <2>1
    <2>3. \A n \in coming' : coming' = coming
      BY <1>4
    <2>4. \A i \in 1..Len(channel') : viewed' = viewed
      BY <1>4, <2>1
    <2>5. \A n \in coming' : viewed' = viewed
      BY <1>4
    <2>6. QED BY <2>2, <2>3, <2>4, <2>5 DEF ComingInv
  <1>5. \/ \E n \in Names : Collect(n)
        \/ Deliver
        \/ SearchMeta
        \/ channel' \in {channel, <<>>} /\ coming' \in {coming, {}}
           /\ (viewed' = viewed \/ (channel' = <<>> /\ coming' = {}))
    BY DEF Next, vars, Commit, Search, SearchDone, SearchFail, ToggleLive, FeedOpen, FeedError,
           FeedRefused, GapTimer, Merge, ServeWatch, WatchRows, WatchTruncated, WatchFail,
           ServerCrash, Run, CloseFeed, StartFeed, streamVars, viewVars, searchVars
  <1>6. QED BY <1>1, <1>2, <1>3, <1>4, <1>5

\* How the rows of the page change: a name is added only when a search or the
\* stream brings it, or an answer of catchUp, and a search takes them all away.
LEMMA RowSteps ==
    ASSUME TypeOK, [Next]_vars
    PROVE  \/ /\ Shown' = Shown
              /\ UNCHANGED <<viewed, known, partial, crossed, coming, cut, lastSeq, phase>>
           \/ /\ rows' = {} /\ freshRows' = {} /\ ~crossed' /\ phase' = "asked"
              /\ viewed' \in Apexes \cup {None} /\ UNCHANGED known
           \/ SearchMeta /\ Shown' = Shown /\ UNCHANGED known
           \/ /\ phase = "streaming" /\ phase' = "idle"
              /\ Shown' = Shown \cup coming /\ known' \subseteq Shown'
              /\ UNCHANGED <<viewed, partial, crossed, cut, lastSeq>>
           \/ /\ partial' /\ Shown' \subseteq Shown \cup coming
              /\ UNCHANGED <<viewed, crossed, known>>
           \/ /\ channel # <<>> /\ Shown' = Shown \cup ({Head(channel)} \ known)
              /\ known' = known \cup {Head(channel)}
              /\ UNCHANGED <<viewed, partial, crossed, coming, cut, lastSeq, phase>>
           \/ /\ watch # None /\ watch.served /\ ~watch.truncated
              /\ Shown' = Shown \cup (watch.names \ known)
              /\ known' = known \cup watch.names
              /\ lastSeq' = watch.maxSeq /\ (crossed' <=> crossed \/ watch.old)
              /\ UNCHANGED <<viewed, partial, coming, cut, phase>>
  <1>1. CASE UNCHANGED <<viewed, rows, freshRows, known, partial, crossed, coming, cut, lastSeq,
                         phase>>
    BY <1>1 DEF Shown
  <1>2. CASE Merge
    BY <1>2 DEF Merge, Shown, searchVars, histVars
  <1>3. CASE \/ \E a \in Apexes : Search(a)
             \/ WatchTruncated
    BY <1>3 DEF Search, WatchTruncated, Run, TypeOK
  <1>4. CASE SearchMeta
    BY <1>4 DEF SearchMeta, Shown
  <1>5. CASE SearchDone
    BY <1>5 DEF SearchDone, Shown, histVars
  <1>6. CASE SearchFail
    BY <1>6 DEF SearchFail, Shown
  <1>7. CASE Deliver
    BY <1>7 DEF Deliver, Receive, Shown, searchVars, histVars
  <1>8. CASE WatchRows
    <2>1. /\ watch # None /\ watch.served /\ ~watch.truncated
          /\ known' = known \cup watch.names
          /\ lastSeq' = watch.maxSeq /\ (crossed' <=> crossed \/ watch.old)
          /\ UNCHANGED <<viewed, partial, coming, cut, phase>>
      BY <1>8 DEF WatchRows, searchVars
    <2>2. \/ rows' = rows \cup (freshRows \cup (watch.names \ known)) /\ freshRows' = {}
          \/ freshRows' = freshRows \cup (watch.names \ known) /\ rows' = rows
      BY <1>8 DEF WatchRows
    <2>3. Shown' = Shown \cup (watch.names \ known)
      BY <2>2 DEF Shown
    <2>4. QED BY <2>1, <2>3
  <1>9. \/ UNCHANGED <<viewed, rows, freshRows, known, partial, crossed, coming, cut, lastSeq,
                       phase>>
        \/ Merge \/ SearchMeta \/ SearchDone \/ SearchFail \/ Deliver \/ WatchRows
        \/ WatchTruncated
        \/ \E a \in Apexes : Search(a)
    BY DEF Next, vars, Collect, Commit, ToggleLive, FeedOpen, FeedError, FeedRefused, GapTimer,
           ServeWatch, WatchFail, ServerCrash, viewVars, searchVars, histVars
  <1>10. QED BY <1>1, <1>2, <1>3, <1>4, <1>5, <1>6, <1>7, <1>8, <1>9

\* knownLc holds only rows of the page once a search is done: rebuildKnown.
LEMMA KnownNext ==
    ASSUME TypeOK, KnownInv, [Next]_vars
    PROVE  KnownInv'
  <1>1. SearchMeta => phase' # "idle"
    BY DEF SearchMeta
  <1>2. CASE SearchMeta
    BY <1>1, <1>2 DEF KnownInv
  <1>3. CASE ~SearchMeta
    BY <1>3, RowSteps DEF KnownInv
  <1>4. QED BY <1>2, <1>3

\* Only an answer to a request that an older view made brings a name of another
\* apex.
LEMMA ApexNext ==
    ASSUME TypeOK, RequestInv, ComingInv, OnlyLateAnswersMixApexes, [Next]_vars
    PROVE  OnlyLateAnswersMixApexes'
  <1>1. CASE rows' = {} /\ freshRows' = {}
    BY <1>1 DEF OnlyLateAnswersMixApexes, Shown
  <1>2. ASSUME UNCHANGED viewed, crossed => crossed',
               \A n \in Shown' \ Shown : ApexOf[n] = viewed \/ crossed'
        PROVE  OnlyLateAnswersMixApexes'
    BY <1>2 DEF OnlyLateAnswersMixApexes
  <1>3. \A n \in coming : ApexOf[n] = viewed
    BY DEF ComingInv
  <1>4. channel # <<>> => ApexOf[Head(channel)] = viewed
    <2>1. channel \in Seq(Names)
      BY DEF TypeOK
    <2>2. channel # <<>> => 1 \in 1..Len(channel) /\ Head(channel) = channel[1]
      BY <2>1
    <2>3. QED BY <2>2 DEF ComingInv
  <1>5. watch # None => \A n \in watch.names : ApexOf[n] = viewed \/ watch.old
    BY DEF RequestInv
  <1>6. SearchMeta => UNCHANGED <<viewed, crossed>>
    BY DEF SearchMeta
  <1>7. QED BY <1>1, <1>2, <1>3, <1>4, <1>5, <1>6, RowSteps

\* The cursor moves only to numbers whose names have come with it.
LEMMA CoverNext ==
    ASSUME TypeOK, RequestInv, AnswerInv, KnownInv, CursorCoversThePage, [Next]_vars
    PROVE  CursorCoversThePage'
  <1>1. /\ committed \in Nat /\ lastSeq \in 0..committed
        /\ \A k \in 1..committed : log'[k] = log[k]
    BY LogKept DEF TypeOK
  <1>2. \A k \in 1..lastSeq : log'[k] = log[k]
    BY <1>1
  <1>3. CASE phase' = "asked" \/ partial' \/ crossed'
    BY <1>3 DEF CursorCoversThePage
  <1>4. ASSUME UNCHANGED <<viewed, lastSeq>>, phase = "asked" => phase' = "asked",
               partial => partial', crossed => crossed',
               Shown \cup coming \cup cut \subseteq Shown' \cup coming' \cup cut'
        PROVE  CursorCoversThePage'
    BY <1>2, <1>4 DEF CursorCoversThePage
  <1>5. CASE SearchMeta
    <2>1. /\ UNCHANGED <<log, viewed>>
          /\ \A k \in 1..lastSeq' : ApexOf[log[k]] = viewed => log[k] \in coming' \cup cut'
      BY <1>5, FoundBySearch
    <2>2. QED BY <2>1 DEF CursorCoversThePage
  <1>6. ASSUME watch # None, watch.served, ~watch.truncated,
               Shown' = Shown \cup (watch.names \ known), lastSeq' = watch.maxSeq,
               crossed' <=> crossed \/ watch.old,
               UNCHANGED <<viewed, partial, coming, cut, phase>>,
               ~partial, ~crossed'
        PROVE  CursorCoversThePage'
    <2>1. /\ ~watch.old /\ ~crossed
          /\ watch.apex = viewed /\ watch.after = lastSeq /\ phase = "idle"
          /\ watch.maxSeq \in 0..committed
      BY <1>6 DEF RequestInv
    <2>2. known \subseteq Shown
      BY <1>6, <2>1 DEF KnownInv
    <2>3. ASSUME NEW k \in 1..lastSeq', ApexOf[log'[k]] = viewed
          PROVE  log'[k] \in Shown' \cup coming' \cup cut'
      <3>1. log'[k] = log[k]
        BY <1>1, <1>6, <2>1, <2>3
      <3>2. CASE k \in 1..lastSeq
        <4>1. log[k] \in Shown \cup coming \cup cut
          BY <1>6, <2>1, <2>3, <3>1, <3>2 DEF CursorCoversThePage
        <4>2. QED BY <1>6, <3>1, <4>1
      <3>3. CASE k \in watch.after + 1..watch.maxSeq
        <4>1. log[k] \in watch.names
          BY <1>6, <2>1, <2>3, <3>1, <3>3 DEF AnswerInv
        <4>2. QED BY <1>6, <2>2, <3>1, <4>1
      <3>4. k \in 1..lastSeq \/ k \in watch.after + 1..watch.maxSeq
        BY <1>1, <1>6, <2>1
      <3>5. QED BY <3>2, <3>3, <3>4
    <2>4. QED BY <1>6, <2>3 DEF CursorCoversThePage
  <1>7. CASE /\ Shown' = Shown
             /\ UNCHANGED <<viewed, known, partial, crossed, coming, cut, lastSeq, phase>>
    BY <1>4, <1>7
  <1>8. CASE /\ phase = "streaming" /\ Shown' = Shown \cup coming
             /\ UNCHANGED <<viewed, partial, crossed, cut, lastSeq>>
    BY <1>4, <1>8
  <1>9. CASE /\ Shown' = Shown \cup ({Head(channel)} \ known)
             /\ UNCHANGED <<viewed, partial, crossed, coming, cut, lastSeq, phase>>
    BY <1>4, <1>9
  <1>10. CASE /\ watch # None /\ watch.served /\ ~watch.truncated
              /\ Shown' = Shown \cup (watch.names \ known)
              /\ lastSeq' = watch.maxSeq /\ (crossed' <=> crossed \/ watch.old)
              /\ UNCHANGED <<viewed, partial, coming, cut, phase>>
    BY <1>3, <1>6, <1>10
  <1>11. QED BY <1>3, <1>5, <1>7, <1>8, <1>9, <1>10, RowSteps

-----------------------------------------------------------------------------
(* The types *)

\* The names that come in are names.
LEMMA RowTypes ==
    ASSUME TypeOK, RequestInv, [Next]_vars
    PROVE  {rows', freshRows', known', coming'} \subseteq SUBSET Names
  <1>1. /\ {rows, freshRows, known, coming} \subseteq SUBSET Names
        /\ channel \in Seq(Names)
    BY DEF TypeOK
  <1>2. CASE SearchMeta
    BY <1>1, <1>2, FoundBySearch DEF SearchMeta
  <1>3. CASE Deliver
    <2>1. Head(channel) \in Names
      BY <1>1, <1>3 DEF Deliver
    <2>2. QED BY <1>1, <1>3, <2>1 DEF Deliver, Receive, searchVars
  <1>4. CASE WatchRows
    <2>1. watch.names \subseteq Names
      BY <1>4 DEF WatchRows, RequestInv, Requests
    <2>2. /\ known' = known \cup watch.names /\ coming' = coming
          /\ rows' \subseteq rows \cup freshRows \cup watch.names
          /\ freshRows' \subseteq freshRows \cup watch.names
      BY <1>4 DEF WatchRows, searchVars
    <2>3. QED BY <1>1, <2>1, <2>2
  <1>5. /\ rows' \subseteq rows \cup coming \cup freshRows
        /\ freshRows' \subseteq freshRows
        /\ known' \subseteq known \cup rows'
        /\ coming' \subseteq coming
        \/ SearchMeta \/ Deliver \/ WatchRows
    BY DEF Next, vars, Collect, Commit, Search, SearchDone, SearchFail, ToggleLive, FeedOpen,
           FeedError, FeedRefused, GapTimer, Merge, ServeWatch, WatchTruncated, WatchFail,
           ServerCrash, Run, viewVars, searchVars
  <1>6. QED BY <1>1, <1>2, <1>3, <1>4, <1>5

\* The stream is open only for a page in live mode whose search is done.
LEMMA StreamTypes ==
    ASSUME TypeOK, [Next]_vars
    PROVE  /\ link' \in {"none", "connecting", "open", "failed"}
           /\ drop' \in BOOLEAN
           /\ viewed' \in Apexes \cup {None}
           /\ phase' \in {"idle", "asked", "streaming"}
           /\ liveOn' \in BOOLEAN /\ hadFeedError' \in BOOLEAN
           /\ link' # "none" => liveOn' /\ phase' = "idle"
  <1>1. /\ link \in {"none", "connecting", "open", "failed"}
        /\ drop \in BOOLEAN
        /\ viewed \in Apexes \cup {None}
        /\ phase \in {"idle", "asked", "streaming"}
        /\ liveOn \in BOOLEAN /\ hadFeedError \in BOOLEAN
        /\ link # "none" => liveOn /\ phase = "idle"
    BY DEF TypeOK
  <1>2. CASE \E n \in Names : Collect(n)
    <2>1. UNCHANGED <<link, viewed, phase, liveOn, hadFeedError>>
      BY <1>2 DEF Collect, viewVars, searchVars, liveVars
    <2>2. UNCHANGED drop \/ drop' = TRUE
      BY <1>2 DEF Collect
    <2>3. QED BY <1>1, <2>1, <2>2
  <1>3. CASE \/ Commit \/ Merge \/ ServeWatch \/ WatchRows \/ WatchFail \/ GapTimer
             \/ UNCHANGED vars
    BY <1>1, <1>3 DEF Commit, Merge, ServeWatch, WatchRows, WatchFail, GapTimer, vars,
                      streamVars, viewVars, searchVars, liveVars
  <1>4. CASE \/ \E a \in Apexes : Search(a)
             \/ WatchTruncated
    BY <1>1, <1>4 DEF Search, WatchTruncated, Run, CloseFeed, liveVars
  <1>5. CASE SearchMeta \/ SearchDone \/ SearchFail
    BY <1>1, <1>5 DEF SearchMeta, SearchDone, SearchFail, StartFeed, streamVars, liveVars
  <1>6. CASE ToggleLive
    BY <1>1, <1>6 DEF ToggleLive, StartFeed, CloseFeed, viewVars, searchVars
  <1>7. CASE FeedOpen \/ FeedError \/ FeedRefused \/ Deliver
    BY <1>1, <1>7 DEF FeedOpen, FeedError, FeedRefused, Deliver, viewVars, searchVars, liveVars
  <1>8. CASE ServerCrash
    BY <1>1, <1>8 DEF ServerCrash, streamVars, viewVars, searchVars
  <1>9. QED BY <1>2, <1>3, <1>4, <1>5, <1>6, <1>7, <1>8 DEF Next

\* The channel of the stream holds no more than Capacity names.
LEMMA ChannelTypes ==
    ASSUME TypeOK, [Next]_vars
    PROVE  channel' \in Seq(Names) /\ Len(channel') <= Capacity
  <1>1. /\ channel \in Seq(Names) /\ Len(channel) <= Capacity /\ Len(channel) \in Nat
        /\ Capacity \in Nat
    BY LiveClientAssumption DEF TypeOK
  <1>2. <<>> \in Seq(Names) /\ Len(<<>>) = 0
    OBVIOUS
  <1>3. ASSUME NEW n \in Names, channel' = Append(channel, n), Len(channel) < Capacity
        PROVE  channel' \in Seq(Names) /\ Len(channel') <= Capacity
    BY <1>1, <1>3
  <1>4. ASSUME channel' = Tail(channel), channel # <<>>
        PROVE  channel' \in Seq(Names) /\ Len(channel') <= Capacity
    BY <1>1, <1>4
  <1>5. ASSUME NEW n \in Names, Collect(n)
        PROVE  \/ UNCHANGED channel
               \/ channel' = Append(channel, n) /\ Len(channel) < Capacity
    BY <1>5 DEF Collect
  <1>6. Deliver => channel' = Tail(channel) /\ channel # <<>>
    BY DEF Deliver
  <1>7. \/ UNCHANGED channel
        \/ channel' = <<>>
        \/ \E n \in Names : Collect(n)
        \/ Deliver
    BY DEF Next, vars, Commit, Search, SearchMeta, SearchDone, SearchFail, ToggleLive, FeedOpen,
           FeedError, FeedRefused, GapTimer, Merge, ServeWatch, WatchRows, WatchTruncated,
           WatchFail, ServerCrash, Run, CloseFeed, StartFeed, streamVars
  <1>8. CASE UNCHANGED channel
    BY <1>1, <1>8
  <1>9. CASE channel' = <<>>
    BY <1>1, <1>2, <1>9
  <1>10. QED BY <1>3, <1>4, <1>5, <1>6, <1>7, <1>8, <1>9

\* The cursor is a committed number; the gap timers are counted up to their bound.
LEMMA CursorTypes ==
    ASSUME TypeOK, RequestInv, [Next]_vars
    PROVE  lastSeq' \in 0..committed' /\ timers' \in 0..MaxTimers
  <1>1. /\ committed \in Nat /\ committed' \in Nat /\ committed <= committed'
        /\ lastSeq \in 0..committed /\ timers \in 0..MaxTimers /\ MaxTimers \in Nat
    BY LogKept, LiveClientAssumption DEF TypeOK
  <1>2. lastSeq' \in 0..committed
    <2>1. CASE SearchMeta
      BY <2>1, FoundBySearch
    <2>2. CASE WatchRows
      BY <2>2 DEF WatchRows, RequestInv
    <2>3. lastSeq' \in {lastSeq, 0} \/ SearchMeta \/ WatchRows
      BY DEF Next, vars, Collect, Commit, Search, SearchDone, SearchFail, ToggleLive, FeedOpen,
             FeedError, FeedRefused, Deliver, GapTimer, Merge, ServeWatch, WatchTruncated,
             WatchFail, ServerCrash, Run, viewVars
    <2>4. QED BY <1>1, <2>1, <2>2, <2>3
  <1>3. timers' \in 0..MaxTimers
    <2>1. \/ timers' = timers
          \/ timers < MaxTimers /\ timers' = timers + 1
          \/ timers > 0 /\ timers' = timers - 1
      BY DEF Next, vars, Collect, Commit, Search, SearchMeta, SearchDone, SearchFail, ToggleLive,
             FeedOpen, FeedError, FeedRefused, Deliver, GapTimer, Merge, ServeWatch, WatchRows,
             WatchTruncated, WatchFail, ServerCrash, StartFeed, liveVars
    <2>2. QED BY <1>1, <2>1
  <1>4. QED BY <1>1, <1>2, <1>3

\* Every step keeps the types.
LEMMA TypeNext ==
    ASSUME TypeOK, RequestInv, [Next]_vars
    PROVE  TypeOK'
  <1>1. RequestInv'
    BY RequestNext
  <1>2. watch' # None =>
            /\ watch'.apex \in Apexes
            /\ watch'.after \in 1..committed'
            /\ watch'.names \subseteq Names
            /\ watch'.maxSeq \in 0..committed'
    BY <1>1 DEF RequestInv, Requests
  <1>3. QED
    BY <1>2, LogKept, RowTypes, StreamTypes, ChannelTypes, CursorTypes DEF TypeOK

-----------------------------------------------------------------------------
(* The theorems *)

\* The initial state.
LEMMA InitInv == Init => Inv
  <1> SUFFICES ASSUME Init PROVE Inv
    OBVIOUS
  <1>1. /\ <<>> \in Seq(Names) /\ Len(<<>>) = 0
        /\ Capacity \in Nat /\ MaxTimers \in Nat
    BY LiveClientAssumption
  <1>2. TypeOK
    <2>1. log \in Seq(Names) /\ committed \in 0..Len(log)
      BY <1>1 DEF Init
    <2>2. channel \in Seq(Names) /\ Len(channel) <= Capacity
      BY <1>1 DEF Init
    <2>3. lastSeq \in 0..committed /\ timers \in 0..MaxTimers
      BY <1>1 DEF Init
    <2>4. {rows, freshRows, known, coming} \subseteq SUBSET Names
      BY DEF Init
    <2>5. QED BY <2>1, <2>2, <2>3, <2>4 DEF Init, TypeOK
  <1>3. RequestInv /\ AnswerInv
    BY DEF Init, RequestInv, AnswerInv
  <1>4. ComingInv /\ KnownInv
    BY <1>1 DEF Init, ComingInv, KnownInv
  <1>5. OnlyLateAnswersMixApexes
    BY DEF Init, OnlyLateAnswersMixApexes, Shown
  <1>6. CursorCoversThePage
    BY DEF Init, CursorCoversThePage
  <1>7. QED BY <1>2, <1>3, <1>4, <1>5, <1>6 DEF Inv

\* The invariant holds of every behaviour of the page and its server.
THEOREM InvariantHolds == Spec => []Inv
  <1>1. Inv /\ [Next]_vars => Inv'
    BY TypeNext, RequestNext, AnswerNext, ComingNext, KnownNext, ApexNext, CoverNext DEF Inv
  <1>2. QED BY <1>1, InitInv, PTL DEF Spec

\* The variables keep their types: the cursor is always a committed number, and
\* the stream is open only in live mode, after a search.
THEOREM TypeCorrect == Spec => []TypeOK
  <1>1. Inv => TypeOK
    BY DEF Inv
  <1>2. QED BY <1>1, InvariantHolds, PTL

\* The cursor (x-max-seq, lastSeq): no committed name of the viewed apex lies at
\* or below it without being on the page, on its way or cut off.
THEOREM CursorCovers == Spec => []CursorCoversThePage
  <1>1. Inv => CursorCoversThePage
    BY DEF Inv
  <1>2. QED BY <1>1, InvariantHolds, PTL

\* run: only a late answer of catchUp puts a name of another apex on the page.
THEOREM ApexesStayApart == Spec => []OnlyLateAnswersMixApexes
  <1>1. Inv => OnlyLateAnswersMixApexes
    BY DEF Inv
  <1>2. QED BY <1>1, InvariantHolds, PTL
=============================================================================
