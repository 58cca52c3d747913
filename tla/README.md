# subidx in TLA+

subidx follows Certificate Transparency logs, keeps every host name it finds in
an embedded database, and answers searches, statistics and live feeds over HTTP.
This directory holds TLA+ modules of its parts, TLC configurations that check
them on small instances, and TLAPS proofs for every instance of what can be proved. Paths
below are relative to `src/`.

## Inventory

| Component | State | Operations | Correct when |
|---|---|---|---|
| Store (`internal/store/store.go`) | records, counters, total, sequence number and watermarks on disk; a batch, a cache of pending records, counters and marks in the ingest loop; a bounded queue; the closed flag | Open, Ingest, AdvanceWatermark, Recount, Close; the loop's handling, flush, tick, drain | numbers are distinct; a flush is all or nothing; names keep their number and earliest date; a cursor misses nothing; counters never exceed the truth and a recount repairs them; shutdown commits what was accepted |
| Tailers (`internal/tailer/tailer.go`) | per log: watermark, drain target, position, entries of a window | Sync, tailOne, fetchRange | no watermark runs ahead of its data or moves back; everything is stored in the end |
| Rate limiter (`internal/server/limiter.go`) | per shard: a bounded map of hit lists | Allow, sweep | at most the limit per window; bounded memory; Retry-After is long enough |
| Live feed (`internal/server/feed.go`) | the hub's subscriptions, a channel and a flag each; the counter of streams | Broadcast, Subscribe, Unsubscribe, Close, handleFeed | a dropped name leads to a resync; streams are bounded; no send on a closed channel; shutdown ends streams |
| Page (`frontend/src/App.svelte`, `lib/api.ts`) | rows, fresh rows, known names, cursor, one search, one catch-up, one stream | run, toggleLive, catchUp, receiveFresh, mergeFresh | the cursor covers the page; a live page learns every name |
| Search, watch (`server.go`, `feed.go`, the reads of `store.go`) | none; iterators on the database | handleSearch, handleWatch, Scan, ScanAfter, Count | an answer is a snapshot with a cursor, and polling from it misses nothing; no read meets a closed database |
| Statistics (`internal/server/server.go`) | a cached answer per `n` | handleStats | a cached answer is recent, whichever request stored it |
| Log lists (`internal/loglist`) | none; the merged list | FetchAll | every log of a list that could be read is followed once |
| Log client, Merkle proofs (`internal/rfc6962`) | none | STH, Entries, ProofByHash, VerifySTH, VerifyInclusion | a proof is accepted exactly for what the root commits to |
| Certificates (`rfc6962/leaf.go`, `tbs.go`) | none | DecodeLeafEntry, iterDER, parseSCTList | a whole entry gives its names and its earliest date; a broken one is refused |
| Names (`internal/apex`) | none | dedupeLower, Canonical, ApexOf, Normalize, ValidateApex | what is stored is what a query can ask for |
| Process (`main.go`) | signals, the context, the stop channels | serve, tail, stats | parts stop in an order that loses nothing |

How they meet: a tailer calls `Ingest` for the names of a window and then
`AdvanceWatermark`; both go through the store's queue to the one goroutine that
owns the batch. For each new name that goroutine calls `OnNew`, which broadcasts
to the hub, before the batch is committed. Handlers read the database while the
loop writes it. Shutdown closes Stop, the hub, the HTTP server, cancels the
tailers, waits for them at most ten seconds and closes the store.

What is hard: the batch makes memory and disk differ until a flush, and a crash
or shutdown falls in between; callers, `Close` and the loop share a flag and a
queue; tailers may outlive the wait and still send; broadcaster and handler meet
at a full channel; requests read the clock before the limiter's lock; the page
applies answers long after it asked. `PROJECT.json` lists each hazard at its line.

## Modules

| Module | Models | Uses |
|---|---|---|
| `DurableIndex` | what the store promises: an index in memory and one on disk; Put, Mark, Commit, Crash | |
| `Store` | the whole store | `DurableIndex` by a refinement mapping |
| `StoreProofs` | theorems about `Store`, and about its counters | `Store` |
| `Ingest` | tailers and the process's shutdown on top of the store | `Store` |
| `IngestProofs` | theorems about `Ingest` | `Ingest`, `StoreProofs` |
| `Serve` | the process in each of its commands, with the store and clients that search and poll | `Store` |
| `ServeProofs` | theorems about `Serve` | `Serve`, `StoreProofs`, `NaturalLemmas` |
| `FeedStream` | what a live stream promises: every name in order, or a resync before it goes on | |
| `Feed` | the ingest loop's broadcast, the hub and the streams | `FeedStream` by a refinement mapping |
| `FeedProofs` | theorems about `Feed` | `Feed` |
| `LiveClient` | one page against a server seen from outside | |
| `LiveClientProofs` | theorems about `LiveClient` | `LiveClient`, `NaturalLemmas` |
| `Limiter` | the rate limiter | |
| `StatsCache` | the cache of `/v1/stats` | |
| `Merkle` | the check of an audit path | |
| `MerkleProofs` | theorem about `Merkle` | `Merkle`, `NaturalLemmas` |
| `LogList` | the merge of the log lists, and what Sync makes of it | |
| `Entry` | what is read of one entry of a log, octet by octet | |
| `HostNames` | a name on its way into the store, and a query for its apex | |
| `PartsProofs` | theorems about the limiter, the statistics, the log lists and the names | `Limiter`, `StatsCache`, `LogList`, `HostNames`, `NaturalLemmas` |
| `NaturalLemmas` | least and largest numbers, induction over sets, runs of steps | |
| `MCStore`, `MCIngest`, `MCServe`, `MCFeed`, `MCLiveClient` | constants for TLC | the module they are named after |
| `MCParts` | constants for TLC | `Limiter`, `StatsCache`, `Merkle`, `LogList`, `Entry`, `HostNames` |

Definitions whose name ends in `_Something` after a definition's name, and whose
comment begins with *Mutant*, are wrong variants used to test that the properties
can fail; no specification uses them.

### Store

`db` is what Pebble holds: one record per name (date and number), a counter per
apex, the total, the sequence number and the watermarks. `batch` is the write
batch; `cache`, `counts`, `total`, `base`, `marks` and `high` are pendingRecords,
pendingCounts, pendingTotal, totalBase, pendingWM and wmHigh; `seq` and `pending`
keep their names. Every case of `ingestLoop`'s select is an action; a full
batch is flushed in an action of its own (`FlushFull`) that must come before the
loop receives again, because callers and readers may run in between.
`BeginSend` reads the closed flag, `CompleteSend` and `RefuseSend` are the two
outcomes of the select in `sendOp`; `CloseMark` and `CloseQuit` are the two steps of
`Close`. `RecountChunk` commits one chunk of counters. `Exit` and `Crash` end the
process, `Open` starts the next one from `db`.

Data is abstracted to names, apexes and dates. `FailingReads` says which reads of
the database may fail, or find a value that is corrupt: `DropRecord` is a record that is
then lost; counters, and at Open the total and the last number, then start from zero
(`ReadOrZero`); `RecountFails` is the scan of a recount, whose caller is answered with an
error while everything stays as the flush before it left it; a tailer whose watermark cannot be read
gives up. What rests on distinct numbers is stated under `SeqIsRead`, that the last number
is not among the reads that fail. `SetWatermarkSync` is called by tests only and is left out.

### Ingest

One process per log: `StartTailer` (the drain target of a frozen log is its size, or missing if
the final tree head cannot be had: `DrainTargets`), `Poll` (tree head, retry),
`Fetch` (one to `Window` entries, more of them than were asked for if the log answers so, or a failure through `EndRange`), `SendName`
and `NameSent` around the store's queue, `EndWindow`, `SendMark`, `MarkSent`. `Grow` is the log
publishing an entry. `Cancel`, `Shutdown` and `StopProcess` are main's shutdown;
`Shutdown` need not wait for the tailers, because main waits ten seconds only. `lost`
is history: names that a failed read has dropped and nobody has stored since.

### Serve

`Start` opens the store for one of four commands: serve, serve -no-tail, tail,
stats. `Signal`, `HttpStopped`, `TailersStopped`, `CloseStore`, `ClosePebble` and
`MainReturns` are the shutdown in the order of `cmdServe`; the 30 seconds of
`Shutdown` and the ten of the wait may pass at any time, and `late` and `hurried`
remember that they did. `AskRecount` and `StatsDone` are `cmdStats`. `Die` is a crash,
and also what a failing listener is to the store: `cmdServe` returns without closing it.
A tailer is reduced to a goroutine that sends records.

A client searches an apex and then polls with the cursor it got. `OpenIter` fixes what
an iterator of Pebble reads, a snapshot; `OpenGet` is `getRaw`, which holds the mutex
that `Close` needs. `Scan` takes the keys of the apex to
the heap of the newest rows one by one (`Push`), in the order `KeyOrder` in which the iterator yields
them, `WatchAnswer` is `ScanAfter`.
`known` and `cut` are history: the names a client was sent, and those its answers had
no room for.

### Limiter

`Arrive` reads the clock; `Admit`, `DenyRate` and `DenyFull` are what Allow does under the
shard's lock, any number of ticks later. `SweepShard` is one turn of the sweeper's
loop with the cutoff it computed at its start. `admitted`, `newest` and `retryAt`
are history: all the requests let through, of which `InWindow` are those that the newest window counts.

### Feed

`OnNew` takes the hub's lock and fixes who is to be offered the name; `Offer`,
`Miss` and `Flag` are the branches of Broadcast's select, the flag raised in a step
of its own. Each session follows handleFeed: count, refuse or subscribe, receive,
write (the flag is swapped there), leave, unsubscribe, count back. `since`,
`written`, `resynced` and `found` are history. A session is a slot that is reused.

`FeedStream` is the promise the API section of the README of the code makes to a client,
without hub, channels and flags: names in the order of their numbers, each once, and a gap only
after a resync that came when every name of the gap had been found. `Feed` implements it.

### LiveClient

`Run` is the synchronous part of `run`; `SearchMeta`, `SearchDone` and
`SearchFail` are its answer. `CatchUp` is the guard and request of `catchUp`,
`ServeWatch` its reading of the database, `WatchRows`, `WatchTruncated` and
`WatchFail` what the page does with the answer. The stream has the channel, flag
and resync of `Feed` in the coarser form a page can observe: a name is handed over
and handled in one step. `partial`, `crossed` and `cut` are history: they mark a view whose
search failed, one that received an answer asked for by an older view, and the rows
a search had no room for.

### StatsCache

`Hit` and `Miss` are the look into the cache under the mutex, `ReadTotal`, `StatsFails`
and `Put` the rest of a request that missed, outside it until it stores its answer. An
answer is the time of its first read. `freshest` and `slowest` are history.

### Merkle

`Begin`, `Hash`, `Climb` and `Finish` are the parts of `VerifyInclusion`: the checks, the hash of
one node of the path, the shifts of one level (the body of the inner loop, or those behind
it), the end. SHA-256 is a free constructor: `Leaf` and `Node` build terms, and two
terms are equal only if they were built alike. The reference is the recursive tree
and path of RFC 6962, section 2.1, which the code never builds. The inputs are what
`spotCheck` passes on: the size and root of a signed head, and any leaf hash, index
and path: the index may be negative or past the end, the nodes are taken from all hashes of that tree, a
foreign leaf and a string that is no hash.

### LogList

A round asks the sources in turn; each answers with a list (`ListAnswer`), fails
(`SourceFails`) or is not asked any more after a cancellation (`FetchCancelled`).
`MergeLog` merges the entries of an answer, `left`, one by one before the next source is asked;
`AddLog` is the merge of one entry, `read` the history of those merged. `Sync` walks over the merged logs
one by one: `StartLog` puts a log into the set `started` and gives it a tailer, `PassLog` leaves it. `EndRound` is its
return, `Refresh` the hourly ticker. `tailers` and `offered` are history: the state in which each
tailer of a log was started, one for each start, and the state in which the
answers of each round, read without the merge, wanted the log to be read. A log keeps the states of the first list
that names it: a log that one list calls retired and a later one usable is not
followed, and `ListedLogsAreFollowed` says no more than that.

### Entry

Octets are numbers. `Encoded` is the log's side: a leaf with its kind, date, list of
alternative names and list of SCTs, in the encoding of RFC 6962 and DER, broken off anywhere.
`DecodeLeafEntry` down to `ReadTLV` are the readers of `leaf.go` and `tbs.go`, with the
same lengths compared in the same order; `asn1.Unmarshal` and `x509.ParseCertificate` are external.
`Date` is the choice of the date in `fetchRange`. A hash has 3 octets instead of 32
and a timestamp 2 instead of 8, with the sign bit where it is in an int64.

### HostNames

A name is the sequence of its labels, and a label is a word that stands for its kind: plain,
upper case, unicode, with a control byte, with an underscore, too long, empty, written from right to left.
`StoreName` is dedupeLower, Canonical and ApexOf one after the other; `Asked` is Normalize
and ValidateApex. IDNA is the table `Ascii`, the Public Suffix List the set
`PublicSuffixes`, both external. The two profiles of `apex.go` map labels alike, but only that of the queries
(`idna.Lookup`) has the Bidi rule, `ObeysBidi`: a name with a label written from right to left is then
refused if another of its labels, such as one that begins with a digit, does not go with it. Storing
(`idna.MapForLookup`) does not ask. `TablesAssumption` says what is assumed of the tables: that IDNA keeps
what it has given, which is ASCII in lower case, that upper case makes no difference to it, that it refuses a
wildcard and service labels, and that only letters of ASCII have another lower case. Nothing is assumed of
the suffixes or of which labels the Bidi rule is about. TLC evaluates the assumption on the tables of `MCParts`.

## Runs

| Run | Checks | Bounds | Shows |
|---|---|---|---|
| `store_records` | TypeOK, SeqsDistinct, CountersNeverOvercount, CursorMissesNothing, StoredNamesAreKept, OnlyShutdownBreaksCounts, RecountRepairs, RecountsAreAnswered | three names, two apexes, two dates, two callers, queue of one, batch of two, chunks of one counter, three records; or one name with its watermarks and one caller; reads of records, of the total and of a recount's scan may fail; fairness | records, numbers and counters over flushes, recounts, shutdowns, crashes, restarts; a recount is answered, whatever is queued before it and whichever of its chunks is under way |
| `ingest` | WatermarkCovered, WatermarkNeverMovesBack | two logs that share a name, one of them frozen; reads of records, marks and the last number may fail; one restart | watermarks and data stay together |
| `ingest_progress` | StopLeavesNothingBehind, EverythingIsStored, ImplementsIndex | one growing log, at most two restarts, fairness | every entry becomes durable; the store with its tailer implements `DurableIndex` |
| `serve` | PollerMissesNothing, ReadsOutliveClose, OrderlyStopLosesNothing, TotalCountsTheRows, SendersReturn, EveryStopEnds | two names, two tailers, one client, answers of one row, queue of one, fairness | cursors, shutdown and reads against each other; nobody waits for ever |
| `feed` | TypeOK, NothingIsForgotten, StreamsAreCounted, HubHoldsOpenChannels, StopEndsStreams, ImplementsStream | two streams at most, channels of one; three sessions and two names, or two sessions and three names; fairness | the protocol of flag and resync, counting, closing, shutdown; `Feed` implements `FeedStream` |
| `live_page` | TypeOK, CursorCoversThePage, OnlyLateAnswersMixApexes, LivePageLearns | three names of one apex and an apex without any, three moves, answers of one row, one restart, fairness | the cursor never passes a name the page lacks; live mode catches up |
| `parts` | TypeOK, WindowBounded, BucketsBounded, RetryAfterIsEnough; CachedAnswersAreRecent; AcceptsExactlyProofs; MergedIsTheUnion, ListedLogsAreFollowed, OneTailerPerLog; ReadAsEncoded; StoredIsSearchable | see below | the limit, memory and Retry-After; the age of statistics; a proof is accepted exactly for what the root commits to; every log that can be read from a list is followed, by one tailer over all rounds; dates and names of entries; names and queries |

`MCParts` checks six modules that share no state in one run: a behaviour of its
specification is one of them, never an interleaving. Their bounds: two keys of one shard,
two handlers, limit 2, window 2 s, room for one key, 4 s; two requests for two values
of `n`, a TTL of 2 in 5 ticks; trees of up to five leaves, paths of up to four
nodes; two logs, three lists, two rounds; entries of three kinds with dates of either
sign, names of 1, 120 and 150 octets (so that lengths take one, two and three octets), up
to three SCTs, broken off at every octet; all names of up to four of 16 labels, two of which
do not go together under the Bidi rule.

`MCStore` bounds a behaviour in one of two ways (`marked`): watermarks and one name from one caller, or
records of three names and recounts from two. Watermarks among many records are what `ingest` is about.

`MCFeed` bounds a behaviour in one of two ways (`crowded`), because three sessions with
three names are too many states: three sessions are needed to compete for two
streams, three names for one to follow a gap. All names are of one apex, so one order
of them stands for every order.

The bounds are the smallest at which each mechanism works more than once or at
its limit: a batch that fills and one that does not, a second flush after the
first, a queue and a channel that are full, a shard with one key too many, a range
of more than one window, an answer that is truncated. In `MCIngest` and `MCIngestLive`
the bound on restarts lets the system stop, and in `MCParts` time, a verdict, a
cancellation or a stored name is an end, so deadlock is not checked there.

Five runs state a claim of the repository that the code does not keep; TLC's
counterexamples are the evidence.

| Run | Claim | What happens |
|---|---|---|
| `store_total` | the total is the number of records | `flush` zeroes the pending total without adding it to its base |
| `store_shutdown` | a shutdown loses no accepted write | a sender that passed the closed flag wins its send after the drain |
| `ingest_first_seen` | duplicates keep the earliest date | a lowered date is not put into the cache, so a third sighting in the batch undoes it |
| `feed_gap` | slow consumers get a resync instead of gaps | the resync can precede the commit, or never be sent |
| `store_numbers` | a watch returns the names collected since its cursor | Open ignores a failed read of the last number and goes on from 0 |

More are stated by what a passing property has to except.

- Numbers are distinct and cursors miss nothing (`SeqsDistinct`, `CursorMissesNothing`,
  `PollerMissesNothing`, `ImplementsIndex`) as long as Open can read the last number; `store_numbers`
  shows what happens otherwise. The runs of these properties let other reads fail but not that one.
- Counters are exact except after a shutdown (`OnlyShutdownBreaksCounts`): a new record
  handled after Close has set the closed flag overwrites its apex counter with 1. It takes no
  crash: an orderly stop does it, and `TotalCountsTheRows` therefore speaks of
  a counter that is right.
- A watermark covers its data (`WatermarkCovered`) except the names that a failed read has
  dropped, although `store.go:280` says that a crash can never persist the marker without its records.
- A cached statistic is younger than `statsCacheTTL` plus the time its computation took
  (`CachedAnswersAreRecent`): it is stamped when it is stored, and a slow request may
  replace a newer answer by an older one. The comment at `server.go:43` speaks of the TTL alone.
- A process that is told to stop reaches the end of Close (`EveryStopEnds`), with
  -no-tail always after the ten seconds, for nobody closes `tailerDone` (`main.go:123`).
- A read meets a closed database only if `Shutdown` gave up on its request
  (`ReadsOutliveClose`): `Scan`, `ScanAfter` and `top` do not look at the closed flag.
- SCT dates are read only from a list that stands in the extension as it is
  (`ReadAsEncoded`, `DatesOf`). RFC 6962, section 3.3, wraps it in an OCTET STRING; then the tag 4
  is taken for the first octet of the length, the list seems too short, and no
  date is read. A negative date of the entry itself hides the dates of its SCTs.
- A stored name can be searched (`StoredIsSearchable`) unless its apex has a label that
  only storing accepts, such as one with an underscore, breaks the Bidi rule, or is for special use;
  then no spelling of it is a query (`OnlyStored`). `README.md:47` says of the names of certificates "reserved names
  rejected": the special-use suffixes are looked at in `Normalize` only, so that a.local is stored.
- A page shows one apex (`OnlyLateAnswersMixApexes`) except after an answer to
  `catchUp` that arrives when the user has gone on; such an answer may also move the cursor
  past names the page lacks.
- A live page learns every name (`LivePageLearns`) if it has a cursor: `catchUp` returns at
  once when `lastSeq` is 0 (`App.svelte:273`), so that a page whose search failed has no
  backfill, although the comments at 205 and 214 rely on it.

## Fairness

Goroutines run on when they can: weak fairness of the loop, of `Close`, of each
handler. A blocked sender competes with others for the queue, and Go's channels
are first in, first out: strong fairness of its send. In `FairIngestSpec` a log
serves its latest tree head again and again and not every request fails (strong
fairness of the polls and fetches that succeed), and the operator starts the process
again at most `MaxRestarts` times. In `Serve` main goes on up to the end of Close, its
timeouts pass, handlers return, and a cancelled tailer that is not sending returns;
that the process then ends, or starts again, is not assumed. In `Feed` the broadcaster goes on, a handler
goes on with what it has to do, and nothing makes a client connect or leave. In `LiveClient` every stream ends (the server's
WriteTimeout of 60 s), EventSource connects again, and a request that is made
again and again is answered in the end; a stream answered other than 200 never
comes back and is excluded from the property.

## Proofs

Everything below is proved for all values of the constants that satisfy the assumptions the modules
name, with no bound on crashes, restarts, rounds or requests other than the constants themselves.
Two hypotheses go beyond that, named at the theorems that have them: that counters can be read, and
(`SeqIsRead`) that Open can read the last number. Both say which reads `FailingReads` leaves out; the theorems
without them hold whatever reads fail. A behaviour in which no read of the last number fails is one
of the instance with `"seq" \notin FailingReads`, so that they also speak of each such behaviour of the
code.

### The store

`StoreProofs`, for all names, apexes, dates, callers and bounds that
satisfy `SizesAssumption`, `DataAssumption` and `NoneAssumption`:

| Theorem | States |
|---|---|
| `TypeCorrect` | `[]TypeOK` |
| `InvariantHolds` | `[](TypeOK /\ StoreInv)` |
| `NumbersAreDistinct` | `[]SeqsDistinct`, if the last number can be read |
| `NothingBehind` | `[]StopLeavesNothingBehind` |
| `StoredKept` | `StoredNamesAreKept`, an action property |
| `CursorsMissNothing` | `CursorMissesNothing`, an action property, if the last number can be read |
| `StoreImplementsIndex` | `ImplementsIndex`, the refinement, if the last number can be read |
| `CountersInvariant` | `[]CountersInv` |
| `CountersAreBounded` | `[]CountersNeverOvercount` |
| `RecountInvariant` | `[]RecountInv` |
| `RecountsRepair` | `RecountRepairs`, an action property |
| `OnlyAShutdownBreaksCounts` | `OnlyShutdownBreaksCounts`, an action property, if counters can be read |

The lemmas are about `FreeSpec`, a store whose callers send whenever they like; `Spec` bounds
what is in flight, and the tailers of `Ingest` keep no such bound.

None of these is inductive alone. `StoreInv` has three parts. `RecordsInv` says
what the cache and the batch are to each other and to the disk: what is in the batch is in the
cache, a stored name keeps its number there, and nothing is uncommitted in a loop that
counts records or has stopped. `NumbersInv` says that numbers in memory
are at most `seq`, numbers on disk at most the committed one, that uncommitted
new names lie above it, and that no two names share one. It is part of `StoreInv` only under
`SeqIsRead`: an Open that goes on from 0 breaks all of it, while `RecordsInv` and `MarksInv` do
not depend on it. `MarksInv` says that the last
mark the loop took for a log is the one the next commit writes. Each action preserves the parts it touches, one
step per action; the refinement then maps the flush to `Commit`, the handling of
records and marks to `Put` and `Mark`, a lost process to `Crash`, and every other
action to a stutter.

Counters have an invariant of their own, `CountersInv`: a pending counter is at most the
records of its apex in the view, the pending total at most the new names of the view,
the base at most the names on disk. A new record adds one to both sides; a counter that
starts again from zero after a failed read or during a shutdown only falls behind.
`RecountInv` says that while a recount runs the view is the disk and the chunks it has committed are exact, from which
its last step leaves every counter exact. Exact counters stay exact as long as the next value of a
counter starts from what a commit would write; a counter that cannot be read starts from
zero (`pendingCount`), hence the hypothesis `"counter" \notin FailingReads` of
`OnlyAShutdownBreaksCounts`, under which alone the property holds.

### The tailers

`IngestProofs`, for any logs, entries, windows and restarts that satisfy `TailersAssumption`:

| Theorem | States |
|---|---|
| `IngestRunsStore` | the tailers do to the store what `FreeSpec` allows |
| `IngestInvariantHolds` | `[](TypeOK /\ StoreInv /\ TailOK /\ TailInv)` |
| `WatermarksAreCovered` | `[]WatermarkCovered` |
| `WatermarksNeverMoveBack` | `WatermarkNeverMovesBack`, an action property |
| `TailersLeaveNothingBehind` | `[]StopLeavesNothingBehind` |
| `TailersImplementIndex` | `ImplementsIndex`, the refinement, if the last number can be read |

`WatermarkCovered` speaks of the disk, and the watermark passes through five places before it
gets there. `TailInv` says of each what covers it: the mark on disk is covered by the disk, the mark of
the next commit by the view, a mark in the queue by the view and the records before it in the queue,
the position of a tailer by everything it has told the loop, and a window being sent by that and the
names left to send. "Covers" includes `lost`, the names a failed read has dropped.
Since the queue is taken from its head, a step of the store either leaves the queue as it is or moves every prefix by
one (`Shift`), and no set of names in the invariant ever shrinks. `LogOrdered` says that the marks of a log grow along
the same way, so that the commit never writes one below the one on disk.

### The process, its handlers and its clients

`ServeProofs`, for any tailers, clients, commands and sizes that satisfy `ServeAssumption`:

| Theorem | States |
|---|---|
| `ServeRunsStore` | `ServeSpec => Spec`: what is proved of `Store` holds of the process |
| `ServeInvariantHolds` | `[]Inv` |
| `ReadsAreSafe` | `[]ReadsOutliveClose` |
| `OrderlyStop` | `[]OrderlyStopLosesNothing` |
| `ScanKeepsTheNewest` | what `Scan` returns, for any order of the keys |
| `ClientsInvariantHolds` | `[](StoreInv /\ ServeInv /\ ClientsInv)` |
| `PollersMissNothing` | `[]PollerMissesNothing`, if the last number can be read |
| `TotalsCountTheRows` | `TotalCountsTheRows`, an action property |

`MainInv`, `HandlersInv` and `SendersInv` tie the place main has reached to the store: it is closed only by the last
call of main; by then no handler holds the mutex, none is left unless `late`, and no tailer sends unless `hurried`.
`ClientsInv` says of every client and of every answer under way that the rows sent and the rows cut off are exactly those up to the
cursor (`UpTo`), if the last number can be read; it is kept by a commit because `NumbersInv` puts what a commit adds above
`db.seq`. That the total of an answer counts its rows needs no numbers and holds without the hypothesis. `Scan` is a
recursive function over the keys; that its heap holds the newest rows of the keys seen so far is
shown for one prefix after the other with `SetInduction`.

### The feed

`FeedProofs`, for all names, apexes, bounds on streams and capacities that satisfy
`FeedAssumption` (sessions are finitely many: the counter counts them):

| Theorem | States |
|---|---|
| `InvariantHolds` | `[]Inv` |
| `TypeCorrect` | `[]TypeOK` |
| `StreamsStayCounted` | `[]StreamsAreCounted` |
| `HubStaysOpen` | `[]HubHoldsOpenChannels` |
| `NothingGetsForgotten` | `[]NothingIsForgotten` |
| `FeedImplementsStream` | `ImplementsStream`, the refinement |

`NothingIsForgotten` is not inductive alone: a hand that holds a name outside of a write would
lose it at the next receive, which `FreshInv` excludes. Nor is it enough for the
refinement: while a flag is about to be put up it excuses every name of the stream, and a
write that comes before the flag sends no resync. `CoverInv` says it name by name: the
full channel excuses the newest name only, and a stream the hub has let go, which
`NothingIsForgotten` leaves out, is excused for the names after all it still holds.
`CastInv` says that the name on offer is owed and newer than all the stream has, `OrderInv` that
written, in hand and in the channel stand in the order of their numbers, `FreshInv` that a
session starts from nothing. The refinement maps OnNew to `Publish`, a write to `Write`,
Unsubscribe to `End` and all else to a stutter; a write is the next name because of
`OrderInv`, and what it skips is before a resync because of `CoverInv`.

### The page

`LiveClientProofs`, for any names, apexes, answers and bounds:

| Theorem | States |
|---|---|
| `InvariantHolds` | `[]Inv` |
| `TypeCorrect` | `[]TypeOK` |
| `CursorCovers` | `[]CursorCoversThePage` |
| `ApexesStayApart` | `[]OnlyLateAnswersMixApexes` |

The invariant relates a request of `catchUp` to the page as long as no search has begun since
(`RequestInv`: it was asked from the cursor the page still has), its answer to the log
(`AnswerInv`: no gap between the cursor asked with and the one it brings), what is on its way to
the apex (`ComingInv`), and `known`, by which rows are skipped, to what is shown (`KnownInv`).
Without the last, a row skipped as known would be a name that the cursor passes and the page lacks.

### The limiter, the statistics, the log lists, the names

`PartsProofs`, for any keys, shards, handlers, limit, window and bounds; any time to live; any lists; any
labels and tables that satisfy `TablesAssumption`:

| Theorem | States |
|---|---|
| `InvariantHolds` | `[]Inv` of the limiter |
| `TypeCorrect` | `[]TypeOK` |
| `ShardsAreBounded` | `[]BucketsBounded` |
| `LimitHolds` | `[]WindowBounded` |
| `RetryAfterSuffices` | `RetryAfterIsEnough`, an action property |
| `StatsAreRecent` | `[]CachedAnswersAreRecent` |
| `ListInvariantHolds` | `[]ListInv` |
| `MergedLogsAreTheUnion` | `[]MergedIsTheUnion` |
| `LogsAreFollowed` | `[]ListedLogsAreFollowed` |
| `LogsHaveOneTailer` | `[]OneTailerPerLog` |
| `StoredNamesAreSearchable` | `[]StoredIsSearchable` |

The limit is about the requests admitted, the code counts the hits in a bucket. The invariant says
that a bucket is the end of its key's admitted requests (a suffix of the sequence, although requests with an
older clock may come later), and that what is before it is older than the newest cutoff used; then at most
`Limit` of the requests of a window are not in front of the bucket. `RetryInv` says when the
bucket of a denied key has room again. For the statistics an entry of the cache is as old as the slowest
computation took when it was stored. For the lists, each merged log has the states of its first
entry and the endpoints of all of them, after every entry that is merged (`MergedInv`). From it
`OfferedLogs` gets that the merged list says of a log what the answers say without it. `FollowInv` and
`TailerInv` go with the walk: what it has passed is started if it is to be followed, and a log
has a tailer in the state of the first round that offered it, or, before this round is entered into `offered`, of the entry the walk has passed.

For the names, whatever `Canonical` lets through is made of labels that neither it nor dedupeLower
changes (`Settled`), whether IDNA has mapped the name or refused it. The apex is the end of the name from one label before
the longest listed suffix; the suffixes of an end are those of the name that fit into it, so
the longest is the same and the apex is its own (`ApexIsItsOwn`): `ValidateApex` accepts what `ApexOf` has
given. A spelling in upper case or with a dot is mapped to the apex by `Normalize` because IDNA maps
each label of the apex to itself, which is where labels that only storing accepts, and names
that break the Bidi rule, have to be left out; those are refused in every spelling, for all spellings
are mapped to the same name or, with a service label, to none (`SpellingsAreNormalized`, `ServiceLabelsAreRefused`).

### Audit paths

`MerkleProofs`, for trees of any size, any index and paths of any length:

| Theorem | States |
|---|---|
| `MerkleVerdict` | `[]AcceptsExactlyProofs` |

The reference goes down from the root and splits at the largest power of two, the code goes up from the leaf
by shifts. They meet in the position `At`: node `fn` of height `h` has below it the leaves from
`fn * 2^h` on, `2^h` of them or, at the right edge, those that are left. The invariant `MerkleInv` says that at some
height `Claim` holds of the hash and the nodes read. `Meets`: the hash is that of the tree over those leaves
if and only if the leaf and the nodes are what the log committed to, and as many nodes were read as the audit path
has up to there. That alone is not inductive: an inner node passed off as a leaf, or a path that goes on past the root, might come to
the root by another way. `Deep` (before the right edge the hash is of no tree of half the height or less)
and `OffSpine` (at the right edge it is that of no node of the edge further right) exclude it, and
`Exceeds` is what is left past the root. One lemma for each way up (`ClimbAlone`, `ClimbFromLeft`,
`ClimbFromRight`, `ClimbPastRoot`) keeps `Claim`. That the recursive functions `Tree` and `AuditPath` exist at all
is `TreeEquation` and `PathEquation`; `PathIsShorter` is why a path that ends below the root is refused rightly.

### What stays with TLC

- Liveness, which needs fairness and ENABLED: `EverythingIsStored`, `SendersReturn`, `RecountsAreAnswered`,
  `EveryStopEnds`, `StopEndsStreams`, `LivePageLearns`.
- `ReadAsEncoded`: what `Entry` reads of an encoding, which is recursive over octets. The
  induction theorems of the library take an operator as a parameter, which the provers cannot instantiate;
  `NaturalLemmas` goes around that for sets of numbers, by the least element of a set, and so do the proofs about `Merkle`.

## Not modelled, and why

- The log client: HTTP, JSON, base64 and the signatures of tree heads are external; what
  they come to is a request that answers or fails, which `Ingest` has.
- `x509.ParseCertificate`, `asn1.Unmarshal`, IDNA and the Public Suffix List are external.
- `ClientKey` and the host check are functions of strings; gzip and CORS wrap one response.
- Rendering, formatting, logging and flags.
- Of the page: the countdown after a 429, the highlighting of fresh rows, the header
  with the statistics, sorting and filtering.

## Plan

Done: every module of the table above.

Next, in this order:

1. Proofs: what the readings of `Entry` have in common without their recursion, such as that a list is
   never read past its end.
2. The page's countdown after a 429, together with the limiter.
