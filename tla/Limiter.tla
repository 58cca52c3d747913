------------------------------ MODULE Limiter ------------------------------
(***************************************************************************)
(* internal/server/limiter.go: the sliding-window rate limiter.  Each key  *)
(* hashes to a shard; a shard keeps, per key, the times of the requests it *)
(* admitted, and holds a bounded number of keys.  A request reads the      *)
(* clock before it takes the shard's lock, so requests are decided in an   *)
(* order that need not be that of their times.  The sweeper reads the      *)
(* clock once and then locks one shard after the other.                    *)
(*                                                                         *)
(* One tick of the clock is one second, the least Retry-After.             *)
(***************************************************************************)
EXTENDS Integers, Sequences, FiniteSets

CONSTANTS
    Keys,        \* client keys
    Shards,
    ShardOf,     \* shardIndex
    Handlers,    \* goroutines that serve requests
    Limit,       \* requests per window
    Window,      \* length of the window
    MaxBuckets,  \* keys per shard (4096 in the code)
    MaxTime,     \* bound: the last second
    None         \* no request, no sweep, no denial

ASSUME LimiterAssumption ==
    /\ IsFiniteSet(Keys)
    /\ ShardOf \in [Keys -> Shards]
    /\ {Limit, Window, MaxBuckets} \subseteq Nat \ {0}
    /\ MaxTime \in Nat
    /\ None \notin Int \cup Keys

Times == 0..MaxTime

VARIABLES
    clock,
    buckets,   \* per key, the times of its hits; <<>> when it has no bucket
    now,       \* per handler, the time its request read; None when idle
    asked,     \* per handler, the key of its request; None when idle
    cutoff,    \* what the sweeper computed; None when it sleeps
    toSweep,   \* the shards it has still to lock
    admitted,  \* history: per key, the times of the requests admitted, in that order
    newest,    \* history: the latest time any decision or trim has used
    retryAt    \* history: per key, when its last denial, if any, said to retry

vars == <<clock, buckets, now, asked, cutoff, toSweep, admitted, newest, retryAt>>

Later(a, b) == IF a > b THEN a ELSE b

-----------------------------------------------------------------------------
(* The hit list of a key *)

\* Mutant: a hit leaves the list one second early.
Prune_Early(hits, cut) ==
    LET kept == {i \in 1..Len(hits) : hits[i] > cut + 1}
    IN  IF kept = {} THEN <<>>
        ELSE SubSeq(hits, CHOOSE i \in kept : \A j \in kept : i <= j, Len(hits))

\* Drops the hits before the cutoff, up to the first that is not.
Prune(hits, cut) ==
    LET kept == {i \in 1..Len(hits) : hits[i] >= cut}
    IN  IF kept = {} THEN <<>>
        ELSE SubSeq(hits, CHOOSE i \in kept : \A j \in kept : i <= j, Len(hits))

\* The keys that have a bucket in shard s, when the buckets are b.
Present(b, s) == {k \in Keys : ShardOf[k] = s /\ b[k] # <<>>}

Trim(b, s, cut) ==
    [k \in Keys |-> IF ShardOf[k] = s THEN Prune(b[k], cut) ELSE b[k]]

\* Mutant: the shard takes one key too many.
Full_OneMore(b, k) == b[k] = <<>> /\ Cardinality(Present(b, ShardOf[k])) > MaxBuckets

\* An unknown key that finds its shard full first has the shard trimmed.
Full(b, k) == b[k] = <<>> /\ Cardinality(Present(b, ShardOf[k])) >= MaxBuckets

Trimmed(k, t) ==
    IF Full(buckets, k) THEN Trim(buckets, ShardOf[k], t - Window) ELSE buckets

-----------------------------------------------------------------------------
(* Allow *)

\* A request arrives and reads the clock.
Arrive(h, k) ==
    /\ now[h] = None
    /\ now' = [now EXCEPT ![h] = clock]
    /\ asked' = [asked EXCEPT ![h] = k]
    /\ UNCHANGED <<clock, buckets, cutoff, toSweep, admitted, newest, retryAt>>

\* What every outcome of Allow does; k and t are the request's key and time.
Answer(h) ==
    /\ now[h] # None
    /\ now' = [now EXCEPT ![h] = None]
    /\ asked' = [asked EXCEPT ![h] = None]
    /\ newest' = Later(newest, now[h])
    /\ UNCHANGED <<clock, cutoff, toSweep>>

Admit(h) ==
    /\ Answer(h)
    /\ LET k == asked[h]
           t == now[h]
           b == Trimmed(k, t)
           hits == Prune(b[k], t - Window)
       IN  /\ ~Full(b, k)
           /\ Len(hits) < Limit
           /\ buckets' = [b EXCEPT ![k] = Append(hits, t)]
           /\ admitted' = [admitted EXCEPT ![k] = Append(@, t)]
           /\ retryAt' = [retryAt EXCEPT ![k] = None]

\* Mutant: the time to wait is counted from the last hit backwards.
DenyRate_Short(h) ==
    /\ Answer(h)
    /\ LET k == asked[h]
           t == now[h]
           b == Trimmed(k, t)
           hits == Prune(b[k], t - Window)
       IN  /\ ~Full(b, k)
           /\ Len(hits) >= Limit
           /\ buckets' = [b EXCEPT ![k] = hits]
           /\ retryAt' = [retryAt EXCEPT ![k] = t + 1]
    /\ UNCHANGED admitted

\* Too many hits: retry when the first of them leaves the window.
DenyRate(h) ==
    /\ Answer(h)
    /\ LET k == asked[h]
           t == now[h]
           b == Trimmed(k, t)
           hits == Prune(b[k], t - Window)
       IN  /\ ~Full(b, k)
           /\ Len(hits) >= Limit
           /\ buckets' = [b EXCEPT ![k] = hits]
           /\ retryAt' = [retryAt EXCEPT ![k] = t + Later(1, Window - (t - hits[1]))]
    /\ UNCHANGED admitted

\* The shard is full of live buckets: unknown keys are denied.
DenyFull(h) ==
    /\ Answer(h)
    /\ LET b == Trimmed(asked[h], now[h])
       IN  /\ Full(b, asked[h])
           /\ buckets' = b
    /\ UNCHANGED <<admitted, retryAt>>

-----------------------------------------------------------------------------
(* sweep *)

\* Mutant: the sweeper keeps only what is newer than now.
StartSweep_Now ==
    /\ cutoff = None
    /\ cutoff' = clock
    /\ toSweep' = Shards
    /\ UNCHANGED <<clock, buckets, now, asked, admitted, newest, retryAt>>

StartSweep ==
    /\ cutoff = None
    /\ cutoff' = clock - Window
    /\ toSweep' = Shards
    /\ UNCHANGED <<clock, buckets, now, asked, admitted, newest, retryAt>>

\* Mutant: the sweeper drops every bucket of the shard.
SweepShard_All(s) ==
    /\ s \in toSweep
    /\ buckets' = [k \in Keys |-> IF ShardOf[k] = s THEN <<>> ELSE buckets[k]]
    /\ newest' = Later(newest, cutoff + Window)
    /\ toSweep' = toSweep \ {s}
    /\ cutoff' = IF toSweep = {s} THEN None ELSE cutoff
    /\ UNCHANGED <<clock, now, asked, admitted, retryAt>>

SweepShard(s) ==
    /\ s \in toSweep
    /\ buckets' = Trim(buckets, s, cutoff)
    /\ newest' = Later(newest, cutoff + Window)
    /\ toSweep' = toSweep \ {s}
    /\ cutoff' = IF toSweep = {s} THEN None ELSE cutoff
    /\ UNCHANGED <<clock, now, asked, admitted, retryAt>>

Second ==
    /\ clock < MaxTime
    /\ clock' = clock + 1
    /\ UNCHANGED <<buckets, now, asked, cutoff, toSweep, admitted, newest, retryAt>>

-----------------------------------------------------------------------------

Init ==
    /\ clock = 0
    /\ buckets = [k \in Keys |-> <<>>]
    /\ now = [h \in Handlers |-> None]
    /\ asked = [h \in Handlers |-> None]
    /\ cutoff = None
    /\ toSweep = {}
    /\ admitted = [k \in Keys |-> <<>>]
    /\ newest = 0
    /\ retryAt = [k \in Keys |-> None]

Next ==
    \/ \E h \in Handlers :
           \/ \E k \in Keys : Arrive(h, k)
           \/ Admit(h)
           \/ DenyRate(h)
           \/ DenyFull(h)
    \/ StartSweep
    \/ \E s \in Shards : SweepShard(s)
    \/ Second

Spec == Init /\ [][Next]_vars

-----------------------------------------------------------------------------
(* Properties *)

TypeOK ==
    /\ clock \in Times
    /\ buckets \in [Keys -> Seq(Times)]
    /\ now \in [Handlers -> Times \cup {None}]
    /\ asked \in [Handlers -> Keys \cup {None}]
    /\ \A h \in Handlers : now[h] = None <=> asked[h] = None
    /\ cutoff \in Int \cup {None}
    /\ toSweep \subseteq Shards
    /\ toSweep # {} => cutoff # None
    /\ admitted \in [Keys -> Seq(Times)]
    /\ newest \in 0..clock
    /\ retryAt \in [Keys -> Nat \cup {None}]

\* The limit (Allow, "search requests allowed per IP per rolling 24 hours"): of
\* the window that ends at the newest time used so far, no key has been
\* admitted more than Limit times, in whatever order concurrent requests reach
\* the lock and whatever buckets the sweeper and full shards have dropped.
InWindow(k) == {i \in 1..Len(admitted[k]) : admitted[k][i] >= newest - Window}

WindowBounded == \A k \in Keys : Cardinality(InWindow(k)) <= Limit

\* Memory (maxBucketsPerShard): no shard holds more keys than its bound, even
\* when every request comes from a key of its own.
BucketsBounded ==
    \A s \in Shards : Cardinality(Present(buckets, s)) <= MaxBuckets

\* Retry-After (Allow): a key that was denied for its rate and comes back after
\* the time it was told is not denied for its rate again, unless another of its
\* requests was admitted in the meantime.
RetryAfterIsEnough ==
    [][\A h \in Handlers :
          /\ now[h] # None /\ now'[h] = None
          /\ retryAt[asked[h]] # None
          /\ now[h] > retryAt[asked[h]]
          => retryAt'[asked[h]] \in {None, retryAt[asked[h]]}]_vars
=============================================================================
