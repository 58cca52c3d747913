---------------------------- MODULE PartsProofs ----------------------------
(***************************************************************************)
(* What four of the parts that share nothing with the store promise,       *)
(* proved for any constants: the limiter, for any number of keys, shards   *)
(* and handlers, any limit, window and bound on the keys of a shard; the   *)
(* cache of /v1/stats; the merge of the log lists, for any lists, and the  *)
(* set of logs that the tailer has started; the names, for any tables of   *)
(* IDNA and public suffixes that keep what they have given.                *)
(* For the limiter the inductive invariant says that a bucket is what is   *)
(* left of the key's admitted requests once some that no window counts any *)
(* more are dropped; for the log lists, that each merged log has the       *)
(* states of its first entry and the endpoints of all of them.             *)
(***************************************************************************)
EXTENDS Limiter, StatsCache, LogList, HostNames, FiniteSetTheorems, NaturalLemmas

-----------------------------------------------------------------------------
(* The limiter: the hit list of a key *)

\* Prune (the loops of Allow and trimShard) keeps the end of the hit list: it
\* drops only hits before the cutoff, and the first it keeps is not.
LEMMA PruneKeepsTheEnd ==
    ASSUME NEW hits \in Seq(Times), NEW cut \in Int, NEW p, p = Prune(hits, cut)
    PROVE  /\ p \in Seq(Times)
           /\ Len(p) <= Len(hits)
           /\ \A i \in 1..Len(p) : p[i] = hits[Len(hits) - Len(p) + i]
           /\ \A i \in 1..(Len(hits) - Len(p)) : hits[i] < cut
           /\ p # <<>> => p[1] >= cut
           /\ Len(p) = Len(hits) => p = hits
  <1> DEFINE kept == {i \in 1..Len(hits) : hits[i] >= cut}
  <1>1. Len(hits) \in Nat /\ \A i \in 1..Len(hits) : hits[i] \in Int
    BY LimiterAssumption DEF Times
  <1>2. CASE kept = {}
    <2>1. p = <<>> /\ Len(p) = 0 /\ p \in Seq(Times)
      BY <1>2 DEF Prune
    <2>2. \A i \in 1..Len(hits) : i \notin kept
      BY <1>2
    <2>3. \A i \in 1..Len(hits) : hits[i] < cut
      BY <1>1, <2>2
    <2>4. Len(hits) = 0 => hits = <<>>
      OBVIOUS
    <2>5. QED BY <1>1, <2>1, <2>3, <2>4
  <1>3. CASE kept # {}
    <2>0. kept \in SUBSET Nat
      BY <1>1
    <2>1. PICK m \in kept : \A j \in kept : m <= j
      <3> HIDE DEF kept
      <3>1. QED BY <1>3, <2>0, LeastNatural
    <2> DEFINE first == CHOOSE i \in kept : \A j \in kept : i <= j
    <2>2. first \in kept /\ \A j \in kept : first <= j
      BY <2>1
    <2>3. p = SubSeq(hits, first, Len(hits))
      BY <1>3 DEF Prune
    <2> HIDE DEF first
    <2>4. first \in 1..Len(hits) /\ hits[first] >= cut
      BY <2>2
    <2>5. \A i \in 1..(first - 1) : hits[i] < cut
      <3>1. \A i \in 1..(first - 1) : i \in 1..Len(hits) /\ i \notin kept
        BY <1>1, <2>2, <2>4
      <3>2. QED BY <1>1, <3>1
    <2>6. /\ p \in Seq(Times) /\ Len(p) = Len(hits) - first + 1
          /\ \A i \in 1..Len(p) : p[i] = hits[first + i - 1]
      BY <1>1, <2>3, <2>4
    <2>7. Len(hits) - Len(p) = first - 1 /\ p[1] = hits[first]
      BY <1>1, <2>4, <2>6
    <2>8. Len(p) = Len(hits) => p = hits
      BY <1>1, <2>3, <2>4, <2>6
    <2>9. \A i \in 1..Len(p) : p[i] = hits[Len(hits) - Len(p) + i]
      BY <1>1, <2>4, <2>6, <2>7
    <2>10. QED BY <1>1, <2>4, <2>5, <2>6, <2>7, <2>8, <2>9
  <1>4. QED BY <1>2, <1>3

\* The bucket b is what is left of the admitted requests a once some that lie
\* before the window that ends at t are dropped.
IsTail(b, a, t) ==
    /\ Len(b) <= Len(a)
    /\ \A i \in 1..Len(b) : b[i] = a[Len(a) - Len(b) + i]
    /\ \A i \in 1..(Len(a) - Len(b)) : a[i] < t - Window

\* To prune a bucket with a cutoff no later than the window's begin drops no
\* request that the window counts.
LEMMA TailPruned ==
    ASSUME NEW b \in Seq(Times), NEW a \in Seq(Times), NEW t \in Nat, NEW u \in Nat,
           NEW cut \in Int, t <= u, cut <= u - Window, IsTail(b, a, t)
    PROVE  IsTail(b, a, u) /\ IsTail(Prune(b, cut), a, u)
  <1> DEFINE p == Prune(b, cut)
  <1>1. /\ Window \in Nat /\ Len(a) \in Nat /\ Len(b) \in Nat
        /\ \A i \in 1..Len(a) : a[i] \in Int
        /\ \A i \in 1..Len(b) : b[i] \in Int
    BY LimiterAssumption DEF Times
  <1>2. /\ p \in Seq(Times) /\ Len(p) <= Len(b)
        /\ \A i \in 1..Len(p) : p[i] = b[Len(b) - Len(p) + i]
        /\ \A i \in 1..(Len(b) - Len(p)) : b[i] < cut
    BY PruneKeepsTheEnd
  <1> HIDE DEF p
  <1>3. \A i \in 1..(Len(a) - Len(b)) : a[i] < u - Window
    BY <1>1 DEF IsTail
  <1>4. Len(p) \in Nat
    BY <1>2
  <1>5. \A i \in 1..Len(p) : p[i] = a[Len(a) - Len(p) + i]
    <2>1. TAKE i \in 1..Len(p)
    <2>2. Len(b) - Len(p) + i \in 1..Len(b)
      BY <1>1, <1>2, <1>4
    <2>3. p[i] = a[Len(a) - Len(b) + (Len(b) - Len(p) + i)]
      BY <1>2, <2>2 DEF IsTail
    <2>4. QED BY <1>1, <1>4, <2>3
  <1>6. \A i \in 1..(Len(a) - Len(p)) : a[i] < u - Window
    <2>1. TAKE i \in 1..(Len(a) - Len(p))
    <2>2. CASE i <= Len(a) - Len(b)
      BY <1>1, <1>3, <1>4, <2>2
    <2>3. CASE i > Len(a) - Len(b)
      <3> DEFINE j == i - (Len(a) - Len(b))
      <3>1. j \in 1..(Len(b) - Len(p)) /\ j \in 1..Len(b)
        BY <1>1, <1>4, <2>3
      <3>2. a[Len(a) - Len(b) + j] = b[j] /\ b[j] < cut /\ b[j] \in Int
        BY <1>1, <1>2, <3>1 DEF IsTail
      <3>3. Len(a) - Len(b) + j = i
        BY <1>1
      <3>4. QED BY <1>1, <3>2, <3>3
    <2>4. QED BY <1>1, <2>2, <2>3
  <1>7. Len(b) <= Len(a) /\ Len(p) <= Len(a)
    BY <1>1, <1>2, <1>4 DEF IsTail
  <1>8. IsTail(b, a, u)
    BY <1>3 DEF IsTail
  <1>9. IsTail(p, a, u)
    BY <1>5, <1>6, <1>7 DEF IsTail
  <1>10. QED BY <1>8, <1>9 DEF p

\* To admit a request appends its time to the bucket and to the history.
LEMMA TailAppended ==
    ASSUME NEW b \in Seq(Times), NEW a \in Seq(Times), NEW t \in Nat, NEW x \in Times,
           IsTail(b, a, t)
    PROVE  IsTail(Append(b, x), Append(a, x), t)
  <1> DEFINE bx == Append(b, x)
             ax == Append(a, x)
  <1>1. /\ Len(a) \in Nat /\ Len(b) \in Nat /\ Len(b) <= Len(a)
        /\ Len(bx) = Len(b) + 1 /\ Len(ax) = Len(a) + 1
        /\ \A i \in 1..Len(b) : bx[i] = b[i] /\ bx[Len(b) + 1] = x
        /\ \A i \in 1..Len(a) : ax[i] = a[i] /\ ax[Len(a) + 1] = x
    BY DEF IsTail
  <1>2. bx[Len(b) + 1] = x /\ ax[Len(a) + 1] = x
    OBVIOUS
  <1> HIDE DEF bx, ax
  <1>3. \A i \in 1..Len(bx) : bx[i] = ax[Len(ax) - Len(bx) + i]
    <2>1. TAKE i \in 1..Len(bx)
    <2>2. CASE i = Len(b) + 1
      BY <1>1, <1>2, <2>2
    <2>3. CASE i \in 1..Len(b)
      <3>1. Len(a) - Len(b) + i \in 1..Len(a) /\ Len(ax) - Len(bx) = Len(a) - Len(b)
        BY <1>1, <2>3
      <3>2. b[i] = a[Len(a) - Len(b) + i]
        BY <2>3 DEF IsTail
      <3>3. QED BY <1>1, <2>3, <3>1, <3>2
    <2>4. QED BY <1>1, <2>2, <2>3
  <1>4. \A i \in 1..(Len(ax) - Len(bx)) : ax[i] < t - Window
    <2>1. TAKE i \in 1..(Len(ax) - Len(bx))
    <2>2. i \in 1..(Len(a) - Len(b)) /\ i \in 1..Len(a)
      BY <1>1
    <2>3. QED BY <1>1, <2>2 DEF IsTail
  <1>5. Len(bx) <= Len(ax)
    BY <1>1
  <1>6. IsTail(bx, ax, t)
    BY <1>3, <1>4, <1>5 DEF IsTail
  <1>7. QED BY <1>6 DEF bx, ax

-----------------------------------------------------------------------------
(* The limiter: the inductive invariant *)

\* A request that waits for its shard's lock, and the sweeper between two
\* shards, hold a time that the clock has reached.
ClockInv ==
    /\ \A h \in Handlers : now[h] # None => now[h] <= clock
    /\ cutoff # None => cutoff + Window <= clock

\* A bucket is the end of the key's admitted requests.
TailInv ==
    \A k \in Keys : Len(buckets[k]) <= Limit /\ IsTail(buckets[k], admitted[k], newest)

\* A bucket b whose key was told to retry after r has room, or its first hit
\* leaves the window at r.
Leaves(b, r) == r # None => Len(b) < Limit \/ b[1] + Window <= r

RetryInv == \A k \in Keys : Leaves(buckets[k], retryAt[k])

Inv == TypeOK /\ ClockInv /\ TailInv /\ RetryInv /\ BucketsBounded

-----------------------------------------------------------------------------
(* The limiter: what a step does to the buckets *)

\* Before Allow looks at its key's bucket it may have trimmed the shard, but only
\* if the key has no bucket: its own hit list is as it was.
LEMMA TrimmedBuckets ==
    ASSUME TypeOK, NEW k \in Keys, NEW t \in Times
    PROVE  /\ Trimmed(k, t) \in [Keys -> Seq(Times)]
           /\ Trimmed(k, t)[k] = buckets[k]
           /\ \A j \in Keys : Trimmed(k, t)[j] \in {buckets[j], Prune(buckets[j], t - Window)}
           /\ Full(Trimmed(k, t), k) <=>
                 Full(buckets, k) /\ Cardinality(Present(Trimmed(k, t), ShardOf[k])) >= MaxBuckets
  <1> DEFINE cut == t - Window
  <1>1. cut \in Int
    BY LimiterAssumption DEF Times
  <1>2. buckets \in [Keys -> Seq(Times)]
    BY DEF TypeOK
  <1>3. \A j \in Keys : Prune(buckets[j], cut) \in Seq(Times)
    BY <1>1, <1>2, PruneKeepsTheEnd
  <1>4. Prune(<<>>, cut) = <<>>
    <2>1. <<>> \in Seq(Times) /\ Len(<<>>) = 0
      OBVIOUS
    <2>2. Prune(<<>>, cut) \in Seq(Times) /\ Len(Prune(<<>>, cut)) <= Len(<<>>)
      BY <1>1, <2>1, PruneKeepsTheEnd
    <2>3. QED BY <2>1, <2>2
  <1>5. CASE Full(buckets, k)
    <2>1. Trimmed(k, t) = [j \in Keys |-> IF ShardOf[j] = ShardOf[k]
                                          THEN Prune(buckets[j], cut) ELSE buckets[j]]
      BY <1>5 DEF Trimmed, Trim
    <2>2. buckets[k] = <<>>
      BY <1>5 DEF Full
    <2>3. Trimmed(k, t)[k] = buckets[k]
      BY <1>4, <2>1, <2>2
    <2>4. Trimmed(k, t) \in [Keys -> Seq(Times)]
      BY <1>2, <1>3, <2>1
    <2>5. \A j \in Keys : Trimmed(k, t)[j] \in {buckets[j], Prune(buckets[j], cut)}
      BY <2>1
    <2>6. Full(Trimmed(k, t), k) <=> Cardinality(Present(Trimmed(k, t), ShardOf[k])) >= MaxBuckets
      BY <2>2, <2>3 DEF Full
    <2>7. QED BY <1>5, <2>3, <2>4, <2>5, <2>6
  <1>6. CASE ~Full(buckets, k)
    <2>1. Trimmed(k, t) = buckets
      BY <1>6 DEF Trimmed
    <2>2. QED BY <1>2, <1>6, <2>1 DEF Full
  <1>7. QED BY <1>5, <1>6

\* What a step leaves of a key: its bucket is pruned, with a cutoff one window
\* before a time that newest covers, or not; nothing is admitted or denied.
Kept(k) ==
    /\ admitted'[k] = admitted[k]
    /\ retryAt'[k] = retryAt[k]
    /\ \/ buckets'[k] = buckets[k]
       \/ \E cut \in Int : cut <= newest' - Window /\ buckets'[k] = Prune(buckets[k], cut)

\* What Allow does to the key it is asked for, at time t, when it reads the hits.
Admitted(k, t) ==
    \E hits \in Seq(Times) :
        /\ hits = Prune(buckets[k], t - Window) /\ Len(hits) < Limit
        /\ buckets'[k] = Append(hits, t)
        /\ admitted'[k] = Append(admitted[k], t)
        /\ retryAt'[k] = None

Denied(k, t) ==
    \E hits \in Seq(Times) :
        /\ hits = Prune(buckets[k], t - Window) /\ Len(hits) >= Limit
        /\ buckets'[k] = hits
        /\ admitted'[k] = admitted[k]
        /\ retryAt'[k] = t + Later(1, Window - (t - hits[1]))

-----------------------------------------------------------------------------

\* The times a step uses: the newest of them only grows, and the clock has
\* reached it.
LEMMA Clocks ==
    ASSUME TypeOK, ClockInv, [Next]_vars
    PROVE  ClockInv' /\ newest <= newest' /\ newest' \in 0..clock' /\ clock' \in Times
  <1>1. /\ clock \in Times /\ newest \in 0..clock /\ Window \in Nat
        /\ now \in [Handlers -> Times \cup {None}] /\ None \notin Int /\ Times \subseteq Nat
        /\ \A h \in Handlers : now[h] # None => now[h] \in Times /\ now[h] <= clock
        /\ cutoff # None => cutoff \in Int /\ cutoff + Window <= clock
        /\ toSweep # {} => cutoff # None
    BY LimiterAssumption DEF TypeOK, ClockInv, Times
  <1>2. ASSUME NEW h \in Handlers, NEW k \in Keys, Arrive(h, k)
        PROVE  ClockInv' /\ newest <= newest' /\ newest' \in 0..clock' /\ clock' \in Times
    <2>1. /\ now' = [now EXCEPT ![h] = clock]
          /\ UNCHANGED <<clock, cutoff, newest>>
      BY <1>2 DEF Arrive
    <2>2. ClockInv'
      BY <1>1, <2>1 DEF ClockInv, Times
    <2>3. QED BY <1>1, <2>1, <2>2 DEF Times
  <1>3. ASSUME NEW h \in Handlers, Answer(h)
        PROVE  ClockInv' /\ newest <= newest' /\ newest' \in 0..clock' /\ clock' \in Times
    <2>1. /\ now' = [now EXCEPT ![h] = None] /\ now[h] # None
          /\ newest' = Later(newest, now[h])
          /\ UNCHANGED <<clock, cutoff>>
      BY <1>3 DEF Answer
    <2>2. ClockInv'
      BY <1>1, <2>1 DEF ClockInv
    <2>3. QED BY <1>1, <2>1, <2>2 DEF Times, Later
  <1>4. ASSUME StartSweep
        PROVE  ClockInv' /\ newest <= newest' /\ newest' \in 0..clock' /\ clock' \in Times
    <2>1. cutoff' = clock - Window /\ UNCHANGED <<clock, now, newest>>
      BY <1>4 DEF StartSweep
    <2>2. ClockInv'
      BY <1>1, <2>1 DEF ClockInv, Times
    <2>3. QED BY <1>1, <2>1, <2>2 DEF Times
  <1>5. ASSUME NEW s \in Shards, SweepShard(s)
        PROVE  ClockInv' /\ newest <= newest' /\ newest' \in 0..clock' /\ clock' \in Times
    <2>1. /\ cutoff # None
          /\ cutoff' \in {cutoff, None}
          /\ newest' = Later(newest, cutoff + Window)
          /\ UNCHANGED <<clock, now>>
      BY <1>1, <1>5 DEF SweepShard
    <2>2. ClockInv'
      BY <1>1, <2>1 DEF ClockInv
    <2>3. QED BY <1>1, <2>1, <2>2 DEF Times, Later
  <1>6. ASSUME Second
        PROVE  ClockInv' /\ newest <= newest' /\ newest' \in 0..clock' /\ clock' \in Times
    <2>1. clock < MaxTime /\ clock' = clock + 1 /\ UNCHANGED <<now, cutoff, newest>>
      BY <1>6 DEF Second
    <2>2. ClockInv'
      BY <1>1, <2>1 DEF ClockInv, Times
    <2>3. QED BY <1>1, <2>1, <2>2, LimiterAssumption DEF Times
  <1>7. ASSUME UNCHANGED vars
        PROVE  ClockInv' /\ newest <= newest' /\ newest' \in 0..clock' /\ clock' \in Times
    <2>1. UNCHANGED <<clock, now, cutoff, newest>>
      BY <1>7 DEF vars
    <2>2. QED BY <1>1, <2>1 DEF ClockInv, Times
  <1>8. ASSUME NEW h \in Handlers, Admit(h) \/ DenyRate(h) \/ DenyFull(h)
        PROVE  Answer(h)
    BY <1>8 DEF Admit, DenyRate, DenyFull
  <1>9. QED BY <1>2, <1>3, <1>4, <1>5, <1>6, <1>7, <1>8 DEF Next

\* A request is decided by what its own key was admitted; every other key of its
\* shard may have been trimmed, with the cutoff of this request.
LEMMA AnswerEffects ==
    ASSUME TypeOK, NEW h \in Handlers, Admit(h) \/ DenyRate(h) \/ DenyFull(h)
    PROVE  /\ asked[h] \in Keys /\ now[h] \in Times /\ now[h] <= newest'
           /\ \A j \in Keys \ {asked[h]} : Kept(j)
           /\ \/ Admitted(asked[h], now[h])
              \/ Denied(asked[h], now[h])
              \/ Kept(asked[h])
  <1> DEFINE k == asked[h]
             t == now[h]
             b == Trimmed(k, t)
             hits == Prune(b[k], t - Window)
  <1>1. /\ now[h] # None /\ newest' = Later(newest, now[h])
    BY DEF Admit, DenyRate, DenyFull, Answer
  <1>2. k \in Keys /\ t \in Times
    BY <1>1 DEF TypeOK
  <1>3. t \in Nat /\ newest \in Nat /\ Window \in Nat /\ t - Window \in Int
    BY <1>2, LimiterAssumption DEF TypeOK, Times
  <1>4. t <= newest' /\ newest' \in Nat /\ t - Window <= newest' - Window
    BY <1>1, <1>3 DEF Later
  <1>5. /\ b \in [Keys -> Seq(Times)] /\ b[k] = buckets[k]
        /\ \A j \in Keys : b[j] \in {buckets[j], Prune(buckets[j], t - Window)}
    BY <1>2, TrimmedBuckets
  <1>6. hits \in Seq(Times) /\ hits = Prune(buckets[k], t - Window)
    BY <1>2, <1>3, <1>5, PruneKeepsTheEnd
  <1>7. admitted \in [Keys -> Seq(Times)] /\ retryAt \in [Keys -> Nat \cup {None}]
    BY DEF TypeOK
  <1>8. CASE Admit(h)
    <2>1. /\ Len(hits) < Limit
          /\ buckets' = [b EXCEPT ![k] = Append(hits, t)]
          /\ admitted' = [admitted EXCEPT ![k] = Append(@, t)]
          /\ retryAt' = [retryAt EXCEPT ![k] = None]
      BY <1>8 DEF Admit
    <2> HIDE DEF b, hits, k, t
    <2>2. Admitted(k, t)
      BY <1>2, <1>5, <1>6, <1>7, <2>1 DEF Admitted
    <2>3. \A j \in Keys \ {k} : Kept(j)
      BY <1>3, <1>4, <1>5, <1>7, <2>1 DEF Kept
    <2>4. QED BY <1>2, <1>4, <2>2, <2>3 DEF k, t
  <1>9. CASE DenyRate(h)
    <2>1. /\ Len(hits) >= Limit
          /\ buckets' = [b EXCEPT ![k] = hits]
          /\ admitted' = admitted
          /\ retryAt' = [retryAt EXCEPT ![k] = t + Later(1, Window - (t - hits[1]))]
      BY <1>9 DEF DenyRate
    <2> HIDE DEF b, hits, k, t
    <2>2. Denied(k, t)
      BY <1>2, <1>5, <1>6, <1>7, <2>1 DEF Denied
    <2>3. \A j \in Keys \ {k} : Kept(j)
      BY <1>3, <1>4, <1>5, <1>7, <2>1 DEF Kept
    <2>4. QED BY <1>2, <1>4, <2>2, <2>3 DEF k, t
  <1>10. CASE DenyFull(h)
    <2>1. buckets' = b /\ UNCHANGED <<admitted, retryAt>>
      BY <1>10 DEF DenyFull
    <2> HIDE DEF b, hits, k, t
    <2>2. \A j \in Keys : Kept(j)
      BY <1>3, <1>4, <1>5, <2>1 DEF Kept
    <2>3. QED BY <1>2, <1>4, <2>2 DEF k, t
  <1>11. QED BY <1>8, <1>9, <1>10

\* Every other step keeps every key; the sweeper trims with its own cutoff.
LEMMA OtherEffects ==
    ASSUME TypeOK, ClockInv, [Next]_vars,
           \A h \in Handlers : ~(Admit(h) \/ DenyRate(h) \/ DenyFull(h))
    PROVE  \A j \in Keys : Kept(j)
  <1>1. CASE UNCHANGED <<buckets, admitted, retryAt>>
    BY <1>1 DEF Kept
  <1>2. CASE \E s \in Shards : SweepShard(s)
    <2>1. PICK s \in Shards : SweepShard(s)
      BY <1>2
    <2>2. /\ buckets' = [k \in Keys |-> IF ShardOf[k] = s THEN Prune(buckets[k], cutoff)
                                                        ELSE buckets[k]]
          /\ newest' = Later(newest, cutoff + Window)
          /\ UNCHANGED <<admitted, retryAt>>
          /\ toSweep # {}
      BY <2>1 DEF SweepShard, Trim
    <2>3. cutoff \in Int /\ Window \in Nat /\ newest \in Nat
      BY <2>2, LimiterAssumption DEF TypeOK, Times
    <2>4. cutoff <= newest' - Window
      BY <2>2, <2>3 DEF Later
    <2>5. \A k \in Keys : buckets'[k] \in {buckets[k], Prune(buckets[k], cutoff)}
      BY <2>2
    <2>6. QED BY <2>2, <2>3, <2>4, <2>5 DEF Kept
  <1>3. [Next]_vars =>
           \/ UNCHANGED <<buckets, admitted, retryAt>>
           \/ \E s \in Shards : SweepShard(s)
           \/ \E h \in Handlers : Admit(h) \/ DenyRate(h) \/ DenyFull(h)
    BY DEF Next, vars, Arrive, StartSweep, Second
  <1>4. QED BY <1>1, <1>2, <1>3

-----------------------------------------------------------------------------
(* The limiter: the invariant is inductive *)

\* The initial state.
LEMMA InitInv == Init => Inv
  <1> SUFFICES ASSUME Init PROVE Inv
    OBVIOUS
  <1>1. <<>> \in Seq(Times) /\ Len(<<>>) = 0 /\ 0 \in Times /\ Limit \in Nat /\ MaxBuckets \in Nat
    BY LimiterAssumption DEF Times
  <1>2. TypeOK
    BY <1>1 DEF Init, TypeOK
  <1>3. ClockInv
    BY DEF Init, ClockInv
  <1>4. TailInv
    BY <1>1 DEF Init, TailInv, IsTail
  <1>5. RetryInv
    BY DEF Init, RetryInv, Leaves
  <1>6. \A s : Present(buckets, s) = {}
    BY DEF Init, Present
  <1>7. BucketsBounded
    BY <1>1, <1>6, FS_EmptySet DEF BucketsBounded
  <1>8. QED BY <1>2, <1>3, <1>4, <1>5, <1>7 DEF Inv

\* The key of a step keeps its type, its tail and its retry time, whichever of
\* the three things happens to it.
LEMMA KeyNext ==
    ASSUME Inv, NEW k \in Keys, NEW t \in Times, t <= newest', newest <= newest',
           newest' \in Nat, Kept(k) \/ Admitted(k, t) \/ Denied(k, t)
    PROVE  /\ buckets'[k] \in Seq(Times)
           /\ admitted'[k] \in Seq(Times)
           /\ retryAt'[k] \in Nat \cup {None}
           /\ Len(buckets'[k]) <= Limit
           /\ IsTail(buckets'[k], admitted'[k], newest')
           /\ Leaves(buckets'[k], retryAt'[k])
  <1> DEFINE b == buckets[k]
             a == admitted[k]
             r == retryAt[k]
  <1>1. /\ b \in Seq(Times) /\ a \in Seq(Times) /\ r \in Nat \cup {None}
        /\ newest \in Nat /\ t \in Nat
        /\ Limit \in Nat \ {0} /\ Window \in Nat /\ None \notin Int
    BY LimiterAssumption DEF Inv, TypeOK, Times
  <1>2. Len(b) <= Limit /\ IsTail(b, a, newest) /\ Leaves(b, r) /\ Len(b) \in Nat
    BY <1>1 DEF Inv, TailInv, RetryInv
  <1>3. ASSUME NEW cut \in Int, cut <= newest' - Window, NEW p, p = Prune(b, cut)
        PROVE  /\ p \in Seq(Times) /\ Len(p) \in Nat /\ Len(p) <= Limit
               /\ IsTail(p, a, newest') /\ IsTail(b, a, newest') /\ Leaves(p, r)
    <2> HIDE DEF a, b, r
    <2>1. p \in Seq(Times) /\ Len(p) <= Len(b) /\ (Len(p) = Len(b) => p = b)
      BY <1>1, <1>3, PruneKeepsTheEnd
    <2>2. Len(p) \in Nat /\ Len(p) <= Limit
      BY <1>1, <1>2, <2>1
    <2>3. IsTail(p, a, newest') /\ IsTail(b, a, newest')
      BY <1>1, <1>2, <1>3, TailPruned
    <2>4. Len(p) # Len(b) => Len(p) < Limit
      BY <1>1, <1>2, <2>1, <2>2
    <2>5. Leaves(p, r)
      BY <1>2, <2>1, <2>4 DEF Leaves
    <2>6. QED BY <2>1, <2>2, <2>3, <2>5
  <1>4. t - Window \in Int /\ t - Window <= newest' - Window
    <2>1. PICK u \in Nat : u = newest'
      OBVIOUS
    <2>2. t <= u
      BY <2>1
    <2>3. t - Window \in Int /\ t - Window <= u - Window
      BY <1>1, <2>2
    <2>4. QED BY <2>1, <2>3, Zenon
  <1>5. CASE Kept(k)
    <2>1. admitted'[k] = a /\ retryAt'[k] = r
      BY <1>5 DEF Kept
    <2>2. CASE buckets'[k] = b
      <3>1. IsTail(b, a, newest')
        BY <1>3, <1>4
      <3>2. QED BY <1>1, <1>2, <2>1, <2>2, <3>1
    <2>3. CASE buckets'[k] # b
      <3>1. PICK cut \in Int : cut <= newest' - Window /\ buckets'[k] = Prune(b, cut)
        BY <1>5, <2>3 DEF Kept
      <3>2. QED BY <1>1, <1>3, <2>1, <3>1
    <2>4. QED BY <2>2, <2>3
  <1>6. CASE Admitted(k, t)
    <2>1. PICK hits \in Seq(Times) :
             /\ hits = Prune(b, t - Window) /\ Len(hits) < Limit
             /\ buckets'[k] = Append(hits, t)
             /\ admitted'[k] = Append(a, t)
             /\ retryAt'[k] = None
      BY <1>6 DEF Admitted
    <2>2. IsTail(hits, a, newest') /\ Len(hits) \in Nat
      BY <1>3, <1>4, <2>1
    <2> HIDE DEF a, b, r
    <2>3. IsTail(Append(hits, t), Append(a, t), newest')
      BY <1>1, <2>2, TailAppended
    <2>4. Append(hits, t) \in Seq(Times) /\ Append(a, t) \in Seq(Times)
          /\ Len(Append(hits, t)) = Len(hits) + 1
      BY <1>1
    <2>5. QED BY <1>1, <2>1, <2>2, <2>3, <2>4 DEF Leaves
  <1>7. CASE Denied(k, t)
    <2>1. PICK hits \in Seq(Times) :
             /\ hits = Prune(b, t - Window) /\ Len(hits) >= Limit
             /\ buckets'[k] = hits
             /\ admitted'[k] = a
             /\ retryAt'[k] = t + Later(1, Window - (t - hits[1]))
      BY <1>7 DEF Denied
    <2>2. IsTail(hits, a, newest') /\ Len(hits) \in Nat /\ Len(hits) <= Limit
      BY <1>3, <1>4, <2>1
    <2>3. 1 \in 1..Len(hits)
      BY <1>1, <2>1, <2>2
    <2>4. hits[1] \in Times
      BY <2>3
    <2>5. hits[1] \in Nat
      BY <2>4 DEF Times
    <2>6. retryAt'[k] \in Nat /\ hits[1] + Window <= retryAt'[k]
      <3> DEFINE wait == Later(1, Window - (t - hits[1]))
      <3>1. t \in Nat /\ Window \in Nat
        BY <1>1
      <3>2. wait \in Nat /\ Window - (t - hits[1]) <= wait
        BY <2>5, <3>1 DEF Later
      <3>3. retryAt'[k] = t + wait
        BY <2>1
      <3> HIDE DEF wait
      <3>4. QED BY <2>5, <3>1, <3>2, <3>3
    <2>7. Leaves(hits, retryAt'[k])
      BY <2>6 DEF Leaves
    <2>8. QED BY <1>1, <2>1, <2>2, <2>6, <2>7
  <1>8. QED BY <1>5, <1>6, <1>7

\* A step of Next is one request's decision or leaves every key.
LEMMA Effects ==
    ASSUME Inv, [Next]_vars
    PROVE  \E t \in Times : t <= newest' /\
              \A k \in Keys : Kept(k) \/ Admitted(k, t) \/ Denied(k, t)
  <1>1. TypeOK /\ ClockInv
    BY DEF Inv
  <1>2. newest' \in Nat /\ 0 \in Times
    BY <1>1, Clocks, LimiterAssumption DEF Times
  <1>3. CASE \E h \in Handlers : Admit(h) \/ DenyRate(h) \/ DenyFull(h)
    <2>1. PICK h \in Handlers : Admit(h) \/ DenyRate(h) \/ DenyFull(h)
      BY <1>3
    <2>2. /\ now[h] \in Times /\ now[h] <= newest'
          /\ \A j \in Keys \ {asked[h]} : Kept(j)
          /\ \/ Admitted(asked[h], now[h])
             \/ Denied(asked[h], now[h])
             \/ Kept(asked[h])
      BY <1>1, <2>1, AnswerEffects
    <2>3. QED BY <2>2
  <1>4. CASE ~\E h \in Handlers : Admit(h) \/ DenyRate(h) \/ DenyFull(h)
    <2>1. \A j \in Keys : Kept(j)
      BY <1>1, <1>4, OtherEffects
    <2>2. QED BY <1>2, <2>1 DEF Times
  <1>5. QED BY <1>3, <1>4

\* A shard holds no more keys than before if no key came in.
LEMMA FewerKeys ==
    ASSUME NEW b, NEW c, NEW s, \A j \in Keys : b[j] = <<>> => c[j] = <<>>
    PROVE  /\ Cardinality(Present(c, s)) <= Cardinality(Present(b, s))
           /\ IsFiniteSet(Present(b, s)) /\ Cardinality(Present(b, s)) \in Nat
           /\ Cardinality(Present(c, s)) \in Nat
  <1>1. Present(b, s) \subseteq Keys /\ Present(c, s) \subseteq Present(b, s)
    BY DEF Present
  <1>2. IsFiniteSet(Present(b, s))
    BY <1>1, LimiterAssumption, FS_Subset DEF LimiterAssumption
  <1>3. QED BY <1>1, <1>2, FS_Subset, FS_CardinalityType

\* A key whose bucket is pruned, or whose request is denied for its rate, had one.
LEMMA NoKeyIn ==
    ASSUME TypeOK, NEW k \in Keys, NEW t \in Times, Kept(k) \/ Denied(k, t),
           buckets[k] = <<>>
    PROVE  buckets'[k] = <<>>
  <1>1. <<>> \in Seq(Times) /\ Len(<<>>) = 0 /\ Limit \in Nat \ {0} /\ t - Window \in Int
    BY LimiterAssumption DEF Times
  <1>2. \A cut \in Int : Prune(<<>>, cut) \in Seq(Times) /\ Len(Prune(<<>>, cut)) <= 0
    BY <1>1, PruneKeepsTheEnd
  <1>3. \A cut \in Int : Prune(<<>>, cut) = <<>>
    BY <1>2
  <1>4. ~Denied(k, t)
    BY <1>1, <1>3 DEF Denied
  <1>5. QED BY <1>3, <1>4 DEF Kept

\* Allow lets an unknown key in only if its shard, trimmed when it was full, has
\* room (the two tests of maxBuckets).
LEMMA BoundNext ==
    ASSUME Inv, [Next]_vars
    PROVE  BucketsBounded'
  <1>1. TypeOK /\ ClockInv /\ BucketsBounded /\ MaxBuckets \in Nat
    BY LimiterAssumption DEF Inv
  <1>2. ASSUME \A j \in Keys : buckets[j] = <<>> => buckets'[j] = <<>>
        PROVE  BucketsBounded'
    <2>1. SUFFICES ASSUME NEW s \in Shards
                   PROVE  Cardinality(Present(buckets', s)) <= MaxBuckets
      BY DEF BucketsBounded
    <2>2. /\ Cardinality(Present(buckets', s)) <= Cardinality(Present(buckets, s))
          /\ Cardinality(Present(buckets, s)) \in Nat
          /\ Cardinality(Present(buckets', s)) \in Nat
      BY <1>2, FewerKeys
    <2>3. Cardinality(Present(buckets, s)) <= MaxBuckets
      BY <1>1 DEF BucketsBounded
    <2>4. QED BY <1>1, <2>2, <2>3
  <1>3. CASE \A h \in Handlers : ~(Admit(h) \/ DenyRate(h) \/ DenyFull(h))
    <2>1. \A j \in Keys : Kept(j)
      BY <1>1, <1>3, OtherEffects
    <2>2. 0 \in Times
      BY LimiterAssumption DEF Times
    <2>3. QED BY <1>1, <1>2, <2>1, <2>2, NoKeyIn
  <1>4. ASSUME NEW h \in Handlers, Admit(h) \/ DenyRate(h) \/ DenyFull(h)
        PROVE  BucketsBounded'
    <2> DEFINE k == asked[h]
               t == now[h]
               b == Trimmed(k, t)
    <2>1. /\ k \in Keys /\ t \in Times
          /\ \A j \in Keys \ {k} : Kept(j)
          /\ Admitted(k, t) \/ Denied(k, t) \/ Kept(k)
      BY <1>1, <1>4, AnswerEffects
    <2>2. \A j \in Keys \ {k} : buckets[j] = <<>> => buckets'[j] = <<>>
      BY <1>1, <2>1, NoKeyIn
    <2>3. CASE buckets[k] # <<>> \/ Denied(k, t) \/ Kept(k)
      <3> HIDE DEF k, t
      <3>1. buckets[k] = <<>> => buckets'[k] = <<>>
        BY <1>1, <2>1, <2>3, NoKeyIn
      <3>2. QED BY <1>2, <2>2, <3>1
    <2>4. CASE buckets[k] = <<>> /\ ~Denied(k, t) /\ ~Kept(k)
      <3>1. /\ b \in [Keys -> Seq(Times)] /\ b[k] = <<>>
            /\ \A j \in Keys : b[j] \in {buckets[j], Prune(buckets[j], t - Window)}
        BY <1>1, <2>1, <2>4, TrimmedBuckets
      <3>2. Admit(h)
        <4>1. DenyRate(h) => Len(Prune(b[k], t - Window)) >= Limit
          BY DEF DenyRate
        <4>2. Limit \in Nat \ {0} /\ t - Window \in Int /\ <<>> \in Seq(Times) /\ Len(<<>>) = 0
          BY <2>1, LimiterAssumption DEF Times
        <4>3. Prune(<<>>, t - Window) \in Seq(Times) /\ Len(Prune(<<>>, t - Window)) <= 0
          <5> DEFINE cut == t - Window
          <5> HIDE DEF cut
          <5>1. cut \in Int
            BY <4>2 DEF cut
          <5>2. Prune(<<>>, cut) \in Seq(Times) /\ Len(Prune(<<>>, cut)) <= 0
            BY <4>2, <5>1, PruneKeepsTheEnd
          <5>3. QED BY <5>2 DEF cut
        <4>4. ~DenyRate(h)
          BY <3>1, <4>1, <4>2, <4>3
        <4>5. DenyFull(h) => buckets' = b /\ UNCHANGED <<admitted, retryAt>>
          BY DEF DenyFull
        <4>6. Prune(<<>>, t - Window) = <<>>
          BY <4>3
        <4> HIDE DEF b, k, t
        <4>7. ~DenyFull(h)
          BY <2>4, <3>1, <4>5, <4>6 DEF Kept
        <4>8. QED BY <1>4, <4>4, <4>7
      <3>3. buckets' = [b EXCEPT ![k] = Append(Prune(b[k], t - Window), t)] /\ ~Full(b, k)
        BY <3>2 DEF Admit
      <3> HIDE DEF b, k, t
      <3>4. ~(Cardinality(Present(b, ShardOf[k])) >= MaxBuckets)
        BY <3>1, <3>3 DEF Full
      <3>5. \A j \in Keys : buckets[j] = <<>> => b[j] = <<>>
        <4>1. t - Window \in Int /\ <<>> \in Seq(Times) /\ Len(<<>>) = 0
          BY <2>1, LimiterAssumption DEF Times
        <4>2. Prune(<<>>, t - Window) \in Seq(Times) /\ Len(Prune(<<>>, t - Window)) <= 0
          BY <4>1, PruneKeepsTheEnd
        <4>3. QED BY <3>1, <4>2
      <3>6. ASSUME NEW s \in Shards
            PROVE  Cardinality(Present(buckets', s)) <= MaxBuckets
        <4>1. /\ IsFiniteSet(Present(b, s)) /\ Cardinality(Present(b, s)) \in Nat
              /\ Cardinality(Present(b, s)) <= Cardinality(Present(buckets, s))
              /\ Cardinality(Present(buckets, s)) \in Nat
              /\ Cardinality(Present(buckets, s)) <= MaxBuckets
          BY <1>1, <3>5, FewerKeys DEF BucketsBounded
        <4>2. CASE s # ShardOf[k]
          <5>1. Present(buckets', s) = Present(b, s)
            BY <2>1, <3>1, <3>3, <4>2 DEF Present
          <5>2. QED BY <1>1, <4>1, <5>1
        <4>3. CASE s = ShardOf[k]
          <5>1. Present(buckets', s) \subseteq Present(b, s) \cup {k}
            BY <2>1, <3>1, <3>3 DEF Present
          <5>2. /\ IsFiniteSet(Present(b, s) \cup {k})
                /\ Cardinality(Present(b, s) \cup {k}) \in Nat
                /\ Cardinality(Present(b, s) \cup {k}) <= Cardinality(Present(b, s)) + 1
            <6>1. /\ IsFiniteSet(Present(b, s) \cup {k})
                  /\ Cardinality(Present(b, s) \cup {k}) =
                        IF k \in Present(b, s) THEN Cardinality(Present(b, s))
                        ELSE Cardinality(Present(b, s)) + 1
              BY <4>1, FS_AddElement
            <6>2. QED BY <4>1, <6>1
          <5>3. /\ Cardinality(Present(buckets', s)) <= Cardinality(Present(b, s) \cup {k})
                /\ Cardinality(Present(buckets', s)) \in Nat
            BY <5>1, <5>2, FS_Subset, FS_CardinalityType
          <5>4. Cardinality(Present(b, s)) + 1 <= MaxBuckets
            BY <1>1, <3>4, <4>1, <4>3
          <5>5. QED BY <1>1, <4>1, <5>2, <5>3, <5>4
        <4>4. QED BY <4>2, <4>3
      <3>7. QED BY <3>6 DEF BucketsBounded
    <2>5. QED BY <2>3, <2>4
  <1>5. QED BY <1>3, <1>4

\* The types of what requests and the sweeper hold.
LEMMA HeldTypes ==
    ASSUME TypeOK, [Next]_vars
    PROVE  /\ now' \in [Handlers -> Times \cup {None}]
           /\ asked' \in [Handlers -> Keys \cup {None}]
           /\ \A h \in Handlers : now'[h] = None <=> asked'[h] = None
           /\ cutoff' \in Int \cup {None}
           /\ toSweep' \subseteq Shards
           /\ toSweep' # {} => cutoff' # None
  <1> DEFINE Held == /\ now' \in [Handlers -> Times \cup {None}]
                     /\ asked' \in [Handlers -> Keys \cup {None}]
                     /\ \A h \in Handlers : now'[h] = None <=> asked'[h] = None
                     /\ cutoff' \in Int \cup {None}
                     /\ toSweep' \subseteq Shards
                     /\ toSweep' # {} => cutoff' # None
  <1>1. /\ clock \in Times /\ None \notin Int /\ None \notin Keys
        /\ Times \subseteq Int /\ Window \in Nat
    BY LimiterAssumption DEF TypeOK, Times
  <1>2. ASSUME NEW h \in Handlers, NEW k \in Keys, Arrive(h, k)
        PROVE  Held
    <2>1. /\ now' = [now EXCEPT ![h] = clock] /\ asked' = [asked EXCEPT ![h] = k]
          /\ UNCHANGED <<cutoff, toSweep>>
      BY <1>2 DEF Arrive
    <2>2. QED BY <1>1, <2>1 DEF TypeOK
  <1>3. ASSUME NEW h \in Handlers, Answer(h)
        PROVE  Held
    <2>1. /\ now' = [now EXCEPT ![h] = None] /\ asked' = [asked EXCEPT ![h] = None]
          /\ UNCHANGED <<cutoff, toSweep>>
      BY <1>3 DEF Answer
    <2>2. QED BY <2>1 DEF TypeOK
  <1>4. ASSUME StartSweep
        PROVE  Held
    <2>1. cutoff' = clock - Window /\ toSweep' = Shards /\ UNCHANGED <<now, asked>>
      BY <1>4 DEF StartSweep
    <2>2. cutoff' \in Int /\ cutoff' # None
      BY <1>1, <2>1
    <2>3. QED BY <2>1, <2>2 DEF TypeOK
  <1>5. ASSUME NEW s \in Shards, SweepShard(s)
        PROVE  Held
    <2>1. /\ s \in toSweep /\ toSweep' = toSweep \ {s}
          /\ cutoff' = IF toSweep = {s} THEN None ELSE cutoff
          /\ UNCHANGED <<now, asked>>
      BY <1>5 DEF SweepShard
    <2>2. QED BY <2>1 DEF TypeOK
  <1>6. ASSUME UNCHANGED <<now, asked, cutoff, toSweep>>
        PROVE  Held
    BY <1>6 DEF TypeOK
  <1>7. \/ \E h \in Handlers : (\E k \in Keys : Arrive(h, k)) \/ Answer(h)
        \/ StartSweep
        \/ \E s \in Shards : SweepShard(s)
        \/ UNCHANGED <<now, asked, cutoff, toSweep>>
    BY DEF Next, vars, Admit, DenyRate, DenyFull, Second
  <1> HIDE DEF Held
  <1>8. Held
    BY <1>2, <1>3, <1>4, <1>5, <1>6, <1>7
  <1>9. QED BY <1>8 DEF Held

\* The buckets, the history and the times to retry are functions on the keys.
LEMMA KeysKept ==
    ASSUME TypeOK, [Next]_vars
    PROVE  /\ buckets' = [k \in Keys |-> buckets'[k]]
           /\ admitted' = [k \in Keys |-> admitted'[k]]
           /\ retryAt' = [k \in Keys |-> retryAt'[k]]
  <1>1. /\ admitted = [k \in Keys |-> admitted[k]]
        /\ retryAt = [k \in Keys |-> retryAt[k]]
        /\ buckets = [k \in Keys |-> buckets[k]]
    BY DEF TypeOK
  <1>2. ASSUME NEW h \in Handlers, Admit(h) \/ DenyRate(h) \/ DenyFull(h)
        PROVE  /\ \E k, x : \/ buckets' = [Trimmed(asked[h], now[h]) EXCEPT ![k] = x]
                            \/ buckets' = Trimmed(asked[h], now[h])
               /\ \/ UNCHANGED admitted
                  \/ \E k, x : admitted' = [admitted EXCEPT ![k] = x]
               /\ \/ UNCHANGED retryAt
                  \/ \E k, x : retryAt' = [retryAt EXCEPT ![k] = x]
    BY <1>2 DEF Admit, DenyRate, DenyFull
  <1>3. ASSUME NEW h \in Handlers, Admit(h) \/ DenyRate(h) \/ DenyFull(h)
        PROVE  Trimmed(asked[h], now[h]) = [k \in Keys |-> Trimmed(asked[h], now[h])[k]]
    BY <1>1 DEF Trimmed, Trim
  <1>4. ASSUME NEW s \in Shards, SweepShard(s)
        PROVE  buckets' = [k \in Keys |-> buckets'[k]] /\ UNCHANGED <<admitted, retryAt>>
    BY <1>4 DEF SweepShard, Trim
  <1>5. \/ UNCHANGED <<buckets, admitted, retryAt>>
        \/ \E s \in Shards : SweepShard(s)
        \/ \E h \in Handlers : Admit(h) \/ DenyRate(h) \/ DenyFull(h)
    BY DEF Next, vars, Arrive, StartSweep, Second
  <1>6. QED BY <1>1, <1>2, <1>3, <1>4, <1>5

\* Every step keeps the invariant.
LEMMA InvNext == Inv /\ [Next]_vars => Inv'
  <1> SUFFICES ASSUME Inv, [Next]_vars PROVE Inv'
    OBVIOUS
  <1>1. TypeOK /\ ClockInv
    BY DEF Inv
  <1>2. ClockInv' /\ newest <= newest' /\ newest' \in 0..clock' /\ clock' \in Times
    BY <1>1, Clocks
  <1>3. newest' \in Nat
    BY <1>2, LimiterAssumption DEF Times
  <1>4. PICK t \in Times : t <= newest' /\
           \A k \in Keys : Kept(k) \/ Admitted(k, t) \/ Denied(k, t)
    BY Effects
  <1>5. \A k \in Keys :
           /\ buckets'[k] \in Seq(Times)
           /\ admitted'[k] \in Seq(Times)
           /\ retryAt'[k] \in Nat \cup {None}
           /\ Len(buckets'[k]) <= Limit
           /\ IsTail(buckets'[k], admitted'[k], newest')
           /\ Leaves(buckets'[k], retryAt'[k])
    BY <1>2, <1>3, <1>4, KeyNext
  <1>6. /\ buckets' = [k \in Keys |-> buckets'[k]]
        /\ admitted' = [k \in Keys |-> admitted'[k]]
        /\ retryAt' = [k \in Keys |-> retryAt'[k]]
    BY <1>1, KeysKept
  <1>7. /\ buckets' \in [Keys -> Seq(Times)]
        /\ admitted' \in [Keys -> Seq(Times)]
        /\ retryAt' \in [Keys -> Nat \cup {None}]
    BY <1>5, <1>6
  <1>8. TypeOK'
    BY <1>1, <1>2, <1>7, HeldTypes DEF TypeOK
  <1>9. TailInv' /\ RetryInv'
    BY <1>5 DEF TailInv, RetryInv
  <1>10. BucketsBounded'
    BY BoundNext
  <1>11. QED BY <1>2, <1>8, <1>9, <1>10 DEF Inv

-----------------------------------------------------------------------------
(* The limiter: the theorems *)

\* The invariant holds of every behaviour of the limiter.
THEOREM InvariantHolds == Spec => []Inv
  BY InitInv, InvNext, PTL DEF Spec

\* The variables keep their types; no decision uses a time that is still to come.
THEOREM TypeCorrect == Spec => []TypeOK
  <1>1. Inv => TypeOK
    BY DEF Inv
  <1>2. QED BY <1>1, InvariantHolds, PTL

\* Memory (maxBucketsPerShard): no shard holds more keys than its bound.
THEOREM ShardsAreBounded == Spec => []BucketsBounded
  <1>1. Inv => BucketsBounded
    BY DEF Inv
  <1>2. QED BY <1>1, InvariantHolds, PTL

\* The limit (Allow): the requests that the newest window counts are still in
\* their key's bucket, and a bucket never holds more than Limit.
THEOREM LimitHolds == Spec => []WindowBounded
  <1>1. ASSUME Inv, NEW k \in Keys
        PROVE  Cardinality(InWindow(k)) <= Limit
    <2> DEFINE a == admitted[k]
               b == buckets[k]
               Counted == (Len(a) - Len(b) + 1)..Len(a)
    <2>1. /\ a \in Seq(Times) /\ b \in Seq(Times) /\ Len(b) <= Limit
          /\ Len(b) <= Len(a) /\ newest \in Nat /\ Window \in Nat /\ Limit \in Nat
          /\ \A i \in 1..(Len(a) - Len(b)) : a[i] < newest - Window
      BY <1>1, LimiterAssumption DEF Inv, TypeOK, TailInv, IsTail, Times
    <2>2. InWindow(k) = {i \in 1..Len(a) : a[i] >= newest - Window}
      BY DEF InWindow
    <2> HIDE DEF a, b
    <2>3. Len(a) \in Nat /\ Len(b) \in Nat /\ \A i \in 1..Len(a) : a[i] \in Int
      BY <2>1, LimiterAssumption DEF Times
    <2>4. InWindow(k) \subseteq Counted
      <3>1. SUFFICES ASSUME NEW i \in 1..Len(a), a[i] >= newest - Window
                     PROVE  i \in Counted
        BY <2>2
      <3>2. a[i] \in Int /\ i \in Nat /\ i <= Len(a) /\ i >= 1
        BY <2>3
      <3>3. ~(i <= Len(a) - Len(b))
        <4>1. i <= Len(a) - Len(b) => i \in 1..(Len(a) - Len(b))
          BY <2>3, <3>2
        <4>2. a[i] < newest - Window => FALSE
          BY <2>1, <3>1, <3>2
        <4>3. QED BY <2>1, <4>1, <4>2
      <3>4. QED BY <2>3, <3>2, <3>3
    <2>5. IsFiniteSet(Counted) /\ Cardinality(Counted) = Len(b)
      <3>1. Len(a) - Len(b) + 1 \in Int /\ Len(a) \in Int
        BY <2>3
      <3>2. /\ IsFiniteSet(Counted)
            /\ Cardinality(Counted) = IF Len(a) - Len(b) + 1 > Len(a) THEN 0
                                   ELSE Len(a) - (Len(a) - Len(b) + 1) + 1
        BY <3>1, FS_Interval
      <3>3. QED BY <2>3, <3>2
    <2>6. Cardinality(InWindow(k)) <= Len(b) /\ Cardinality(InWindow(k)) \in Nat
      <3> HIDE DEF Counted
      <3>1. QED BY <2>4, <2>5, FS_Subset, FS_CardinalityType
    <2>7. QED BY <2>1, <2>3, <2>6
  <1>2. Inv => WindowBounded
    BY <1>1 DEF WindowBounded
  <1>3. QED BY <1>2, InvariantHolds, PTL

\* Retry-After (Allow): a request later than the time its key was told is not
\* denied for its rate, for its bucket has room or its first hit has left.
THEOREM RetryAfterSuffices == Spec => RetryAfterIsEnough
  <1>1. ASSUME Inv, [Next]_vars, NEW h \in Handlers, now[h] # None, now'[h] = None,
               retryAt[asked[h]] # None, now[h] > retryAt[asked[h]]
        PROVE  retryAt'[asked[h]] \in {None, retryAt[asked[h]]}
    <2> DEFINE k == asked[h]
               t == now[h]
    <2>1. TypeOK
      BY <1>1 DEF Inv
    <2>2. CASE UNCHANGED retryAt
      BY <2>2
    <2>3. CASE ~UNCHANGED retryAt
      <3>1. PICK g \in Handlers : Admit(g) \/ DenyRate(g)
        BY <1>1, <2>3 DEF Next, vars, Arrive, DenyFull, StartSweep, SweepShard, Second
      <3>2. now' = [now EXCEPT ![g] = None]
        BY <3>1 DEF Admit, DenyRate, Answer
      <3>3. g = h
        BY <1>1, <2>1, <3>2 DEF TypeOK
      <3>4. /\ k \in Keys /\ t \in Times
            /\ Admitted(k, t) \/ Denied(k, t) \/ Kept(k)
        BY <2>1, <3>1, <3>3, AnswerEffects
      <3>5. CASE Admitted(k, t)
        BY <3>5 DEF Admitted
      <3>6. CASE Kept(k)
        BY <3>6 DEF Kept
      <3>7. ~Denied(k, t)
        <4>1. SUFFICES ASSUME Denied(k, t) PROVE FALSE
          OBVIOUS
        <4>2. PICK hits \in Seq(Times) :
                 hits = Prune(buckets[k], t - Window) /\ Len(hits) >= Limit
          BY <4>1 DEF Denied
        <4>3. /\ buckets[k] \in Seq(Times) /\ Len(buckets[k]) <= Limit
              /\ Leaves(buckets[k], retryAt[k]) /\ retryAt[k] \in Nat \cup {None}
              /\ Limit \in Nat \ {0} /\ Window \in Nat /\ t \in Nat
          BY <1>1, <3>4, LimiterAssumption DEF Inv, TypeOK, TailInv, RetryInv, Times
        <4>4. t - Window \in Int
          BY <4>3
        <4> HIDE DEF k, t
        <4>5. /\ Len(hits) <= Len(buckets[k])
              /\ Len(hits) = Len(buckets[k]) => hits = buckets[k]
              /\ hits # <<>> => hits[1] >= t - Window
          BY <4>2, <4>3, <4>4, PruneKeepsTheEnd
        <4>6. Len(hits) \in Nat /\ Len(buckets[k]) \in Nat
          BY <4>2, <4>3
        <4>7. Len(hits) = Limit /\ Len(buckets[k]) = Limit
          BY <4>2, <4>3, <4>5, <4>6
        <4>8. hits = buckets[k] /\ 1 \in 1..Len(hits)
          BY <4>3, <4>5, <4>7
        <4>9. hits[1] \in Times /\ hits # <<>>
          BY <4>8
        <4>10. hits[1] \in Nat /\ hits[1] >= t - Window
          BY <4>5, <4>9 DEF Times
        <4>11. retryAt[k] \in Nat /\ hits[1] + Window <= retryAt[k]
          BY <1>1, <4>3, <4>7, <4>8 DEF Leaves, k
        <4>12. t > retryAt[k]
          BY <1>1 DEF k, t
        <4>13. QED BY <4>3, <4>10, <4>11, <4>12
      <3>8. QED BY <3>4, <3>5, <3>6, <3>7
    <2>4. QED BY <2>2, <2>3
  <1>2. Inv /\ [Next]_vars =>
           \A h \in Handlers :
              /\ now[h] # None /\ now'[h] = None
              /\ retryAt[asked[h]] # None
              /\ now[h] > retryAt[asked[h]]
              => retryAt'[asked[h]] \in {None, retryAt[asked[h]]}
    BY <1>1
  <1>3. QED BY <1>2, InvariantHolds, PTL DEF Spec, RetryAfterIsEnough
-----------------------------------------------------------------------------
(* The cache of /v1/stats *)

\* The larger of two times.
LEMMA MaxOfTwo ==
    ASSUME NEW a \in Nat, NEW b \in Nat
    PROVE  Max({a, b}) \in {a, b} /\ Max({a, b}) >= a /\ Max({a, b}) >= b
  <1>1. \E m \in {a, b} : \A n \in {a, b} : m >= n
    <2>1. CASE a >= b
      BY <2>1
    <2>2. CASE b >= a
      BY <2>2
    <2>3. QED BY <2>1, <2>2
  <1>2. Max({a, b}) \in {a, b} /\ \A n \in {a, b} : Max({a, b}) >= n
    BY <1>1 DEF Max
  <1>3. QED BY <1>2

\* Where a handler of handleStats is, what it was asked and when it read.
StatsTypes ==
    /\ tick \in Nat /\ slowest \in Nat
    /\ step \in [StatsRequests -> {"idle", "total", "top"}]
    /\ asks \in [StatsRequests -> Tops \cup {NoEntry}]
    /\ \A q \in StatsRequests : step[q] # "idle" => asks[q] \in Tops
    /\ data \in [StatsRequests -> Nat]
    /\ \A q \in StatsRequests : data[q] <= tick
    /\ freshest \in [Tops -> Nat]
    /\ \A n \in Tops : freshest[n] <= tick

\* An entry was stamped no later than now, and after its data by no more than the
\* slowest computation; no answer was newer than its data by more than that.
EntryInv(n) ==
    statsCache[n] # NoEntry =>
        /\ statsCache[n].data \in Nat /\ statsCache[n].at \in Nat
        /\ statsCache[n].data <= statsCache[n].at /\ statsCache[n].at <= tick
        /\ statsCache[n].at <= statsCache[n].data + slowest
        /\ freshest[n] <= statsCache[n].data + slowest

StatsInv ==
    /\ StatsTypes
    /\ statsCache = [n \in Tops |-> statsCache[n]]
    /\ \A n \in Tops : EntryInv(n)

\* An answer that is stored is as old as its computation took, which is then
\* counted among the slowest; nothing that was given can be newer than now.
LEMMA PutNext ==
    ASSUME StatsInv, NEW q \in StatsRequests, Put(q)
    PROVE  StatsInv'
  <1>1. /\ step[q] = "top"
        /\ step' = [step EXCEPT ![q] = "idle"]
        /\ statsCache' = [statsCache EXCEPT ![asks[q]] = [data |-> data[q], at |-> tick]]
        /\ freshest' = [freshest EXCEPT ![asks[q]] = Max({freshest[asks[q]], data[q]})]
        /\ slowest' = Max({slowest, tick - data[q]})
        /\ UNCHANGED <<tick, asks, data>>
    BY DEF Put
  <1>2. /\ asks[q] \in Tops /\ data[q] \in Nat /\ tick \in Nat /\ data[q] <= tick
        /\ slowest \in Nat /\ freshest[asks[q]] \in Nat /\ freshest[asks[q]] <= tick
    BY <1>1 DEF StatsInv, StatsTypes
  <1>3. tick - data[q] \in Nat
    BY <1>2
  <1>4. slowest' \in Nat /\ slowest' >= slowest /\ slowest' >= tick - data[q]
    BY <1>1, <1>2, <1>3, MaxOfTwo
  <1>5. /\ freshest' \in [Tops -> Nat]
        /\ freshest'[asks[q]] <= tick
        /\ \A n \in Tops \ {asks[q]} : freshest'[n] = freshest[n]
    <2>1. /\ Max({freshest[asks[q]], data[q]}) \in Nat
          /\ Max({freshest[asks[q]], data[q]}) <= tick
      BY <1>2, MaxOfTwo
    <2>2. QED BY <1>1, <1>2, <2>1 DEF StatsInv, StatsTypes
  <1>6. StatsTypes'
    <2>1. StatsTypes
      BY DEF StatsInv
    <2>2. /\ step' \in [StatsRequests -> {"idle", "total", "top"}]
          /\ \A p \in StatsRequests : step'[p] # "idle" => asks'[p] \in Tops
      BY <1>1, <2>1 DEF StatsTypes
    <2>3. /\ asks' \in [StatsRequests -> Tops \cup {NoEntry}]
          /\ data' \in [StatsRequests -> Nat] /\ tick' \in Nat
          /\ \A p \in StatsRequests : data'[p] <= tick'
      BY <1>1, <2>1 DEF StatsTypes
    <2>4. \A n \in Tops : freshest'[n] <= tick'
      BY <1>1, <1>5, <2>1 DEF StatsTypes
    <2>5. QED BY <1>4, <1>5, <2>2, <2>3, <2>4 DEF StatsTypes
  <1>7. statsCache' = [n \in Tops |-> statsCache'[n]]
    BY <1>1 DEF StatsInv
  <1>8. ASSUME NEW n \in Tops, n = asks[q]
        PROVE  EntryInv(n)'
    <2>1. statsCache'[n] = [data |-> data[q], at |-> tick]
      BY <1>1, <1>8 DEF StatsInv
    <2>2. tick <= data[q] + slowest'
      BY <1>2, <1>4
    <2>3. freshest'[n] \in Nat
      BY <1>5
    <2>4. freshest'[n] <= data[q] + slowest'
      BY <1>2, <1>4, <1>5, <1>8, <2>2, <2>3
    <2>5. QED BY <1>1, <1>2, <2>1, <2>2, <2>4 DEF EntryInv
  <1>9. ASSUME NEW n \in Tops, n # asks[q]
        PROVE  EntryInv(n)'
    <2>1. statsCache'[n] = statsCache[n] /\ freshest'[n] = freshest[n] /\ tick' = tick
      BY <1>1, <1>5, <1>9 DEF StatsInv
    <2>2. freshest[n] \in Nat
      BY DEF StatsInv, StatsTypes
    <2>3. EntryInv(n)
      BY DEF StatsInv
    <2>4. \A c, d, u, w \in Nat : c <= d + u /\ u <= w => c <= d + w
      OBVIOUS
    <2>5. \A c, d \in Nat : c <= d + slowest => c <= d + slowest'
      BY <1>2, <1>4, <2>4
    <2>6. QED BY <2>1, <2>2, <2>3, <2>5 DEF EntryInv
  <1>10. \A n \in Tops : EntryInv(n)'
    BY <1>8, <1>9
  <1>11. QED BY <1>6, <1>7, <1>10 DEF StatsInv

\* An answer from the cache is no newer than its entry.
LEMMA HitNext ==
    ASSUME StatsInv, NEW q \in StatsRequests, NEW n \in Tops, Hit(q, n)
    PROVE  StatsInv'
  <1>1. /\ statsCache[n] # NoEntry
        /\ freshest' = [freshest EXCEPT ![n] = Max({freshest[n], statsCache[n].data})]
        /\ UNCHANGED <<tick, statsCache, step, asks, data, slowest>>
    BY DEF Hit, Fresh
  <1>2. /\ tick \in Nat /\ slowest \in Nat /\ freshest \in [Tops -> Nat]
        /\ freshest[n] \in Nat /\ freshest[n] <= tick
        /\ statsCache[n].data \in Nat /\ statsCache[n].data <= tick
        /\ freshest[n] <= statsCache[n].data + slowest
    <2>1. EntryInv(n)
      BY DEF StatsInv
    <2>2. QED BY <1>1, <2>1 DEF StatsInv, StatsTypes, EntryInv
  <1>3. /\ freshest'[n] \in Nat /\ freshest'[n] <= tick
        /\ freshest'[n] <= statsCache[n].data + slowest
    BY <1>1, <1>2, MaxOfTwo
  <1>4. StatsTypes'
    BY <1>1, <1>2, <1>3 DEF StatsInv, StatsTypes
  <1>5. ASSUME NEW m \in Tops
        PROVE  EntryInv(m)'
    <2>1. EntryInv(m) /\ (m # n => freshest'[m] = freshest[m])
      BY <1>1, <1>2 DEF StatsInv
    <2>2. QED BY <1>1, <1>3, <2>1 DEF EntryInv
  <1>6. QED BY <1>1, <1>4, <1>5 DEF StatsInv

\* Every other step moves a request or the clock.
LEMMA StatsStep ==
    ASSUME StatsInv, [StatsNext]_statsVars
    PROVE  StatsInv'
  <1>1. ASSUME UNCHANGED <<statsCache, freshest, slowest>>, tick' \in Nat, tick <= tick', StatsTypes'
        PROVE  StatsInv'
    <2>1. ASSUME NEW n \in Tops
          PROVE  EntryInv(n)'
      <3>1. EntryInv(n) /\ tick \in Nat
        BY DEF StatsInv, StatsTypes
      <3>2. QED BY <1>1, <3>1 DEF EntryInv
    <2>2. QED BY <1>1, <2>1 DEF StatsInv
  <1>2. CASE StatsTick
    <2>1. tick' = tick + 1 /\ UNCHANGED <<statsCache, step, asks, data, freshest, slowest>>
      BY <1>2 DEF StatsTick
    <2>2. tick \in Nat /\ tick' \in Nat /\ tick <= tick' /\ StatsTypes'
      BY <2>1 DEF StatsInv, StatsTypes
    <2>3. QED BY <1>1, <2>1, <2>2
  <1>3. ASSUME NEW q \in StatsRequests, NEW n \in Tops, Miss(q, n)
        PROVE  StatsInv'
    <2>1. /\ step' = [step EXCEPT ![q] = "total"] /\ asks' = [asks EXCEPT ![q] = n]
          /\ UNCHANGED <<tick, statsCache, data, freshest, slowest>>
      BY <1>3 DEF Miss
    <2>2. tick \in Nat /\ StatsTypes'
      BY <2>1 DEF StatsInv, StatsTypes
    <2>3. QED BY <1>1, <2>1, <2>2
  <1>4. ASSUME NEW q \in StatsRequests, ReadTotal(q) \/ StatsFails(q)
        PROVE  StatsInv'
    <2>1. /\ step[q] # "idle" /\ step' \in {[step EXCEPT ![q] = "top"], [step EXCEPT ![q] = "idle"]}
          /\ data' \in {data, [data EXCEPT ![q] = tick]}
          /\ UNCHANGED <<tick, statsCache, asks, freshest, slowest>>
      BY <1>4 DEF ReadTotal, StatsFails
    <2>2. tick \in Nat /\ StatsTypes'
      BY <2>1 DEF StatsInv, StatsTypes
    <2>3. QED BY <1>1, <2>1, <2>2
  <1>5. CASE UNCHANGED statsVars
    <2>1. UNCHANGED <<tick, statsCache, step, asks, data, freshest, slowest>>
      BY <1>5 DEF statsVars
    <2>2. tick \in Nat /\ StatsTypes'
      BY <2>1 DEF StatsInv, StatsTypes
    <2>3. QED BY <1>1, <2>1, <2>2
  <1>6. QED BY <1>2, <1>3, <1>4, <1>5, PutNext, HitNext DEF StatsNext

\* handleStats: an answer from the cache is younger than statsCacheTTL and the time
\* the slowest computation took, and older than no answer given by more than that.
THEOREM StatsAreRecent == StatsSpec => []CachedAnswersAreRecent
  <1>1. StatsInit => StatsInv
    <2>1. StatsInit => StatsTypes
      BY DEF StatsInit, StatsTypes
    <2>2. QED BY <2>1 DEF StatsInit, StatsInv, EntryInv
  <1>2. StatsInv /\ [StatsNext]_statsVars => StatsInv'
    BY StatsStep
  <1>3. ASSUME StatsInv, NEW n \in Tops, Fresh(n)
        PROVE  /\ tick - statsCache[n].data < StatsTTL + slowest
               /\ statsCache[n].data + slowest >= freshest[n]
    <2>1. statsCache[n] # NoEntry /\ tick - statsCache[n].at < StatsTTL
      BY <1>3 DEF Fresh
    <2>2. /\ tick \in Nat /\ slowest \in Nat /\ StatsTTL \in Nat
          /\ EntryInv(n) /\ freshest[n] \in Nat
      BY <1>3, StatsAssumption DEF StatsInv, StatsTypes
    <2>3. QED BY <2>1, <2>2 DEF EntryInv
  <1>4. StatsInv => CachedAnswersAreRecent
    BY <1>3 DEF CachedAnswersAreRecent
  <1>5. QED BY <1>1, <1>2, <1>4, PTL DEF StatsSpec

-----------------------------------------------------------------------------
(* The log lists *)

\* The entries of one log.
Named(i, j) == Listed(read[j]) /\ read[j].id = merged[i].id

ListTypes ==
    /\ left \in Seq(LogEntries) /\ merged \in Seq(LogEntries) /\ read \in Seq(LogEntries)
    /\ fetched \in Nat /\ source \in Nat /\ visited \in 0..Len(merged)
    /\ source < Sources \/ left # <<>> => visited = 0
    /\ source = Sources + 1 => left = <<>> /\ visited = Len(merged)
    /\ DOMAIN tailers = LogIds
    /\ offered \in [LogIds -> Seq({CurrentState(lg) : lg \in LogEntries})]

\* What the merged list is of the entries read: one log for each that is listed,
\* with the states of its first entry and the endpoints of all of them.
MergedInv ==
    /\ \A i \in DOMAIN merged : Listed(merged[i])
    /\ \A i, j \in DOMAIN merged : merged[i].id = merged[j].id => i = j
    /\ \A j \in DOMAIN read : Listed(read[j]) => \E i \in DOMAIN merged : Named(i, j)
    /\ \A i \in DOMAIN merged :
          /\ \E j \in DOMAIN read :
                Named(i, j) /\ IsFirst(j) /\ read[j].states = merged[i].states
          /\ merged[i].url <=> \E j \in DOMAIN read : Named(i, j) /\ read[j].url
          /\ merged[i].monitoring <=> \E j \in DOMAIN read : Named(i, j) /\ read[j].monitoring

\* What Sync has looked at is started if it is to be followed.
FollowInv == \A i \in 1..visited : Followed(merged[i]) => merged[i].id \in started

\* A log has a tailer if an earlier round offered it, in the state of the first of
\* these rounds, or if the walk of this round has come past it.
TailerInv ==
    \A id \in LogIds :
        /\ id \in started <=> tailers[id] # <<>>
        /\ offered[id] # <<>> => tailers[id] = <<Head(offered[id])>>
        /\ offered[id] = <<>> /\ tailers[id] # <<>> =>
              /\ source # Sources + 1
              /\ \E i \in 1..visited :
                     /\ merged[i].id = id /\ Followed(merged[i])
                     /\ tailers[id] = <<CurrentState(merged[i])>>

ListInv == ListTypes /\ MergedInv /\ FollowInv /\ TailerInv

\* The types, and that nothing is merged before a source has answered.
LEMMA ListTypesNext ==
    ASSUME ListTypes, [ListNext]_listVars
    PROVE  ListTypes'
  <1>1. ASSUME NEW list \in Lists, ListAnswer(list) PROVE ListTypes'
    BY <1>1, LogListAssumption DEF ListTypes, ListAnswer, syncVars
  <1>2. CASE MergeLog
    <2> DEFINE lg == Head(left)
    <2>1. lg \in LogEntries /\ Tail(left) \in Seq(LogEntries)
      BY <1>2 DEF ListTypes, MergeLog
    <2>2. AddLog(merged, lg) \in Seq(LogEntries)
      <3>1. CASE ~Listed(lg)
        BY <3>1 DEF AddLog, ListTypes
      <3>2. CASE Listed(lg) /\ \E i \in DOMAIN merged : merged[i].id = lg.id
        <4> DEFINE new == [i \in DOMAIN merged |->
                             IF merged[i].id # lg.id THEN merged[i]
                             ELSE [merged[i] EXCEPT !.url = @ \/ lg.url,
                                                    !.monitoring = @ \/ lg.monitoring]]
        <4>1. AddLog(merged, lg) = new
          BY <3>2 DEF AddLog
        <4>2. \A i \in DOMAIN merged : merged[i] \in LogEntries
          BY DEF ListTypes
        <4>3. \A i \in DOMAIN merged : new[i] \in LogEntries
          BY <2>1, <4>2 DEF LogEntries
        <4>4. DOMAIN merged = 1..Len(merged) /\ Len(merged) \in Nat
          BY DEF ListTypes
        <4>5. new \in [1..Len(merged) -> LogEntries]
          BY <4>3, <4>4
        <4> HIDE DEF new
        <4>6. QED BY <4>1, <4>4, <4>5
      <3>3. CASE Listed(lg) /\ ~\E i \in DOMAIN merged : merged[i].id = lg.id
        BY <2>1, <3>3 DEF AddLog, ListTypes
      <3>4. QED BY <3>1, <3>2, <3>3
    <2>3. Append(read, lg) \in Seq(LogEntries)
      BY <2>1 DEF ListTypes
    <2>4. /\ merged' = AddLog(merged, lg) /\ read' = Append(read, lg) /\ left' = Tail(left)
          /\ left # <<>> /\ UNCHANGED <<fetched, source, syncVars>>
      BY <1>2 DEF MergeLog
    <2>5. visited' \in 0..Len(merged') /\ source # Sources + 1
      BY <2>2, <2>4 DEF ListTypes, syncVars
    <2>6. QED BY <2>1, <2>2, <2>3, <2>4, <2>5 DEF ListTypes, syncVars
  <1>3. CASE SourceFails \/ FetchCancelled \/ CancelContext \/ UNCHANGED listVars
    BY <1>3, LogListAssumption
       DEF SourceFails, FetchCancelled, CancelContext, listVars, syncVars, ListTypes
  <1>4. CASE Sync
    <2>1. PICK lg \in ToSet(merged) : StartLog(lg) \/ PassLog(lg)
      BY <1>4 DEF Sync
    <2>2. visited' \in 0..Len(merged') /\ visited' = visited + 1
      BY <2>1 DEF StartLog, PassLog, NextLog, ListTypes
    <2>3. source = Sources /\ left = <<>> /\ UNCHANGED <<source, fetched, left, merged, read, offered>>
      BY <2>1 DEF StartLog, PassLog, NextLog
    <2>4. DOMAIN tailers' = LogIds
      BY <2>1 DEF StartLog, PassLog, ListTypes
    <2>5. QED BY <2>2, <2>3, <2>4, LogListAssumption DEF ListTypes
  <1>5. CASE EndRound
    <2>1. \A id \in LogIds : Offers(id) \subseteq {CurrentState(lg) : lg \in LogEntries}
      BY DEF Offers, ListTypes
    <2>2. offered' \in [LogIds -> Seq({CurrentState(lg) : lg \in LogEntries})]
      <3> DEFINE S == {CurrentState(lg) : lg \in LogEntries}
      <3> HIDE DEF S
      <3>1. offered \in [LogIds -> Seq(S)] /\ \A id \in LogIds : Offers(id) \subseteq S
        BY <2>1 DEF ListTypes, S
      <3>2. offered' \in [LogIds -> Seq(S)]
        BY <1>5, <3>1 DEF EndRound
      <3>3. QED BY <3>2 DEF S
    <2>3. /\ source = Sources /\ source' = Sources + 1 /\ left' = <<>> /\ visited' = Len(merged')
          /\ UNCHANGED <<fetched, left, merged, read, visited, tailers>>
      BY <1>5 DEF EndRound
    <2>4. QED BY <2>2, <2>3, LogListAssumption DEF ListTypes
  <1>6. CASE Refresh
    BY <1>6, LogListAssumption DEF Refresh, ListTypes
  <1>7. QED BY <1>1, <1>2, <1>3, <1>4, <1>5, <1>6 DEF ListNext

\* A list in which the log lg has the endpoints of one more entry, and a list
\* with one more log.
Filled(logs, lg, new) ==
    /\ DOMAIN new = DOMAIN logs
    /\ \A i \in DOMAIN logs :
          /\ new[i].id = logs[i].id /\ new[i].states = logs[i].states
          /\ new[i].url <=> logs[i].url \/ (logs[i].id = lg.id /\ lg.url)
          /\ new[i].monitoring
                <=> logs[i].monitoring \/ (logs[i].id = lg.id /\ lg.monitoring)

Extended(logs, lg, new) ==
    /\ DOMAIN new = DOMAIN logs \cup {Len(logs) + 1}
    /\ \A i \in DOMAIN logs : new[i] = logs[i]
    /\ new[Len(logs) + 1] = lg

\* What AddLog does to the list of the logs found so far.
LEMMA AddLogEffects ==
    ASSUME NEW logs \in Seq(LogEntries), NEW lg \in LogEntries, Listed(lg)
    PROVE  /\ (\E m \in DOMAIN logs : logs[m].id = lg.id) => Filled(logs, lg, AddLog(logs, lg))
           /\ (\A m \in DOMAIN logs : logs[m].id # lg.id) => Extended(logs, lg, AddLog(logs, lg))
  <1> DEFINE new == AddLog(logs, lg)
  <1>1. CASE \E m \in DOMAIN logs : logs[m].id = lg.id
    <2>1. new = [i \in DOMAIN logs |->
                    IF logs[i].id # lg.id THEN logs[i]
                    ELSE [logs[i] EXCEPT !.url = @ \/ lg.url,
                                         !.monitoring = @ \/ lg.monitoring]]
      BY <1>1 DEF AddLog
    <2>2. \A i \in DOMAIN logs : logs[i] \in LogEntries
      OBVIOUS
    <2>3. ASSUME NEW i \in DOMAIN logs, logs[i].id # lg.id
          PROVE  new[i] = logs[i]
      BY <2>1, <2>3
    <2>4. ASSUME NEW i \in DOMAIN logs, logs[i].id = lg.id
          PROVE  /\ new[i].id = logs[i].id /\ new[i].states = logs[i].states
                 /\ new[i].url <=> logs[i].url \/ lg.url
                 /\ new[i].monitoring <=> logs[i].monitoring \/ lg.monitoring
      <3>1. new[i] = [logs[i] EXCEPT !.url = @ \/ lg.url, !.monitoring = @ \/ lg.monitoring]
        BY <2>1, <2>4
      <3>2. QED BY <2>2, <3>1 DEF LogEntries
    <2>5. DOMAIN new = DOMAIN logs
      BY <2>1
    <2> HIDE DEF new
    <2>6. Filled(logs, lg, new)
      BY <2>3, <2>4, <2>5 DEF Filled
    <2>7. QED BY <1>1, <2>6 DEF new
  <1>2. CASE \A i \in DOMAIN logs : logs[i].id # lg.id
    <2>1. new = Append(logs, lg)
      BY <1>2 DEF AddLog
    <2> HIDE DEF new
    <2>2. Extended(logs, lg, new)
      BY <1>2, <2>1 DEF Extended
    <2>3. QED BY <1>2, <2>2 DEF new
  <1>3. QED BY <1>1, <1>2

\* A step of the merge keeps what the list is of the entries read.
LEMMA MergeNext ==
    ASSUME ListTypes, ListTypes', MergedInv, MergeLog
    PROVE  MergedInv'
  <1> DEFINE lg == Head(left)
             L == Len(read) + 1
             M == Len(merged) + 1
  <1>1. /\ merged' = AddLog(merged, lg) /\ read' = Append(read, lg) /\ lg \in LogEntries
        /\ merged \in Seq(LogEntries) /\ read \in Seq(LogEntries)
    BY DEF MergeLog, ListTypes
  <1> HIDE DEF lg
  <1>2. /\ DOMAIN read' = DOMAIN read \cup {L} /\ read'[L] = lg
        /\ \A j \in DOMAIN read : read'[j] = read[j]
        /\ DOMAIN read = 1..Len(read) /\ Len(read) \in Nat
    BY <1>1
  <1>3. \A j \in DOMAIN read : IsFirst(j)' <=> IsFirst(j)
    <2> SUFFICES ASSUME NEW j \in DOMAIN read
                 PROVE  IsFirst(j)' <=> IsFirst(j)
      OBVIOUS
    <2>1. \A k \in 1..(j - 1) : k \in DOMAIN read
      BY <1>2
    <2>2. QED BY <1>2, <2>1 DEF IsFirst
  <1>4. CASE ~Listed(lg)
    <2>1. merged' = merged
      BY <1>1, <1>4 DEF AddLog
    <2>2. \A i \in DOMAIN merged, j \in DOMAIN read : Named(i, j)' <=> Named(i, j)
      BY <1>2, <2>1 DEF Named
    <2>3. \A i \in DOMAIN merged : ~(Listed(read'[L]) /\ read'[L].id = merged'[i].id)
      BY <1>2, <1>4
    <2>4. QED BY <1>2, <1>3, <1>4, <2>1, <2>2, <2>3 DEF MergedInv, Named
  <1>5. CASE Listed(lg) /\ \E m \in DOMAIN merged : merged[m].id = lg.id
    <2>1. /\ DOMAIN merged' = DOMAIN merged
          /\ \A i \in DOMAIN merged :
                /\ merged'[i].id = merged[i].id /\ merged'[i].states = merged[i].states
                /\ merged'[i].url <=> merged[i].url \/ (merged[i].id = lg.id /\ lg.url)
                /\ merged'[i].monitoring
                      <=> merged[i].monitoring \/ (merged[i].id = lg.id /\ lg.monitoring)
      <3>1. Filled(merged, lg, merged')
        BY <1>1, <1>5, AddLogEffects
      <3>2. QED BY <3>1 DEF Filled
    <2>2. \A i \in DOMAIN merged, j \in DOMAIN read : Named(i, j)' <=> Named(i, j)
      BY <1>2, <2>1 DEF Named
    <2>3. \A i \in DOMAIN merged : \A j \in DOMAIN read' :
             j = L => (Named(i, j)' <=> merged[i].id = lg.id)
      BY <1>2, <1>5, <2>1 DEF Named
    <2>4. \A i \in DOMAIN merged' : Listed(merged'[i])
      BY <2>1 DEF MergedInv, Listed, Kind
    <2>5. \A i, j \in DOMAIN merged' : merged'[i].id = merged'[j].id => i = j
      BY <2>1 DEF MergedInv
    <2>6. \A j \in DOMAIN read' : Listed(read'[j]) => \E i \in DOMAIN merged' : Named(i, j)'
      BY <1>2, <1>5, <2>1, <2>2, <2>3 DEF MergedInv
    <2>7. \A i \in DOMAIN merged' : \E j \in DOMAIN read' :
             Named(i, j)' /\ IsFirst(j)' /\ read'[j].states = merged'[i].states
      BY <1>2, <1>3, <2>1, <2>2 DEF MergedInv
    <2>8. \A i \in DOMAIN merged' :
             /\ merged'[i].url <=> \E j \in DOMAIN read' : Named(i, j)' /\ read'[j].url
             /\ merged'[i].monitoring
                   <=> \E j \in DOMAIN read' : Named(i, j)' /\ read'[j].monitoring
      BY <1>2, <2>1, <2>2, <2>3 DEF MergedInv
    <2>9. QED BY <2>4, <2>5, <2>6, <2>7, <2>8 DEF MergedInv
  <1>6. CASE Listed(lg) /\ \A m \in DOMAIN merged : merged[m].id # lg.id
    <2>1. /\ DOMAIN merged' = DOMAIN merged \cup {M}
          /\ \A i \in DOMAIN merged : merged'[i] = merged[i]
          /\ merged'[M] = lg
      <3>1. Extended(merged, lg, merged')
        BY <1>1, <1>6, AddLogEffects
      <3>2. QED BY <3>1 DEF Extended
    <2>2. \A i \in DOMAIN merged, j \in DOMAIN read : Named(i, j)' <=> Named(i, j)
      BY <1>2, <2>1 DEF Named
    <2>3. \A i \in DOMAIN merged : \A j \in DOMAIN read' : j = L => ~Named(i, j)'
      BY <1>2, <1>6, <2>1 DEF Named
    <2>4. \A j \in DOMAIN read : Listed(read[j]) => read[j].id # lg.id
      BY <1>6 DEF MergedInv, Named
    <2>5. \A i \in DOMAIN merged' : i = M =>
             \A j \in DOMAIN read' : Named(i, j)' <=> j = L
      BY <1>2, <1>6, <2>1, <2>4 DEF Named
    <2>6. \A j \in DOMAIN read' : j = L => IsFirst(j)'
      <3>1. Listed(read'[L])
        BY <1>2, <1>6
      <3>2. \A j \in 1..(L - 1) : Listed(read'[j]) => read'[j].id # read'[L].id
        BY <1>2, <2>4
      <3>3. QED BY <3>1, <3>2 DEF IsFirst
    <2>7. \A i \in DOMAIN merged' : Listed(merged'[i])
      BY <1>6, <2>1 DEF MergedInv
    <2>8. \A i, j \in DOMAIN merged' : merged'[i].id = merged'[j].id => i = j
      BY <1>6, <2>1 DEF MergedInv
    <2>9. \A j \in DOMAIN read' : Listed(read'[j]) => \E i \in DOMAIN merged' : Named(i, j)'
      BY <1>2, <2>1, <2>2, <2>5 DEF MergedInv
    <2>10. \A i \in DOMAIN merged' : \E j \in DOMAIN read' :
              Named(i, j)' /\ IsFirst(j)' /\ read'[j].states = merged'[i].states
      BY <1>2, <1>3, <2>1, <2>2, <2>5, <2>6 DEF MergedInv
    <2>11. \A i \in DOMAIN merged' :
              /\ merged'[i].url <=> \E j \in DOMAIN read' : Named(i, j)' /\ read'[j].url
              /\ merged'[i].monitoring
                    <=> \E j \in DOMAIN read' : Named(i, j)' /\ read'[j].monitoring
      BY <1>2, <2>1, <2>2, <2>3, <2>5 DEF MergedInv
    <2>12. QED BY <2>7, <2>8, <2>9, <2>10, <2>11 DEF MergedInv
  <1>7. QED BY <1>4, <1>5, <1>6

\* What the answers offer is what the merged list says of the logs to follow.
LEMMA OfferedLogs ==
    ASSUME ListTypes, MergedInv, NEW id \in LogIds
    PROVE  /\ \A s \in Offers(id) : \E i \in DOMAIN merged :
                 merged[i].id = id /\ Followed(merged[i]) /\ CurrentState(merged[i]) = s
           /\ \A i \in DOMAIN merged : merged[i].id = id /\ Followed(merged[i]) =>
                 CurrentState(merged[i]) \in Offers(id)
  <1>1. ASSUME NEW s \in Offers(id)
        PROVE  \E i \in DOMAIN merged :
                 merged[i].id = id /\ Followed(merged[i]) /\ CurrentState(merged[i]) = s
    <2>1. PICK j \in DOMAIN read :
             /\ IsFirst(j) /\ read[j].id = id /\ s = CurrentState(read[j])
             /\ \E k \in DOMAIN read : read[k].id = id /\ read[k].url
             /\ s # "none" /\ (Drain \/ Writable(s))
      BY <1>1 DEF Offers
    <2>2. PICK k \in DOMAIN read : read[k].id = id /\ read[k].url
      BY <2>1
    <2>3. Listed(read[j]) /\ Listed(read[k])
      BY <2>1, <2>2 DEF IsFirst, Listed, Kind
    <2>4. PICK i \in DOMAIN merged : Named(i, j)
      BY <2>3 DEF MergedInv
    <2>5. PICK f \in DOMAIN read :
             Named(i, f) /\ IsFirst(f) /\ read[f].states = merged[i].states
      BY DEF MergedInv
    <2>6. f = j
      <3>1. Listed(read[f]) /\ read[f].id = read[j].id
        BY <2>4, <2>5 DEF Named
      <3>2. f \in Nat /\ j \in Nat /\ 1 <= f /\ 1 <= j
        BY DEF ListTypes
      <3>3. f \notin 1..(j - 1) /\ j \notin 1..(f - 1)
        BY <2>1, <2>3, <2>5, <3>1 DEF IsFirst
      <3>4. QED BY <3>2, <3>3
    <2>7. merged[i].id = id
      BY <2>1, <2>4 DEF Named
    <2>8. merged[i].url
      BY <2>2, <2>3, <2>7 DEF MergedInv, Named
    <2>9. CurrentState(merged[i]) = s
      BY <2>1, <2>5, <2>6 DEF CurrentState
    <2>10. QED BY <2>1, <2>7, <2>8, <2>9 DEF Followed, Kind
  <1>2. ASSUME NEW i \in DOMAIN merged, merged[i].id = id, Followed(merged[i])
        PROVE  CurrentState(merged[i]) \in Offers(id)
    <2>1. PICK j \in DOMAIN read :
             Named(i, j) /\ IsFirst(j) /\ read[j].states = merged[i].states
      BY DEF MergedInv
    <2>2. merged[i].url
      BY <1>2 DEF Followed, Kind
    <2>3. PICK k \in DOMAIN read : Named(i, k) /\ read[k].url
      BY <2>2 DEF MergedInv
    <2>4. CurrentState(merged[i]) = CurrentState(read[j])
      BY <2>1 DEF CurrentState
    <2>5. read[j].id = id /\ read[k].id = id
      BY <1>2, <2>1, <2>3 DEF Named
    <2>6. CurrentState(read[j]) # "none" /\ (Drain \/ Writable(CurrentState(read[j])))
      BY <1>2, <2>4 DEF Followed
    <2>7. QED BY <2>1, <2>3, <2>4, <2>5, <2>6 DEF Offers
  <1>3. QED BY <1>1, <1>2

\* A step of the walk keeps what it has started and where.
LEMMA SyncNext ==
    ASSUME ListInv, Sync
    PROVE  FollowInv' /\ TailerInv'
  <1>1. PICK lg \in ToSet(merged) : StartLog(lg) \/ PassLog(lg)
    BY DEF Sync
  <1> DEFINE v == visited + 1
  <1>2. /\ NextLog(lg) /\ lg = merged[v] /\ visited' = v /\ source = Sources
        /\ UNCHANGED <<source, merged, offered>>
    BY <1>1 DEF StartLog, PassLog, NextLog
  <1>3. /\ visited \in Nat /\ v \in 1..Len(merged) /\ Sources \in Nat
        /\ 1..v = (1..visited) \cup {v}
    BY <1>2, LogListAssumption DEF ListInv, ListTypes, NextLog
  <1>4. lg.id \in LogIds
    <2>1. lg \in LogEntries /\ Listed(lg)
      BY <1>2, <1>3 DEF ListInv, ListTypes, MergedInv
    <2>2. QED BY <2>1 DEF Listed, LogEntries
  <1> HIDE DEF v
  <1>5. CASE StartLog(lg)
    <2>1. /\ Followed(lg) /\ lg.id \notin started /\ started' = started \cup {lg.id}
          /\ tailers' = [tailers EXCEPT ![lg.id] = Append(@, CurrentState(lg))]
      BY <1>5 DEF StartLog, ToStart
    <2>2. FollowInv'
      BY <1>2, <1>3, <2>1 DEF ListInv, FollowInv
    <2>3. tailers[lg.id] = <<>> /\ offered[lg.id] = <<>>
      BY <1>4, <2>1 DEF ListInv, TailerInv
    <2>4. tailers'[lg.id] = <<CurrentState(lg)>>
      <3>1. tailers'[lg.id] = Append(tailers[lg.id], CurrentState(lg))
        BY <1>4, <2>1 DEF ListInv, ListTypes
      <3>2. QED BY <2>3, <3>1
    <2>5. \A id \in LogIds \ {lg.id} : tailers'[id] = tailers[id]
      BY <2>1 DEF ListInv, ListTypes
    <2>6. TailerInv'
      <3> SUFFICES ASSUME NEW id \in LogIds
                   PROVE  /\ id \in started' <=> tailers'[id] # <<>>
                          /\ offered[id] # <<>> => tailers'[id] = <<Head(offered[id])>>
                          /\ offered[id] = <<>> /\ tailers'[id] # <<>> =>
                                /\ source # Sources + 1
                                /\ \E i \in 1..v :
                                      /\ merged[i].id = id /\ Followed(merged[i])
                                      /\ tailers'[id] = <<CurrentState(merged[i])>>
        BY <1>2 DEF TailerInv
      <3>1. CASE id = lg.id
        <4>1. v \in 1..v
          BY <1>3
        <4>2. lg.id \in started' /\ tailers'[id] # <<>>
          BY <2>1, <2>4, <3>1
        <4>3. source # Sources + 1
          BY <1>2, <1>3
        <4>4. merged[v].id = id /\ Followed(merged[v]) /\ tailers'[id] = <<CurrentState(merged[v])>>
          BY <1>2, <2>1, <2>4, <3>1
        <4>5. QED BY <2>3, <3>1, <4>1, <4>2, <4>3, <4>4
      <3>2. CASE id # lg.id
        <4>1. tailers'[id] = tailers[id] /\ (id \in started' <=> id \in started)
          BY <2>1, <2>5, <3>2
        <4>2. 1..visited \subseteq 1..v
          BY <1>3
        <4>3. QED BY <4>1, <4>2 DEF ListInv, TailerInv
      <3>3. QED BY <3>1, <3>2
    <2>7. QED BY <2>2, <2>6
  <1>6. CASE PassLog(lg)
    <2>1. UNCHANGED <<started, tailers>> /\ (Followed(lg) => lg.id \in started)
      BY <1>6 DEF PassLog, ToStart
    <2>2. FollowInv'
      BY <1>2, <1>3, <2>1 DEF ListInv, FollowInv
    <2>3. TailerInv'
      BY <1>2, <1>3, <2>1 DEF ListInv, TailerInv
    <2>4. QED BY <2>2, <2>3
  <1>7. QED BY <1>1, <1>5, <1>6

\* At the end of a round every log it offers has its tailer.
LEMMA EndRoundNext ==
    ASSUME ListInv, EndRound
    PROVE  FollowInv' /\ TailerInv'
  <1>1. /\ visited = Len(merged) /\ UNCHANGED <<visited, merged, started, tailers>>
        /\ \A id \in LogIds :
              offered'[id] = IF Offers(id) = {} THEN offered[id]
                             ELSE Append(offered[id], CHOOSE state \in Offers(id) : TRUE)
    BY DEF EndRound
  <1>2. FollowInv'
    BY <1>1 DEF ListInv, FollowInv
  <1>3. DOMAIN merged = 1..visited
    BY <1>1 DEF ListInv, ListTypes
  <1>4. ASSUME NEW id \in LogIds
        PROVE  /\ offered'[id] # <<>> => tailers[id] = <<Head(offered'[id])>>
               /\ offered'[id] = <<>> => tailers[id] = <<>>
    <2>1. CASE Offers(id) = {}
      <3>1. \A i \in 1..visited : ~(merged[i].id = id /\ Followed(merged[i]))
        BY <1>3, <2>1, OfferedLogs DEF ListInv
      <3>2. offered'[id] = offered[id]
        BY <1>1, <2>1
      <3>3. QED BY <3>1, <3>2 DEF ListInv, TailerInv
    <2>2. CASE Offers(id) # {}
      <3> DEFINE s == CHOOSE state \in Offers(id) : TRUE
                 S == {CurrentState(lg) : lg \in LogEntries}
      <3>1. s \in Offers(id) /\ offered'[id] = Append(offered[id], s)
        BY <1>1, <2>2
      <3> HIDE DEF s
      <3>2. PICK i \in 1..visited :
               merged[i].id = id /\ Followed(merged[i]) /\ CurrentState(merged[i]) = s
        BY <1>3, <3>1, OfferedLogs DEF ListInv
      <3>3. merged[i] \in LogEntries
        BY <1>3 DEF ListInv, ListTypes
      <3>4. s \in S /\ offered[id] \in Seq(S)
        BY <3>2, <3>3 DEF ListInv, ListTypes
      <3>5. tailers[id] # <<>>
        BY <3>2 DEF ListInv, FollowInv, TailerInv
      <3> HIDE DEF S
      <3>6. offered'[id] # <<>>
        BY <3>1, <3>4
      <3>7. CASE offered[id] # <<>>
        <4>1. Head(offered'[id]) = Head(offered[id])
          BY <3>1, <3>4, <3>7
        <4>2. QED BY <3>6, <3>7, <4>1 DEF ListInv, TailerInv
      <3>8. CASE offered[id] = <<>>
        <4>1. Head(offered'[id]) = s
          BY <3>1, <3>4, <3>8
        <4>2. PICK k \in 1..visited : merged[k].id = id /\ tailers[id] = <<CurrentState(merged[k])>>
          BY <3>5, <3>8 DEF ListInv, TailerInv
        <4>3. k = i
          BY <1>3, <3>2, <4>2 DEF ListInv, MergedInv
        <4>4. QED BY <3>2, <3>6, <4>1, <4>2, <4>3
      <3>9. QED BY <3>7, <3>8
    <2>3. QED BY <2>1, <2>2
  <1>5. TailerInv'
    BY <1>1, <1>4 DEF ListInv, TailerInv
  <1>6. QED BY <1>2, <1>5

\* Every step keeps the invariant of the log lists.
LEMMA ListInvNext ==
    ASSUME ListInv, [ListNext]_listVars
    PROVE  ListInv'
  <1>1. ListTypes'
    BY ListTypesNext DEF ListInv
  <1>2. MergedInv'
    <2>1. CASE MergeLog
      BY <1>1, <2>1, MergeNext DEF ListInv
    <2>2. CASE Refresh
      BY <2>2 DEF Refresh, MergedInv
    <2>3. CASE UNCHANGED <<merged, read>>
      BY <2>3 DEF ListInv, MergedInv, Named, IsFirst
    <2>4. CASE Sync
      BY <2>3, <2>4 DEF Sync, StartLog, PassLog, NextLog
    <2>5. QED BY <2>1, <2>2, <2>3, <2>4
              DEF ListNext, listVars, ListAnswer, SourceFails, CancelContext, FetchCancelled,
                  EndRound
  <1>3. FollowInv' /\ TailerInv'
    <2>1. CASE Sync
      BY <2>1, SyncNext
    <2>2. CASE EndRound
      BY <2>2, EndRoundNext
    <2>3. CASE MergeLog \/ Refresh
      <3>1. /\ visited' = 0 /\ UNCHANGED <<started, tailers, offered>>
            /\ source = Sources + 1 \/ visited = 0
        BY <2>3 DEF MergeLog, Refresh, syncVars, ListInv, ListTypes
      <3>2. visited = 0 => \A id \in LogIds : ~\E i \in 1..visited : merged[i].id = id
        OBVIOUS
      <3>3. \A id \in LogIds : offered[id] = <<>> => tailers[id] = <<>>
        BY <3>1, <3>2 DEF ListInv, TailerInv
      <3>4. QED BY <3>1, <3>3 DEF ListInv, TailerInv, FollowInv
    <2>4. CASE SourceFails \/ FetchCancelled \/ \E list \in Lists : ListAnswer(list)
      <3>1. source \in Nat /\ Sources \in Nat
        BY LogListAssumption DEF ListInv, ListTypes
      <3>2. source' # Sources + 1 /\ UNCHANGED <<syncVars, merged>>
        BY <2>4, <3>1 DEF SourceFails, FetchCancelled, ListAnswer
      <3>3. QED BY <3>2 DEF ListInv, FollowInv, TailerInv, syncVars
    <2>5. CASE UNCHANGED <<source, merged, syncVars>>
      BY <2>5 DEF ListInv, FollowInv, TailerInv, syncVars
    <2>6. QED BY <2>1, <2>2, <2>3, <2>4, <2>5 DEF ListNext, listVars, CancelContext
  <1>4. QED BY <1>1, <1>2, <1>3 DEF ListInv

\* The invariant holds of every behaviour of the log lists.
THEOREM ListInvariantHolds == ListSpec => []ListInv
  <1>1. ListInit => ListInv
    <2> SUFFICES ASSUME ListInit PROVE ListInv
      OBVIOUS
    <2>1. ListTypes
      BY LogListAssumption DEF ListInit, ListTypes
    <2>2. MergedInv
      BY DEF ListInit, MergedInv
    <2>3. FollowInv /\ TailerInv
      BY DEF ListInit, FollowInv, TailerInv
    <2>4. QED BY <2>1, <2>2, <2>3 DEF ListInv
  <1>2. ListInv /\ [ListNext]_listVars => ListInv'
    BY ListInvNext
  <1>3. QED BY <1>1, <1>2, PTL DEF ListSpec

\* FetchAll: whatever the lists say, in whichever order they come, the merged list
\* has each log once and has every endpoint that any list gives it.
THEOREM MergedLogsAreTheUnion == ListSpec => []MergedIsTheUnion
  <1>1. ASSUME ListInv PROVE MergedIsTheUnion
    <2> SUFFICES ASSUME NEW id \in LogIds
                 PROVE  LET given == {j \in DOMAIN read : read[j].id = id /\ Listed(read[j])}
                            found == {i \in DOMAIN merged : merged[i].id = id}
                        IN  IF given = {} THEN found = {}
                            ELSE \E f \in DOMAIN merged :
                                  /\ found = {f}
                                  /\ merged[f].url <=> \E j \in given : read[j].url
                                  /\ merged[f].monitoring <=> \E j \in given : read[j].monitoring
      BY DEF MergedIsTheUnion
    <2> DEFINE given == {j \in DOMAIN read : read[j].id = id /\ Listed(read[j])}
               found == {i \in DOMAIN merged : merged[i].id = id}
    <2>1. CASE given = {}
      <3>1. found = {}
        BY <1>1, <2>1 DEF ListInv, MergedInv, Named
      <3>2. QED BY <2>1, <3>1
    <2>2. CASE given # {}
      <3>1. PICK j \in DOMAIN read : read[j].id = id /\ Listed(read[j])
        BY <2>2
      <3>2. PICK f \in DOMAIN merged : Named(f, j)
        BY <1>1, <3>1 DEF ListInv, MergedInv
      <3>3. merged[f].id = id
        BY <3>1, <3>2 DEF Named
      <3>4. found = {f}
        BY <1>1, <3>3 DEF ListInv, MergedInv
      <3>5. \A k \in DOMAIN read : Named(f, k) <=> k \in given
        BY <3>3 DEF Named
      <3>6. /\ merged[f].url <=> \E k \in given : read[k].url
            /\ merged[f].monitoring <=> \E k \in given : read[k].monitoring
        BY <1>1, <3>5 DEF ListInv, MergedInv
      <3>7. QED BY <2>2, <3>4, <3>6
    <2>3. QED BY <2>1, <2>2
  <1>2. QED BY <1>1, ListInvariantHolds, PTL

\* Sync: after a round every log with an RFC 6962 endpoint in some answer is
\* followed if its first entry has a state that is followed.
THEOREM LogsAreFollowed == ListSpec => []ListedLogsAreFollowed
  <1>1. ASSUME ListInv PROVE ListedLogsAreFollowed
    <2> SUFFICES ASSUME source = Sources + 1, NEW id \in LogIds, Offers(id) # {}
                 PROVE  id \in started
      BY DEF ListedLogsAreFollowed
    <2>1. PICK i \in DOMAIN merged : merged[i].id = id /\ Followed(merged[i])
      BY <1>1, OfferedLogs DEF ListInv
    <2>2. i \in 1..visited
      BY <1>1 DEF ListInv, ListTypes
    <2>3. QED BY <1>1, <2>1, <2>2 DEF ListInv, FollowInv
  <1>2. QED BY <1>1, ListInvariantHolds, PTL

\* Sync: over any number of rounds, whatever the lists say and whichever of them
\* fail, a log has one tailer from the first round that wants it read, in the state
\* of that round, and before that none.
THEOREM LogsHaveOneTailer == ListSpec => []OneTailerPerLog
  <1>1. ASSUME ListInv PROVE OneTailerPerLog
    BY <1>1 DEF ListInv, TailerInv, OneTailerPerLog
  <1>2. QED BY <1>1, ListInvariantHolds, PTL

-----------------------------------------------------------------------------
(* The names: what a name becomes before it is stored *)

\* A trailing dot or a wildcard that is cut off leaves a name of the same labels.
LEMMA TrimsKeepLabels ==
    ASSUME NEW n \in Seq(Labels), n # <<>>, NEW t, t \in {TrimTrailingDot(n), TrimWildcard(n)}
    PROVE  /\ t \in Seq(Labels) /\ t # <<>>
           /\ \A i \in 1..Len(t) : t[i] \in ToSet(n)
  <1>1. Len(n) \in Nat \ {0} /\ \A i \in 1..Len(n) : n[i] \in ToSet(n)
    BY DEF ToSet
  <1>2. CASE t = n
    BY <1>1, <1>2
  <1>3. CASE Len(n) > 1 /\ t = Front(n)
    <2>1. t \in Seq(Labels) /\ Len(t) = Len(n) - 1
      BY <1>1, <1>3 DEF Front
    <2>2. \A i \in 1..Len(t) : t[i] = n[i] /\ i \in 1..Len(n)
      BY <1>1, <1>3, <2>1 DEF Front
    <2>3. QED BY <1>1, <1>3, <2>1, <2>2
  <1>4. CASE Len(n) > 1 /\ t = Tail(n)
    <2>1. t \in Seq(Labels) /\ Len(t) = Len(n) - 1
      BY <1>1, <1>4
    <2>2. ASSUME NEW i \in 1..Len(t)
          PROVE  t[i] \in ToSet(n)
      <3>1. t[i] = n[i + 1] /\ i + 1 \in 1..Len(n)
        BY <1>1, <1>4, <2>1
      <3>2. QED BY <1>1, <3>1
    <2>3. t # <<>>
      BY <1>1, <1>4, <2>1
    <2>4. QED BY <2>1, <2>2, <2>3
  <1>5. QED BY <1>2, <1>3, <1>4 DEF TrimTrailingDot, TrimWildcard

\* What Canonical lets through: labels that it does not change.
Settled(l) ==
    /\ l # NoLabel /\ l # "*"
    /\ l \notin Controls \cup TooLong
    /\ Lower[l] = l
    /\ Ascii[l] = l \/ l \in Service

\* A name with neither an empty label nor a wildcard is not trimmed.
LEMMA SettledNamesAreNotTrimmed ==
    ASSUME NEW n \in Seq(Labels), n # <<>>, \A i \in 1..Len(n) : Settled(n[i])
    PROVE  TrimTrailingDot(n) = n /\ TrimWildcard(n) = n
  <1>1. Len(n) \in 1..Len(n) /\ 1 \in 1..Len(n)
    OBVIOUS
  <1>2. n[Len(n)] # NoLabel /\ n[1] # "*"
    BY <1>1 DEF Settled
  <1>3. QED BY <1>2 DEF TrimTrailingDot, TrimWildcard, Last

\* dedupeLower leaves labels in lower case without control bytes.
LEMMA DedupedIsLowerCase ==
    ASSUME NEW n \in Seq(Labels), n # <<>>, NEW d, d = Deduped(n), d # <<NoLabel>>
    PROVE  /\ d \in Seq(Labels) /\ d # <<>>
           /\ \A i \in 1..Len(d) : Lower[d[i]] = d[i] /\ d[i] \notin Controls
  <1> DEFINE low == [i \in DOMAIN n |-> Lower[n[i]]]
             cut == TrimTrailingDot(low)
             s == TrimWildcard(cut)
  <1>1. low \in Seq(Labels) /\ low # <<>> /\ Len(low) = Len(n)
    BY HostNamesAssumption
  <1>2. \A l \in ToSet(low) : Lower[l] = l
    BY TablesAssumption DEF ToSet
  <1> HIDE DEF low
  <1>3. cut \in Seq(Labels) /\ cut # <<>> /\ ToSet(cut) \subseteq ToSet(low)
    BY <1>1, TrimsKeepLabels DEF ToSet
  <1> HIDE DEF cut
  <1>4. s \in Seq(Labels) /\ s # <<>> /\ ToSet(s) \subseteq ToSet(cut)
    BY <1>3, TrimsKeepLabels DEF ToSet
  <1> HIDE DEF s
  <1>5. d = s /\ ToSet(s) \cap Controls = {}
    BY DEF Deduped, s, cut, low
  <1>6. \A i \in 1..Len(d) : d[i] \in ToSet(s)
    BY <1>4, <1>5 DEF ToSet
  <1>7. QED BY <1>2, <1>3, <1>4, <1>5, <1>6

\* The labels of what Canonical returns are settled.
LEMMA CanonicalIsSettled ==
    ASSUME NEW d \in Seq(Labels), d # <<>>,
           \A i \in 1..Len(d) : Lower[d[i]] = d[i] /\ d[i] \notin Controls,
           NEW c, c = Canonical(d), c # <<NoLabel>>
    PROVE  /\ c \in Seq(Labels) /\ c # <<>>
           /\ \A i \in 1..Len(c) : Settled(c[i])
           /\ Mappable(c) => \A i \in 1..Len(c) : Ascii[c[i]] = c[i]
  <1> DEFINE cut == TrimWildcard(d)
             s == TrimTrailingDot(cut)
             mapped == IF Mappable(s) THEN ToASCII(s) ELSE s
  <1>1. cut \in Seq(Labels) /\ cut # <<>> /\ \A i \in 1..Len(cut) : cut[i] \in ToSet(d)
    BY TrimsKeepLabels
  <1>2. \A l \in ToSet(cut) : l \in ToSet(d)
    BY <1>1 DEF ToSet
  <1> HIDE DEF cut
  <1>3. s \in Seq(Labels) /\ s # <<>> /\ \A i \in 1..Len(s) : s[i] \in ToSet(cut)
    BY <1>1, TrimsKeepLabels
  <1> HIDE DEF s
  <1>4. \A i \in 1..Len(s) : s[i] \in Labels /\ Lower[s[i]] = s[i] /\ s[i] \notin Controls
    <2>1. ASSUME NEW i \in 1..Len(s)
          PROVE  s[i] \in Labels /\ \E j \in 1..Len(d) : s[i] = d[j]
      <3>1. s[i] \in ToSet(d)
        BY <1>2, <1>3
      <3>2. QED BY <1>3, <3>1 DEF ToSet
    <2>2. QED BY <2>1
  <1>5. /\ c = mapped
        /\ Mappable(s) \/ \A l \in ToSet(s) : l \in Service \/ l = NoLabel \/ Ascii[l] = l
        /\ NoLabel \notin ToSet(mapped)
        /\ ToSet(mapped) \cap TooLong = {}
    BY DEF Canonical, s, cut
  <1>6. CASE Mappable(s)
    <2>1. c = ToASCII(s)
      BY <1>5, <1>6
    <2>2. c \in Seq(Labels) /\ Len(c) = Len(s)
      BY <1>3, <2>1, HostNamesAssumption DEF ToASCII
    <2>3. ASSUME NEW i \in 1..Len(c)
          PROVE  Settled(c[i]) /\ Ascii[c[i]] = c[i]
      <3>1. i \in DOMAIN s /\ i \in DOMAIN c
        BY <1>3, <2>2
      <3>2. c[i] # NoLabel /\ c[i] \notin TooLong
        BY <1>5, <3>1 DEF ToSet
      <3>3. c[i] = Ascii[s[i]] /\ s[i] \in Labels
        BY <1>4, <1>3, <2>1, <3>1, <3>2 DEF ToASCII
      <3>4. Ascii[c[i]] = c[i] /\ Lower[c[i]] = c[i] /\ c[i] \notin Controls
        BY <3>2, <3>3, TablesAssumption
      <3>5. c[i] # "*"
        BY <3>2, <3>4, TablesAssumption
      <3>6. QED BY <3>2, <3>4, <3>5 DEF Settled
    <2>4. c # <<>>
      BY <1>3, <2>2
    <2>5. QED BY <2>2, <2>3, <2>4
  <1>7. CASE ~Mappable(s)
    <2>1. c = s
      BY <1>5, <1>7
    <2>2. ASSUME NEW i \in 1..Len(c)
          PROVE  Settled(c[i])
      <3>1. c[i] \in ToSet(s)
        BY <1>3, <2>1 DEF ToSet
      <3>2. c[i] # NoLabel /\ c[i] \notin TooLong
        BY <1>5, <1>7, <3>1
      <3>3. c[i] \in Service \/ Ascii[c[i]] = c[i]
        BY <1>5, <1>7, <3>1, <3>2
      <3>4. c[i] # "*"
        BY <3>2, <3>3, TablesAssumption
      <3>5. QED BY <1>4, <2>1, <3>2, <3>3, <3>4 DEF Settled
    <2>3. QED BY <1>3, <1>7, <2>1, <2>2
  <1>8. QED BY <1>6, <1>7

\* Storing the name again changes nothing.
LEMMA SettledNamesStay ==
    ASSUME NEW c \in Seq(Labels), c # <<>>, \A i \in 1..Len(c) : Settled(c[i]),
           Mappable(c) => \A i \in 1..Len(c) : Ascii[c[i]] = c[i]
    PROVE  Canonical(Deduped(c)) = c
  <1> DEFINE low == [i \in DOMAIN c |-> Lower[c[i]]]
  <1>1. TrimTrailingDot(c) = c /\ TrimWildcard(c) = c
    BY SettledNamesAreNotTrimmed
  <1>2. low = c
    BY DEF Settled
  <1>3. ToSet(c) \cap Controls = {} /\ ToSet(c) \cap TooLong = {} /\ NoLabel \notin ToSet(c)
    BY DEF Settled, ToSet
  <1>4. Deduped(c) = c
    BY <1>1, <1>2, <1>3 DEF Deduped
  <1>5. \A l \in ToSet(c) : l \in Service \/ l = NoLabel \/ Ascii[l] = l
    BY DEF Settled, ToSet
  <1>6. Mappable(c) => ToASCII(c) = c
    <2>1. SUFFICES ASSUME Mappable(c) PROVE ToASCII(c) = c
      OBVIOUS
    <2>2. \A i \in DOMAIN c : c[i] # NoLabel /\ Ascii[c[i]] = c[i]
      BY <2>1 DEF Settled
    <2>3. ToASCII(c) = [i \in DOMAIN c |-> c[i]]
      BY <2>2 DEF ToASCII
    <2>4. QED BY <2>3
  <1>7. QED BY <1>1, <1>3, <1>4, <1>5, <1>6 DEF Canonical

-----------------------------------------------------------------------------
(* The names: the apex of a stored name *)

\* The length of the suffix is the longest that is listed, or one.
LEMMA SuffixIsTheLongest ==
    ASSUME NEW n \in Seq(Labels), n # <<>>, NEW k, k = SuffixLength(n)
    PROVE  /\ k \in 1..Len(n)
           /\ k = 1 \/ SubSeq(n, Len(n) - k + 1, Len(n)) \in PublicSuffixes
           /\ \A j \in 1..Len(n) :
                 SubSeq(n, Len(n) - j + 1, Len(n)) \in PublicSuffixes => j <= k
  <1> DEFINE S == {1} \cup
                 {j \in 1..Len(n) : SubSeq(n, Len(n) - j + 1, Len(n)) \in PublicSuffixes}
  <1>1. Len(n) \in Nat \ {0}
    OBVIOUS
  <1>2. S \in SUBSET Nat /\ S # {} /\ \A j \in S : j <= Len(n)
    BY <1>1
  <1>3. \E m \in S : \A j \in S : j <= m
    BY <1>1, <1>2, LargestNatural
  <1>4. \E m \in S : \A j \in S : m >= j
    BY <1>2, <1>3
  <1>5. Max(S) \in S /\ \A j \in S : Max(S) >= j
    BY <1>4 DEF Max
  <1>6. k = Max(S)
    BY DEF SuffixLength
  <1>7. QED BY <1>1, <1>2, <1>5, <1>6

\* The apex is the end of the name, one label longer than its suffix, and so it
\* is its own apex.
LEMMA ApexIsItsOwn ==
    ASSUME NEW n \in Seq(Labels), n # <<>>, HasApex(n),
           NEW a, a = EffectiveTLDPlusOne(n)
    PROVE  /\ a \in Seq(Labels) /\ a # <<>> /\ Len(a) <= Len(n)
           /\ \A i \in 1..Len(a) : a[i] = n[Len(n) - Len(a) + i]
           /\ HasApex(a) /\ EffectiveTLDPlusOne(a) = a
  <1> DEFINE k == SuffixLength(n)
             End(m, j) == SubSeq(m, Len(m) - j + 1, Len(m))
  <1>1. /\ k \in 1..Len(n) /\ Len(n) \in Nat
        /\ k = 1 \/ End(n, k) \in PublicSuffixes
        /\ \A j \in 1..Len(n) : End(n, j) \in PublicSuffixes => j <= k
    BY SuffixIsTheLongest
  <1>2. k < Len(n) /\ NoLabel \notin ToSet(n) /\ a = SubSeq(n, Len(n) - k, Len(n))
    BY <1>1 DEF HasApex, EffectiveTLDPlusOne
  <1> HIDE DEF k
  <1>3. a \in Seq(Labels) /\ Len(a) = k + 1 /\ a # <<>>
    <2> DEFINE m == Len(n) - k
    <2>1. m \in 1..Len(n) /\ Len(n) - m + 1 = k + 1 /\ k + 1 > 0
      BY <1>1, <1>2
    <2> HIDE DEF m
    <2>2. a = SubSeq(n, m, Len(n))
      BY <1>2 DEF m
    <2>3. a \in Seq(Labels) /\ Len(a) = Len(n) - m + 1
      BY <1>1, <2>1, <2>2
    <2>4. QED BY <2>1, <2>3
  <1>4. ASSUME NEW i \in 1..Len(a)
        PROVE  a[i] = n[Len(n) - Len(a) + i]
    <2>1. i \in 1..(k + 1) /\ a[i] = n[Len(n) - k + i - 1]
      BY <1>1, <1>2, <1>3
    <2>2. Len(n) - k + i - 1 = Len(n) - Len(a) + i
      BY <1>1, <1>3
    <2>3. QED BY <2>1, <2>2
  <1>5. ASSUME NEW j \in 1..Len(a)
        PROVE  j \in 1..Len(n) /\ End(a, j) = End(n, j)
    <2>1. j \in 1..Len(n)
      BY <1>1, <1>2, <1>3
    <2>2. /\ End(a, j) \in Seq(Labels) /\ Len(End(a, j)) = j
          /\ End(n, j) \in Seq(Labels) /\ Len(End(n, j)) = j
      BY <1>1, <1>3, <2>1
    <2>3. ASSUME NEW i \in 1..j
          PROVE  End(a, j)[i] = End(n, j)[i]
      <3>1. End(a, j)[i] = a[Len(a) - j + i] /\ Len(a) - j + i \in 1..Len(a)
        BY <1>1, <1>3, <2>1
      <3>2. End(n, j)[i] = n[Len(n) - j + i]
        BY <1>1, <1>3, <2>1
      <3>3. Len(n) - Len(a) + (Len(a) - j + i) = Len(n) - j + i
        BY <1>1, <1>3
      <3>4. QED BY <1>4, <3>1, <3>2, <3>3
    <2> DEFINE ea == End(a, j)
               en == End(n, j)
    <2>4. /\ ea \in Seq(Labels) /\ Len(ea) = j
          /\ en \in Seq(Labels) /\ Len(en) = j
          /\ \A i \in 1..j : ea[i] = en[i]
      BY <2>2, <2>3
    <2> HIDE DEF ea, en, End
    <2>5. ea = en
      BY <2>4
    <2>6. QED BY <2>1, <2>5 DEF ea, en
  <1> DEFINE q == SuffixLength(a)
  <1>6. /\ q \in 1..Len(a)
        /\ q = 1 \/ End(a, q) \in PublicSuffixes
        /\ \A j \in 1..Len(a) : End(a, j) \in PublicSuffixes => j <= q
    BY <1>3, SuffixIsTheLongest
  <1> HIDE DEF q, End
  <1>7. q = k
    <2>1. q <= k
      BY <1>1, <1>5, <1>6
    <2>2. k \in 1..Len(a)
      BY <1>1, <1>3
    <2>3. k <= q
      BY <1>1, <1>5, <1>6, <2>2
    <2>4. QED BY <1>1, <1>3, <1>6, <2>1, <2>3
  <1>8. SuffixLength(a) = k
    BY <1>7 DEF q
  <1>9. EffectiveTLDPlusOne(a) = a
    <2>1. EffectiveTLDPlusOne(a) = SubSeq(a, 1, Len(a))
      <3>1. Len(a) - k = 1
        BY <1>1, <1>3
      <3>2. QED BY <1>8, <3>1 DEF EffectiveTLDPlusOne
    <2>2. QED BY <1>3, <2>1
  <1>10. NoLabel \notin ToSet(a)
    <2>1. ASSUME NEW i \in 1..Len(a)
          PROVE  a[i] # NoLabel
      <3>1. Len(n) - Len(a) + i \in 1..Len(n)
        BY <1>1, <1>2, <1>3
      <3>2. a[i] \in ToSet(n)
        BY <1>4, <3>1 DEF ToSet
      <3>3. QED BY <1>2, <3>2
    <2>2. QED BY <1>3, <2>1 DEF ToSet
  <1>11. HasApex(a)
    BY <1>1, <1>3, <1>8, <1>10 DEF HasApex
  <1>12. QED BY <1>1, <1>2, <1>3, <1>4, <1>9, <1>11

\* What is the end of a name is a suffix of it.
LEMMA EndsAreSuffixes ==
    ASSUME NEW n \in Seq(Labels), NEW a \in Seq(Labels), Len(a) <= Len(n),
           \A i \in 1..Len(a) : a[i] = n[Len(n) - Len(a) + i]
    PROVE  IsSuffix(a, n)
  <1>1. Len(a) \in Nat /\ Len(n) \in Nat
    OBVIOUS
  <1>2. /\ Reverse(a) \in Seq(Labels) /\ Len(Reverse(a)) = Len(a)
        /\ Reverse(n) \in Seq(Labels) /\ Len(Reverse(n)) = Len(n)
    BY <1>1 DEF Reverse
  <1>3. ASSUME NEW i \in 1..Len(a)
        PROVE  Reverse(a)[i] = Reverse(n)[i]
    <2>1. Reverse(a)[i] = a[Len(a) - i + 1] /\ Reverse(n)[i] = n[Len(n) - i + 1]
      BY <1>1 DEF Reverse
    <2>2. Len(a) - i + 1 \in 1..Len(a) /\ Len(n) - Len(a) + (Len(a) - i + 1) = Len(n) - i + 1
      BY <1>1
    <2>3. QED BY <2>1, <2>2
  <1> DEFINE ra == SubSeq(Reverse(a), 1, Len(a))
             rn == SubSeq(Reverse(n), 1, Len(a))
  <1>4. /\ ra \in Seq(Labels) /\ Len(ra) = Len(a)
        /\ rn \in Seq(Labels) /\ Len(rn) = Len(a)
        /\ \A i \in 1..Len(a) : ra[i] = Reverse(a)[i] /\ rn[i] = Reverse(n)[i]
    BY <1>1, <1>2
  <1> HIDE DEF ra, rn
  <1>5. ra = rn
    BY <1>1, <1>3, <1>4
  <1>6. QED BY <1>1, <1>2, <1>5 DEF IsSuffix, IsPrefix, ra, rn

-----------------------------------------------------------------------------
(* The names: what a query becomes *)

\* Of a spelling, Normalize takes off the dot at its end.
LEMMA SpellingsAreTrimmed ==
    ASSUME NEW a \in Seq(Labels), a # <<>>,
           \A i \in 1..Len(a) : Settled(a[i]),
           NEW q \in Spellings(a)
    PROVE  \E w \in Seq(Labels) :
               /\ TrimTrailingDot(q) = w
               /\ Len(w) = Len(a) /\ DOMAIN w = 1..Len(a)
               /\ \A i \in 1..Len(a) : w[i] \in Labels /\ Lower[w[i]] = a[i] /\ w[i] # NoLabel
  <1> DEFINE W == {w \in [DOMAIN a -> {l \in Labels : Lower[l] \in ToSet(a)}] :
                       \A i \in DOMAIN a : Lower[w[i]] = a[i]}
  <1>1. PICK w \in W : q \in {w, Append(w, NoLabel)}
    BY DEF Spellings
  <1>2. /\ w \in Seq(Labels) /\ Len(w) = Len(a) /\ DOMAIN w = 1..Len(a)
        /\ \A i \in 1..Len(a) : w[i] \in Labels /\ Lower[w[i]] = a[i]
    <2>1. w \in [1..Len(a) -> Labels] /\ \A i \in 1..Len(a) : Lower[w[i]] = a[i]
      BY <1>1
    <2>2. QED BY <2>1
  <1>3. \A i \in 1..Len(a) : w[i] # NoLabel
    BY <1>2, TablesAssumption DEF Settled
  <1>4. TrimTrailingDot(q) = w
    <2>1. Len(a) \in Nat \ {0}
      OBVIOUS
    <2>2. CASE q = w
      <3>1. w[Len(w)] # NoLabel
        BY <1>2, <1>3, <2>1
      <3>2. QED BY <2>2, <3>1 DEF TrimTrailingDot, Last
    <2>3. CASE q = Append(w, NoLabel)
      <3>1. /\ q \in Seq(Labels) /\ Len(q) = Len(w) + 1 /\ q[Len(q)] = NoLabel
            /\ \A i \in 1..Len(w) : q[i] = w[i]
        BY <1>2, <2>3, HostNamesAssumption
      <3>2. TrimTrailingDot(q) = SubSeq(q, 1, Len(w))
        <4>1. Len(q) > 1 /\ Len(q) - 1 = Len(w)
          BY <1>2, <2>1, <3>1
        <4>2. QED BY <3>1, <4>1 DEF TrimTrailingDot, Last, Front
      <3> DEFINE t == SubSeq(q, 1, Len(w))
      <3>3. t \in Seq(Labels) /\ Len(t) = Len(w) /\ \A i \in 1..Len(w) : t[i] = q[i]
        BY <1>2, <3>1
      <3> HIDE DEF t
      <3>4. t = w
        BY <1>2, <3>1, <3>3
      <3>5. QED BY <3>2, <3>4 DEF t
    <2>4. QED BY <1>1, <2>2, <2>3
  <1>5. QED BY <1>2, <1>3, <1>4

\* What a query with such a spelling asks for: what Normalize makes of the apex.
LEMMA SpellingsAreNormalized ==
    ASSUME NEW a \in Seq(Labels), a # <<>>,
           \A i \in 1..Len(a) : Settled(a[i]) /\ Ascii[a[i]] = a[i],
           NEW q \in Spellings(a)
    PROVE  Normalize(q) = IF ObeysBidi(a) /\ ~IsSpecial(a) THEN a ELSE <<NoLabel>>
  <1>1. PICK w \in Seq(Labels) :
           /\ TrimTrailingDot(q) = w
           /\ Len(w) = Len(a) /\ DOMAIN w = 1..Len(a)
           /\ \A i \in 1..Len(a) : w[i] \in Labels /\ Lower[w[i]] = a[i] /\ w[i] # NoLabel
    BY SpellingsAreTrimmed
  <1>2. ASSUME NEW i \in 1..Len(a)
        PROVE  w[i] \notin NonAscii \cup Controls /\ Ascii[w[i]] = a[i]
    <2>1. /\ a[i] \in Labels /\ a[i] # NoLabel /\ a[i] \notin Controls
          /\ Ascii[a[i]] = a[i]
      BY DEF Settled
    <2>2. a[i] \notin NonAscii
      BY <2>1, TablesAssumption
    <2>3. w[i] \notin NonAscii \cup Controls
      BY <1>1, <2>1, <2>2, TablesAssumption
    <2>4. QED BY <1>1, <2>1, <2>3, TablesAssumption
  <1>3. w # <<NoLabel>>
    BY <1>1
  <1>4. ToSet(w) \cap (NonAscii \cup Controls) = {}
    BY <1>1, <1>2 DEF ToSet
  <1>5. Mappable(w)
    BY <1>1, <1>2, HostNamesAssumption DEF Mappable, Settled
  <1>6. ToASCII(w) = a
    <2>1. ToASCII(w) = [i \in 1..Len(a) |-> a[i]]
      BY <1>1, <1>2 DEF ToASCII
    <2>2. QED BY <2>1
  <1>7. QED BY <1>1, <1>3, <1>4, <1>5, <1>6 DEF Normalize

\* A label that only storing accepts is refused in every spelling.
LEMMA ServiceLabelsAreRefused ==
    ASSUME NEW a \in Seq(Labels), a # <<>>,
           \A i \in 1..Len(a) : Settled(a[i]),
           NEW q \in Spellings(a), ToSet(a) \cap Service # {}
    PROVE  Normalize(q) = <<NoLabel>>
  <1>1. PICK w \in Seq(Labels) :
           /\ TrimTrailingDot(q) = w
           /\ Len(w) = Len(a) /\ DOMAIN w = 1..Len(a)
           /\ \A i \in 1..Len(a) : w[i] \in Labels /\ Lower[w[i]] = a[i] /\ w[i] # NoLabel
    BY SpellingsAreTrimmed
  <1>2. PICK i \in 1..Len(a) : a[i] \in Service
    BY DEF ToSet
  <1>3. Ascii[a[i]] = NoLabel
    BY <1>2, TablesAssumption
  <1>4. CASE w[i] \in NonAscii
    <2>1. w[i] \in ToSet(w)
      BY <1>1 DEF ToSet
    <2>2. QED BY <1>1, <1>4, <2>1 DEF Normalize
  <1>5. CASE w[i] \notin NonAscii
    <2>1. Ascii[w[i]] = NoLabel
      BY <1>1, <1>3, <1>5, TablesAssumption
    <2>2. ~Mappable(w)
      BY <1>1, <2>1 DEF Mappable
    <2>3. QED BY <1>1, <2>2 DEF Normalize
  <1>6. QED BY <1>4, <1>5

\* A query finds its apex, or is refused, whatever the case of its letters, with
\* and without the dot at its end.
LEMMA SpellingsAreUnderstood ==
    ASSUME NEW a \in Seq(Labels), a # <<>>,
           \A i \in 1..Len(a) : Settled(a[i]),
           HasApex(a), EffectiveTLDPlusOne(a) = a,
           NEW q \in Spellings(a)
    PROVE  Asked(q) = IF OnlyStored(a) THEN <<NoLabel>> ELSE a
  <1>1. ValidateApex(<<NoLabel>>) = <<NoLabel>> /\ ValidateApex(a) = a
    BY DEF ValidateApex
  <1>2. CASE ToSet(a) \cap Service # {}
    BY <1>1, <1>2, ServiceLabelsAreRefused DEF Asked, OnlyStored
  <1>3. CASE ToSet(a) \cap Service = {}
    <2>1. \A i \in 1..Len(a) : Settled(a[i]) /\ Ascii[a[i]] = a[i]
      <3>1. \A i \in 1..Len(a) : a[i] \in ToSet(a)
        BY DEF ToSet
      <3>2. QED BY <1>3, <3>1 DEF Settled
    <2>2. QED BY <1>1, <1>3, <2>1, SpellingsAreNormalized DEF Asked, OnlyStored
  <1>4. QED BY <1>2, <1>3

-----------------------------------------------------------------------------
(* The names: the theorem *)

\* A record is what becomes of the name in the certificate.
HostInv ==
    /\ host \in Seq(Labels) /\ host # <<>>
    /\ stored \in {<<>>, <<RecordOf(host)>>}

\* Whatever the name, its record is empty or can be searched.
LEMMA RecordsAreSearchable ==
    ASSUME HostInv
    PROVE  StoredIsSearchable
  <1> DEFINE d == Deduped(host)
             c == Canonical(d)
             a == EffectiveTLDPlusOne(c)
  <1>1. SUFFICES ASSUME Record # NoRecord
                 PROVE  /\ IsSuffix(Record.apex, Record.sub)
                        /\ Canonical(Deduped(Record.sub)) = Record.sub
                        /\ \A q \in Spellings(Record.apex) :
                              Asked(q) = IF OnlyStored(Record.apex) THEN <<NoLabel>>
                                         ELSE Record.apex
    BY DEF StoredIsSearchable
  <1>2. Record = RecordOf(host)
    BY <1>1 DEF HostInv, Record
  <1>3. /\ d # <<NoLabel>> /\ c # <<NoLabel>> /\ HasApex(c)
        /\ Record = [apex |-> a, sub |-> c]
    BY <1>1, <1>2 DEF RecordOf
  <1>4. /\ d \in Seq(Labels) /\ d # <<>>
        /\ \A i \in 1..Len(d) : Lower[d[i]] = d[i] /\ d[i] \notin Controls
    BY <1>3, DedupedIsLowerCase DEF HostInv
  <1> HIDE DEF d
  <1>5. /\ c \in Seq(Labels) /\ c # <<>>
        /\ \A i \in 1..Len(c) : Settled(c[i])
        /\ Mappable(c) => \A i \in 1..Len(c) : Ascii[c[i]] = c[i]
    BY <1>3, <1>4, CanonicalIsSettled
  <1> HIDE DEF c
  <1>6. Canonical(Deduped(c)) = c
    BY <1>5, SettledNamesStay
  <1>7. /\ a \in Seq(Labels) /\ a # <<>> /\ Len(a) <= Len(c)
        /\ \A i \in 1..Len(a) : a[i] = c[Len(c) - Len(a) + i]
        /\ HasApex(a) /\ EffectiveTLDPlusOne(a) = a
    BY <1>3, <1>5, ApexIsItsOwn
  <1> HIDE DEF a
  <1>8. IsSuffix(a, c)
    BY <1>5, <1>7, EndsAreSuffixes
  <1>9. ASSUME NEW q \in Spellings(a)
        PROVE  Asked(q) = IF OnlyStored(a) THEN <<NoLabel>> ELSE a
    <2>1. ASSUME NEW i \in 1..Len(a) PROVE Settled(a[i])
      <3>1. Len(c) - Len(a) + i \in 1..Len(c)
        BY <1>5, <1>7
      <3>2. QED BY <1>5, <1>7, <3>1
    <2>2. QED BY <1>7, <2>1, SpellingsAreUnderstood
  <1>10. QED BY <1>3, <1>6, <1>8, <1>9

\* Canonical and ApexOf against Normalize and ValidateApex (apex.go): for any
\* tables that keep what they have given, and any labels that the Bidi rule of
\* the queries alone objects to, the apex of a stored name can be asked for in
\* any spelling, unless it is one of those that only storing accepts: these are
\* refused in every spelling.  The name is below its apex.
THEOREM StoredNamesAreSearchable == HostSpec => []StoredIsSearchable
  <1>1. HostInit => HostInv
    <2> SUFFICES ASSUME HostInit PROVE HostInv
      OBVIOUS
    <2>1. PICK n \in 1..MaxLabels : host \in [1..n -> Labels]
      BY DEF HostInit
    <2>2. n \in Nat /\ n > 0
      BY HostNamesAssumption
    <2>3. host \in Seq(Labels) /\ Len(host) = n
      BY <2>1, <2>2
    <2>4. QED BY <2>2, <2>3 DEF HostInit, HostInv
  <1>2. HostInv /\ [HostNext]_hostVars => HostInv'
    BY DEF HostInv, HostNext, StoreName, hostVars
  <1>3. HostInv => StoredIsSearchable
    BY RecordsAreSearchable
  <1>4. QED BY <1>1, <1>2, <1>3, PTL DEF HostSpec

=============================================================================
