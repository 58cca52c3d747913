---------------------------- MODULE IngestProofs ---------------------------
(***************************************************************************)
(* Proofs about Ingest, for every value of its constants: the tailers with *)
(* the store under them.                                                   *)
(***************************************************************************)
EXTENDS Ingest, StoreProofs

USE TailersAssumption

-----------------------------------------------------------------------------
(* The shape of what the tailers hold *)

\* A tailer reads up to a target that its log has published, entry by entry.
RangeOK(l) ==
    /\ pc[l] \in {"fetch", "names", "mark"} => pos[l] <= target[l] /\ target[l] <= Size(l)
    /\ pc[l] = "names" =>
          /\ pos[l] + got[l] <= target[l]
          /\ todo[l] \subseteq NamesIn(l, pos[l] + 1, Size(l))

TailTypes ==
    /\ size \in [Logs -> Nat] /\ \A l \in Logs : size[l] <= Size(l)
    /\ pc \in [Logs -> {"off", "poll", "fetch", "names", "mark", "marking", "done"}]
    /\ wm \in [Logs -> 0..MaxMark] /\ target \in [Logs -> Nat] /\ pos \in [Logs -> Nat]
    /\ got \in [Logs -> Nat] /\ drain \in [Logs -> Nat \cup {None}]
    /\ todo \in [Logs -> SUBSET (Nat \X Names)]

TailOK == TailTypes /\ \A l \in Logs : RangeOK(l)

\* The names of a window (fetchRange), and the entries they are in.
LEMMA WindowNames ==
    ASSUME NEW l \in Logs, NEW from \in Nat \ {0}, NEW to \in Nat, to <= Size(l)
    PROVE  /\ NamesIn(l, from, to) \subseteq (1..to) \X Names
           /\ \A e \in NamesIn(l, from, to) :
                 e[1] \in from..to /\ e[2] \in Entries[l][e[1]].names /\ e[2] \in Names
           /\ \A i \in from..to : \A n \in Entries[l][i].names :
                 <<i, n>> \in NamesIn(l, from, to)
           /\ \A i \in 1..to : Entries[l][i] \in [date : Dates, names : SUBSET Names]
  <1> DEFINE E == [date : Dates, names : SUBSET Names]
  <1>1. \A i \in 1..to : Entries[l][i] \in E
    <2>1. Entries \in [Logs -> Seq(E)]
      OBVIOUS
    <2> HIDE DEF E
    <2>2. Entries[l] \in Seq(E) /\ Len(Entries[l]) \in Nat
      BY <2>1
    <2>3. \A i \in 1..Len(Entries[l]) : Entries[l][i] \in E
      BY <2>2
    <2>4. QED BY <2>2, <2>3 DEF Size
  <1>2. \A i \in 1..to : Entries[l][i] \in E /\ Entries[l][i].names \subseteq Names
    BY <1>1
  <1>3. \A e \in NamesIn(l, from, to) : \E i \in from..to : \E n \in Entries[l][i].names : e = <<i, n>>
    BY DEF NamesIn
  <1>4. \A i \in from..to : i \in 1..to /\ Entries[l][i].names \subseteq Names
    BY <1>2
  <1>5. \A i \in from..to : \A n \in Entries[l][i].names : <<i, n>> \in NamesIn(l, from, to)
    BY DEF NamesIn
  <1>6. QED BY <1>2, <1>3, <1>4, <1>5

\* The sizes of the logs are within the bound of the watermarks.
LEMMA LogSizes == MaxMark \in Nat /\ \A l \in Logs : Size(l) \in Nat /\ Size(l) <= MaxMark
  BY SizesAssumption DEF Size

\* What a tailer sends is an operation of the store (Ingest, AdvanceWatermark).
LEMMA SentOps ==
    ASSUME TailOK, NEW l \in Logs
    PROVE  /\ pc[l] = "names" => \A e \in todo[l] :
                 [kind |-> "record", name |-> e[2], date |-> Entries[l][e[1]].date] \in Ops
           /\ pc[l] = "mark" => [kind |-> "mark", log |-> l, mark |-> pos[l]] \in Ops
  <1>1. ASSUME pc[l] = "names", NEW e \in todo[l]
        PROVE  [kind |-> "record", name |-> e[2], date |-> Entries[l][e[1]].date] \in Ops
    <2>1. /\ pos[l] + 1 \in Nat \ {0} /\ Size(l) \in Nat
          /\ e \in NamesIn(l, pos[l] + 1, Size(l))
      BY <1>1, LogSizes DEF TailOK, TailTypes, RangeOK
    <2>2. /\ e[1] \in (pos[l] + 1)..Size(l) /\ e[2] \in Names
          /\ \A i \in 1..Size(l) : Entries[l][i].date \in Dates
      BY <2>1, WindowNames
    <2>3. pos[l] \in Nat
      BY DEF TailOK, TailTypes
    <2>4. e[1] \in 1..Size(l)
      BY <2>2, <2>3, LogSizes
    <2>5. QED BY <2>2, <2>4 DEF Ops, RecordOps
  <1>2. ASSUME pc[l] = "mark"
        PROVE  [kind |-> "mark", log |-> l, mark |-> pos[l]] \in Ops
    <2>1. pos[l] \in 0..MaxMark
      BY <1>2, LogSizes DEF TailOK, TailTypes, RangeOK
    <2>2. QED BY <2>1 DEF Ops, MarkOps
  <1>3. QED BY <1>1, <1>2

\* Where the tailers start.
LEMMA TailInit == IngestInit => TailOK
  <1> SUFFICES ASSUME IngestInit PROVE TailOK
    OBVIOUS
  <1>1. size \in [Logs -> Nat] /\ \A l \in Logs : size[l] <= Size(l)
    BY LogSizes DEF IngestInit
  <1>2. QED BY <1>1, LogSizes DEF IngestInit, TailOK, TailTypes, RangeOK

\* A step of one tailer is nothing to the others.
LEMMA OneTailer ==
    ASSUME TailOK, NEW l \in Logs, TailTypes', RangeOK(l)',
           \A q \in Logs \ {l} : /\ pc'[q] = pc[q] /\ pos'[q] = pos[q] /\ target'[q] = target[q]
                                 /\ got'[q] = got[q] /\ todo'[q] = todo[q]
    PROVE  TailOK'
  <1>1. ASSUME NEW q \in Logs \ {l} PROVE RangeOK(q)'
    BY <1>1 DEF TailOK, RangeOK
  <1>2. QED BY <1>1 DEF TailOK

\* Each step of a tailer keeps the shape of what it holds.
LEMMA TailerTypes ==
    ASSUME TypeOK, TailOK, NEW l \in Logs, TailStep(l)
    PROVE  TailOK'
  <1> USE DEF TailTypes, Goto
  <1> TailTypes /\ RangeOK(l)
    BY DEF TailOK
  <1>1. CASE StartTailer(l)
    <2>1. /\ pc'[l] \in {"poll", "done"} /\ TailTypes'
          /\ \A q \in Logs \ {l} : pc'[q] = pc[q]
          /\ UNCHANGED <<pos, target, got, todo>>
      <3>1. /\ pc' \in {[pc EXCEPT ![l] = "poll"], [pc EXCEPT ![l] = "done"]}
            /\ UNCHANGED <<size, target, pos, got, todo>>
        BY <1>1 DEF StartTailer
      <3>2. db.mark[l] \in 0..MaxMark
        BY DEF TypeOK, DbOK
      <3>3. wm' \in [Logs -> 0..MaxMark] /\ drain' \in [Logs -> Nat \cup {None}]
        <4>1. size[l] \in Nat
          OBVIOUS
        <4>2. \/ wm' = [wm EXCEPT ![l] = db.mark[l]]
                 /\ \/ drain' = [drain EXCEPT ![l] = size[l]]
                    \/ drain' = [drain EXCEPT ![l] = None]
              \/ UNCHANGED <<wm, drain>>
          BY <1>1 DEF StartTailer, DrainTargets
        <4>3. QED BY <3>2, <4>1, <4>2
      <3>4. QED BY <3>1, <3>3
    <2>2. QED BY <2>1, OneTailer DEF RangeOK
  <1>2. ASSUME NEW s \in 0..size[l], Poll(l, s) PROVE TailOK'
    <2>1. PICK t \in Nat : t <= Size(l) /\ t > wm[l] /\ target' = [target EXCEPT ![l] = t]
      <3> DEFINE t0 == IF drain[l] # None /\ drain[l] < s THEN drain[l] ELSE s
      <3>1. target' = [target EXCEPT ![l] = t0] /\ t0 > wm[l]
        BY <1>2 DEF Poll
      <3>2. s \in Nat /\ s <= Size(l) /\ wm[l] \in Nat
        BY <1>2, LogSizes
      <3>3. drain[l] # None => drain[l] \in Nat
        OBVIOUS
      <3>4. t0 \in Nat /\ t0 <= Size(l)
        BY <3>2, <3>3, LogSizes
      <3>5. QED BY <3>1, <3>4
    <2>2. /\ pc' = [pc EXCEPT ![l] = "fetch"] /\ pos' = [pos EXCEPT ![l] = wm[l]]
          /\ UNCHANGED <<size, wm, drain, got, todo>>
      BY <1>2 DEF Poll
    <2>3. wm[l] \in Nat
      BY LogSizes
    <2>4. TailTypes'
      BY <2>1, <2>2, <2>3
    <2>5. RangeOK(l)'
      BY <2>1, <2>2, <2>3 DEF RangeOK
    <2>6. QED BY <2>1, <2>2, <2>4, <2>5, OneTailer
  <1>3. CASE Leave(l) \/ EndRange(l)
    <2>1. /\ pc' \in {[pc EXCEPT ![l] = "done"], [pc EXCEPT ![l] = "mark"]}
          /\ pc'[l] = "mark" => pc[l] = "fetch"
          /\ UNCHANGED <<size, wm, target, drain, pos, got, todo>>
      BY <1>3 DEF Leave, EndRange
    <2>2. TailTypes' /\ RangeOK(l)'
      BY <2>1 DEF RangeOK
    <2>3. QED BY <2>1, <2>2, OneTailer
  <1>4. ASSUME NEW k \in 1..Window, Fetch(l, k) PROVE TailOK'
    <2> DEFINE names == NamesIn(l, pos[l] + 1, pos[l] + k)
    <2>1. pos[l] \in Nat /\ k \in Nat \ {0} /\ pos[l] + k <= Size(l)
      BY <1>4, LogSizes DEF Fetch
    <2>2. names \subseteq NamesIn(l, pos[l] + 1, Size(l)) /\ names \subseteq Nat \X Names
      <3>1. pos[l] + 1 \in Nat \ {0} /\ pos[l] + k \in Nat
        BY <2>1
      <3>2. names \subseteq (1..(pos[l] + k)) \X Names
        BY <2>1, <3>1, WindowNames
      <3>3. (pos[l] + 1)..(pos[l] + k) \subseteq (pos[l] + 1)..Size(l)
        BY <2>1, LogSizes
      <3>4. QED BY <3>2, <3>3 DEF NamesIn
    <2> HIDE DEF names
    <2>3. PICK g \in Nat : g <= k /\ pos[l] + g <= target[l] /\ got' = [got EXCEPT ![l] = g]
      <3> DEFINE g == IF pos[l] + k > target[l] THEN target[l] - pos[l] ELSE k
      <3>1. got' = [got EXCEPT ![l] = g] /\ pos[l] < target[l] /\ target[l] \in Nat
        BY <1>4 DEF Fetch
      <3>2. g \in Nat /\ g <= k /\ pos[l] + g <= target[l]
        BY <2>1, <3>1
      <3> HIDE DEF g
      <3>3. QED BY <3>1, <3>2
    <2>4. /\ todo' = [todo EXCEPT ![l] = names]
          /\ pc' = [pc EXCEPT ![l] = "names"] /\ pc[l] = "fetch"
          /\ UNCHANGED <<size, wm, target, drain, pos>>
      BY <1>4 DEF Fetch, names
    <2>5. TailTypes'
      BY <2>2, <2>3, <2>4
    <2>6. got'[l] \in Nat /\ pos[l] + got'[l] <= target[l] /\ todo'[l] = names /\ pc'[l] = "names"
      BY <2>3, <2>4
    <2>7. RangeOK(l)'
      BY <2>2, <2>4, <2>6 DEF RangeOK, Size
    <2>8. QED BY <2>3, <2>4, <2>5, <2>7, OneTailer
  <1>5. CASE SendName(l)
    <2>1. /\ UNCHANGED <<size, wm, target, drain, pos, got>>
          /\ pc[l] = "names"
          /\ \/ \E e : todo' = [todo EXCEPT ![l] = @ \ {e}] /\ UNCHANGED pc
             \/ UNCHANGED todo /\ pc' = [pc EXCEPT ![l] = "mark"]
      BY <1>5 DEF SendName
    <2>2. TailTypes' /\ todo'[l] \subseteq todo[l] /\ \A q \in Logs \ {l} : todo'[q] = todo[q]
      BY <2>1
    <2>3. RangeOK(l)'
      BY <2>1, <2>2 DEF RangeOK
    <2>4. QED BY <2>1, <2>2, <2>3, OneTailer
  <1>6. CASE NameSent(l)
    <2>1. /\ UNCHANGED <<size, wm, target, drain, pos, got, todo>>
          /\ pc[l] = "names" /\ pc' \in {pc, [pc EXCEPT ![l] = "mark"]}
      BY <1>6 DEF NameSent
    <2>2. TailTypes' /\ RangeOK(l)'
      BY <2>1 DEF RangeOK
    <2>3. QED BY <2>1, <2>2, OneTailer
  <1>7. CASE EndWindow(l)
    <2>1. /\ pos[l] + got[l] \in Nat /\ pos' = [pos EXCEPT ![l] = pos[l] + got[l]]
          /\ pc[l] = "names" /\ pc' = [pc EXCEPT ![l] = "fetch"]
          /\ UNCHANGED <<size, wm, target, drain, got, todo>>
      BY <1>7 DEF EndWindow
    <2>2. TailTypes' /\ RangeOK(l)'
      BY <2>1 DEF RangeOK
    <2>3. QED BY <2>1, <2>2, OneTailer
  <1>8. CASE SendMark(l)
    <2>1. pos[l] \in 0..MaxMark /\ pc[l] = "mark"
      BY <1>8, LogSizes DEF SendMark, RangeOK
    <2>2. /\ wm' = [wm EXCEPT ![l] = pos[l]]
          /\ pc' = [pc EXCEPT ![l] = "marking"] \/ pc' = [pc EXCEPT ![l] = "poll"]
          /\ UNCHANGED <<size, target, drain, pos, got, todo>>
      BY <1>8 DEF SendMark
    <2>3. TailTypes' /\ RangeOK(l)'
      BY <2>1, <2>2 DEF RangeOK
    <2>4. QED BY <2>2, <2>3, OneTailer
  <1>9. CASE MarkSent(l)
    <2>1. /\ UNCHANGED <<size, wm, target, drain, pos, got, todo>>
          /\ pc' = [pc EXCEPT ![l] = "poll"]
      BY <1>9 DEF MarkSent
    <2>2. TailTypes' /\ RangeOK(l)'
      BY <2>1 DEF RangeOK
    <2>3. QED BY <2>1, <2>2, OneTailer
  <1>10. QED BY <1>1, <1>2, <1>3, <1>4, <1>5, <1>6, <1>7, <1>8, <1>9 DEF TailStep

\* The other steps: the store on its own, the logs, a signal, a shutdown, a stop.
LEMMA OtherTypes ==
    ASSUME TailOK,
           \/ StoreStep \/ (\E l \in Logs : Grow(l)) \/ Cancel \/ Shutdown \/ StopProcess
           \/ UNCHANGED ingestVars
    PROVE  TailOK'
  <1> USE DEF TailOK, TailTypes, RangeOK
  <1>1. CASE StoreStep \/ Cancel \/ Shutdown \/ UNCHANGED ingestVars
    BY <1>1 DEF StoreStep, Cancel, Shutdown, ingestVars, tailVars
  <1>2. ASSUME NEW l \in Logs, Grow(l) PROVE TailOK'
    <2>1. size' \in [Logs -> Nat] /\ \A q \in Logs : size'[q] <= Size(q)
      BY <1>2, LogSizes DEF Grow
    <2>2. QED BY <1>2, <2>1 DEF Grow, tailVars
  <1>3. CASE StopProcess
    BY <1>3, LogSizes DEF StopProcess, TailersOff
  <1>4. QED BY <1>1, <1>2, <1>3

-----------------------------------------------------------------------------
(* The tailers run on the store *)

\* Each step of the tailers is one of the store, or none.
LEMMA IngestIsStoreStep ==
    ASSUME TailOK, [IngestNext]_ingestVars
    PROVE  [FreeNext]_vars
  <1>1. CASE StoreStep
    BY <1>1 DEF StoreStep, FreeNext
  <1>2. ASSUME NEW l \in Logs, TailStep(l) PROVE [FreeNext]_vars
    <2>1. l \in Callers
      OBVIOUS
    <2>2. CASE \/ StartTailer(l) \/ (\E s \in 0..size[l] : Poll(l, s)) \/ Leave(l)
               \/ (\E k \in 1..Window : Fetch(l, k)) \/ EndRange(l) \/ EndWindow(l)
      BY <2>2 DEF StartTailer, Poll, Leave, Fetch, EndRange, EndWindow
    <2>3. CASE SendName(l)
      <3>1. (\E op \in Ops : BeginSend(l, op)) \/ UNCHANGED vars
        BY <2>3, SentOps DEF SendName
      <3>2. QED BY <2>1, <3>1 DEF FreeNext, AnyCall
    <2>4. CASE SendMark(l)
      <3>1. (\E op \in Ops : BeginSend(l, op)) \/ UNCHANGED vars
        BY <2>4, SentOps DEF SendMark
      <3>2. QED BY <2>1, <3>1 DEF FreeNext, AnyCall
    <2>5. CASE NameSent(l) \/ MarkSent(l)
      BY <2>1, <2>5 DEF NameSent, MarkSent, SendStep, FreeNext
    <2>6. QED BY <1>2, <2>2, <2>3, <2>4, <2>5 DEF TailStep
  <1>3. CASE (\E l \in Logs : Grow(l)) \/ Cancel
    BY <1>3 DEF Grow, Cancel
  <1>4. CASE Shutdown \/ StopProcess
    BY <1>4 DEF Shutdown, StopProcess, FreeNext
  <1>5. CASE UNCHANGED ingestVars
    BY <1>5 DEF ingestVars, vars
  <1>6. QED BY <1>1, <1>2, <1>3, <1>4, <1>5 DEF IngestNext

\* The shapes are kept.
LEMMA IngestTypesNext ==
    ASSUME TypeOK, TailOK, [IngestNext]_ingestVars
    PROVE  TypeOK' /\ TailOK'
  <1>1. TypeOK'
    BY IngestIsStoreStep, TypesNext
  <1>2. TailOK'
    BY TailerTypes, OtherTypes DEF IngestNext
  <1>3. QED BY <1>1, <1>2

\* Ingest refines Store: the tailers do to the store what any callers may do, so
\* what is proved of the store without a bound on its callers holds here.
THEOREM IngestRunsStore == IngestSpec => FreeSpec /\ [](TypeOK /\ TailOK)
  <1>1. IngestInit => Init /\ TypeOK /\ TailOK
    BY TailInit, InitTypes DEF IngestInit
  <1>2. TypeOK /\ TailOK /\ [IngestNext]_ingestVars => TypeOK' /\ TailOK' /\ [FreeNext]_vars
    BY IngestTypesNext, IngestIsStoreStep
  <1>3. QED BY <1>1, <1>2, PTL DEF IngestSpec, FreeSpec

-----------------------------------------------------------------------------
(***************************************************************************)
(* Why the watermarks are covered and never move back: the inductive       *)
(* invariant.                                                              *)
(*                                                                         *)
(* A mark is covered wherever it is on its way to the disk: by what a      *)
(* commit would write, when it is the mark that commit would write; by     *)
(* that and by the records before it in the queue, when it is queued; by   *)
(* everything the loop has been told, when the tailer still holds it.      *)
(***************************************************************************)

\* What a commit would make durable, and what failed reads have dropped.
Safe == Stored(View) \cup lost

\* The names of the first k operations of the queue, and what there is once
\* the loop has handled those.
NamesQueued(k) ==
    {n \in Names : \E j \in 1..k : ch[j].kind = "record" /\ ch[j].name = n}

Held(k) == Safe \cup NamesQueued(k)
Told == Held(Len(ch))

\* A tailer is blocked on a name of its window, or on its watermark.
SenderOK(l) ==
    sending[l] # None =>
        \/ pc[l] = "names" /\ sending[l].kind = "record"
        \/ pc[l] = "marking" /\ sending[l] = [kind |-> "mark", log |-> l, mark |-> wm[l]]

\* What is read of a log has been told to the loop: all below the watermark of
\* the tailer and below its window, and of the window what is not left to send.
LogCovered(l) ==
    /\ pc[l] \notin {"off", "done"} => Covered(l, wm[l], Told)
    /\ pc[l] \in {"fetch", "names", "mark"} => Covered(l, pos[l], Told)
    /\ pc[l] = "names" =>
          \A e \in NamesIn(l, pos[l] + 1, pos[l] + got[l]) :
              \/ e \in todo[l]
              \/ e[2] \in Told
              \/ sending[l] # None /\ sending[l].name = e[2]

MarksCovered ==
    /\ WatermarkCovered
    /\ \A l \in Logs : Covered(l, CommittedDb.mark[l], Safe)
    /\ \A i \in 1..Len(ch) :
          ch[i].kind = "mark" => Covered(ch[i].log, ch[i].mark, Held(i))

IsMarkOf(i, l) == ch[i].kind = "mark" /\ ch[i].log = l

\* The marks of a log grow from the disk to the batch, along the queue and up
\* to its tailer; a tailer that has not started has sent none.
LogOrdered(l) ==
    /\ db.mark[l] <= CommittedDb.mark[l]
    /\ \A i \in 1..Len(ch) : IsMarkOf(i, l) => CommittedDb.mark[l] <= ch[i].mark
    /\ \A i, j \in 1..Len(ch) :
          i < j /\ IsMarkOf(i, l) /\ IsMarkOf(j, l) => ch[i].mark <= ch[j].mark
    /\ pc[l] = "off" =>
          CommittedDb.mark[l] = db.mark[l] /\ \A i \in 1..Len(ch) : ~IsMarkOf(i, l)
    /\ pc[l] \notin {"off", "done"} =>
          /\ CommittedDb.mark[l] <= wm[l]
          /\ \A i \in 1..Len(ch) : IsMarkOf(i, l) => ch[i].mark <= wm[l]
    /\ pc[l] \in {"fetch", "names", "mark"} => wm[l] <= pos[l]

ProcessDown == loop = "down" => ch = <<>> /\ \A l \in Logs : pc[l] = "off"

TailInv ==
    /\ ProcessDown
    /\ MarksCovered
    /\ \A l \in Logs : SenderOK(l) /\ LogCovered(l) /\ LogOrdered(l)

-----------------------------------------------------------------------------
(* What the steps of the store do to the queue, the records and the marks *)

\* What covers a prefix of a log covers it whatever is added.
LEMMA CoverGrows ==
    ASSUME NEW l, NEW w, NEW A, NEW B, A \subseteq B, Covered(l, w, A)
    PROVE  Covered(l, w, B)
  BY DEF Covered

\* The queue has lost its first k operations, k being 0 or 1, and whatever was
\* told before an operation is now safe or told before it still.
Shift(k) ==
    /\ k \in {0, 1} /\ Len(ch') = Len(ch) - k
    /\ \A i \in 1..Len(ch') : ch'[i] = ch[i + k]
    /\ \A i \in 0..Len(ch') : Held(i + k) \subseteq Held(i)'

\* A queue that loses its head, a record that is stored or lost, or no record.
LEMMA TailShifts ==
    ASSUME TypeOK, ch # <<>>, ch' = Tail(ch), Safe \subseteq Safe',
           Head(ch).kind = "record" => Head(ch).name \in Safe'
    PROVE  Shift(1)
  <1>1. ch \in Seq(Ops) /\ Len(ch) \in Nat /\ Len(ch) > 0
    BY DEF TypeOK, CallersOK
  <1>2. /\ Len(ch') = Len(ch) - 1 /\ Head(ch) = ch[1]
        /\ \A i \in 1..Len(ch') : ch'[i] = ch[i + 1]
    BY <1>1
  <1>3. ASSUME NEW i \in 0..Len(ch'), NEW n \in NamesQueued(i + 1)
        PROVE  n \in Safe' \/ n \in NamesQueued(i)'
    <2>1. PICK j \in 1..(i + 1) : ch[j].kind = "record" /\ ch[j].name = n
      BY DEF NamesQueued
    <2>2. CASE j = 1
      BY <1>2, <2>1, <2>2
    <2>3. CASE j # 1
      <3>1. j - 1 \in 1..i /\ j - 1 \in 1..Len(ch') /\ (j - 1) + 1 = j
        BY <1>1, <1>2, <2>3
      <3>2. ch'[j - 1] = ch[j]
        BY <1>2, <3>1
      <3>3. n \in Names
        BY DEF NamesQueued
      <3>4. QED BY <2>1, <3>1, <3>2, <3>3 DEF NamesQueued
    <2>4. QED BY <2>2, <2>3
  <1>4. QED BY <1>1, <1>2, <1>3 DEF Shift, Held

\* A queue that stays as it is.
LEMMA SameQueueShifts ==
    ASSUME TypeOK, ch' = ch, Safe \subseteq Safe'
    PROVE  Shift(0)
  <1>1. Len(ch) \in Nat
    BY DEF TypeOK, CallersOK
  <1>2. \A i : NamesQueued(i)' = NamesQueued(i)
    BY DEF NamesQueued
  <1>3. QED BY <1>1, <1>2 DEF Shift, Held

\* What is on disk is in the view, and stays a part of it.
LEMMA DiskInView ==
    /\ Stored(db.rec) \subseteq Stored(View)
    /\ Stored(db'.rec) \subseteq Stored(View')
  BY DEF Stored, View

\* The marks of a commit, after a step that leaves both of their parts alone.
LEMMA SameMarks ==
    ASSUME UNCHANGED marks, db'.mark = db.mark
    PROVE  CommittedDb'.mark = CommittedDb.mark
  BY DEF CommittedDb

\* The disk is left alone, or it gets the view and its marks.
DiskEffect ==
    \/ db'.mark = db.mark /\ Stored(db.rec) \subseteq Stored(db'.rec)
    \/ db'.mark = CommittedDb.mark /\ db'.rec = View

\* A step of the store on its own, as the tailers see it: nothing that was safe
\* is given up, and at most the mark at the head of the queue is taken.
StoreEffect ==
    /\ DiskEffect
    /\ Safe \subseteq Safe'
    /\ lost \subseteq lost' \cup Stored(db'.rec)
    /\ \/ /\ CommittedDb'.mark = CommittedDb.mark
          /\ Shift(0) \/ Shift(1)
       \/ /\ Shift(1) /\ Len(ch) > 0 /\ ch[1].kind = "mark"
          /\ CommittedDb'.mark = [CommittedDb.mark EXCEPT ![ch[1].log] = ch[1].mark]
          /\ db' = db

\* The view keeps its names, and has the one of a record that was handled.
LEMMA TakenRecord ==
    ASSUME TypeOK, StoreInv, TakeRecord
    PROVE  /\ Stored(View) \subseteq Stored(View') /\ Head(ch).name \in Stored(View')
           /\ db' = db /\ UNCHANGED marks /\ ch # <<>> /\ ch' = Tail(ch)
  <1>1. PICK op \in RecordOps : op = Head(ch) /\ op.name \in Names /\ op.date \in Dates
    BY ReceiveTypes, OpKinds DEF TakeRecord, TypeOK
  <1>2. db' = db /\ UNCHANGED marks /\ ch # <<>> /\ ch' = Tail(ch)
    BY DEF TakeRecord, Receive, StoreNew, StoreKnown
  <1>3. CASE Known(op.name) = None
    <2> DEFINE new == [date |-> op.date, seq |-> seq + 1]
    <2>1. new # None
      BY <1>1, NoneAssumption DEF Records, TypeOK, LoopOK
    <2>2. batch' = [batch EXCEPT ![op.name] = new]
      BY <1>1, <1>3 DEF TakeRecord, StoreNew
    <2> HIDE DEF new
    <2>3. View' = [View EXCEPT ![op.name] = new]
      BY <1>1, <1>2, <2>1, <2>2, NewView DEF StoreInv
    <2>4. View'[op.name] = new /\ \A m \in Names : m # op.name => View'[m] = View[m]
      BY <1>1, <2>3, CommitTypes DEF TypeOK
    <2>5. QED BY <1>1, <1>2, <2>1, <2>4 DEF Stored
  <1>4. CASE Known(op.name) # None
    <2>1. \/ batch' = batch
          \/ batch' = [batch EXCEPT ![op.name] = [date |-> op.date, seq |-> Known(op.name).seq]]
      BY <1>1, <1>4 DEF TakeRecord, StoreKnown
    <2>2. /\ \A m \in Names : m # op.name => View'[m] = View[m]
          /\ View'[op.name] # None
      BY <1>1, <1>2, <1>4, <2>1, KnownView DEF StoreInv
    <2>3. QED BY <1>1, <1>2, <2>2 DEF Stored
  <1>5. QED BY <1>3, <1>4

\* Every step of the store on its own has that effect (ingestLoop, flush, Open).
LEMMA StoreEffects ==
    ASSUME TypeOK, TypeOK', StoreInv, ProcessDown, StoreStep
    PROVE  StoreEffect
  <1>1. /\ lost \subseteq lost' \cup Stored(db'.rec)
        /\ DropRecord => Head(ch).name \in lost' \cup Stored(db'.rec)
    BY DEF StoreStep
  <1>2. Stored(View) \subseteq Stored(View') => Safe \subseteq Safe'
    BY <1>1, DiskInView DEF Safe
  <1>3. CASE TakeRecord
    <2>1. /\ Stored(View) \subseteq Stored(View') /\ Head(ch).name \in Safe'
          /\ db' = db /\ UNCHANGED marks /\ ch # <<>> /\ ch' = Tail(ch)
      BY <1>3, TakenRecord DEF Safe
    <2>2. CommittedDb'.mark = CommittedDb.mark
      BY <2>1, SameMarks
    <2>3. Shift(1)
      BY <1>2, <2>1, TailShifts
    <2>4. QED BY <1>1, <1>2, <2>1, <2>2, <2>3 DEF StoreEffect, DiskEffect
  <1>4. CASE DropRecord
    <2>1. /\ UNCHANGED <<db, batch, marks>> /\ ch # <<>> /\ ch' = Tail(ch)
          /\ Head(ch).name \in Safe'
      BY <1>1, <1>4, DiskInView DEF DropRecord, Receive, batchVars, Safe
    <2>2. Stored(View) \subseteq Stored(View') /\ CommittedDb'.mark = CommittedDb.mark
      BY <2>1, SameMarks DEF View
    <2>3. Shift(1)
      BY <1>2, <2>1, <2>2, TailShifts
    <2>4. QED BY <1>1, <1>2, <2>1, <2>2, <2>3 DEF StoreEffect, DiskEffect
  <1>5. CASE FlushFull \/ Tick \/ FinishDrain \/ TakeRecount
    <2>1. /\ Flush
          /\ \/ ch' = ch
             \/ ch # <<>> /\ ch' = Tail(ch) /\ Head(ch).kind = "recount"
      BY <1>5 DEF FlushFull, Tick, FinishDrain, TakeRecount, Receive
    <2>2. View' = View /\ CommittedDb'.mark = CommittedDb.mark /\ DiskEffect
      BY <2>1, FlushView DEF DiskEffect
    <2>3. Shift(0) \/ Shift(1)
      BY <1>2, <2>1, <2>2, SameQueueShifts, TailShifts
    <2>4. QED BY <1>1, <1>2, <2>2, <2>3 DEF StoreEffect
  <1>6. CASE TakeMark
    <2>1. /\ UNCHANGED <<db, batch>> /\ ch # <<>> /\ ch' = Tail(ch)
          /\ Head(ch).kind = "mark" /\ Head(ch).log \in Logs /\ Head(ch).mark \in 0..MaxMark
          /\ \/ UNCHANGED marks
             \/ marks' = [marks EXCEPT ![Head(ch).log] = Head(ch).mark]
      BY <1>6, ReceiveTypes, OpKinds DEF TakeMark, Receive, TypeOK
    <2>2. View' = View
      BY <2>1 DEF View
    <2>3. Shift(1) /\ Len(ch) > 0 /\ Head(ch) = ch[1]
      <3>1. Shift(1)
        BY <1>2, <2>1, <2>2, TailShifts
      <3>2. ch \in Seq(Ops)
        BY DEF TypeOK, CallersOK
      <3>3. QED BY <2>1, <3>1, <3>2
    <2>4. \/ CommittedDb'.mark = CommittedDb.mark
          \/ CommittedDb'.mark = [CommittedDb.mark EXCEPT ![Head(ch).log] = Head(ch).mark]
      <3>1. CASE UNCHANGED marks
        BY <2>1, <3>1, SameMarks
      <3>2. CASE marks' = [marks EXCEPT ![Head(ch).log] = Head(ch).mark]
        <4> DEFINE l == Head(ch).log
                   w == Head(ch).mark
        <4>1. w # None /\ l \in Logs
          BY <2>1, NoneAssumption
        <4>2. marks' = [marks EXCEPT ![l] = w] /\ marks \in [Logs -> (0..MaxMark) \cup {None}]
          BY <3>2 DEF TypeOK, BatchOK
        <4>3. db' = db
          BY <2>1
        <4> HIDE DEF l, w
        <4>4. marks'[l] = w /\ \A k \in Logs \ {l} : marks'[k] = marks[k]
          BY <4>1, <4>2
        <4>5. CommittedDb'.mark = [CommittedDb.mark EXCEPT ![l] = w]
          BY <4>1, <4>3, <4>4 DEF CommittedDb
        <4>6. QED BY <4>5 DEF l, w
      <3>3. QED BY <2>1, <3>1, <3>2
    <2>5. DiskEffect /\ Safe \subseteq Safe'
      BY <1>2, <2>1, <2>2 DEF DiskEffect
    <2>6. QED BY <1>1, <2>1, <2>3, <2>4, <2>5 DEF StoreEffect
  <1>7. CASE RecountChunk \/ RecountFails \/ RecountFinish
    <2>1. loop = "recount" /\ ch' = ch
      BY <1>7 DEF RecountChunk, RecountFails, RecountFinish
    <2>2. RecountEffect \/ IdleEffect
      <3>1. LoopStep
        BY <1>7 DEF LoopStep
      <3>2. QED
        BY <2>1, <3>1, LoopEffects DEF NewEffect, KnownEffect, FlushEffect, MarkEffect
    <2>3. /\ View' = View /\ CommittedDb'.mark = CommittedDb.mark
          /\ db'.rec = db.rec /\ db'.mark = db.mark
      <3>1. CASE RecountEffect
        BY <3>1, RecountView DEF RecountEffect, StoreInv
      <3>2. CASE IdleEffect
        BY <3>2, SameMarks DEF IdleEffect, View
      <3>3. QED BY <2>2, <3>1, <3>2
    <2>4. Shift(0)
      BY <1>2, <2>1, <2>3, SameQueueShifts
    <2>5. QED BY <1>1, <1>2, <2>3, <2>4 DEF StoreEffect, DiskEffect
  <1>8. CASE StartDrain
    <2>1. UNCHANGED <<db, batch, marks, ch>>
      BY <1>8 DEF StartDrain, batchVars
    <2>2. View' = View /\ CommittedDb'.mark = CommittedDb.mark
      BY <2>1, SameMarks DEF View
    <2>3. Shift(0)
      BY <1>2, <2>1, <2>2, SameQueueShifts
    <2>4. QED BY <1>1, <1>2, <2>1, <2>2, <2>3 DEF StoreEffect, DiskEffect
  <1>9. CASE Open
    <2>1. ProcessEffect /\ ch' = ch /\ db' = db /\ NothingToCommit
      BY <1>9 DEF Open, ProcessReset, ReadOrZero, SeqIsRead, ProcessEffect, ProcessDown,
                  StoreInv, RecordsInv
    <2>2. View = db.rec /\ CommittedDb.mark = db.mark
      BY <2>1, EmptyBatchView DEF NothingToCommit, TypeOK
    <2>3. View' = db.rec /\ NothingToCommit'
      BY <2>1, ProcessView
    <2>4. CommittedDb'.mark = CommittedDb.mark
      BY <2>1, <2>2, <2>3, EmptyBatchView DEF NothingToCommit, CommittedDb, NoMarks, TypeOK, DbOK
    <2>5. Shift(0)
      BY <1>2, <2>1, <2>2, <2>3, SameQueueShifts
    <2>6. QED BY <1>1, <1>2, <2>1, <2>2, <2>3, <2>4, <2>5 DEF StoreEffect, DiskEffect
  <1>10. QED BY <1>3, <1>4, <1>5, <1>6, <1>7, <1>8, <1>9 DEF StoreStep, LoopStep

-----------------------------------------------------------------------------
(* The steps of the tailers *)

\* A step that is nothing to the tailer of q.
SameTailer(q) ==
    /\ pc'[q] = pc[q] /\ wm'[q] = wm[q] /\ pos'[q] = pos[q]
    /\ got'[q] = got[q] /\ todo'[q] = todo[q] /\ sending'[q] = sending[q]

\* What a tailer has read stays covered while others go on.
LEMMA OthersCovered ==
    ASSUME NEW q \in Logs, SameTailer(q), Told \subseteq Told', SenderOK(q), LogCovered(q)
    PROVE  SenderOK(q)' /\ LogCovered(q)'
  <1> HIDE DEF Told
  <1>1. SenderOK(q)'
    BY DEF SameTailer, SenderOK
  <1>2. NamesIn(q, pos[q] + 1, pos[q] + got[q])' = NamesIn(q, pos[q] + 1, pos[q] + got[q])
    BY DEF SameTailer, NamesIn
  <1>3. LogCovered(q)'
    BY <1>2, CoverGrows DEF SameTailer, LogCovered, Covered
  <1>4. QED BY <1>1, <1>3

\* The steps that leave the queue, the records and the marks alone.
LEMMA SameQueue ==
    ASSUME UNCHANGED <<db, batch, marks, ch, lost>>
    PROVE  /\ Safe' = Safe /\ Told' = Told /\ \A k : Held(k)' = Held(k)
           /\ CommittedDb'.mark = CommittedDb.mark
           /\ MarksCovered => MarksCovered'
           /\ \A q \in Logs : LogOrdered(q) /\ SameTailer(q) => LogOrdered(q)'
  <1>1. View' = View
    BY DEF View
  <1>2. Safe' = Safe
    BY <1>1 DEF Safe
  <1>3. \A k : Held(k)' = Held(k)
    BY <1>2 DEF Held, NamesQueued
  <1>4. Told' = Told
    BY <1>3 DEF Told
  <1>5. CommittedDb'.mark = CommittedDb.mark
    BY SameMarks
  <1>6. MarksCovered => MarksCovered'
    BY <1>2, <1>3, <1>5 DEF MarksCovered, WatermarkCovered, Covered
  <1>7. ASSUME NEW q \in Logs, LogOrdered(q), SameTailer(q)
        PROVE  LogOrdered(q)'
    <2>1. \A i \in 1..Len(ch) : IsMarkOf(i, q)' <=> IsMarkOf(i, q)
      BY DEF IsMarkOf
    <2>2. QED BY <1>5, <1>7, <2>1 DEF LogOrdered, SameTailer
  <1>8. QED BY <1>2, <1>3, <1>4, <1>5, <1>6, <1>7

\* A step of one tailer that sends nothing to the queue.
LEMMA LocalStep ==
    ASSUME TailInv, NEW l \in Logs, loop # "down", loop' = loop,
           UNCHANGED <<db, batch, marks, ch, lost>>,
           \A q \in Logs \ {l} : SameTailer(q),
           SenderOK(l)', LogCovered(l)', LogOrdered(l)'
    PROVE  TailInv'
  <1>1. ProcessDown' /\ MarksCovered' /\ Told' = Told
    BY SameQueue DEF TailInv, ProcessDown
  <1>2. ASSUME NEW q \in Logs \ {l} PROVE SenderOK(q)' /\ LogCovered(q)' /\ LogOrdered(q)'
    <2>1. SenderOK(q) /\ LogCovered(q) /\ LogOrdered(q) /\ SameTailer(q)
      BY DEF TailInv
    <2>2. QED BY <1>1, <2>1, OthersCovered, SameQueue
  <1>3. QED BY <1>1, <1>2 DEF TailInv

\* The queue gets the operation that a tailer was blocked on.
LEMMA QueueGrows ==
    ASSUME TypeOK, UNCHANGED <<db, batch, marks, lost>>, NEW op \in Ops, ch' = Append(ch, op)
    PROVE  /\ Len(ch) \in Nat /\ Len(ch') = Len(ch) + 1 /\ ch'[Len(ch) + 1] = op
           /\ \A i \in 1..Len(ch) : ch'[i] = ch[i]
           /\ Safe' = Safe /\ CommittedDb'.mark = CommittedDb.mark
           /\ \A k \in 0..Len(ch) : Held(k)' = Held(k)
           /\ Told \subseteq Told'
           /\ op.kind = "record" => op.name \in Told'
  <1>1. /\ Len(ch) \in Nat /\ Len(ch') = Len(ch) + 1 /\ ch'[Len(ch) + 1] = op
        /\ \A i \in 1..Len(ch) : ch'[i] = ch[i]
    BY DEF TypeOK, CallersOK
  <1>2. View' = View /\ CommittedDb'.mark = CommittedDb.mark
    BY SameMarks DEF View
  <1>3. Safe' = Safe
    BY <1>2 DEF Safe
  <1>4. \A k \in 0..Len(ch) : NamesQueued(k)' = NamesQueued(k)
    <2>1. \A k \in 0..Len(ch) : \A j \in 1..k : ch'[j] = ch[j]
      BY <1>1
    <2>2. QED BY <2>1 DEF NamesQueued
  <1>5. NamesQueued(Len(ch)) \subseteq NamesQueued(Len(ch))'
    <2>1. NamesQueued(Len(ch))' = {n \in Names :
             \E j \in 1..Len(ch') : ch'[j].kind = "record" /\ ch'[j].name = n}
      BY DEF NamesQueued
    <2>2. \A j \in 1..Len(ch) : j \in 1..Len(ch') /\ ch'[j] = ch[j]
      BY <1>1
    <2>3. QED BY <2>1, <2>2 DEF NamesQueued
  <1>6. op.kind = "record" => op.name \in NamesQueued(Len(ch))'
    <2>1. op.kind = "record" => op.name \in Names
      BY OpKinds
    <2>2. Len(ch') \in 1..Len(ch') /\ ch'[Len(ch')] = op
      BY <1>1
    <2>3. QED BY <2>1, <2>2 DEF NamesQueued
  <1>7. QED BY <1>1, <1>2, <1>3, <1>4, <1>5, <1>6 DEF Held, Told

\* The marks stay covered when the queue gets a record, or a covered mark.
LEMMA AppendCovered ==
    ASSUME TypeOK, MarksCovered, UNCHANGED <<db, batch, marks, lost>>,
           NEW op \in Ops, ch' = Append(ch, op),
           op.kind = "mark" => Covered(op.log, op.mark, Told)
    PROVE  MarksCovered'
  <1> HIDE DEF Told, Held
  <1>1. WatermarkCovered' /\ \A q \in Logs : Covered(q, CommittedDb'.mark[q], Safe')
    BY QueueGrows DEF MarksCovered, WatermarkCovered, Covered
  <1>2. ASSUME NEW i \in 1..Len(ch'), ch'[i].kind = "mark"
        PROVE  Covered(ch'[i].log, ch'[i].mark, Held(i)')
    <2>1. CASE i \in 1..Len(ch)
      <3>1. ch'[i] = ch[i] /\ Held(i)' = Held(i)
        BY <2>1, QueueGrows
      <3>2. QED BY <1>2, <2>1, <3>1 DEF MarksCovered
    <2>2. CASE i = Len(ch) + 1
      <3>1. ch'[i] = op /\ Held(i)' = Told' /\ Told \subseteq Told'
        BY <2>2, QueueGrows DEF Told
      <3>2. QED BY <1>2, <3>1, CoverGrows
    <2>3. QED BY <2>1, <2>2, QueueGrows
  <1>3. QED BY <1>1, <1>2 DEF MarksCovered, Covered

\* The marks stay in order when the queue gets an operation that is no mark of q,
\* or the mark that its tailer holds.
LEMMA AppendOrdered ==
    ASSUME TypeOK, UNCHANGED <<db, batch, marks, lost>>, NEW q \in Logs, LogOrdered(q),
           NEW op \in Ops, ch' = Append(ch, op), wm'[q] = wm[q], pos'[q] = pos[q],
           \/ pc'[q] = pc[q] /\ (op.kind = "mark" => op.log # q)
           \/ /\ op.kind = "mark" /\ op.log = q /\ op.mark = wm[q]
              /\ pc[q] = "marking" /\ pc'[q] = "poll"
    PROVE  LogOrdered(q)'
  <1>1. /\ Len(ch) \in Nat /\ Len(ch') = Len(ch) + 1 /\ ch'[Len(ch) + 1] = op
        /\ \A i \in 1..Len(ch) : ch'[i] = ch[i]
        /\ CommittedDb'.mark = CommittedDb.mark /\ db'.mark = db.mark
    BY QueueGrows
  <1>2. \A i \in 1..Len(ch) : IsMarkOf(i, q)' <=> IsMarkOf(i, q)
    BY <1>1 DEF IsMarkOf
  <1>3. \A i \in 1..Len(ch') : i \in 1..Len(ch) \/ i = Len(ch) + 1
    BY <1>1
  <1>4. CASE op.kind = "mark" => op.log # q
    <2>1. \A i \in 1..Len(ch') : i = Len(ch) + 1 => ~IsMarkOf(i, q)'
      BY <1>1, <1>4 DEF IsMarkOf
    <2>2. pc'[q] = pc[q]
      BY <1>4
    <2>3. \A i \in 1..Len(ch') : IsMarkOf(i, q)' => i \in 1..Len(ch) /\ IsMarkOf(i, q)
      BY <1>2, <1>3, <2>1
    <2>4. QED BY <1>1, <2>2, <2>3 DEF LogOrdered
  <1>5. CASE op.kind = "mark" /\ op.log = q /\ op.mark = wm[q] /\ pc[q] = "marking" /\ pc'[q] = "poll"
    <2>1. \A i \in 1..Len(ch) : IsMarkOf(i, q) => ch[i].mark <= wm[q]
      BY <1>5 DEF LogOrdered
    <2>2. CommittedDb.mark[q] <= wm[q]
      BY <1>5 DEF LogOrdered
    <2>3. \A i \in 1..Len(ch') : IsMarkOf(i, q)' => ch'[i].mark <= wm[q]
      <3>1. ch'[Len(ch) + 1].mark = wm[q] /\ wm[q] <= wm[q]
        <4>1. op.mark \in 0..MaxMark
          BY <1>5, OpKinds
        <4>2. QED BY <1>1, <1>5, <4>1, LogSizes
      <3>2. QED BY <1>1, <1>2, <1>3, <2>1, <3>1
    <2>4. \A i \in 1..Len(ch') : IsMarkOf(i, q)' => CommittedDb'.mark[q] <= ch'[i].mark
      BY <1>1, <1>2, <1>3, <1>5, <2>2 DEF LogOrdered
    <2>5. \A i, j \in 1..Len(ch') :
             i < j /\ IsMarkOf(i, q)' /\ IsMarkOf(j, q)' => ch'[i].mark <= ch'[j].mark
      BY <1>1, <1>2, <1>3, <1>5, <2>1 DEF LogOrdered
    <2>6. pc'[q] \notin {"off", "fetch", "names", "mark"} /\ db'.mark[q] <= CommittedDb'.mark[q]
      BY <1>1, <1>5 DEF LogOrdered
    <2>7. QED BY <1>1, <2>2, <2>3, <2>4, <2>5, <2>6 DEF LogOrdered
  <1>6. QED BY <1>4, <1>5

\* A tailer is where the process is up.
LEMMA TailerUp == ASSUME TailInv, NEW l \in Logs, pc[l] # "off" PROVE loop # "down"
  BY DEF TailInv, ProcessDown

\* A tailer that moves on keeps its marks in order.
LEMMA MovesOrdered ==
    ASSUME NEW l \in Logs, LogOrdered(l), db' = db, ch' = ch, CommittedDb'.mark = CommittedDb.mark,
           wm'[l] = wm[l], pc[l] \notin {"off", "done"}, pc'[l] # "off",
           pc'[l] \in {"fetch", "names", "mark"} => wm[l] <= pos'[l]
    PROVE  LogOrdered(l)'
  <1>1. \A i : IsMarkOf(i, l)' <=> IsMarkOf(i, l)
    BY DEF IsMarkOf
  <1>2. QED BY <1>1 DEF LogOrdered

\* The steps that only move the tailer: it starts from the watermark on disk,
\* leaves, polls, and stops at the end of a range.
LEMMA MovesKeep ==
    ASSUME TypeOK, StoreInv, TailOK, TailInv, NEW l \in Logs,
           \/ StartTailer(l) \/ (\E s \in 0..size[l] : Poll(l, s)) \/ Leave(l)
           \/ (\E k \in 1..Window : Fetch(l, k)) \/ EndRange(l) \/ EndWindow(l)
    PROVE  TailInv'
  <1> USE DEF Goto
  <1> TailTypes /\ SenderOK(l) /\ LogCovered(l) /\ LogOrdered(l) /\ MarksCovered
    BY DEF TailOK, TailInv
  <1>1. UNCHANGED <<db, batch, marks, ch, lost, loop, sending>>
    BY DEF StartTailer, Poll, Leave, Fetch, EndRange, EndWindow, vars
  <1>2. loop # "down" /\ loop' = loop
    <2>1. StartTailer(l) \/ pc[l] # "off"
      BY DEF Poll, Leave, Fetch, EndRange, EndWindow
    <2>2. QED BY <1>1, <2>1, TailerUp DEF StartTailer, Up
  <1>3. \A q \in Logs \ {l} : SameTailer(q)
    BY <1>1 DEF StartTailer, Poll, Leave, Fetch, EndRange, EndWindow, SameTailer, TailTypes
  <1>4. /\ Told' = Told /\ CommittedDb'.mark = CommittedDb.mark
        /\ db' = db /\ ch' = ch /\ sending' = sending
    BY <1>1, SameQueue
  <1> SUFFICES SenderOK(l)' /\ LogCovered(l)' /\ LogOrdered(l)'
    BY <1>1, <1>2, <1>3, LocalStep
  <1> HIDE DEF Told
  <1>5. CASE StartTailer(l)
    <2>1. CASE pc' = [pc EXCEPT ![l] = "poll"] /\ wm' = [wm EXCEPT ![l] = db.mark[l]]
      <3>1. pc'[l] = "poll" /\ wm'[l] = db.mark[l] /\ pc[l] = "off"
        BY <1>5, <2>1 DEF StartTailer, TailTypes
      <3>2. Covered(l, db.mark[l], Told)
        <4>1. Stored(db.rec) \cup lost \subseteq Told
          BY DiskInView DEF Told, Held, Safe
        <4>2. QED BY <4>1, CoverGrows DEF MarksCovered, WatermarkCovered
      <3>3. LogCovered(l)'
        BY <1>4, <3>1, <3>2 DEF LogCovered, Covered
      <3>4. SenderOK(l)'
        BY <1>4, <3>1 DEF SenderOK
      <3>5. LogOrdered(l)'
        BY <1>4, <3>1 DEF LogOrdered, IsMarkOf, TypeOK, DbOK
      <3>6. QED BY <3>3, <3>4, <3>5
    <2>2. CASE pc' = [pc EXCEPT ![l] = "done"] /\ UNCHANGED wm
      <3>1. pc'[l] = "done" /\ wm' = wm /\ pc[l] = "off"
        BY <1>5, <2>2 DEF StartTailer, TailTypes
      <3>2. QED BY <1>4, <3>1 DEF LogCovered, SenderOK, LogOrdered, IsMarkOf
    <2>3. QED BY <1>5, <2>1, <2>2 DEF StartTailer
  <1>6. ASSUME NEW s \in 0..size[l], Poll(l, s)
        PROVE  SenderOK(l)' /\ LogCovered(l)' /\ LogOrdered(l)'
    <2>1. pc[l] = "poll" /\ pc'[l] = "fetch" /\ wm'[l] = wm[l] /\ pos'[l] = wm[l] /\ wm[l] \in Nat
      BY <1>6, LogSizes DEF Poll, TailTypes
    <2>2. LogOrdered(l)'
      BY <1>4, <2>1, MovesOrdered
    <2>3. QED BY <1>4, <2>1, <2>2 DEF LogCovered, SenderOK, Covered
  <1>7. CASE Leave(l) \/ EndRange(l)
    <2>1. /\ \/ pc[l] = "poll" /\ pc'[l] = "done"
             \/ pc[l] = "fetch" /\ pc'[l] = "mark"
          /\ wm' = wm /\ pos' = pos
      BY <1>7 DEF Leave, EndRange, TailTypes
    <2>2. LogOrdered(l)'
      BY <1>4, <2>1, MovesOrdered DEF LogOrdered
    <2>3. QED BY <1>4, <2>1, <2>2 DEF LogCovered, SenderOK, Covered
  <1>8. ASSUME NEW k \in 1..Window, Fetch(l, k)
        PROVE  SenderOK(l)' /\ LogCovered(l)' /\ LogOrdered(l)'
    <2> DEFINE names == NamesIn(l, pos[l] + 1, pos[l] + k)
    <2>1. NamesIn(l, pos[l] + 1, pos[l] + got[l])' \subseteq names
      <3>1. pos[l] \in Nat /\ pos' = pos /\ got'[l] \in Nat /\ got'[l] <= k
        BY <1>8 DEF Fetch, TailTypes
      <3>2. (pos[l] + 1)..(pos[l] + got'[l]) \subseteq (pos[l] + 1)..(pos[l] + k)
        BY <3>1
      <3>3. QED BY <3>1, <3>2 DEF NamesIn
    <2>2. todo'[l] = names
      BY <1>8 DEF Fetch, TailTypes
    <2> HIDE DEF names
    <2>3. /\ pc[l] = "fetch" /\ pc'[l] = "names" /\ wm' = wm /\ pos' = pos
      BY <1>8 DEF Fetch, TailTypes
    <2>4. LogCovered(l)'
      BY <1>4, <2>1, <2>2, <2>3 DEF LogCovered, Covered
    <2>5. QED BY <1>4, <2>3, <2>4 DEF SenderOK, LogOrdered, IsMarkOf
  <1>9. CASE EndWindow(l)
    <2>1. /\ pc[l] = "names" /\ pc'[l] = "fetch" /\ wm' = wm /\ pos'[l] = pos[l] + got[l]
          /\ sending[l] = None /\ todo[l] = {}
          /\ pos[l] \in Nat /\ got[l] \in Nat /\ wm[l] \in Nat
          /\ pos[l] + got[l] <= Size(l)
      BY <1>9, LogSizes DEF EndWindow, TailTypes, TailOK, RangeOK
    <2>2. Covered(l, pos[l] + got[l], Told)
      <3>1. ASSUME NEW i \in (pos[l] + 1)..(pos[l] + got[l]), NEW n \in Entries[l][i].names
            PROVE  n \in Told
        <4>1. <<i, n>> \in NamesIn(l, pos[l] + 1, pos[l] + got[l])
          BY DEF NamesIn
        <4>2. <<i, n>>[2] = n
          OBVIOUS
        <4>3. QED BY <2>1, <4>1, <4>2 DEF LogCovered
      <3>2. \A i \in 1..pos[l] : Entries[l][i].names \subseteq Told
        BY <2>1 DEF LogCovered, Covered
      <3>3. \A i \in 1..(pos[l] + got[l]) :
               i \in 1..pos[l] \/ i \in (pos[l] + 1)..(pos[l] + got[l])
        BY <2>1
      <3>4. QED BY <3>1, <3>2, <3>3 DEF Covered
    <2>3. LogCovered(l)'
      BY <1>4, <2>1, <2>2 DEF LogCovered, Covered
    <2>4. wm[l] <= pos[l]
      BY <2>1 DEF LogOrdered
    <2>5. LogOrdered(l)'
      BY <1>4, <2>1, <2>4, MovesOrdered
    <2>6. QED BY <1>4, <2>1, <2>3, <2>5 DEF SenderOK
  <1>10. QED BY <1>5, <1>6, <1>7, <1>8, <1>9

\* A send that begins touches nothing but who is blocked.
LEMMA SendFrame ==
    ASSUME TypeOK, NEW l \in Logs, NEW op, BeginSend(l, op)
    PROVE  /\ UNCHANGED <<db, batch, marks, ch, loop>> /\ loop # "down" /\ sending'[l] = op
           /\ \A q \in Logs \ {l} : sending'[q] = sending[q]
  <1>1. sending \in [Callers -> Ops \cup {None}] /\ Logs \subseteq Callers
    BY DEF TypeOK, CallersOK
  <1>2. QED BY <1>1 DEF BeginSend, batchVars, Up

\* A name of the window goes to Ingest, or Ingest refuses it (fetchRange).
LEMMA SendNameKeeps ==
    ASSUME TypeOK, TailOK, TailInv, NEW l \in Logs, SendName(l)
    PROVE  TailInv'
  <1> TailTypes /\ SenderOK(l) /\ LogCovered(l) /\ LogOrdered(l)
    BY DEF TailOK, TailInv
  <1>1. PICK e \in todo[l] :
           \/ /\ BeginSend(l, [kind |-> "record", name |-> e[2], date |-> Entries[l][e[1]].date])
              /\ todo' = [todo EXCEPT ![l] = @ \ {e}]
              /\ UNCHANGED pc
           \/ /\ Goto(l, "mark")
              /\ UNCHANGED <<vars, todo>>
    BY DEF SendName
  <1>2. /\ pc[l] = "names" /\ sending[l] = None /\ UNCHANGED <<wm, pos, got, lost>>
    BY DEF SendName
  <1> DEFINE op == [kind |-> "record", name |-> e[2], date |-> Entries[l][e[1]].date]
  <1>3. op # None /\ op.kind = "record" /\ op.name = e[2]
    <2>1. op \in Ops
      BY <1>2, SentOps
    <2>2. QED BY <2>1, NoneAssumption
  <1> HIDE DEF op
  <1>4. CASE BeginSend(l, op) /\ todo' = [todo EXCEPT ![l] = @ \ {e}] /\ UNCHANGED pc
    <2>1. /\ UNCHANGED <<db, batch, marks, ch, loop>> /\ loop # "down" /\ sending'[l] = op
          /\ \A q \in Logs \ {l} : sending'[q] = sending[q]
      BY <1>4, SendFrame
    <2>2. todo'[l] = todo[l] \ {e} /\ \A q \in Logs \ {l} : SameTailer(q)
      BY <1>2, <1>4, <2>1 DEF SameTailer, TailTypes
    <2>3. Told' = Told /\ db' = db /\ ch' = ch /\ CommittedDb'.mark = CommittedDb.mark
      BY <1>2, <2>1, SameQueue
    <2>4. NamesIn(l, pos[l] + 1, pos[l] + got[l])' = NamesIn(l, pos[l] + 1, pos[l] + got[l])
      BY <1>2 DEF NamesIn
    <2> HIDE DEF Told
    <2>5. LogCovered(l)'
      BY <1>2, <1>3, <1>4, <2>1, <2>2, <2>3, <2>4 DEF LogCovered, Covered
    <2>6. LogOrdered(l)'
      BY <1>2, <1>4, <2>3, MovesOrdered DEF LogOrdered
    <2>7. SenderOK(l)'
      BY <1>2, <1>3, <1>4, <2>1 DEF SenderOK
    <2>8. QED BY <1>2, <2>1, <2>2, <2>5, <2>6, <2>7, LocalStep
  <1>5. CASE Goto(l, "mark") /\ UNCHANGED <<vars, todo>>
    <2>1. /\ UNCHANGED <<db, batch, marks, ch, loop, sending>> /\ pc'[l] = "mark"
          /\ \A q \in Logs \ {l} : SameTailer(q)
      BY <1>2, <1>5 DEF vars, SameTailer, Goto, TailTypes
    <2>2. Told' = Told /\ db' = db /\ ch' = ch /\ CommittedDb'.mark = CommittedDb.mark
      BY <1>2, <2>1, SameQueue
    <2> HIDE DEF Told
    <2>3. LogCovered(l)'
      BY <1>2, <2>1, <2>2 DEF LogCovered, Covered
    <2>4. LogOrdered(l)'
      BY <1>2, <2>1, <2>2, MovesOrdered DEF LogOrdered
    <2>5. SenderOK(l)'
      BY <1>2, <2>1 DEF SenderOK
    <2>6. loop # "down"
      BY <1>2, TailerUp
    <2>7. QED BY <1>2, <2>1, <2>3, <2>4, <2>5, <2>6, LocalStep
  <1>6. QED BY <1>1, <1>4, <1>5 DEF op

\* The watermark goes to AdvanceWatermark, or is refused (tailOne).
LEMMA SendMarkKeeps ==
    ASSUME TypeOK, TailOK, TailInv, NEW l \in Logs, SendMark(l)
    PROVE  TailInv'
  <1> TailTypes /\ SenderOK(l) /\ LogCovered(l) /\ LogOrdered(l)
    BY DEF TailOK, TailInv
  <1> DEFINE op == [kind |-> "mark", log |-> l, mark |-> pos[l]]
  <1>1. /\ pc[l] = "mark" /\ wm' = [wm EXCEPT ![l] = pos[l]]
        /\ \/ BeginSend(l, op) /\ Goto(l, "marking")
           \/ Goto(l, "poll") /\ UNCHANGED vars
        /\ UNCHANGED <<pos, got, todo, lost>>
    BY DEF SendMark
  <1> HIDE DEF op
  <1>2. loop # "down"
    BY <1>1, TailerUp
  <1>3. /\ UNCHANGED <<db, batch, marks, ch, loop>>
        /\ \A q \in Logs \ {l} : sending'[q] = sending[q]
        /\ \/ pc'[l] = "marking" /\ sending'[l] = op
           \/ pc'[l] = "poll" /\ sending'[l] = sending[l]
    <2>1. CASE BeginSend(l, op) /\ Goto(l, "marking")
      BY <2>1, SendFrame DEF Goto, TailTypes
    <2>2. CASE Goto(l, "poll") /\ UNCHANGED vars
      BY <2>2 DEF Goto, TailTypes, vars
    <2>3. QED BY <1>1, <2>1, <2>2
  <1>4. wm'[l] = pos[l] /\ pos' = pos /\ \A q \in Logs \ {l} : SameTailer(q)
    BY <1>1, <1>3 DEF SameTailer, TailTypes, Goto
  <1>5. Told' = Told /\ db' = db /\ ch' = ch /\ CommittedDb'.mark = CommittedDb.mark
    BY <1>1, <1>3, SameQueue
  <1> HIDE DEF Told
  <1>6. LogCovered(l)'
    BY <1>1, <1>3, <1>4, <1>5 DEF LogCovered, Covered
  <1>7. SenderOK(l)'
    <2>1. sending[l] = None
      BY <1>1 DEF SenderOK
    <2>2. QED BY <1>3, <1>4, <2>1 DEF SenderOK, op
  <1>8. LogOrdered(l)'
    <2>1. wm[l] <= pos[l] /\ wm[l] \in Nat /\ pos[l] \in Nat /\ CommittedDb.mark[l] \in Nat
      BY <1>1, LogSizes, CommitTypes DEF LogOrdered, TailTypes, TypeOK
    <2>2. CommittedDb.mark[l] <= pos[l]
      BY <1>1, <2>1 DEF LogOrdered
    <2>3. \A i \in 1..Len(ch) : IsMarkOf(i, l) => ch[i].mark <= pos[l]
      <3>1. ASSUME NEW i \in 1..Len(ch), IsMarkOf(i, l) PROVE ch[i].mark \in Nat
        <4>1. ch[i] \in Ops
          BY DEF TypeOK, CallersOK
        <4>2. QED BY <3>1, <4>1, OpKinds, LogSizes DEF IsMarkOf
      <3>2. QED BY <1>1, <2>1, <3>1 DEF LogOrdered
    <2>4. \A i : IsMarkOf(i, l)' <=> IsMarkOf(i, l)
      BY <1>5 DEF IsMarkOf
    <2>5. pc'[l] \notin {"off", "fetch", "names", "mark"}
      BY <1>3
    <2>6. QED BY <1>4, <1>5, <2>2, <2>3, <2>4, <2>5 DEF LogOrdered
  <1>9. QED BY <1>1, <1>2, <1>3, <1>4, <1>6, <1>7, <1>8, LocalStep

\* A name or a watermark is in the queue, or the caller is told that the store
\* is closed (sendOp).
LEMMA SentKeeps ==
    ASSUME TypeOK, TailOK, TailInv, NEW l \in Logs, NameSent(l) \/ MarkSent(l)
    PROVE  TailInv'
  <1> TailTypes /\ SenderOK(l) /\ LogCovered(l) /\ LogOrdered(l)
    BY DEF TailOK, TailInv
  <1>1. /\ UNCHANGED <<wm, pos, got, todo, lost>>
        /\ \/ pc[l] = "names" /\ CompleteSend(l) /\ UNCHANGED pc
           \/ pc[l] = "names" /\ RefuseSend(l) /\ pc' = [pc EXCEPT ![l] = "mark"]
           \/ pc[l] = "marking" /\ CompleteSend(l) /\ pc' = [pc EXCEPT ![l] = "poll"]
           \/ pc[l] = "marking" /\ RefuseSend(l) /\ pc' = [pc EXCEPT ![l] = "poll"]
    BY DEF NameSent, MarkSent, Goto
  <1>2. loop # "down"
    BY <1>1, TailerUp
  <1>3. sending \in [Callers -> Ops \cup {None}] /\ Logs \subseteq Callers
    BY DEF TypeOK, CallersOK
  <1>4. CASE RefuseSend(l)
    <2>1. /\ UNCHANGED <<db, batch, marks, ch, loop>> /\ sending[l] # None
          /\ sending' = [sending EXCEPT ![l] = None]
      BY <1>4 DEF RefuseSend, batchVars
    <2>2. /\ \/ pc[l] = "names" /\ pc'[l] = "mark"
             \/ pc[l] = "marking" /\ pc'[l] = "poll"
          /\ sending'[l] = None
          /\ \A q \in Logs \ {l} : SameTailer(q)
      <3>1. ~CompleteSend(l)
        BY <2>1, <1>3 DEF CompleteSend, TypeOK, CallersOK
      <3>2. QED BY <1>1, <1>3, <2>1, <3>1 DEF SameTailer, TailTypes
    <2>3. Told' = Told /\ db' = db /\ ch' = ch /\ CommittedDb'.mark = CommittedDb.mark
      BY <1>1, <2>1, SameQueue
    <2> HIDE DEF Told
    <2>4. LogCovered(l)'
      BY <1>1, <2>2, <2>3 DEF LogCovered, Covered
    <2>5. LogOrdered(l)'
      BY <1>1, <2>2, <2>3, MovesOrdered DEF LogOrdered
    <2>6. QED BY <1>1, <1>2, <2>1, <2>2, <2>4, <2>5, LocalStep DEF SenderOK
  <1>5. CASE CompleteSend(l)
    <2> DEFINE op == sending[l]
    <2>1. /\ UNCHANGED <<db, batch, marks, loop>> /\ ch' = Append(ch, op)
          /\ sending' = [sending EXCEPT ![l] = None] /\ op # None
      BY <1>5 DEF CompleteSend, batchVars
    <2>2. op \in Ops /\ sending'[l] = None /\ \A q \in Logs \ {l} : sending'[q] = sending[q]
      BY <1>3, <2>1
    <2>3. /\ \/ pc[l] = "names" /\ pc'[l] = "names" /\ op.kind = "record"
             \/ /\ pc[l] = "marking" /\ pc'[l] = "poll"
                /\ op.kind = "mark" /\ op.log = l /\ op.mark = wm[l]
          /\ \A q \in Logs \ {l} : SameTailer(q)
      <3>1. \A q \in Logs \ {l} : SameTailer(q)
        BY <1>1, <2>2 DEF SameTailer, TailTypes
      <3>2. ~RefuseSend(l)
        BY <2>1, <1>3 DEF RefuseSend, TypeOK, CallersOK
      <3>3. QED BY <1>1, <2>1, <3>1, <3>2 DEF SenderOK, TailTypes
    <2> HIDE DEF op
    <2>4. /\ Told \subseteq Told' /\ (op.kind = "record" => op.name \in Told')
          /\ lost' = lost
      BY <1>1, <2>1, <2>2, QueueGrows
    <2> HIDE DEF Told
    <2>5. MarksCovered'
      <3>1. op.kind = "mark" => Covered(op.log, op.mark, Told)
        BY <2>3 DEF LogCovered
      <3>2. QED BY <2>1, <2>2, <2>4, <3>1, AppendCovered DEF TailInv
    <2>6. LogCovered(l)'
      <3>1. NamesIn(l, pos[l] + 1, pos[l] + got[l])' = NamesIn(l, pos[l] + 1, pos[l] + got[l])
        BY <1>1 DEF NamesIn
      <3>2. Covered(l, wm[l], Told)'
        BY <1>1, <2>3, <2>4 DEF LogCovered, Covered
      <3>3. CASE pc'[l] = "names"
        <4>1. Covered(l, pos[l], Told)'
          BY <1>1, <2>3, <2>4, <3>3 DEF LogCovered, Covered
        <4>2. op.name \in Told'
          BY <2>3, <2>4, <3>3
        <4>3. QED BY <1>1, <2>3, <2>4, <3>1, <3>2, <3>3, <4>1, <4>2 DEF LogCovered, op
      <3>4. QED BY <2>3, <3>2, <3>3 DEF LogCovered
    <2>7. ASSUME NEW q \in Logs PROVE LogOrdered(q)'
      <3>1. LogOrdered(q) /\ wm'[q] = wm[q] /\ pos'[q] = pos[q]
        BY <1>1 DEF TailInv
      <3>2. \/ pc'[q] = pc[q] /\ (op.kind = "mark" => op.log # q)
            \/ /\ op.kind = "mark" /\ op.log = q /\ op.mark = wm[q]
               /\ pc[q] = "marking" /\ pc'[q] = "poll"
        BY <2>3 DEF SameTailer
      <3>3. QED BY <2>1, <2>2, <2>4, <3>1, <3>2, AppendOrdered
    <2>8. ASSUME NEW q \in Logs \ {l} PROVE SenderOK(q)' /\ LogCovered(q)'
      BY <2>3, <2>4, OthersCovered DEF TailInv
    <2>9. SenderOK(l)' /\ ProcessDown'
      BY <1>2, <2>1, <2>2 DEF SenderOK, ProcessDown
    <2>10. QED BY <2>5, <2>6, <2>7, <2>8, <2>9 DEF TailInv
  <1>6. QED BY <1>1, <1>4, <1>5

-----------------------------------------------------------------------------
(* The steps of the store, of the logs and of the process *)

\* The loop goes on under the tailers: it commits, takes the head of the queue,
\* or starts from the disk.
LEMMA StoreKeeps ==
    ASSUME TypeOK, TypeOK', StoreInv, TailInv, StoreStep
    PROVE  TailInv'
  <1>1. StoreEffect
    BY StoreEffects DEF TailInv
  <1>2. UNCHANGED <<pc, wm, pos, got, todo>> /\ \A l \in Logs : sending'[l] = sending[l]
    <2>1. UNCHANGED <<pc, wm, pos, got, todo>>
      BY DEF StoreStep, tailVars
    <2>2. ASSUME LoopStep PROVE sending' = sending
      <3>1. CASE TakeRecord \/ DropRecord \/ FlushFull \/ TakeMark \/ Tick
        BY <3>1 DEF TakeRecord, DropRecord, FlushFull, TakeMark, Tick, callVars
      <3>2. CASE \/ TakeRecount \/ RecountChunk \/ RecountFails \/ RecountFinish
                 \/ StartDrain \/ FinishDrain
        BY <3>2 DEF TakeRecount, RecountChunk, RecountFails, RecountFinish, StartDrain,
                    FinishDrain, callVars
      <3>3. QED BY <2>2, <3>1, <3>2 DEF LoopStep
    <2>3. ASSUME Open PROVE \A l \in Logs : sending'[l] = sending[l]
      <3>1. /\ sending' = [s \in Callers |-> None] /\ Logs \subseteq Callers
            /\ \A l \in Logs : pc[l] = "off"
        BY <2>3 DEF Open, ProcessReset, TailInv, ProcessDown
      <3>2. \A l \in Logs : sending[l] = None
        BY <3>1 DEF TailInv, SenderOK
      <3>3. QED BY <3>1, <3>2
    <2>4. QED BY <2>1, <2>2, <2>3 DEF StoreStep
  <1>3. PICK k \in {0, 1} :
           /\ Shift(k)
           /\ \/ CommittedDb'.mark = CommittedDb.mark
              \/ /\ k = 1 /\ Len(ch) > 0 /\ ch[1].kind = "mark" /\ db' = db
                 /\ CommittedDb'.mark = [CommittedDb.mark EXCEPT ![ch[1].log] = ch[1].mark]
    BY <1>1 DEF StoreEffect
  <1>4. Len(ch) \in Nat /\ Len(ch') \in Nat /\ \A i \in 1..Len(ch) : ch[i] \in Ops
    BY DEF TypeOK, CallersOK
  <1>5. Told \subseteq Told'
    BY <1>3, <1>4 DEF Told, Shift
  <1>6. Safe \subseteq Safe' /\ DiskEffect /\ lost \subseteq lost' \cup Stored(db'.rec)
    BY <1>1 DEF StoreEffect
  <1> HIDE DEF Told, Held, Safe
  <1>7. /\ \A i \in 1..Len(ch') : i + k \in 1..Len(ch) /\ ch'[i] = ch[i + k]
        /\ \A i \in 1..Len(ch') : Held(i + k) \subseteq Held(i)'
    BY <1>3, <1>4 DEF Shift
  <1>8. CommittedDb.mark \in [Logs -> 0..MaxMark]
    BY CommitTypes DEF TypeOK
  <1>9. MarksCovered'
    <2>1. WatermarkCovered'
      <3>1. CASE db'.mark = db.mark /\ Stored(db.rec) \subseteq Stored(db'.rec)
        BY <1>6, <3>1, CoverGrows DEF TailInv, MarksCovered, WatermarkCovered
      <3>2. CASE db'.mark = CommittedDb.mark /\ db'.rec = View
        <4>1. Safe \subseteq Stored(db'.rec) \cup lost'
          BY <1>6, <3>2 DEF Safe
        <4>2. QED BY <3>2, <4>1, CoverGrows DEF TailInv, MarksCovered, WatermarkCovered
      <3>3. QED BY <1>6, <3>1, <3>2 DEF DiskEffect
    <2>2. ASSUME NEW l \in Logs PROVE Covered(l, CommittedDb'.mark[l], Safe')
      <3>1. CASE CommittedDb'.mark[l] = CommittedDb.mark[l]
        BY <1>6, <3>1, CoverGrows DEF TailInv, MarksCovered
      <3>2. CASE k = 1 /\ Len(ch) > 0 /\ ch[1].kind = "mark" /\ ch[1].log = l
                 /\ CommittedDb'.mark[l] = ch[1].mark
        <4>1. Covered(l, ch[1].mark, Held(1))
          BY <1>4, <3>2 DEF TailInv, MarksCovered
        <4>2. Held(1) \subseteq Safe'
          <5>1. Held(1) \subseteq Held(0)'
            BY <1>3, <1>4, <3>2 DEF Shift
          <5>2. Held(0)' = Safe'
            BY DEF Held, NamesQueued
          <5>3. QED BY <5>1, <5>2
        <4>3. QED BY <3>2, <4>1, <4>2, CoverGrows
      <3>3. QED BY <1>3, <1>8, <3>1, <3>2
    <2>3. ASSUME NEW i \in 1..Len(ch'), ch'[i].kind = "mark"
          PROVE  Covered(ch'[i].log, ch'[i].mark, Held(i)')
      BY <1>7, <2>3, CoverGrows DEF TailInv, MarksCovered
    <2>4. QED BY <2>1, <2>2, <2>3 DEF MarksCovered, Covered
  <1>10. ASSUME NEW l \in Logs PROVE SenderOK(l)' /\ LogCovered(l)'
    BY <1>2, <1>5, OthersCovered DEF SameTailer, TailInv
  <1>11. ASSUME NEW l \in Logs PROVE LogOrdered(l)'
    <2>1. LogOrdered(l) /\ pc'[l] = pc[l] /\ wm'[l] = wm[l] /\ pos'[l] = pos[l]
      BY <1>2 DEF TailInv
    <2>2. \A i \in 1..Len(ch') : IsMarkOf(i, l)' <=> IsMarkOf(i + k, l)
      BY <1>7 DEF IsMarkOf
    <2>3. \/ CommittedDb'.mark[l] = CommittedDb.mark[l]
          \/ /\ k = 1 /\ Len(ch) > 0 /\ IsMarkOf(1, l) /\ db' = db
             /\ CommittedDb'.mark[l] = ch[1].mark
      BY <1>3, <1>8 DEF IsMarkOf
    <2>4. db'.mark[l] = db.mark[l] \/ db'.mark[l] = CommittedDb.mark[l]
      BY <1>6 DEF DiskEffect
    <2>5. ASSUME NEW i \in 1..Len(ch'), IsMarkOf(i, l)'
          PROVE  CommittedDb'.mark[l] <= ch'[i].mark
      <3>1. i + k \in 1..Len(ch) /\ IsMarkOf(i + k, l) /\ ch'[i] = ch[i + k]
        BY <1>7, <2>2, <2>5
      <3>2. k = 1 /\ Len(ch) > 0 => 1 \in 1..Len(ch) /\ 1 < i + k
        BY <1>4
      <3>3. QED BY <2>1, <2>3, <3>1, <3>2 DEF LogOrdered
    <2>6. ASSUME NEW i \in 1..Len(ch'), NEW j \in 1..Len(ch'), i < j,
                 IsMarkOf(i, l)', IsMarkOf(j, l)'
          PROVE  ch'[i].mark <= ch'[j].mark
      <3>1. /\ i + k \in 1..Len(ch) /\ IsMarkOf(i + k, l) /\ ch'[i] = ch[i + k]
            /\ j + k \in 1..Len(ch) /\ IsMarkOf(j + k, l) /\ ch'[j] = ch[j + k]
            /\ i + k < j + k
        BY <1>4, <1>7, <2>2, <2>6
      <3>2. QED BY <2>1, <3>1 DEF LogOrdered
    <2>7. ASSUME NEW i \in 1..Len(ch'), IsMarkOf(i, l)'
          PROVE  i + k \in 1..Len(ch) /\ IsMarkOf(i + k, l) /\ ch'[i] = ch[i + k]
      BY <1>7, <2>2, <2>7
    <2>8. db'.mark[l] <= CommittedDb'.mark[l]
      <3>1. db.mark[l] \in Nat /\ db.mark[l] <= CommittedDb.mark[l] /\ CommittedDb.mark[l] \in Nat
        BY <1>8, <2>1, LogSizes DEF LogOrdered, TypeOK, DbOK
      <3>2. CASE CommittedDb'.mark[l] = CommittedDb.mark[l]
        BY <2>4, <3>1, <3>2
      <3>3. CASE /\ k = 1 /\ Len(ch) > 0 /\ IsMarkOf(1, l) /\ db' = db
                 /\ CommittedDb'.mark[l] = ch[1].mark
        <4>1. CommittedDb.mark[l] <= ch[1].mark /\ ch[1].mark \in Nat
          BY <1>4, <2>1, <3>3, OpKinds, LogSizes DEF LogOrdered, IsMarkOf
        <4>2. QED BY <3>1, <3>3, <4>1
      <3>4. QED BY <2>3, <3>2, <3>3
    <2>9. pc'[l] = "off" =>
             /\ CommittedDb'.mark[l] = db'.mark[l]
             /\ \A i \in 1..Len(ch') : ~IsMarkOf(i, l)'
      BY <1>4, <2>1, <2>3, <2>4, <2>7 DEF LogOrdered
    <2>10. pc'[l] \notin {"off", "done"} =>
              /\ CommittedDb'.mark[l] <= wm'[l]
              /\ \A i \in 1..Len(ch') : IsMarkOf(i, l)' => ch'[i].mark <= wm'[l]
      BY <1>4, <2>1, <2>3, <2>7 DEF LogOrdered
    <2>11. pc'[l] \in {"fetch", "names", "mark"} => wm'[l] <= pos'[l]
      BY <2>1 DEF LogOrdered
    <2>12. QED BY <2>5, <2>6, <2>8, <2>9, <2>10, <2>11 DEF LogOrdered
  <1>12. ProcessDown'
    <2>1. loop' # "down"
      BY DEF StoreStep, LoopStep, Open, TakeRecord, DropRecord, FlushFull, TakeMark, Tick, Receive,
             TakeRecount, RecountChunk, RecountFails, RecountFinish, StartDrain, FinishDrain
    <2>2. QED BY <2>1 DEF ProcessDown
  <1>13. QED BY <1>9, <1>10, <1>11, <1>12 DEF TailInv

\* The logs grow, a signal comes, the store is closed: nothing of this moves.
LEMMA OutsideKeeps ==
    ASSUME TypeOK, TailInv, (\E l \in Logs : Grow(l)) \/ Cancel \/ Shutdown \/ UNCHANGED ingestVars
    PROVE  TailInv'
  <1>1. UNCHANGED <<db, batch, marks, ch, lost, loop, sending, pc, wm, pos, got, todo>>
    BY DEF Grow, Cancel, Shutdown, CloseStep, CloseMark, CloseQuit, ingestVars, tailVars, vars,
           batchVars, callVars
  <1>2. MarksCovered' /\ Told' = Told /\ ProcessDown'
    BY <1>1, SameQueue DEF TailInv, ProcessDown
  <1>3. ASSUME NEW l \in Logs PROVE SenderOK(l)' /\ LogCovered(l)' /\ LogOrdered(l)'
    <2>1. SameTailer(l) /\ SenderOK(l) /\ LogCovered(l) /\ LogOrdered(l)
      BY <1>1 DEF SameTailer, TailInv
    <2>2. QED BY <1>1, <1>2, <2>1, OthersCovered, SameQueue
  <1>4. QED BY <1>2, <1>3 DEF TailInv

\* The process ends, at any point: what is left is the disk, and its marks are
\* covered.
LEMMA StopKeeps ==
    ASSUME TypeOK, TailInv, StopProcess
    PROVE  TailInv'
  <1>1. /\ db' = db /\ lost' = lost /\ batch' = NoRecords /\ marks' = NoMarks
        /\ ch' = <<>> /\ loop' = "down" /\ pc' = [l \in Logs |-> "off"]
        /\ sending' = [s \in Callers |-> None]
    BY DEF StopProcess, Exit, Crash, ProcessEnd, ProcessReset, TailersOff
  <1>2. View' = db.rec /\ CommittedDb'.mark = db.mark
    BY <1>1 DEF View, CommittedDb, NoRecords, NoMarks, TypeOK, DbOK
  <1>3. Safe' = Stored(db.rec) \cup lost
    BY <1>1, <1>2 DEF Safe
  <1>4. Len(ch') = 0
    BY <1>1
  <1>5. MarksCovered'
    BY <1>1, <1>2, <1>3, <1>4 DEF TailInv, MarksCovered, WatermarkCovered, Covered
  <1>6. ASSUME NEW l \in Logs PROVE SenderOK(l)' /\ LogCovered(l)' /\ LogOrdered(l)'
    <2>1. pc'[l] = "off" /\ sending'[l] = None /\ db.mark[l] \in Nat
      BY <1>1, LogSizes DEF TypeOK, DbOK
    <2>2. QED BY <1>1, <1>2, <1>4, <2>1 DEF SenderOK, LogCovered, LogOrdered
  <1>7. ProcessDown'
    BY <1>1 DEF ProcessDown
  <1>8. QED BY <1>5, <1>6, <1>7 DEF TailInv

\* An empty database covers nothing, and claims to cover nothing.
LEMMA InitKeeps == IngestInit => TailInv
  <1> SUFFICES ASSUME IngestInit PROVE TailInv
    OBVIOUS
  <1>1. /\ db.mark = [l \in Logs |-> 0] /\ marks = NoMarks /\ ch = <<>>
        /\ pc = [l \in Logs |-> "off"] /\ sending = [s \in Callers |-> None]
    BY DEF IngestInit, Init, EmptyDb
  <1>2. CommittedDb.mark = db.mark
    BY <1>1 DEF CommittedDb, NoMarks
  <1>3. Len(ch) = 0
    BY <1>1
  <1>4. MarksCovered
    BY <1>1, <1>2, <1>3 DEF MarksCovered, WatermarkCovered, Covered
  <1>5. \A l \in Logs : SenderOK(l) /\ LogCovered(l) /\ LogOrdered(l)
    BY <1>1, <1>2, <1>3 DEF SenderOK, LogCovered, LogOrdered
  <1>6. QED BY <1>1, <1>4, <1>5 DEF TailInv, ProcessDown

\* Every step of the store, a tailer or a log keeps the invariant.
LEMMA TailInvNext ==
    ASSUME TypeOK, TypeOK', StoreInv, TailOK, TailInv, [IngestNext]_ingestVars
    PROVE  TailInv'
  <1>1. ASSUME NEW l \in Logs, TailStep(l) PROVE TailInv'
    BY <1>1, MovesKeep, SendNameKeeps, SendMarkKeeps, SentKeeps DEF TailStep
  <1>2. QED BY <1>1, StoreKeeps, OutsideKeeps, StopKeeps DEF IngestNext

\* The invariant holds of the tailers and of the store under them.
THEOREM IngestInvariantHolds == IngestSpec => [](TypeOK /\ StoreInv /\ TailOK /\ TailInv)
  <1>1. TypeOK /\ TypeOK' /\ StoreInv /\ TailOK /\ TailInv /\ [IngestNext]_ingestVars => TailInv'
    BY TailInvNext
  <1>2. QED BY <1>1, InitKeeps, IngestRunsStore, FreeInvariant, PTL DEF IngestSpec

-----------------------------------------------------------------------------
(* The theorems *)

\* A durable watermark is backed by durable records for every entry below it,
\* through crashes, restarts, failed ranges and closed stores, the names apart
\* that a failed read made the loop drop (AdvanceWatermark, ingestLoop, flush).
THEOREM WatermarksAreCovered == IngestSpec => []WatermarkCovered
  <1>1. TailInv => WatermarkCovered
    BY DEF TailInv, MarksCovered
  <1>2. QED BY <1>1, IngestInvariantHolds, PTL

\* The watermark of a log never moves back (AdvanceWatermark, wmHigh, tailOne):
\* a new process, which has forgotten the marks of the last, starts from disk.
THEOREM WatermarksNeverMoveBack == IngestSpec => WatermarkNeverMovesBack
  <1>1. ASSUME TypeOK, TypeOK', StoreInv, TailInv, [IngestNext]_ingestVars, NEW l \in Logs
        PROVE  db'.mark[l] >= db.mark[l]
    <2>1. db.mark[l] \in Nat /\ db.mark[l] <= CommittedDb.mark[l]
      BY <1>1, LogSizes DEF TypeOK, DbOK, TailInv, LogOrdered
    <2>2. CASE StoreStep
      <3>1. db'.mark = db.mark \/ db'.mark = CommittedDb.mark
        BY <1>1, <2>2, StoreEffects DEF StoreEffect, DiskEffect, TailInv
      <3>2. db'.mark[l] \in Nat
        BY <1>1, LogSizes DEF TypeOK, DbOK
      <3>3. QED BY <2>1, <3>1, <3>2
    <2>3. CASE ~StoreStep
      <3>1. ASSUME NEW q \in Logs, TailStep(q) PROVE db' = db
        BY <3>1 DEF TailStep, StartTailer, Poll, Leave, Fetch, EndRange, SendName, NameSent,
                    EndWindow, SendMark, MarkSent, BeginSend, CompleteSend, RefuseSend, vars
      <3>2. ASSUME \/ (\E q \in Logs : Grow(q)) \/ Cancel \/ Shutdown \/ StopProcess
                   \/ UNCHANGED ingestVars
            PROVE  db' = db
        <4>1. CASE (\E q \in Logs : Grow(q)) \/ Cancel \/ UNCHANGED ingestVars
          BY <4>1 DEF Grow, Cancel, ingestVars, vars
        <4>2. CASE Shutdown \/ StopProcess
          BY <4>2 DEF Shutdown, CloseStep, CloseMark, CloseQuit, StopProcess, Exit, Crash, ProcessEnd
        <4>3. QED BY <3>2, <4>1, <4>2
      <3>3. \/ \E q \in Logs : TailStep(q) \/ Grow(q)
            \/ Cancel \/ Shutdown \/ StopProcess \/ UNCHANGED ingestVars
        BY <1>1, <2>3 DEF IngestNext
      <3>4. db' = db
        BY <3>1, <3>2, <3>3
      <3>5. QED BY <2>1, <3>4
    <2>4. QED BY <2>2, <2>3
  <1>2. TypeOK /\ TypeOK' /\ StoreInv /\ TailInv /\ [IngestNext]_ingestVars =>
           \A l \in Logs : db'.mark[l] >= db.mark[l]
    BY <1>1
  <1>3. QED BY <1>2, IngestInvariantHolds, PTL DEF IngestSpec, WatermarkNeverMovesBack

\* With the tailers running, too, a loop that is done has left nothing it handled
\* uncommitted (ingestLoop's drain, Close).
THEOREM TailersLeaveNothingBehind == IngestSpec => []StopLeavesNothingBehind
  BY IngestRunsStore, FreeNothingBehind, PTL

\* The tailers on the store implement the durable index: names and watermarks
\* reach the disk together, in the order in which the loop took them.  A new name
\* is above all others as long as Open can read the last number.
THEOREM TailersImplementIndex ==
    ASSUME SeqIsRead
    PROVE  IngestSpec => ImplementsIndex
  BY IngestRunsStore, FreeImplementsIndex, PTL
=============================================================================
