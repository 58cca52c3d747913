----------------------------- MODULE FeedProofs -----------------------------
(***************************************************************************)
(* Theorems about Feed, for all names, apexes, sessions, bounds on the     *)
(* streams and capacities that satisfy FeedAssumption: the shape of its    *)
(* variables, the count of streams, open channels in the hub, no name      *)
(* forgotten, and that the streams implement FeedStream.                   *)
(***************************************************************************)
EXTENDS Feed, FiniteSetTheorems, TLAPS

USE FeedAssumption

-----------------------------------------------------------------------------
(* The invariant *)

\* A name the hub offers nobody any more: of a stream that the hub has let go, the
\* names after all those it still holds.
Late(s, k) ==
    /\ s \notin hub
    /\ inHand[s] < k
    /\ \A i \in DOMAIN ch[s] : ch[s][i] < k

\* NothingIsForgotten, for every stream and name by name: a name whose channel
\* was found full is excused by itself, not every name of the stream.
Covered(s, k) ==
    \/ k \in written[s]
    \/ k = inHand[s]
    \/ \E i \in DOMAIN ch[s] : ch[s][i] = k
    \/ k = Len(log) /\ (s \in casting \/ full = s)
    \/ drop[s]
    \/ k <= resynced[s]
    \/ Late(s, k)

HasAll(s) == \A k \in Owed(s) : Covered(s, k)

CoverInv == \A s \in Streaming : HasAll(s)

\* What a session has before its subscription, and while it has nothing in hand.
FreshInv ==
    \A s \in Sessions :
        /\ pc[s] \in {"idle", "refused", "admitted"} =>
               ~closed[s] /\ ch[s] = <<>> /\ written[s] = {} /\ resynced[s] = 0
        /\ pc[s] # "received" => inHand[s] = 0

\* The name that is being offered is owed, and newer than what the stream holds.
CastInv ==
    \A s \in casting :
        /\ Len(log) \in Owed(s)
        /\ inHand[s] < Len(log)
        /\ \A i \in DOMAIN ch[s] : ch[s][i] < Len(log)
        /\ \A w \in written[s] : w < Len(log)

\* Written, in hand, in the channel: a stream's names are in their order.
InOrder(s) ==
    /\ \A i \in DOMAIN ch[s] :
           /\ ch[s][i] \in Owed(s)
           /\ inHand[s] < ch[s][i]
           /\ \A w \in written[s] : w < ch[s][i]
    /\ \A i, j \in DOMAIN ch[s] : i < j => ch[s][i] < ch[s][j]
    /\ pc[s] = "received" => /\ inHand[s] \in Owed(s)
                             /\ \A w \in written[s] : w < inHand[s]

OrderInv == \A s \in Streaming : InOrder(s)

Inv ==
    /\ TypeOK /\ StreamsAreCounted /\ HubHoldsOpenChannels
    /\ FreshInv /\ CastInv /\ OrderInv /\ CoverInv

-----------------------------------------------------------------------------
(* Sequences *)

\* A sequence over a set is one over any larger set (numbers, as the log grows).
LEMMA SeqGrows ==
    ASSUME NEW S, NEW T, S \subseteq T, NEW q \in Seq(S)
    PROVE  q \in Seq(T)
  OBVIOUS

-----------------------------------------------------------------------------
(* The count of streams *)

\* Requests that are counted, and those that are let through.
Counted == {s \in Sessions : pc[s] # "idle"}
Admitted == {s \in Sessions : pc[s] \notin {"idle", "refused"}}

\* A set of sessions with one more.
LEMMA OneMore ==
    ASSUME NEW S \in SUBSET Sessions, NEW s \in Sessions, s \notin S
    PROVE  Cardinality(S \cup {s}) = Cardinality(S) + 1 /\ Cardinality(S) \in Nat
  <1>1. IsFiniteSet(S)
    BY FS_Subset
  <1> QED
    BY <1>1, FS_AddElement, FS_CardinalityType

\* A set of sessions without one of them.
LEMMA OneLess ==
    ASSUME NEW S \in SUBSET Sessions, NEW s \in S
    PROVE  Cardinality(S \ {s}) = Cardinality(S) - 1 /\ Cardinality(S) \in Nat
  <1>1. IsFiniteSet(S)
    BY FS_Subset
  <1> QED
    BY <1>1, FS_RemoveElement, FS_CardinalityType

\* No more sessions in a part than in the whole.
LEMMA Fewer ==
    ASSUME NEW S \in SUBSET Sessions, NEW T \in SUBSET S
    PROVE  /\ Cardinality(T) <= Cardinality(S)
           /\ Cardinality(T) \in Nat /\ Cardinality(S) \in Nat
  <1>1. IsFiniteSet(S)
    BY FS_Subset
  <1> QED
    BY <1>1, FS_Subset, FS_CardinalityType

\* Connect, Refuse and EndRequest change the count; no other step does.
LEMMA CountStep ==
    ASSUME TypeOK, StreamsAreCounted, [Next]_vars
    PROVE  StreamsAreCounted'
  <1> DEFINE Same == activeFeeds' = activeFeeds /\ Counted' = Counted
                     /\ Admitted' \subseteq Admitted
  <1>0. activeFeeds = Cardinality(Counted) /\ Cardinality(Admitted) <= MaxActiveFeeds
    BY DEF StreamsAreCounted, Counted, Admitted
  <1>1. ASSUME Same PROVE StreamsAreCounted'
    <2>1. Cardinality(Admitted') <= Cardinality(Admitted)
      BY <1>1, Fewer DEF Admitted
    <2>2. Cardinality(Admitted) \in Nat /\ Cardinality(Admitted') \in Nat
      BY Fewer DEF Admitted
    <2> QED
      BY <1>0, <1>1, <2>1, <2>2 DEF StreamsAreCounted, Counted, Admitted
  <1>2. ASSUME NEW s \in Sessions, NEW a \in Apexes, Connect(s, a) PROVE StreamsAreCounted'
    <2>1. Counted' = Counted \cup {s} /\ s \notin Counted
      BY <1>2 DEF Connect, Goto, TypeOK, Counted
    <2>2. activeFeeds' = Cardinality(Counted')
      BY <1>2, <2>1, <1>0, OneMore DEF Connect, Counted
    <2>3. CASE activeFeeds + 1 > MaxActiveFeeds
      <3>1. Admitted' = Admitted
        BY <1>2, <2>3 DEF Connect, Goto, TypeOK, Admitted
      <3> QED
        BY <1>0, <2>2, <3>1 DEF StreamsAreCounted, Counted, Admitted
    <2>4. CASE ~(activeFeeds + 1 > MaxActiveFeeds)
      <3>1. Admitted' \subseteq Counted' /\ Counted' \subseteq Sessions
        BY DEF Admitted, Counted
      <3>2. Cardinality(Admitted') <= Cardinality(Counted')
            /\ Cardinality(Admitted') \in Nat /\ Cardinality(Counted') \in Nat
        BY <3>1, Fewer
      <3>3. activeFeeds' = activeFeeds + 1 /\ activeFeeds \in Nat
        BY <1>2 DEF Connect, TypeOK
      <3> QED
        BY <2>2, <2>4, <3>2, <3>3 DEF StreamsAreCounted, Counted, Admitted
    <2> QED
      BY <2>3, <2>4
  <1>3. ASSUME NEW s \in Sessions, Refuse(s) \/ EndRequest(s) PROVE StreamsAreCounted'
    <2>1. Counted' = Counted \ {s} /\ s \in Counted /\ Admitted' \subseteq Admitted
      <3>1. pc[s] # "idle" /\ pc' = [pc EXCEPT ![s] = "idle"] /\ DOMAIN pc = Sessions
        BY <1>3 DEF Refuse, EndRequest, Goto, TypeOK
      <3>2. QED BY <3>1 DEF Counted, Admitted
    <2>2. activeFeeds' = Cardinality(Counted')
      BY <1>3, <2>1, <1>0, OneLess DEF Refuse, EndRequest, Counted
    <2>3. /\ Cardinality(Admitted') <= Cardinality(Admitted)
          /\ Cardinality(Admitted) \in Nat /\ Cardinality(Admitted') \in Nat
      BY <2>1, Fewer DEF Admitted
    <2> QED
      BY <1>0, <2>2, <2>3 DEF StreamsAreCounted, Counted, Admitted
  <1>4. ASSUME NEW s \in Sessions,
               \/ Subscribe(s) \/ Receive(s) \/ Write(s) \/ TearDown(s)
               \/ Unsubscribe(s) \/ WriteFails(s) \/ Disconnect(s)
        PROVE  Same
    <2>1. PICK to \in {"select", "received", "leaving", "left"} :
             /\ pc[s] \notin {"idle", "refused"} /\ pc' = [pc EXCEPT ![s] = to]
             /\ activeFeeds' = activeFeeds
      BY <1>4 DEF Subscribe, Receive, Write, TearDown, Unsubscribe, WriteFails, Disconnect, Goto
    <2>2. DOMAIN pc = Sessions
      BY DEF TypeOK
    <2>3. QED BY <2>1, <2>2 DEF Counted, Admitted
  <1>5. ASSUME \/ \E n \in Names : OnNew(n)
               \/ LoopStep \/ Commit \/ CloseStop \/ HubClose
               \/ UNCHANGED vars
        PROVE  Same
    BY <1>5 DEF OnNew, LoopStep, Offer, Miss, Flag, Commit, CloseStop, HubClose, vars,
                ingestVars, sessionVars, historyVars, Counted, Admitted
  <1> QED
    BY <1>1, <1>2, <1>3, <1>4, <1>5 DEF Next, Serve

-----------------------------------------------------------------------------
(* Type correctness *)

\* The parts of TypeOK that only grow with the log.
LEMMA LogGrows ==
    ASSUME TypeOK, NEW n \in Names, log' = Append(log, n)
    PROVE  /\ log' \in Seq(Names)
           /\ Len(log') = Len(log) + 1 /\ Len(log) \in Nat
           /\ \A k \in 1..Len(log) : log'[k] = log[k]
           /\ log'[Len(log) + 1] = n
  BY DEF TypeOK

\* No step breaks the shape of the variables.  A number enters a channel, a hand or
\* a history only while it is the number of a name: CastInv and OrderInv say so.
LEMMA TypeStep ==
    ASSUME Inv, StreamsAreCounted', [Next]_vars
    PROVE  TypeOK'
  <1>0. TypeOK
    BY DEF Inv
  <1> USE <1>0
  <1> DEFINE CountOK == activeFeeds \in 0..Cardinality(Sessions)
  <1>1. CountOK'
    <2>1. Counted' \in SUBSET Sessions
      BY DEF Counted
    <2>2. activeFeeds' = Cardinality(Counted')
      BY DEF StreamsAreCounted, Counted
    <2>3. Cardinality(Counted') <= Cardinality(Sessions)
          /\ Cardinality(Counted') \in Nat /\ Cardinality(Sessions) \in Nat
      BY <2>1, Fewer
    <2> QED
      BY <2>2, <2>3
  <1>2. ASSUME NEW n \in Names, OnNew(n) PROVE TypeOK'
    <2>1. /\ log' \in Seq(Names) /\ Len(log') = Len(log) + 1 /\ Len(log) \in Nat
      BY <1>2, LogGrows DEF OnNew
    <2>2. Numbers \subseteq Numbers'
      BY <2>1 DEF Numbers
    <2>3. ch' \in [Sessions -> Seq(Numbers')]
      <3>1. \A s \in Sessions : ch[s] \in Seq(Numbers')
        BY <2>2, SeqGrows DEF TypeOK
      <3> QED
        BY <1>2, <3>1 DEF OnNew, sessionVars, TypeOK
    <2>4. casting' \subseteq Sessions
      BY <1>2 DEF OnNew, TypeOK
    <2>5. /\ committed' \in 0..Len(log')
          /\ since' \in [Sessions -> 0..Len(log')]
          /\ resynced' \in [Sessions -> 0..Len(log')]
          /\ found' \in [Sessions -> 0..Len(log')]
          /\ written' \in [Sessions -> SUBSET Numbers']
          /\ inHand' \in [Sessions -> Numbers' \cup {0}]
      BY <1>2, <2>1, <2>2 DEF OnNew, sessionVars, historyVars, TypeOK
    <2> QED
      BY <1>1, <1>2, <2>1, <2>3, <2>4, <2>5 DEF OnNew, sessionVars, TypeOK
  <1>3. ASSUME NEW s \in Sessions, Offer(s) PROVE TypeOK'
    <2>1. Len(log) \in Numbers
      BY <1>3 DEF Offer, Inv, CastInv, Owed, TypeOK, Numbers
    <2>2. ch' \in [Sessions -> Seq(Numbers)]
          /\ \A t \in Sessions : Len(ch'[t]) <= Capacity
      BY <1>3, <2>1 DEF Offer, TypeOK
    <2> QED
      BY <1>1, <1>3, <2>2 DEF Offer, TypeOK, Numbers, historyVars
  <1>4. ASSUME NEW s \in Sessions, Miss(s) PROVE TypeOK'
    BY <1>1, <1>4 DEF Miss, TypeOK, Numbers, sessionVars, historyVars
  <1>5. CASE Flag \/ Commit \/ CloseStop \/ HubClose \/ UNCHANGED vars
    <2>1. CASE Flag
      <3>1. full \in Sessions /\ drop' \in [Sessions -> BOOLEAN]
        BY <2>1 DEF Flag, TypeOK
      <3>2. log' = log /\ Numbers' = Numbers
        BY <2>1 DEF Flag, Numbers
      <3> QED
        BY <1>1, <2>1, <3>1, <3>2 DEF Flag, TypeOK, historyVars
    <2>2. CASE Commit \/ CloseStop \/ UNCHANGED vars
      <3>1. log' = log /\ Numbers' = Numbers
        BY <2>2 DEF Commit, CloseStop, vars, ingestVars, Numbers
      <3>2. committed' \in 0..Len(log)
        BY <2>2 DEF Commit, CloseStop, TypeOK, vars, ingestVars
      <3>4. stop' \in BOOLEAN
        BY <2>2, Zenon DEF Commit, CloseStop, TypeOK, vars
      <3>3. UNCHANGED <<casting, full, sessionVars, historyVars>>
        BY <2>2 DEF Commit, CloseStop, vars, ingestVars
      <3> QED
        BY <1>1, <3>1, <3>2, <3>3, <3>4 DEF TypeOK, sessionVars, historyVars
    <2>3. CASE HubClose
      BY <1>1, <2>3 DEF HubClose, TypeOK, Numbers, ingestVars, historyVars
    <2> QED
      BY <1>5, <2>1, <2>2, <2>3
  <1>6. ASSUME NEW s \in Sessions, NEW a \in Apexes, Connect(s, a) PROVE TypeOK'
    BY <1>1, <1>6 DEF Connect, Goto, TypeOK, Numbers, ingestVars, historyVars, States
  <1>7. ASSUME NEW s \in Sessions, Receive(s) PROVE TypeOK'
    <2>1. /\ ch' \in [Sessions -> Seq(Numbers)]
          /\ \A t \in Sessions : Len(ch'[t]) <= Capacity
          /\ inHand' \in [Sessions -> Numbers \cup {0}]
      <3>1. Head(ch[s]) \in Numbers /\ Tail(ch[s]) \in Seq(Numbers)
            /\ Len(Tail(ch[s])) <= Capacity
        BY <1>7 DEF Receive, TypeOK
      <3> QED
        BY <1>7, <3>1 DEF Receive, TypeOK
    <2>2. log' = log /\ Numbers' = Numbers
      BY <1>7 DEF Receive, ingestVars, Numbers
    <2> QED
      BY <1>1, <1>7, <2>1, <2>2 DEF Receive, Goto, TypeOK, ingestVars, historyVars, States
  <1>8. ASSUME NEW s \in Sessions, Write(s) PROVE TypeOK'
    <2>1. inHand[s] \in Numbers
      BY <1>8 DEF Write, Goto, Inv, OrderInv, InOrder, Streaming, Owed, TypeOK, Numbers
    <2>2. log' = log /\ Numbers' = Numbers
      BY <1>8 DEF Write, ingestVars, Numbers
    <2>3. written' \in [Sessions -> SUBSET Numbers]
      BY <1>8, <2>1 DEF Write, TypeOK
    <2>4. /\ resynced' \in [Sessions -> 0..Len(log)]
          /\ found' \in [Sessions -> 0..Len(log)]
      BY <1>8 DEF Write, TypeOK
    <2>5. /\ pc' \in [Sessions -> States]
          /\ drop' \in [Sessions -> BOOLEAN]
          /\ inHand' \in [Sessions -> Numbers \cup {0}]
      BY <1>8 DEF Write, Goto, TypeOK, States
    <2> QED
      BY <1>1, <1>8, <2>2, <2>3, <2>4, <2>5 DEF Write, TypeOK, ingestVars
  <1>9. ASSUME NEW s \in Sessions,
               Refuse(s) \/ Subscribe(s) \/ TearDown(s) \/ Unsubscribe(s)
               \/ WriteFails(s) \/ Disconnect(s)
        PROVE  TypeOK'
    <2>1. log' = log /\ Numbers' = Numbers
      BY <1>9 DEF Refuse, Subscribe, TearDown, Unsubscribe, WriteFails, Disconnect,
                  ingestVars, Numbers
    <2>2. CASE Refuse(s) \/ TearDown(s) \/ Disconnect(s)
      BY <1>1, <2>1, <2>2 DEF Refuse, TearDown, Disconnect, Goto, TypeOK, ingestVars,
                              historyVars, States
    <2>3. CASE Subscribe(s)
      <3>1. pc' \in [Sessions -> States] /\ hub' \subseteq Sessions
        BY <2>3 DEF Subscribe, Goto, TypeOK, States
      <3>2. since' \in [Sessions -> 0..Len(log)]
        <4>1. Len(log) \in 0..Len(log)
          BY DEF TypeOK
        <4>2. since' = [since EXCEPT ![s] = Len(log)]
          BY <2>3 DEF Subscribe
        <4>3. QED BY <4>1, <4>2 DEF TypeOK
      <3>3. UNCHANGED <<committed, casting, full, closed, ch, drop, wants, inHand,
                        activeFeeds, stop, written, resynced, found>>
        BY <2>3 DEF Subscribe, ingestVars
      <3>4. QED BY <2>1, <3>1, <3>2, <3>3 DEF TypeOK
    <2>4. CASE Unsubscribe(s)
      BY <1>1, <2>1, <2>4 DEF Unsubscribe, Goto, TypeOK, ingestVars, historyVars, States
    <2>5. CASE WriteFails(s)
      BY <1>1, <2>1, <2>5 DEF WriteFails, Goto, TypeOK, ingestVars, historyVars, States
    <2> QED
      BY <1>9, <2>2, <2>3, <2>4, <2>5
  <1>10. ASSUME NEW s \in Sessions, EndRequest(s) PROVE TypeOK'
    <2>1. /\ Numbers' = Numbers /\ UNCHANGED <<ingestVars, hub, inHand, stop>>
          /\ Capacity \in Nat
      BY <1>10 DEF EndRequest, ingestVars, Numbers
    <2>2. pc' \in [Sessions -> States]
      BY <1>10 DEF EndRequest, Goto, TypeOK, States
    <2>3. /\ ch' \in [Sessions -> Seq(Numbers)]
          /\ \A t \in Sessions : Len(ch'[t]) <= Capacity
      <3>1. <<>> \in Seq(Numbers) /\ Len(<<>>) = 0
        OBVIOUS
      <3> QED
        BY <1>10, <2>1, <3>1 DEF EndRequest, TypeOK
    <2>4. /\ closed' \in [Sessions -> BOOLEAN] /\ drop' \in [Sessions -> BOOLEAN]
          /\ wants' \in [Sessions -> Apexes \cup {None}]
          /\ written' \in [Sessions -> SUBSET Numbers]
      BY <1>10 DEF EndRequest, TypeOK
    <2>5. /\ since' \in [Sessions -> 0..Len(log)]
          /\ resynced' \in [Sessions -> 0..Len(log)]
          /\ found' \in [Sessions -> 0..Len(log)]
      BY <1>10 DEF EndRequest, TypeOK
    <2> QED
      BY <1>1, <2>1, <2>2, <2>3, <2>4, <2>5 DEF TypeOK, ingestVars
  <1> QED
    BY <1>2, <1>3, <1>4, <1>5, <1>6, <1>7, <1>8, <1>9, <1>10 DEF Next, LoopStep, Serve

-----------------------------------------------------------------------------
(* The hub, its channels, and what a session begins with *)

\* Subscribe, Unsubscribe and Close under the hub's lock keep closed channels out of it.
LEMMA HubStep ==
    ASSUME Inv, [Next]_vars
    PROVE  HubHoldsOpenChannels'
  <1> USE DEF Inv, TypeOK, HubHoldsOpenChannels, Streaming
  <1>1. ASSUME NEW n \in Names, OnNew(n) PROVE HubHoldsOpenChannels'
    BY <1>1 DEF OnNew, Unlocked, sessionVars
  <1>2. ASSUME NEW s \in Sessions, Offer(s) \/ Miss(s) PROVE HubHoldsOpenChannels'
    BY <1>2 DEF Offer, Miss, sessionVars
  <1>3. CASE Flag \/ Commit \/ CloseStop \/ UNCHANGED vars
    BY <1>3 DEF Flag, Commit, CloseStop, vars, ingestVars, sessionVars
  <1>4. CASE HubClose
    BY <1>4 DEF HubClose, Unlocked, ingestVars
  <1>5. ASSUME NEW s \in Sessions, NEW a \in Apexes, Connect(s, a) PROVE HubHoldsOpenChannels'
    BY <1>5 DEF Connect, Goto, ingestVars
  <1>6. ASSUME NEW s \in Sessions, Subscribe(s) PROVE HubHoldsOpenChannels'
    BY <1>6 DEF Subscribe, Goto, ingestVars, FreshInv
  <1>7. ASSUME NEW s \in Sessions, Unsubscribe(s) PROVE HubHoldsOpenChannels'
    BY <1>7 DEF Unsubscribe, Unlocked, Goto, ingestVars
  <1>8. ASSUME NEW s \in Sessions,
               Refuse(s) \/ Receive(s) \/ Write(s) \/ TearDown(s) \/ EndRequest(s)
               \/ WriteFails(s) \/ Disconnect(s)
        PROVE  HubHoldsOpenChannels'
    <2>1. UNCHANGED <<hub, casting, full>>
      BY <1>8 DEF Refuse, Receive, Write, TearDown, EndRequest, WriteFails, Disconnect,
                  ingestVars
    <2>2. \A t \in Sessions \ {s} : pc'[t] = pc[t] /\ closed'[t] = closed[t]
      BY <1>8 DEF Refuse, Receive, Write, TearDown, EndRequest, WriteFails, Disconnect, Goto
    <2>3. CASE Refuse(s) \/ EndRequest(s)
      <3>1. pc[s] \in {"refused", "left"} /\ pc'[s] = "idle"
        BY <2>3 DEF Refuse, EndRequest, Goto
      <3> QED
        BY <2>1, <2>2, <3>1
    <2>4. CASE Receive(s) \/ Write(s) \/ TearDown(s) \/ WriteFails(s) \/ Disconnect(s)
      <3>1. /\ pc[s] \in {"select", "received"}
            /\ pc'[s] \in {"select", "received", "leaving"}
            /\ closed'[s] = closed[s]
        BY <2>4 DEF Receive, Write, TearDown, WriteFails, Disconnect, Goto
      <3> QED
        BY <2>1, <2>2, <3>1
    <2> QED
      BY <1>8, <2>3, <2>4
  <1> QED
    BY <1>1, <1>2, <1>3, <1>4, <1>5, <1>6, <1>7, <1>8 DEF Next, LoopStep, Serve

\* EndRequest and the steps before Subscribe leave nothing of an earlier request.
LEMMA FreshStep ==
    ASSUME Inv, [Next]_vars
    PROVE  FreshInv'
  <1> USE DEF Inv, TypeOK, FreshInv
  <1>1. CASE \/ \E n \in Names : OnNew(n)
             \/ Flag \/ Commit \/ CloseStop \/ UNCHANGED vars
    BY <1>1 DEF OnNew, Flag, Commit, CloseStop, vars, sessionVars, historyVars
  <1>2. ASSUME NEW s \in Sessions, Offer(s) \/ Miss(s) PROVE FreshInv'
    <2>1. pc[s] \notin {"idle", "refused", "admitted"}
      BY <1>2 DEF Offer, Miss, HubHoldsOpenChannels
    <2> QED
      BY <1>2, <2>1 DEF Offer, Miss, sessionVars, historyVars
  <1>3. CASE HubClose
    BY <1>3 DEF HubClose, historyVars, HubHoldsOpenChannels
  <1>4. ASSUME NEW s \in Sessions, NEW a \in Apexes, Connect(s, a) PROVE FreshInv'
    BY <1>4 DEF Connect, Goto, historyVars
  <1>5. ASSUME NEW s \in Sessions,
               \/ Refuse(s) \/ Subscribe(s) \/ Receive(s) \/ Write(s) \/ TearDown(s)
               \/ Unsubscribe(s) \/ EndRequest(s) \/ WriteFails(s) \/ Disconnect(s)
        PROVE  FreshInv'
    <2>1. CASE Refuse(s) \/ Subscribe(s) \/ TearDown(s) \/ Disconnect(s)
      BY <2>1 DEF Refuse, Subscribe, TearDown, Disconnect, Goto, historyVars
    <2>2. CASE Receive(s)
      BY <2>2 DEF Receive, Goto, historyVars
    <2>3. CASE Write(s)
      BY <2>3 DEF Write, Goto
    <2>4. CASE Unsubscribe(s)
      BY <2>4 DEF Unsubscribe, Goto, historyVars
    <2>5. CASE WriteFails(s)
      BY <2>5 DEF WriteFails, Goto, historyVars
    <2>6. CASE EndRequest(s)
      BY <2>6 DEF EndRequest, Goto
    <2> QED
      BY <1>5, <2>1, <2>2, <2>3, <2>4, <2>5, <2>6
  <1> QED
    BY <1>1, <1>2, <1>3, <1>4, <1>5 DEF Next, LoopStep, Serve

-----------------------------------------------------------------------------
(* The names on their way *)

\* Only the newest name is on offer, to streams that owe it and have nothing newer.
LEMMA CastStep ==
    ASSUME Inv, [Next]_vars
    PROVE  CastInv'
  <1> USE DEF Inv, CastInv, Owed
  <1>1. ASSUME NEW n \in Names, OnNew(n) PROVE CastInv'
    <2>1. /\ Len(log') = Len(log) + 1 /\ Len(log) \in Nat
          /\ log'[Len(log) + 1] = n
      BY <1>1, LogGrows DEF OnNew
    <2> SUFFICES ASSUME NEW s \in casting'
                 PROVE  /\ Len(log') \in Owed(s)'
                        /\ inHand'[s] < Len(log')
                        /\ \A i \in DOMAIN ch'[s] : ch'[s][i] < Len(log')
                        /\ \A w \in written'[s] : w < Len(log')
      OBVIOUS
    <2>2. s \in Sessions /\ wants[s] = ApexOf[n]
      BY <1>1 DEF OnNew, TypeOK
    <2>3. since[s] \in 0..Len(log) /\ inHand[s] \in Numbers \cup {0}
          /\ written[s] \subseteq Numbers /\ ch[s] \in Seq(Numbers)
      BY <2>2 DEF TypeOK
    <2>4. UNCHANGED <<since, inHand, written, ch, wants>>
      BY <1>1 DEF OnNew, sessionVars, historyVars
    <2>5. \A i \in DOMAIN ch[s] : ch[s][i] \in Numbers
      BY <2>3
    <2> QED
      BY <2>1, <2>2, <2>3, <2>4, <2>5 DEF Numbers
  <1>2. ASSUME NEW s \in Sessions, Offer(s) \/ Miss(s) PROVE CastInv'
    BY <1>2 DEF Offer, Miss, sessionVars, historyVars, TypeOK
  <1>3. CASE Flag \/ Commit \/ CloseStop \/ UNCHANGED vars
    BY <1>3 DEF Flag, Commit, CloseStop, vars, ingestVars, sessionVars, historyVars
  <1>4. ASSUME \/ HubClose
               \/ \E s \in Sessions : Subscribe(s) \/ Unsubscribe(s)
        PROVE  CastInv'
    BY <1>4 DEF HubClose, Subscribe, Unsubscribe, Unlocked, ingestVars
  <1>5. ASSUME NEW s \in Sessions,
               (\E a \in Apexes : Connect(s, a)) \/ Refuse(s) \/ EndRequest(s)
        PROVE  CastInv'
    <2>1. s \notin casting /\ casting' = casting /\ log' = log /\ casting \subseteq Sessions
      BY <1>5 DEF Connect, Refuse, EndRequest, Goto, HubHoldsOpenChannels, ingestVars, TypeOK
    <2>2. \A t \in Sessions \ {s} :
              /\ since'[t] = since[t] /\ wants'[t] = wants[t] /\ inHand'[t] = inHand[t]
              /\ ch'[t] = ch[t] /\ written'[t] = written[t]
      BY <1>5 DEF Connect, Refuse, EndRequest, historyVars, TypeOK
    <2> QED
      BY <2>1, <2>2
  <1>6. ASSUME NEW s \in Sessions, Receive(s) PROVE CastInv'
    <2>1. ch[s] \in Seq(Numbers) /\ ch[s] # <<>>
      BY <1>6 DEF Receive, TypeOK
    <2>2. /\ inHand'[s] = ch[s][1] /\ 1 \in DOMAIN ch[s]
          /\ \A i \in DOMAIN ch'[s] : i + 1 \in DOMAIN ch[s] /\ ch'[s][i] = ch[s][i + 1]
      BY <1>6, <2>1 DEF Receive, TypeOK
    <2>3. /\ UNCHANGED <<log, casting, since, written, wants>>
          /\ casting \subseteq Sessions
          /\ \A t \in Sessions \ {s} : ch'[t] = ch[t] /\ inHand'[t] = inHand[t]
      BY <1>6 DEF Receive, ingestVars, historyVars, TypeOK
    <2> QED
      BY <2>2, <2>3
  <1>7. ASSUME NEW s \in Sessions,
               Write(s) \/ WriteFails(s) \/ TearDown(s) \/ Disconnect(s)
        PROVE  CastInv'
    <2>1. UNCHANGED <<log, casting, since, wants, ch>>
      BY <1>7 DEF Write, WriteFails, TearDown, Disconnect, ingestVars, historyVars
    <2>2. \A t \in Sessions : inHand'[t] = inHand[t] \/ inHand'[t] = 0
      BY <1>7 DEF Write, WriteFails, TearDown, Disconnect, TypeOK
    <2>3. \A t \in Sessions : \A w \in written'[t] : w \in written[t] \/ w = inHand[t]
      <3>1. written' = written \/ written' = [written EXCEPT ![s] = @ \cup {inHand[s]}]
        BY <1>7 DEF Write, WriteFails, TearDown, Disconnect, historyVars
      <3>2. written \in [Sessions -> SUBSET Numbers]
        BY DEF TypeOK
      <3> QED
        BY <3>1, <3>2
    <2>4. /\ casting \subseteq Sessions /\ Len(log) \in Nat
          /\ \A t \in Sessions : since[t] \in Nat
      BY DEF TypeOK
    <2> QED
      BY <2>1, <2>2, <2>3, <2>4
  <1> QED
    BY <1>1, <1>2, <1>3, <1>4, <1>5, <1>6, <1>7 DEF Next, LoopStep, Serve

\* The handler of one request leaves alone what belongs to another, and so does
\* the offer to its channel.
LEMMA OthersStay ==
    ASSUME TypeOK, NEW s \in Sessions, NEW t \in Sessions, t # s,
           \/ Offer(t) \/ Serve(t) \/ WriteFails(t) \/ Disconnect(t)
           \/ \E a \in Apexes : Connect(t, a)
    PROVE  /\ log' = log /\ full' = full
           /\ s \in casting' <=> s \in casting
           /\ s \in hub' <=> s \in hub
           /\ pc'[s] = pc[s] /\ wants'[s] = wants[s] /\ since'[s] = since[s]
           /\ ch'[s] = ch[s] /\ drop'[s] = drop[s] /\ inHand'[s] = inHand[s]
           /\ written'[s] = written[s] /\ resynced'[s] = resynced[s]
  <1> USE DEF ingestVars, historyVars
  <1>1. CASE Offer(t)
    BY <1>1 DEF Offer, TypeOK
  <1>2. CASE Refuse(t) \/ Subscribe(t)
    BY <1>2 DEF Refuse, Subscribe, Goto, TypeOK
  <1>3. CASE Receive(t) \/ Write(t)
    <2>1. CASE Receive(t)
      BY <2>1 DEF Receive, Goto, TypeOK
    <2>2. CASE Write(t)
      BY <2>2 DEF Write, Goto, TypeOK
    <2>3. QED BY <1>3, <2>1, <2>2
  <1>4. CASE TearDown(t) \/ Unsubscribe(t)
    BY <1>4 DEF TearDown, Unsubscribe, Goto, TypeOK
  <1>5. CASE EndRequest(t)
    BY <1>5 DEF EndRequest, Goto, TypeOK
  <1>6. CASE WriteFails(t) \/ Disconnect(t)
    BY <1>6 DEF WriteFails, Disconnect, Goto, TypeOK
  <1>7. CASE \E a \in Apexes : Connect(t, a)
    BY <1>7 DEF Connect, Goto, TypeOK
  <1> QED
    BY <1>1, <1>2, <1>3, <1>4, <1>5, <1>6, <1>7 DEF Serve

\* What InOrder says of a session whose own state a step leaves alone; the log
\* may grow.
LEMMA OrderKept ==
    ASSUME TypeOK, NEW s \in Sessions, InOrder(s),
           log' = log \/ \E n \in Names : log' = Append(log, n),
           since'[s] = since[s], wants'[s] = wants[s], ch'[s] = ch[s],
           inHand'[s] = inHand[s], written'[s] = written[s], pc'[s] = pc[s]
    PROVE  InOrder(s)'
  <1>1. Len(log') >= Len(log) /\ \A k \in 1..Len(log) : log'[k] = log[k]
    <2>1. CASE log' = log
      BY <2>1 DEF TypeOK
    <2>2. CASE \E n \in Names : log' = Append(log, n)
      BY <2>2, LogGrows
    <2> QED
      BY <2>1, <2>2
  <1>2. Len(log) \in Nat /\ Len(log') \in Nat /\ since[s] \in Nat
    BY DEF TypeOK
  <1>3. \A k \in Owed(s) : k \in Owed(s)'
    BY <1>1, <1>2 DEF Owed
  <1> QED
    BY <1>3 DEF InOrder

\* Broadcast appends, Receive takes the first: names stay in their order.
LEMMA OrderStep ==
    ASSUME Inv, [Next]_vars
    PROVE  OrderInv'
  <1>0. TypeOK /\ FreshInv /\ OrderInv
    BY DEF Inv
  <1> SUFFICES ASSUME NEW s \in Sessions, s \in Streaming'
               PROVE  InOrder(s)'
    BY DEF OrderInv, Streaming
  <1>1. ASSUME s \in Streaming,
               log' = log \/ \E n \in Names : log' = Append(log, n),
               since'[s] = since[s], wants'[s] = wants[s], ch'[s] = ch[s],
               inHand'[s] = inHand[s], written'[s] = written[s], pc'[s] = pc[s]
        PROVE  InOrder(s)'
    BY <1>0, <1>1, OrderKept DEF OrderInv
  <1>2. CASE \/ \E n \in Names : OnNew(n)
             \/ Flag \/ Commit \/ CloseStop \/ HubClose \/ UNCHANGED vars
             \/ \E t \in Sessions : Miss(t)
    BY <1>1, <1>2 DEF OnNew, Flag, Commit, CloseStop, HubClose, Miss, vars, ingestVars,
                      sessionVars, historyVars, Streaming
  <1>3. ASSUME NEW t \in Sessions, t # s,
               \/ Offer(t) \/ Serve(t) \/ WriteFails(t) \/ Disconnect(t)
               \/ \E a \in Apexes : Connect(t, a)
        PROVE  InOrder(s)'
    <2>1. /\ log' = log /\ since'[s] = since[s] /\ wants'[s] = wants[s] /\ ch'[s] = ch[s]
          /\ inHand'[s] = inHand[s] /\ written'[s] = written[s] /\ pc'[s] = pc[s]
      BY <1>0, <1>3, OthersStay
    <2>2. s \in Streaming
      BY <2>1 DEF Streaming
    <2> QED
      BY <1>1, <2>1, <2>2
  <1>4. CASE Offer(s)
    <2>1. /\ s \in Streaming /\ InOrder(s)
          /\ Owed(s)' = Owed(s)
          /\ UNCHANGED <<inHand, written, pc>>
      BY <1>0, <1>4 DEF Offer, OrderInv, Streaming, Owed, historyVars
    <2>2. /\ Len(log) \in Owed(s) /\ inHand[s] < Len(log)
          /\ \A i \in DOMAIN ch[s] : ch[s][i] < Len(log)
          /\ \A w \in written[s] : w < Len(log)
      BY <1>4 DEF Offer, Inv, CastInv
    <2>3. /\ ch[s] \in Seq(Numbers) /\ ch'[s] = Append(ch[s], Len(log))
      BY <1>0, <1>4 DEF Offer, TypeOK
    <2>4. /\ DOMAIN ch'[s] = 1..Len(ch[s]) + 1 /\ DOMAIN ch[s] = 1..Len(ch[s])
          /\ Len(ch[s]) \in Nat
          /\ \A i \in DOMAIN ch[s] : ch'[s][i] = ch[s][i]
          /\ ch'[s][Len(ch[s]) + 1] = Len(log)
      BY <2>3
    <2>5. \A i \in DOMAIN ch'[s] : i \in DOMAIN ch[s] \/ i = Len(ch[s]) + 1
      BY <2>4
    <2>6. \A i \in DOMAIN ch'[s] :
              /\ ch'[s][i] \in Owed(s)
              /\ inHand[s] < ch'[s][i]
              /\ \A w \in written[s] : w < ch'[s][i]
      BY <2>1, <2>2, <2>4, <2>5 DEF InOrder
    <2>7. \A i, j \in DOMAIN ch'[s] : i < j => ch'[s][i] < ch'[s][j]
      BY <2>1, <2>2, <2>4, <2>5 DEF InOrder
    <2> QED
      BY <2>1, <2>6, <2>7 DEF InOrder
  <1>5. CASE Subscribe(s)
    BY <1>0, <1>5 DEF Subscribe, Goto, FreshInv, InOrder, TypeOK
  <1>6. CASE Receive(s)
    <2>1. /\ s \in Streaming /\ InOrder(s)
          /\ Owed(s)' = Owed(s)
          /\ UNCHANGED written
      BY <1>0, <1>6 DEF Receive, Goto, OrderInv, Streaming, Owed, ingestVars, historyVars
    <2>2. ch[s] \in Seq(Numbers) /\ ch[s] # <<>>
      BY <1>0, <1>6 DEF Receive, TypeOK
    <2>3. /\ inHand'[s] = ch[s][1] /\ 1 \in DOMAIN ch[s]
          /\ \A i \in DOMAIN ch'[s] :
                 /\ i \in Nat /\ i >= 1
                 /\ i + 1 \in DOMAIN ch[s] /\ ch'[s][i] = ch[s][i + 1]
      <3>1. inHand'[s] = Head(ch[s]) /\ ch'[s] = Tail(ch[s])
        BY <1>0, <1>6 DEF Receive, TypeOK
      <3> DEFINE q == ch[s]
      <3>2. q \in Seq(Numbers) /\ q # <<>>
        BY <2>2
      <3> HIDE DEF q
      <3>3. Head(q) = q[1] /\ 1 \in DOMAIN q
        BY <3>2
      <3>4. \A i \in DOMAIN Tail(q) :
               i \in Nat /\ i >= 1 /\ i + 1 \in DOMAIN q /\ Tail(q)[i] = q[i + 1]
        BY <3>2
      <3>5. QED BY <3>1, <3>3, <3>4 DEF q
    <2> QED
      BY <2>1, <2>3 DEF InOrder
  <1>7. CASE Write(s)
    <2>1. /\ s \in Streaming /\ InOrder(s) /\ pc[s] = "received"
          /\ Owed(s)' = Owed(s)
          /\ UNCHANGED ch
      BY <1>0, <1>7 DEF Write, Goto, OrderInv, Streaming, Owed, ingestVars
    <2>2. /\ inHand'[s] = 0 /\ pc'[s] = "select"
          /\ written'[s] = written[s] \cup {inHand[s]}
      BY <1>0, <1>7 DEF Write, Goto, TypeOK
    <2>3. \A k \in Owed(s) : 0 < k
      BY <1>0 DEF Owed, TypeOK
    <2> QED
      BY <2>1, <2>2, <2>3 DEF InOrder
  <1>8. CASE \/ Refuse(s) \/ TearDown(s) \/ Unsubscribe(s) \/ EndRequest(s)
             \/ WriteFails(s) \/ Disconnect(s)
             \/ \E a \in Apexes : Connect(s, a)
    BY <1>0, <1>8 DEF Refuse, TearDown, Unsubscribe, EndRequest, WriteFails, Disconnect,
       Connect, Goto, Streaming, TypeOK
  <1> QED
    BY <1>2, <1>3, <1>4, <1>5, <1>6, <1>7, <1>8 DEF Next, LoopStep, Serve

\* What HasAll says of a session whose own state a step leaves alone.
LEMMA CoverKept ==
    ASSUME TypeOK, NEW s \in Sessions, HasAll(s),
           log' = log, since'[s] = since[s], wants'[s] = wants[s],
           ch'[s] = ch[s], inHand'[s] = inHand[s], written'[s] = written[s],
           resynced'[s] = resynced[s], drop[s] => drop'[s],
           s \in hub' => s \in hub,
           s \in casting \/ full = s => s \in casting' \/ full' = s \/ drop'[s]
    PROVE  HasAll(s)'
  BY DEF HasAll, Covered, Late, Owed

\* No step loses the place of a name: offered, found full and flagged, in the
\* channel, in hand, written, or before a resync.
LEMMA CoverStep ==
    ASSUME Inv, [Next]_vars
    PROVE  CoverInv'
  <1>0. TypeOK /\ FreshInv /\ OrderInv /\ CoverInv
    BY DEF Inv
  <1> SUFFICES ASSUME NEW s \in Sessions, s \in Streaming'
               PROVE  HasAll(s)'
    BY DEF CoverInv, Streaming
  <1>1. CASE Flag \/ Commit \/ CloseStop \/ HubClose \/ UNCHANGED vars
             \/ \E t \in Sessions : Miss(t)
    <2>1. s \in Streaming /\ HasAll(s)
      BY <1>0, <1>1 DEF Flag, Commit, CloseStop, HubClose, Miss, vars, ingestVars,
                        sessionVars, Streaming, CoverInv
    <2>2. CASE Flag
      BY <1>0, <2>1, <2>2, CoverKept DEF Flag, historyVars, TypeOK
    <2>3. CASE Commit \/ CloseStop \/ HubClose \/ UNCHANGED vars
      BY <1>0, <2>1, <2>3, CoverKept DEF Commit, CloseStop, HubClose, vars, ingestVars,
                                         sessionVars, historyVars
    <2>4. CASE \E t \in Sessions : Miss(t)
      BY <1>0, <2>1, <2>4, CoverKept DEF Miss, sessionVars, historyVars
    <2> QED
      BY <1>1, <2>2, <2>3, <2>4
  <1>2. ASSUME NEW n \in Names, OnNew(n) PROVE HasAll(s)'
    <2>1. /\ Len(log') = Len(log) + 1 /\ Len(log) \in Nat
          /\ \A k \in 1..Len(log) : log'[k] = log[k]
          /\ log'[Len(log) + 1] = n
      BY <1>0, <1>2, LogGrows DEF OnNew
    <2>2. /\ casting = {} /\ full = None
          /\ UNCHANGED <<full, hub, ch, drop, inHand, since, written, resynced, pc, wants>>
      BY <1>2 DEF OnNew, Unlocked, sessionVars, historyVars
    <2>3. HasAll(s)
      BY <1>0, <2>2 DEF CoverInv, Streaming
    <2>4. since[s] \in Nat /\ inHand[s] \in Numbers \cup {0} /\ ch[s] \in Seq(Numbers)
      BY <1>0 DEF TypeOK
    <2>5. \A i \in DOMAIN ch[s] : ch[s][i] \in Numbers
      BY <2>4
    <2> SUFFICES ASSUME NEW k \in Owed(s)' PROVE Covered(s, k)'
      BY DEF HasAll
    <2>6. CASE k = Len(log) + 1
      <3>1. CASE s \in hub
        BY <1>2, <2>1, <2>2, <2>6, <3>1 DEF OnNew, Owed, Covered
      <3>2. CASE s \notin hub
        BY <2>1, <2>2, <2>4, <2>5, <2>6, <3>2 DEF Covered, Late, Numbers
      <3> QED
        BY <3>1, <3>2
    <2>7. CASE k # Len(log) + 1
      <3>1. k \in Owed(s)
        BY <2>1, <2>2, <2>4, <2>7 DEF Owed
      <3>2. Covered(s, k)
        BY <2>3, <3>1 DEF HasAll
      <3>3. None # s
        OBVIOUS
      <3> QED
        BY <2>2, <3>2, <3>3 DEF Covered, Late
    <2> QED
      BY <2>6, <2>7
  <1>3. ASSUME NEW t \in Sessions, t # s,
               \/ Offer(t) \/ Serve(t) \/ WriteFails(t) \/ Disconnect(t)
               \/ \E a \in Apexes : Connect(t, a)
        PROVE  HasAll(s)'
    <2>1. /\ log' = log /\ full' = full
          /\ s \in casting' <=> s \in casting
          /\ s \in hub' <=> s \in hub
          /\ pc'[s] = pc[s] /\ wants'[s] = wants[s] /\ since'[s] = since[s]
          /\ ch'[s] = ch[s] /\ drop'[s] = drop[s] /\ inHand'[s] = inHand[s]
          /\ written'[s] = written[s] /\ resynced'[s] = resynced[s]
      BY <1>0, <1>3, OthersStay
    <2>2. HasAll(s)
      BY <1>0, <2>1 DEF CoverInv, Streaming
    <2> QED
      BY <1>0, <2>1, <2>2, CoverKept
  <1>4. CASE Offer(s)
    <2>1. s \in Streaming /\ HasAll(s) /\ s \in hub /\ Owed(s)' = Owed(s)
      BY <1>0, <1>4 DEF Offer, Streaming, CoverInv, Owed, historyVars, Inv,
                        HubHoldsOpenChannels
    <2>2. /\ ch[s] \in Seq(Numbers) /\ ch'[s] = Append(ch[s], Len(log))
      BY <1>0, <1>4 DEF Offer, TypeOK
    <2>3. /\ \A i \in DOMAIN ch[s] : i \in DOMAIN ch'[s] /\ ch'[s][i] = ch[s][i]
          /\ Len(ch[s]) + 1 \in DOMAIN ch'[s] /\ ch'[s][Len(ch[s]) + 1] = Len(log)
      BY <2>2
    <2> SUFFICES ASSUME NEW k \in Owed(s) PROVE Covered(s, k)'
      BY <2>1 DEF HasAll
    <2>4. Covered(s, k) /\ ~Late(s, k)
      BY <2>1 DEF HasAll, Late
    <2>5. UNCHANGED <<written, inHand, drop, resynced, full, log>>
      BY <1>4 DEF Offer, historyVars
    <2> QED
      BY <2>3, <2>4, <2>5 DEF Covered
  <1>5. CASE Subscribe(s)
    <2>1. Owed(s)' = {}
      BY <1>0, <1>5 DEF Subscribe, ingestVars, Owed, TypeOK
    <2> QED
      BY <2>1 DEF HasAll
  <1>6. CASE Receive(s)
    <2>1. s \in Streaming /\ HasAll(s) /\ Owed(s)' = Owed(s) /\ inHand[s] = 0
      BY <1>0, <1>6 DEF Receive, Goto, Streaming, CoverInv, Owed, ingestVars, historyVars,
                        FreshInv
    <2>2. ch[s] \in Seq(Numbers) /\ ch[s] # <<>>
      BY <1>0, <1>6 DEF Receive, TypeOK
    <2>8. inHand'[s] = Head(ch[s]) /\ ch'[s] = Tail(ch[s])
      BY <1>0, <1>6 DEF Receive, TypeOK
    <2>3. /\ inHand'[s] = ch[s][1] /\ 1 \in DOMAIN ch[s]
          /\ \A i \in DOMAIN ch'[s] :
                 i + 1 \in DOMAIN ch[s] /\ ch'[s][i] = ch[s][i + 1]
          /\ \A i \in DOMAIN ch[s] :
                 i = 1 \/ (i - 1 \in DOMAIN ch'[s] /\ ch'[s][i - 1] = ch[s][i])
      BY <2>2, <2>8
    <2> SUFFICES ASSUME NEW k \in Owed(s) PROVE Covered(s, k)'
      BY <2>1 DEF HasAll
    <2>4. Covered(s, k) /\ k # inHand[s]
      BY <1>0, <2>1 DEF HasAll, Owed, TypeOK
    <2>5. UNCHANGED <<written, drop, resynced, full, log, casting, hub>>
      BY <1>6 DEF Receive, ingestVars, historyVars
    <2>6. CASE \E i \in DOMAIN ch[s] : ch[s][i] = k
      BY <2>3, <2>6 DEF Covered
    <2>7. CASE Late(s, k)
      BY <2>3, <2>5, <2>7 DEF Covered, Late
    <2> QED
      BY <2>4, <2>5, <2>6, <2>7 DEF Covered
  <1>7. CASE Write(s)
    <2>1. s \in Streaming /\ HasAll(s) /\ Owed(s)' = Owed(s)
      BY <1>0, <1>7 DEF Write, Goto, Streaming, CoverInv, Owed, ingestVars
    <2>2. /\ inHand'[s] = 0
          /\ written'[s] = written[s] \cup {inHand[s]}
          /\ resynced'[s] = IF drop[s] THEN Len(log) ELSE resynced[s]
          /\ UNCHANGED <<ch, hub, log, casting, full>>
      BY <1>0, <1>7 DEF Write, TypeOK, ingestVars
    <2> SUFFICES ASSUME NEW k \in Owed(s) PROVE Covered(s, k)'
      BY <2>1 DEF HasAll
    <2>3. Covered(s, k) /\ 0 < k /\ k <= Len(log)
      BY <1>0, <2>1 DEF HasAll, Owed, TypeOK
    <2> QED
      BY <2>2, <2>3 DEF Covered, Late
  <1>8. CASE \/ Refuse(s) \/ TearDown(s) \/ Unsubscribe(s) \/ EndRequest(s)
             \/ WriteFails(s) \/ Disconnect(s)
             \/ \E a \in Apexes : Connect(s, a)
    BY <1>0, <1>8 DEF Refuse, TearDown, Unsubscribe, EndRequest, WriteFails, Disconnect,
       Connect, Goto, Streaming, TypeOK
  <1> QED
    BY <1>1, <1>2, <1>3, <1>4, <1>5, <1>6, <1>7, <1>8 DEF Next, LoopStep, Serve

-----------------------------------------------------------------------------
(* What holds throughout *)

\* Before the first request nothing is counted, held or owed.
LEMMA InitInv ==
    ASSUME Init
    PROVE  Inv
  <1>1. Cardinality({}) = 0 /\ Cardinality(Sessions) \in Nat
    BY FS_EmptySet, FS_CardinalityType
  <1>2. Counted = {} /\ Admitted = {} /\ Streaming = {}
    BY DEF Init, Counted, Admitted, Streaming
  <1>3. StreamsAreCounted
    <2>1. activeFeeds = Cardinality(Counted) /\ Cardinality(Admitted) <= MaxActiveFeeds
      BY <1>1, <1>2 DEF Init
    <2> QED
      BY <2>1 DEF StreamsAreCounted, Counted, Admitted
  <1>4. TypeOK
    <2>1. /\ <<>> \in Seq(Names) /\ <<>> \in Seq(Numbers) /\ Len(<<>>) = 0
          /\ 0 \in 0..Cardinality(Sessions) /\ Capacity \in Nat
      BY <1>1
    <2>2. /\ activeFeeds \in 0..Cardinality(Sessions)
          /\ log \in Seq(Names) /\ committed \in 0..Len(log)
          /\ ch \in [Sessions -> Seq(Numbers)]
          /\ \A s \in Sessions : Len(ch[s]) <= Capacity
      BY <2>1 DEF Init
    <2> QED
      BY <2>2 DEF Init, TypeOK, States
  <1>5. HubHoldsOpenChannels /\ FreshInv /\ CastInv /\ OrderInv /\ CoverInv
    BY <1>2 DEF Init, HubHoldsOpenChannels, FreshInv, CastInv, OrderInv, CoverInv
  <1> QED
    BY <1>3, <1>4, <1>5 DEF Inv

\* The parts of the invariant that the properties rest on hold throughout.
THEOREM InvariantHolds == Spec => []Inv
  <1>1. Inv /\ [Next]_vars => Inv'
    BY CountStep, TypeStep, HubStep, FreshStep, CastStep, OrderStep, CoverStep DEF Inv
  <1> QED
    BY <1>1, InitInv, PTL DEF Spec

\* handleFeed and the hub keep every variable in its range; in particular no
\* channel ever holds more than its capacity.
THEOREM TypeCorrect == Spec => []TypeOK
  <1>1. Inv => TypeOK
    BY DEF Inv
  <1> QED
    BY <1>1, InvariantHolds, PTL

\* handleFeed raises activeFeeds before it looks at it: however many requests do
\* so at once, at most maxActiveFeeds are let through, and each that has ended
\* has been taken off the count.
THEOREM StreamsStayCounted == Spec => []StreamsAreCounted
  <1>1. Inv => StreamsAreCounted
    BY DEF Inv
  <1> QED
    BY <1>1, InvariantHolds, PTL

\* Broadcast never sends on a closed channel, and neither Unsubscribe nor Close
\* closes one twice through the hub; a stream the hub let go finds its channel closed.
THEOREM HubStaysOpen == Spec => []HubHoldsOpenChannels
  <1>1. Inv => HubHoldsOpenChannels
    BY DEF Inv
  <1> QED
    BY <1>1, InvariantHolds, PTL

\* Broadcast and takeDropped, whatever the order of the two goroutines, lose no
\* name of a subscribed stream without the flag or a resync that accounts for it.
THEOREM NothingGetsForgotten == Spec => []NothingIsForgotten
  <1>1. Inv => NothingIsForgotten
    <2> SUFFICES ASSUME Inv, NEW s \in Streaming \cap hub, NEW k \in Owed(s)
                 PROVE  \/ k \in written[s]
                        \/ k = inHand[s]
                        \/ Contains(ch[s], k)
                        \/ s \in casting /\ k = Len(log)
                        \/ drop[s] \/ full = s
                        \/ k <= resynced[s]
      BY DEF NothingIsForgotten
    <2>1. Covered(s, k) /\ ~Late(s, k)
      BY DEF Inv, CoverInv, HasAll, Late
    <2>2. s \in Sessions /\ ch[s] \in Seq(Numbers)
      BY DEF Streaming, Inv, TypeOK
    <2>3. ASSUME NEW i \in DOMAIN ch[s], ch[s][i] = k PROVE Contains(ch[s], k)
      BY <2>2, <2>3 DEF Contains
    <2> QED
      BY <2>1, <2>3 DEF Covered
  <1> QED
    BY <1>1, InvariantHolds, PTL

-----------------------------------------------------------------------------
(* The refinement: Feed implements FeedStream *)

\* The variables of FeedStream, as Feed maps them.
OwedBar == [s \in Sessions |-> IF Open(s) THEN Owed(s) ELSE {}]
WrittenBar == [s \in Sessions |-> IF Open(s) THEN written[s] ELSE {}]
ToldBar == [s \in Sessions |-> IF Open(s) THEN resynced[s] ELSE 0]

\* A step that leaves each session's part of the mapping alone.
Stutter == UNCHANGED <<Len(log), OwedBar, WrittenBar, ToldBar>>

\* The same mapping, session by session.
LEMMA BarsKept ==
    ASSUME log' = log,
           \A s \in Sessions :
               /\ Open(s)' <=> Open(s)
               /\ Open(s) => /\ Owed(s)' = Owed(s)
                             /\ written'[s] = written[s]
                             /\ resynced'[s] = resynced[s]
    PROVE  Stutter
  BY DEF Stutter, OwedBar, WrittenBar, ToldBar

\* OnNew publishes the name to the open streams of its apex.
LEMMA NewPublishes ==
    ASSUME Inv, NEW n \in Names, OnNew(n)
    PROVE  Stream!Publish
  <1> DEFINE S == {s \in Sessions : Open(s) /\ wants[s] = ApexOf[n]}
  <1>1. /\ Len(log') = Len(log) + 1 /\ Len(log) \in Nat
        /\ \A k \in 1..Len(log) : log'[k] = log[k]
        /\ log'[Len(log) + 1] = n
    BY LogGrows DEF OnNew, Inv
  <1>2. UNCHANGED <<pc, wants, since, written, resynced>>
    BY DEF OnNew, sessionVars, historyVars
  <1>3. WrittenBar' = WrittenBar /\ ToldBar' = ToldBar
    BY <1>2 DEF WrittenBar, ToldBar, Open
  <1>4. ASSUME NEW s \in Sessions
        PROVE  OwedBar'[s] = OwedBar[s] \cup (IF s \in S THEN {Len(log')} ELSE {})
    <2>1. since[s] \in 0..Len(log)
      BY DEF Inv, TypeOK
    <2>2. Owed(s)' = Owed(s) \cup (IF wants[s] = ApexOf[n] THEN {Len(log')} ELSE {})
      <3>1. since[s] + 1..Len(log') = (since[s] + 1..Len(log)) \cup {Len(log')}
        BY <1>1, <2>1
      <3>2. \A k \in since[s] + 1..Len(log) : log'[k] = log[k] /\ k # Len(log')
        BY <1>1, <2>1
      <3> QED
        BY <1>1, <1>2, <3>1, <3>2 DEF Owed
    <2> QED
      BY <1>2, <2>2 DEF OwedBar, Open
  <1>5. OwedBar' = [s \in Sessions |->
                       OwedBar[s] \cup (IF s \in S THEN {Len(log')} ELSE {})]
    BY <1>4 DEF OwedBar
  <1>6. S \in SUBSET Sessions
    OBVIOUS
  <1> QED
    BY <1>1, <1>3, <1>5, <1>6 DEF Stream!Publish, OwedBar, WrittenBar, ToldBar

\* The name in hand is the next one, or a resync precedes it: what the stream has
\* not carried of the names before it lies in the past of the last resync.
LEMMA WriteIsNext ==
    ASSUME Inv, NEW s \in Sessions, Write(s)
    PROVE  Stream!Write(s)
  <1> DEFINE k == inHand[s]
  <1>1. s \in Streaming /\ pc[s] = "received" /\ Open(s)
    BY DEF Write, Goto, Streaming, Open
  <1>2. InOrder(s) /\ HasAll(s)
    BY <1>1 DEF Inv, OrderInv, CoverInv
  <1>3. /\ log' = log /\ UNCHANGED <<since, wants>>
        /\ \A t \in Sessions : Open(t)' = Open(t) /\ Owed(t)' = Owed(t)
    BY DEF Write, Goto, ingestVars, Owed, Open, Inv, TypeOK
  <1>4. OwedBar' = OwedBar
    BY <1>3 DEF OwedBar
  <1>5. WrittenBar' = [WrittenBar EXCEPT ![s] = @ \cup {k}]
    BY <1>1, <1>3 DEF Write, WrittenBar, Inv, TypeOK
  <1>6. ToldBar' = [ToldBar EXCEPT ![s] = IF drop[s] THEN Len(log) ELSE @]
    BY <1>1, <1>3 DEF Write, ToldBar, Inv, TypeOK
  <1>7. ToldBar' = [ToldBar EXCEPT ![s] = Len(log)] \/ ToldBar' = ToldBar
    BY <1>6 DEF ToldBar
  <1>8. OwedBar[s] = Owed(s) /\ WrittenBar[s] = written[s]
        /\ ToldBar'[s] = IF drop[s] THEN Len(log) ELSE resynced[s]
    BY <1>1, <1>6 DEF OwedBar, WrittenBar, ToldBar
  <1>9. k \in OwedBar[s] /\ \A w \in WrittenBar[s] : w < k
    BY <1>1, <1>2, <1>8 DEF InOrder
  <1>10. k \notin WrittenBar[s]
    <2>1. k \in Nat
      BY DEF Inv, TypeOK, Numbers
    <2> QED
      BY <1>9, <2>1
  <1>11. ASSUME NEW j \in OwedBar[s], j < k
         PROVE  j \in WrittenBar[s] \/ j <= ToldBar'[s]
    <2>1. j \in Owed(s) /\ Covered(s, j)
      BY <1>2, <1>8, <1>11 DEF HasAll
    <2>2. j \in Nat /\ j <= Len(log) /\ k \in Nat /\ k <= Len(log) /\ Len(log) \in Nat
          /\ resynced[s] \in Nat /\ resynced[s] <= Len(log)
      BY <2>1 DEF Owed, Inv, TypeOK, Numbers
    <2>3. \A i \in DOMAIN ch[s] : ch[s][i] \in Nat /\ k < ch[s][i]
      <3>1. ch[s] \in Seq(Numbers)
        BY DEF Inv, TypeOK
      <3> QED
        BY <1>2, <3>1 DEF InOrder, Numbers
    <2>4. j # Len(log) /\ ~Late(s, j) /\ j # k /\ ~(\E i \in DOMAIN ch[s] : ch[s][i] = j)
      BY <1>11, <2>2, <2>3 DEF Late
    <2>5. j \in written[s] \/ drop[s] \/ j <= resynced[s]
      BY <2>1, <2>4 DEF Covered
    <2> QED
      BY <1>8, <2>2, <2>5
  <1>12. Len(log)' = Len(log)
    BY <1>3
  <1> QED
    BY <1>4, <1>5, <1>7, <1>9, <1>10, <1>11, <1>12
       DEF Stream!Write, OwedBar, WrittenBar, ToldBar

\* Unsubscribe ends the stream.
LEMMA UnsubscribeEnds ==
    ASSUME Inv, NEW s \in Sessions, Unsubscribe(s)
    PROVE  Stream!End(s)
  <1>1. /\ log' = log /\ ~Open(s)'
        /\ \A t \in Sessions : Owed(t)' = Owed(t) /\ written'[t] = written[t]
                               /\ resynced'[t] = resynced[t]
        /\ \A t \in Sessions \ {s} : Open(t)' = Open(t)
    BY DEF Unsubscribe, Goto, ingestVars, historyVars, Owed, Open, Inv, TypeOK
  <1>2. /\ OwedBar' = [OwedBar EXCEPT ![s] = {}]
        /\ WrittenBar' = [WrittenBar EXCEPT ![s] = {}]
        /\ ToldBar' = [ToldBar EXCEPT ![s] = 0]
    BY <1>1 DEF OwedBar, WrittenBar, ToldBar
  <1> QED
    BY <1>1, <1>2 DEF Stream!End, OwedBar, WrittenBar, ToldBar

\* A subscription begins with nothing owed, written or told.
LEMMA SubscribeStutters ==
    ASSUME Inv, NEW s \in Sessions, Subscribe(s)
    PROVE  Stutter
  <1>1. /\ log' = log /\ UNCHANGED <<wants, written, resynced>>
        /\ ~Open(s) /\ Open(s)'
        /\ \A t \in Sessions \ {s} : Open(t)' = Open(t) /\ since'[t] = since[t]
    BY DEF Subscribe, Goto, ingestVars, Open, Inv, TypeOK
  <1>2. Owed(s)' = {} /\ written'[s] = {} /\ resynced'[s] = 0
    BY <1>1 DEF Subscribe, Goto, Owed, Inv, TypeOK, FreshInv
  <1>3. \A t \in Sessions \ {s} : Owed(t)' = Owed(t)
    BY <1>1 DEF Owed
  <1> QED
    BY <1>1, <1>2, <1>3 DEF Stutter, OwedBar, WrittenBar, ToldBar

\* The steps of the hub, the channels and the requests that a client does not see.
LEMMA OthersStutter ==
    ASSUME Inv,
           \/ Flag \/ Commit \/ CloseStop \/ HubClose \/ UNCHANGED vars
           \/ \E s \in Sessions :
                  \/ Offer(s) \/ Miss(s)
                  \/ \E a \in Apexes : Connect(s, a)
                  \/ Refuse(s) \/ Receive(s) \/ TearDown(s) \/ EndRequest(s)
                  \/ WriteFails(s) \/ Disconnect(s)
    PROVE  Stutter
  <1>1. CASE \/ Flag \/ Commit \/ CloseStop \/ HubClose \/ UNCHANGED vars
             \/ \E s \in Sessions : Offer(s) \/ Miss(s)
    <2>1. log' = log /\ UNCHANGED <<pc, wants, since, written, resynced>>
      BY <1>1 DEF Flag, Commit, CloseStop, HubClose, Offer, Miss, vars, ingestVars,
                  sessionVars, historyVars
    <2> QED
      BY <2>1, BarsKept DEF Owed, Open
  <1>2. ASSUME NEW s \in Sessions,
               \/ Receive(s) \/ TearDown(s) \/ WriteFails(s) \/ Disconnect(s)
        PROVE  Stutter
    <2>1. log' = log /\ UNCHANGED <<wants, since, written, resynced>>
      BY <1>2 DEF Receive, TearDown, WriteFails, Disconnect, ingestVars, historyVars
    <2>2. \E to \in {"received", "leaving"} : pc' = [pc EXCEPT ![s] = to]
      BY <1>2 DEF Receive, TearDown, WriteFails, Disconnect, Goto
    <2>3. pc[s] \in {"select", "received"}
      BY <1>2 DEF Receive, TearDown, WriteFails, Disconnect, Goto
    <2>4. pc \in [Sessions -> States]
      BY DEF Inv, TypeOK
    <2>5. \A t \in Sessions : Open(t)' <=> Open(t)
      BY <2>2, <2>3, <2>4 DEF Open
    <2> QED
      BY <2>1, <2>5, BarsKept DEF Owed
  <1>3. ASSUME NEW s \in Sessions,
               (\E a \in Apexes : Connect(s, a)) \/ Refuse(s) \/ EndRequest(s)
        PROVE  Stutter
    <2>1. log' = log
      BY <1>3 DEF Connect, Refuse, EndRequest, ingestVars
    <2>2. \A t \in Sessions \ {s} :
              /\ wants'[t] = wants[t] /\ since'[t] = since[t]
              /\ written'[t] = written[t] /\ resynced'[t] = resynced[t]
      BY <1>3 DEF Connect, Refuse, EndRequest, historyVars, Inv, TypeOK
    <2>3. /\ pc[s] \in {"idle", "refused", "left"}
          /\ pc'[s] \in {"idle", "refused", "admitted"}
          /\ \A t \in Sessions \ {s} : pc'[t] = pc[t]
      BY <1>3 DEF Connect, Refuse, EndRequest, Goto, Inv, TypeOK
    <2>4. ~Open(s) /\ ~Open(s)' /\ \A t \in Sessions \ {s} : Open(t)' <=> Open(t)
      BY <2>3 DEF Open
    <2>5. \A t \in Sessions \ {s} : Owed(t)' = Owed(t)
      BY <2>1, <2>2 DEF Owed
    <2> QED
      BY <2>1, <2>2, <2>4, <2>5, BarsKept
  <1> QED
    BY <1>1, <1>2, <1>3

\* What /v1/feed sends is what FeedStream promises: the names of an apex in the
\* order in which they were found, none twice, and no gap without a resync first.
THEOREM FeedImplementsStream == Spec => ImplementsStream
  <1>1. Init => Stream!Init
    BY DEF Init, Stream!Init, Open
  <1>2. Inv /\ [Next]_vars => [Stream!Next]_(Stream!streamVars)
    <2> SUFFICES ASSUME Inv, [Next]_vars
                 PROVE  [Stream!Next]_(Stream!streamVars)
      OBVIOUS
    <2>1. CASE \E n \in Names : OnNew(n)
      BY <2>1, NewPublishes DEF Stream!Next
    <2>2. CASE \E s \in Sessions : Write(s)
      BY <2>2, WriteIsNext DEF Stream!Next
    <2>3. CASE \E s \in Sessions : Unsubscribe(s)
      BY <2>3, UnsubscribeEnds DEF Stream!Next
    <2>4. Stutter => UNCHANGED Stream!streamVars
      BY DEF Stutter, OwedBar, WrittenBar, ToldBar, Stream!streamVars
    <2>5. CASE \E s \in Sessions : Subscribe(s)
      BY <2>4, <2>5, SubscribeStutters
    <2>6. CASE \/ Flag \/ Commit \/ CloseStop \/ HubClose \/ UNCHANGED vars
               \/ \E s \in Sessions :
                      \/ Offer(s) \/ Miss(s)
                      \/ \E a \in Apexes : Connect(s, a)
                      \/ Refuse(s) \/ Receive(s) \/ TearDown(s) \/ EndRequest(s)
                      \/ WriteFails(s) \/ Disconnect(s)
      BY <2>4, <2>6, OthersStutter
    <2> QED
      BY <2>1, <2>2, <2>3, <2>5, <2>6 DEF Next, LoopStep, Serve
  <1> QED
    BY <1>1, <1>2, InvariantHolds, PTL DEF Spec, ImplementsStream, Stream!Spec
=============================================================================
