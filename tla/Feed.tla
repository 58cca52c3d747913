-------------------------------- MODULE Feed --------------------------------
(***************************************************************************)
(* internal/server/feed.go: the live feed.  apply calls OnNew for every    *)
(* new name, before the batch that holds it is committed; OnNew broadcasts *)
(* the name, under the hub's lock, to the subscriptions of its apex.  Each *)
(* subscription has a channel of bounded capacity, which the goroutine     *)
(* that serves the stream empties.  A name that finds the channel full is  *)
(* dropped and the subscription is flagged; the handler sends a resync     *)
(* event the next time it receives a name.                                 *)
(*                                                                         *)
(* A session is a slot for one request at a time.  The number of a name is *)
(* its place in log.                                                       *)
(***************************************************************************)
EXTENDS Naturals, Sequences, FiniteSets, SequencesExt

CONSTANTS
    Names,
    Apexes,
    ApexOf,          \* the apex of a name
    Sessions,        \* requests for a stream, served at the same time
    MaxActiveFeeds,  \* maxActiveFeeds (128 in the code)
    Capacity,        \* of a subscription's channel (256 in the code)
    None

ASSUME FeedAssumption ==
    /\ ApexOf \in [Names -> Apexes]
    /\ MaxActiveFeeds \in Nat \ {0}
    /\ Capacity \in Nat \ {0}
    /\ IsFiniteSet(Sessions)
    /\ None \notin Sessions \cup Apexes

VARIABLES
    log,          \* the new names, in the order in which apply numbers them
    committed,    \* how many of them a flush has committed
    casting,      \* sessions the broadcast of the newest name has still to offer it to
    full,         \* session whose channel was found full, to be flagged; or None
    hub,          \* sessions whose subscription the hub holds
    closed,       \* per session, its channel is closed
    ch,           \* per session, the numbers in its channel
    drop,         \* per session, the flag
    pc,           \* per session, where its handler is
    wants,        \* per session, the apex it asked for
    inHand,       \* per session, the number received and not yet written
    activeFeeds,
    stop,         \* main has closed Stop
    since,        \* history: per session, the newest number when it subscribed
    written,      \* history: per session, the numbers its stream has carried
    resynced,     \* history: per session, the newest number at its last resync
    found         \* history: per session, the newest committed number then

ingestVars == <<log, committed, casting, full>>
sessionVars == <<hub, closed, ch, drop, pc, wants, inHand, activeFeeds>>
historyVars == <<since, written, resynced, found>>
vars == <<ingestVars, sessionVars, stop, historyVars>>

\* The hub's lock is free: Broadcast holds it from its first offer to its last.
Unlocked == casting = {} /\ full = None

-----------------------------------------------------------------------------
(* The ingest loop: OnNew, Broadcast, and the flush that comes later *)

OnNew(n) ==
    /\ Unlocked
    /\ ~Contains(log, n)
    /\ log' = Append(log, n)
    /\ casting' = {s \in hub : wants[s] = ApexOf[n]}
    /\ UNCHANGED <<committed, full, sessionVars, stop, historyVars>>

\* Mutant: the send does not look at the channel's capacity.
Offer_NoBound(s) ==
    /\ s \in casting
    /\ full = None
    /\ ch' = [ch EXCEPT ![s] = Append(@, Len(log))]
    /\ casting' = casting \ {s}
    /\ UNCHANGED <<log, committed, full, hub, closed, drop, pc, wants, inHand,
                   activeFeeds, stop, historyVars>>

Offer(s) ==
    /\ s \in casting
    /\ full = None
    /\ Len(ch[s]) < Capacity
    /\ ch' = [ch EXCEPT ![s] = Append(@, Len(log))]
    /\ casting' = casting \ {s}
    /\ UNCHANGED <<log, committed, full, hub, closed, drop, pc, wants, inHand,
                   activeFeeds, stop, historyVars>>

\* The select takes its default branch.
Miss(s) ==
    /\ s \in casting
    /\ full = None
    /\ Len(ch[s]) = Capacity
    /\ casting' = casting \ {s}
    /\ full' = s
    /\ UNCHANGED <<log, committed, sessionVars, stop, historyVars>>

\* Mutant: a name that finds the channel full is dropped and nothing is noted.
Flag_Never ==
    /\ full # None
    /\ full' = None
    /\ UNCHANGED <<log, committed, casting, sessionVars, stop, historyVars>>

Flag ==
    /\ full # None
    /\ drop' = [drop EXCEPT ![full] = TRUE]
    /\ full' = None
    /\ UNCHANGED <<log, committed, casting, hub, closed, ch, pc, wants, inHand,
                   activeFeeds, stop, historyVars>>

Commit ==
    /\ Unlocked
    /\ committed' = Len(log)
    /\ UNCHANGED <<log, casting, full, sessionVars, stop, historyVars>>

-----------------------------------------------------------------------------
(* handleFeed *)

Goto(s, from, to) == pc[s] = from /\ pc' = [pc EXCEPT ![s] = to]

\* Mutant: the stream that reaches the bound is let through.
Connect_OneMore(s, a) ==
    /\ Goto(s, "idle", IF activeFeeds > MaxActiveFeeds THEN "refused" ELSE "admitted")
    /\ activeFeeds' = activeFeeds + 1
    /\ wants' = [wants EXCEPT ![s] = a]
    /\ UNCHANGED <<ingestVars, hub, closed, ch, drop, inHand, stop, historyVars>>

\* The counter is raised first and looked at afterwards.
Connect(s, a) ==
    /\ Goto(s, "idle", IF activeFeeds + 1 > MaxActiveFeeds THEN "refused" ELSE "admitted")
    /\ activeFeeds' = activeFeeds + 1
    /\ wants' = [wants EXCEPT ![s] = a]
    /\ UNCHANGED <<ingestVars, hub, closed, ch, drop, inHand, stop, historyVars>>

Refuse(s) ==
    /\ Goto(s, "refused", "idle")
    /\ activeFeeds' = activeFeeds - 1
    /\ wants' = [wants EXCEPT ![s] = None]
    /\ UNCHANGED <<ingestVars, hub, closed, ch, drop, inHand, stop, historyVars>>

Subscribe(s) ==
    /\ Unlocked
    /\ Goto(s, "admitted", "select")
    /\ hub' = hub \cup {s}
    /\ since' = [since EXCEPT ![s] = Len(log)]
    /\ UNCHANGED <<ingestVars, closed, ch, drop, wants, inHand, activeFeeds, stop,
                   written, resynced, found>>

Receive(s) ==
    /\ Goto(s, "select", "received")
    /\ ch[s] # <<>>
    /\ inHand' = [inHand EXCEPT ![s] = Head(ch[s])]
    /\ ch' = [ch EXCEPT ![s] = Tail(@)]
    /\ UNCHANGED <<ingestVars, hub, closed, drop, wants, activeFeeds, stop, historyVars>>

\* takeDropped, then the resync event if there is one to send, then the name.
Write(s) ==
    /\ Goto(s, "received", "select")
    /\ drop' = [drop EXCEPT ![s] = FALSE]
    /\ inHand' = [inHand EXCEPT ![s] = 0]
    /\ resynced' = [resynced EXCEPT ![s] = IF drop[s] THEN Len(log) ELSE @]
    /\ found' = [found EXCEPT ![s] = IF drop[s] THEN committed ELSE @]
    /\ written' = [written EXCEPT ![s] = @ \cup {inHand[s]}]
    /\ UNCHANGED <<ingestVars, hub, closed, ch, wants, activeFeeds, stop, since>>

\* The client is gone, or the connection has reached the server's WriteTimeout.
WriteFails(s) ==
    /\ Goto(s, "received", "leaving")
    /\ drop' = [drop EXCEPT ![s] = FALSE]
    /\ inHand' = [inHand EXCEPT ![s] = 0]
    /\ UNCHANGED <<ingestVars, hub, closed, ch, wants, activeFeeds, stop, historyVars>>

\* The request's context is done, or a heartbeat could not be written.
Disconnect(s) ==
    /\ Goto(s, "select", "leaving")
    /\ UNCHANGED <<ingestVars, hub, closed, ch, drop, wants, inHand, activeFeeds,
                   stop, historyVars>>

\* Mutant: the handler looks at its channel and never at Stop.
TearDown_ChannelOnly(s) ==
    /\ closed[s] /\ ch[s] = <<>>
    /\ Goto(s, "select", "leaving")
    /\ UNCHANGED <<ingestVars, hub, closed, ch, drop, wants, inHand, activeFeeds,
                   stop, historyVars>>

\* Stop is closed, or the channel is closed and empty.
TearDown(s) ==
    /\ stop \/ (closed[s] /\ ch[s] = <<>>)
    /\ Goto(s, "select", "leaving")
    /\ UNCHANGED <<ingestVars, hub, closed, ch, drop, wants, inHand, activeFeeds,
                   stop, historyVars>>

\* Mutant: Unsubscribe does not take the hub's lock.
Unsubscribe_NoLock(s) ==
    /\ Goto(s, "leaving", "left")
    /\ hub' = hub \ {s}
    /\ closed' = [closed EXCEPT ![s] = TRUE]
    /\ UNCHANGED <<ingestVars, ch, drop, wants, inHand, activeFeeds, stop, historyVars>>

\* Closes the channel unless the hub has been closed before.
Unsubscribe(s) ==
    /\ Unlocked
    /\ Goto(s, "leaving", "left")
    /\ hub' = hub \ {s}
    /\ closed' = [closed EXCEPT ![s] = TRUE]
    /\ UNCHANGED <<ingestVars, ch, drop, wants, inHand, activeFeeds, stop, historyVars>>

\* Nothing of the subscription is left: its FeedSub is garbage, the slot free.
EndRequest(s) ==
    /\ Goto(s, "left", "idle")
    /\ activeFeeds' = activeFeeds - 1
    /\ closed' = [closed EXCEPT ![s] = FALSE]
    /\ ch' = [ch EXCEPT ![s] = <<>>]
    /\ drop' = [drop EXCEPT ![s] = FALSE]
    /\ wants' = [wants EXCEPT ![s] = None]
    /\ since' = [since EXCEPT ![s] = 0]
    /\ written' = [written EXCEPT ![s] = {}]
    /\ resynced' = [resynced EXCEPT ![s] = 0]
    /\ found' = [found EXCEPT ![s] = 0]
    /\ UNCHANGED <<ingestVars, hub, inHand, stop>>

-----------------------------------------------------------------------------
(* Shutdown: main closes Stop and then the hub *)

CloseStop ==
    /\ ~stop
    /\ stop' = TRUE
    /\ UNCHANGED <<ingestVars, sessionVars, historyVars>>

HubClose ==
    /\ stop
    /\ Unlocked
    /\ closed' = [s \in Sessions |-> closed[s] \/ s \in hub]
    /\ hub' = {}
    /\ UNCHANGED <<ingestVars, ch, drop, pc, wants, inHand, activeFeeds, stop, historyVars>>

-----------------------------------------------------------------------------

Init ==
    /\ log = <<>> /\ committed = 0
    /\ casting = {} /\ full = None
    /\ hub = {}
    /\ closed = [s \in Sessions |-> FALSE]
    /\ ch = [s \in Sessions |-> <<>>]
    /\ drop = [s \in Sessions |-> FALSE]
    /\ pc = [s \in Sessions |-> "idle"]
    /\ wants = [s \in Sessions |-> None]
    /\ inHand = [s \in Sessions |-> 0]
    /\ activeFeeds = 0
    /\ stop = FALSE
    /\ since = [s \in Sessions |-> 0]
    /\ written = [s \in Sessions |-> {}]
    /\ resynced = [s \in Sessions |-> 0]
    /\ found = [s \in Sessions |-> 0]

LoopStep == Flag \/ \E s \in Sessions : Offer(s) \/ Miss(s)

Serve(s) ==
    \/ Refuse(s) \/ Subscribe(s)
    \/ Receive(s) \/ Write(s)
    \/ TearDown(s) \/ Unsubscribe(s) \/ EndRequest(s)

Next ==
    \/ \E n \in Names : OnNew(n)
    \/ LoopStep
    \/ Commit
    \/ \E s \in Sessions :
           \/ \E a \in Apexes : Connect(s, a)
           \/ Serve(s)
           \/ WriteFails(s)
           \/ Disconnect(s)
    \/ CloseStop
    \/ HubClose

Spec == Init /\ [][Next]_vars

\* The ingest loop and the handlers are goroutines: each goes on when it can.
Fairness ==
    /\ WF_vars(LoopStep)
    /\ \A s \in Sessions : WF_vars(Serve(s))

FairSpec == Spec /\ Fairness

-----------------------------------------------------------------------------
(* Properties *)

Numbers == 1..Len(log)

States == {"idle", "refused", "admitted", "select", "received", "leaving", "left"}

TypeOK ==
    /\ log \in Seq(Names)
    /\ committed \in 0..Len(log)
    /\ casting \subseteq Sessions
    /\ full \in Sessions \cup {None}
    /\ hub \subseteq Sessions
    /\ closed \in [Sessions -> BOOLEAN]
    /\ ch \in [Sessions -> Seq(Numbers)]
    /\ \A s \in Sessions : Len(ch[s]) <= Capacity
    /\ drop \in [Sessions -> BOOLEAN]
    /\ pc \in [Sessions -> States]
    /\ wants \in [Sessions -> Apexes \cup {None}]
    /\ inHand \in [Sessions -> Numbers \cup {0}]
    /\ activeFeeds \in 0..Cardinality(Sessions)
    /\ stop \in BOOLEAN
    /\ since \in [Sessions -> 0..Len(log)]
    /\ written \in [Sessions -> SUBSET Numbers]
    /\ resynced \in [Sessions -> 0..Len(log)]
    /\ found \in [Sessions -> 0..Len(log)]

\* The names a session's stream owes it.
Owed(s) == {k \in since[s] + 1..Len(log) : ApexOf[log[k]] = wants[s]}

Streaming == {s \in Sessions : pc[s] \in {"select", "received"}}

\* Broadcast and takeDropped: whatever the order of the two goroutines, a name a
\* stream owes and has not carried is on its way to it, or came before a resync,
\* or the flag that leads to a resync is up or about to be put up.
NothingIsForgotten ==
    \A s \in Streaming \cap hub : \A k \in Owed(s) :
        \/ k \in written[s]
        \/ k = inHand[s]
        \/ Contains(ch[s], k)
        \/ s \in casting /\ k = Len(log)
        \/ drop[s] \/ full = s
        \/ k <= resynced[s]

\* The bound on streams: however many requests raise the counter at once, no
\* more than maxActiveFeeds get through, and a request that is over is not
\* counted any more.
StreamsAreCounted ==
    /\ Cardinality({s \in Sessions : pc[s] \notin {"idle", "refused"}}) <= MaxActiveFeeds
    /\ activeFeeds = Cardinality({s \in Sessions : pc[s] # "idle"})

\* Closing: the hub holds open channels only, so that Broadcast never sends on
\* a closed one and no channel is closed twice (either would panic), and a
\* stream that the hub has let go has been told.
HubHoldsOpenChannels ==
    /\ \A s \in hub : ~closed[s] /\ pc[s] \in {"select", "received", "leaving"}
    /\ casting \subseteq hub
    /\ full # None => full \in hub
    /\ \A s \in Streaming \ hub : closed[s]

\* Shutdown: once Stop is closed, every stream ends.
StopEndsStreams ==
    \A s \in Sessions : (stop /\ pc[s] = "select") ~> (pc[s] = "idle")

\* The refinement: what each request's stream owes, has carried and has told its
\* client, from Subscribe to Unsubscribe.
Open(s) == pc[s] \in {"select", "received", "leaving"}

Stream == INSTANCE FeedStream WITH
    Streams <- Sessions,
    newest <- Len(log),
    owed <- [s \in Sessions |-> IF Open(s) THEN Owed(s) ELSE {}],
    written <- [s \in Sessions |-> IF Open(s) THEN written[s] ELSE {}],
    told <- [s \in Sessions |-> IF Open(s) THEN resynced[s] ELSE 0]

\* Broadcast, the channels and handleFeed implement the streams: names in order,
\* none twice, and a resync for every gap before the next name follows it.
ImplementsStream == Stream!Spec

\* Claim (src/README.md, the API): a slow consumer gets a resync event instead
\* of silent gaps.  When everything is committed and a stream has nothing more
\* to send, each name it owes has been written or was in the database for
\* /v1/watch to find when the last resync was sent.
ResyncInsteadOfGaps ==
    Unlocked /\ committed = Len(log) =>
        \A s \in hub : pc[s] = "select" /\ ch[s] = <<>> =>
            \A k \in Owed(s) : k \in written[s] \/ k <= found[s]
=============================================================================
