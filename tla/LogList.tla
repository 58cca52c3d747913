------------------------------ MODULE LogList ------------------------------
(***************************************************************************)
(* internal/loglist/loglist.go, and the tailer's Sync on its result: every *)
(* hour the process reads three lists of CT logs, any of which may fail,   *)
(* merges what it got and walks over the result, starting a tailer for     *)
(* each log it has not started yet.  A cancelled context ends the round,   *)
(* and there is no further one.                                            *)
(*                                                                         *)
(* A log of a list has an identity, perhaps an RFC 6962 endpoint, perhaps  *)
(* a monitoring endpoint, and a set of states.  "none" is the empty string *)
(* of the code: no kind, no known state.                                   *)
(***************************************************************************)
EXTENDS Naturals, Sequences, SequencesExt

CONSTANTS
    LogIds,       \* identities of logs
    Lists,        \* what a source may answer: sequences of logs
    Sources,      \* number of sources (3 in the code)
    Drain,        \* whether logs that are no longer written to are read
    MaxRefreshes, \* bound: hourly rounds
    NoId          \* the empty identity

\* statePriority, best first.
statePriority ==
    <<"usable", "qualified", "pending", "frozen", "readonly", "retired", "rejected">>

LogEntries == [id : LogIds \cup {NoId}, url : BOOLEAN, monitoring : BOOLEAN,
               states : SUBSET (ToSet(statePriority) \cup {"unknown"})]

ASSUME LogListAssumption ==
    /\ Lists \subseteq Seq(LogEntries)
    /\ {Sources, MaxRefreshes} \subseteq Nat
    /\ Drain \in BOOLEAN
    /\ NoId \notin LogIds

VARIABLES
    source,    \* sources asked in this round; Sources + 1: no round under way
    fetched,   \* how many of them have answered
    left,      \* what is still to be merged of the latest answer
    merged,    \* order and seen: the logs found so far
    read,      \* history: the entries merged in this round
    visited,   \* how many of the merged logs Sync has looked at
    started,   \* the logs for which a tailer was started
    tailers,   \* history: for each log, the state each of its tailers was started in
    offered,   \* history: for each log, the state it was to be read in, round by round
    cancelled, \* whether the context of the process is cancelled
    refreshes

syncVars == <<visited, started, tailers, offered>>

listVars == <<source, fetched, left, merged, read, syncVars, cancelled, refreshes>>

-----------------------------------------------------------------------------
(* Logs *)

Kind(lg) == IF lg.url THEN "rfc6962" ELSE IF lg.monitoring THEN "staticct" ELSE "none"

\* FetchAll leaves out what has no identity or no endpoint.
Listed(lg) == lg.id # NoId /\ Kind(lg) # "none"

\* The best of the states that are known.
BestOf(states) ==
    LET known == SelectSeq(statePriority, LAMBDA s : s \in states)
    IN  IF known = <<>> THEN "none" ELSE Head(known)

CurrentState(lg) == BestOf(lg.states)

\* Mutant: a log that is known from another list is added again.
AddLog_Again(logs, lg) ==
    IF Listed(lg) THEN Append(logs, lg) ELSE logs

\* Mutant: endpoints that an earlier list left out are not filled in.
AddLog_NoFill(logs, lg) ==
    IF ~Listed(lg) \/ \E i \in DOMAIN logs : logs[i].id = lg.id THEN logs
    ELSE Append(logs, lg)

\* FetchAll, one log: the first entry of a log counts, a later one only adds
\* an endpoint that is missing.  Its states are not looked at.
AddLog(logs, lg) ==
    IF ~Listed(lg) THEN logs
    ELSE IF \E i \in DOMAIN logs : logs[i].id = lg.id
    THEN [i \in DOMAIN logs |->
             IF logs[i].id # lg.id THEN logs[i]
             ELSE [logs[i] EXCEPT !.url = @ \/ lg.url,
                                  !.monitoring = @ \/ lg.monitoring]]
    ELSE Append(logs, lg)

-----------------------------------------------------------------------------
(* FetchAll *)

\* The next source answers.
ListAnswer(list) ==
    /\ source < Sources /\ left = <<>>
    /\ ~cancelled
    /\ source' = source + 1
    /\ fetched' = fetched + 1
    /\ left' = list
    /\ UNCHANGED <<merged, read, syncVars, cancelled, refreshes>>

\* The loop over the logs of an answer.
MergeLog ==
    /\ left # <<>>
    /\ merged' = AddLog(merged, Head(left))
    /\ read' = Append(read, Head(left))
    /\ left' = Tail(left)
    /\ UNCHANGED <<source, fetched, syncVars, cancelled, refreshes>>

\* The next source fails.
SourceFails ==
    /\ source < Sources /\ left = <<>>
    /\ source' = source + 1
    /\ UNCHANGED <<fetched, left, merged, read, syncVars, cancelled, refreshes>>

\* A signal cancels the context.
CancelContext ==
    /\ ~cancelled
    /\ cancelled' = TRUE
    /\ UNCHANGED <<source, fetched, left, merged, read, syncVars, refreshes>>

\* The sources that are left are not asked any more.
FetchCancelled ==
    /\ source < Sources /\ left = <<>>
    /\ cancelled
    /\ source' = Sources
    /\ UNCHANGED <<fetched, left, merged, read, syncVars, cancelled, refreshes>>

-----------------------------------------------------------------------------
(* Sync *)

Writable(state) == state \notin {"readonly", "frozen", "retired", "rejected"}

\* The logs that Sync follows.
Followed(lg) ==
    /\ Kind(lg) = "rfc6962"
    /\ CurrentState(lg) # "none"
    /\ Drain \/ Writable(CurrentState(lg))

\* Mutant: whether a log was started before is not asked.
ToStart_Again(lg) == Followed(lg)

ToStart(lg) == Followed(lg) /\ lg.id \notin started

\* The next of the merged logs; there is none when every source has failed.
NextLog(lg) ==
    /\ source = Sources /\ left = <<>>
    /\ visited < Len(merged) /\ lg = merged[visited + 1]
    /\ visited' = visited + 1
    /\ UNCHANGED <<source, fetched, left, merged, read, offered, cancelled, refreshes>>

\* The log gets a tailer of its own, which reads it in the state it has now.
StartLog(lg) ==
    /\ NextLog(lg)
    /\ ToStart(lg)
    /\ started' = started \cup {lg.id}
    /\ tailers' = [tailers EXCEPT ![lg.id] = Append(@, CurrentState(lg))]

PassLog(lg) ==
    /\ NextLog(lg)
    /\ ~ToStart(lg)
    /\ UNCHANGED <<started, tailers>>

Sync == \E lg \in ToSet(merged) : StartLog(lg) \/ PassLog(lg)

\* The entry of a list that says which states its log has.
IsFirst(i) ==
    /\ Listed(read[i])
    /\ \A j \in 1..(i - 1) : Listed(read[j]) => read[j].id # read[i].id

\* The states in which the answers of this round, taken together, want a log to
\* be read: that of its first entry, if any entry names an RFC 6962 endpoint.
Offers(id) ==
    {CurrentState(read[i]) :
        i \in {n \in DOMAIN read :
                 /\ IsFirst(n) /\ read[n].id = id
                 /\ \E j \in DOMAIN read : read[j].id = id /\ read[j].url
                 /\ CurrentState(read[n]) # "none"
                 /\ Drain \/ Writable(CurrentState(read[n]))}}

\* Sync returns.
EndRound ==
    /\ source = Sources /\ left = <<>> /\ visited = Len(merged)
    /\ source' = Sources + 1
    /\ offered' = [id \in LogIds |->
                      IF Offers(id) = {} THEN offered[id]
                      ELSE Append(offered[id], CHOOSE state \in Offers(id) : TRUE)]
    /\ UNCHANGED <<fetched, left, merged, read, visited, started, tailers, cancelled, refreshes>>

\* The next round, an hour later.
Refresh ==
    /\ source = Sources + 1
    /\ ~cancelled
    /\ refreshes < MaxRefreshes
    /\ refreshes' = refreshes + 1
    /\ source' = 0 /\ fetched' = 0
    /\ merged' = <<>> /\ read' = <<>> /\ visited' = 0
    /\ UNCHANGED <<left, started, tailers, offered, cancelled>>

-----------------------------------------------------------------------------

ListInit ==
    /\ source = 0 /\ fetched = 0
    /\ left = <<>> /\ merged = <<>> /\ read = <<>>
    /\ visited = 0 /\ started = {}
    /\ tailers = [id \in LogIds |-> <<>>]
    /\ offered = [id \in LogIds |-> <<>>]
    /\ cancelled = FALSE
    /\ refreshes = 1

ListNext ==
    \/ \E list \in Lists : ListAnswer(list)
    \/ MergeLog
    \/ SourceFails
    \/ CancelContext
    \/ FetchCancelled
    \/ Sync
    \/ EndRound
    \/ Refresh

ListSpec == ListInit /\ [][ListNext]_listVars

-----------------------------------------------------------------------------
(* Properties *)

\* FetchAll: each log that the answers name with an endpoint is in the merged
\* list exactly once, with every endpoint that any of them gives it, and no other.
MergedIsTheUnion ==
    \A id \in LogIds :
        LET given == {i \in DOMAIN read : read[i].id = id /\ Listed(read[i])}
            found == {i \in DOMAIN merged : merged[i].id = id}
        IN  IF given = {} THEN found = {}
            ELSE \E f \in DOMAIN merged :
                     /\ found = {f}
                     /\ merged[f].url <=> \E i \in given : read[i].url
                     /\ merged[f].monitoring <=> \E i \in given : read[i].monitoring

\* Sync: after a round, every log that one of its answers gives an RFC 6962
\* endpoint is followed if its first entry has a state that is followed,
\* whichever of the other sources failed and whatever the round before said.
ListedLogsAreFollowed ==
    source = Sources + 1 => \A id \in LogIds : Offers(id) # {} => id \in started

\* Sync: over all rounds, however the lists change, fail or leave a log out, a log
\* gets one tailer, in the first round whose answers want it read and in the state
\* they give it; no later round starts a second one, which would send the names of
\* the log twice and move its watermark from two places.
OneTailerPerLog ==
    source = Sources + 1 =>
        \A id \in LogIds :
            tailers[id] = IF offered[id] = <<>> THEN <<>> ELSE <<Head(offered[id])>>
=============================================================================
