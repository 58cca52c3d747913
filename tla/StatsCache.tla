----------------------------- MODULE StatsCache -----------------------------
(***************************************************************************)
(* internal/server/server.go, handleStats: an answer of /v1/stats is kept  *)
(* for a while under the number n of apexes asked for.  The mutex covers   *)
(* the look at the cache and the storing of an answer, not the two reads   *)
(* of the store in between, so that requests that miss compute at the same *)
(* time, and an answer is stamped with the time at which it is stored.     *)
(*                                                                         *)
(* Of an answer only the time of its first read is kept: its data is that  *)
(* of the store at that time or later.                                     *)
(***************************************************************************)
EXTENDS Naturals, FiniteSetsExt

CONSTANTS
    Tops,            \* values of n
    StatsRequests,   \* handlers at work at the same time
    StatsTTL,        \* statsCacheTTL
    LastTick,        \* bound: the clock
    NoEntry

ASSUME StatsAssumption == {StatsTTL, LastTick} \subseteq Nat

VARIABLES
    tick,        \* the clock
    statsCache,  \* per n, the stored answer: the time of its data and its stamp
    step,        \* per request, where its handler is
    asks,        \* per request, its n
    data,        \* per request, the time of its first read
    freshest,      \* history: per n, the newest data of an answer given
    slowest      \* history: the longest time an answer took from read to stamp

statsVars == <<tick, statsCache, step, asks, data, freshest, slowest>>

\* The age of the answer stored for n is below the limit.
Fresh(n) == statsCache[n] # NoEntry /\ tick - statsCache[n].at < StatsTTL

-----------------------------------------------------------------------------

StatsTick ==
    /\ tick < LastTick
    /\ tick' = tick + 1
    /\ UNCHANGED <<statsCache, step, asks, data, freshest, slowest>>

\* Mutant: an answer found in the cache is stamped again.
Hit_Touch(q, n) ==
    /\ step[q] = "idle" /\ Fresh(n)
    /\ statsCache' = [statsCache EXCEPT ![n].at = tick]
    /\ freshest' = [freshest EXCEPT ![n] = Max({@, statsCache[n].data})]
    /\ UNCHANGED <<tick, step, asks, data, slowest>>

\* Answered from the cache.
Hit(q, n) ==
    /\ step[q] = "idle" /\ Fresh(n)
    /\ freshest' = [freshest EXCEPT ![n] = Max({@, statsCache[n].data})]
    /\ UNCHANGED <<tick, statsCache, step, asks, data, slowest>>

Miss(q, n) ==
    /\ step[q] = "idle" /\ ~Fresh(n)
    /\ step' = [step EXCEPT ![q] = "total"]
    /\ asks' = [asks EXCEPT ![q] = n]
    /\ UNCHANGED <<tick, statsCache, data, freshest, slowest>>

ReadTotal(q) ==
    /\ step[q] = "total"
    /\ step' = [step EXCEPT ![q] = "top"]
    /\ data' = [data EXCEPT ![q] = tick]
    /\ UNCHANGED <<tick, statsCache, asks, freshest, slowest>>

\* A read fails: an error is answered and nothing is stored.
StatsFails(q) ==
    /\ step[q] \in {"total", "top"}
    /\ step' = [step EXCEPT ![q] = "idle"]
    /\ UNCHANGED <<tick, statsCache, asks, data, freshest, slowest>>

\* TopApprox is read, the answer stored, whatever has been stored meanwhile,
\* and given.
Put(q) ==
    /\ step[q] = "top"
    /\ step' = [step EXCEPT ![q] = "idle"]
    /\ statsCache' = [statsCache EXCEPT ![asks[q]] = [data |-> data[q], at |-> tick]]
    /\ freshest' = [freshest EXCEPT ![asks[q]] = Max({@, data[q]})]
    /\ slowest' = Max({slowest, tick - data[q]})
    /\ UNCHANGED <<tick, asks, data>>

StatsInit ==
    /\ tick = 0
    /\ statsCache = [n \in Tops |-> NoEntry]
    /\ step = [q \in StatsRequests |-> "idle"]
    /\ asks = [q \in StatsRequests |-> NoEntry]
    /\ data = [q \in StatsRequests |-> 0]
    /\ freshest = [n \in Tops |-> 0]
    /\ slowest = 0

StatsNext ==
    \/ StatsTick
    \/ \E q \in StatsRequests :
           \/ \E n \in Tops : Hit(q, n) \/ Miss(q, n)
           \/ ReadTotal(q) \/ StatsFails(q) \/ Put(q)

StatsSpec == StatsInit /\ [][StatsNext]_statsVars

-----------------------------------------------------------------------------

\* handleStats: an answer from the cache, also one that a slow request has put
\* in the place of a newer one, is younger than statsCacheTTL and the time its
\* computation took; for a client that asks again and again the numbers go back
\* by no more than that time.
CachedAnswersAreRecent ==
    \A n \in Tops : Fresh(n) =>
        /\ tick - statsCache[n].data < StatsTTL + slowest
        /\ statsCache[n].data + slowest >= freshest[n]
=============================================================================
