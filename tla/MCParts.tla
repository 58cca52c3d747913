------------------------------ MODULE MCParts ------------------------------
(***************************************************************************)
(* The parts that share nothing with the store or with each other, each on *)
(* all small inputs.  Of internal/server: the limiter, on one shard for    *)
(* which its keys compete, and the cache of /v1/stats.  Of the way from a  *)
(* CT log to a record: the log lists, the proofs, the entries, the names.  *)
(* Each behaviour is about one of them; the others stay where they begin.  *)
(***************************************************************************)
EXTENDS Limiter, StatsCache, Merkle, LogList, Entry, HostNames

VARIABLE part  \* what this behaviour is about

-----------------------------------------------------------------------------
(* The limiter *)

CONSTANT s1

MCShardOf == [k \in Keys |-> s1]

-----------------------------------------------------------------------------
(* Log lists *)

CONSTANTS x, y

Log(id, url, monitoring, states) ==
    [id |-> id, url |-> url, monitoring |-> monitoring, states |-> states]

\* The log x changes from list to list and may lack an endpoint or a known state,
\* y does not; one entry has no identity.
MCLists ==
    {<<>>}
    \cup {<<Log(x, u, m, s)>> :
             u \in BOOLEAN, m \in BOOLEAN,
             s \in {{"usable"}, {"retired", "qualified"}, {"frozen"}, {"unknown"}}}
    \cup {<<Log(y, TRUE, FALSE, {"usable"}), Log(x, u, TRUE, {"retired"})>> : u \in BOOLEAN}
    \cup {<<Log(NoId, TRUE, FALSE, {"usable"})>>}

-----------------------------------------------------------------------------
(* Entries *)

NoList == [scts |-> <<>>, tail |-> <<>>, claimed |-> 0, wrapped |-> FALSE]

ListOf(scts) == [NoList EXCEPT !.scts = scts]

MCSCTLists ==
    {NoList, ListOf(<<<<3>>>>), ListOf(<<<<700>>, <<3>>>>), ListOf(<<<<-2>>, <<9>>>>),
     ListOf(<<<<3>>, <<>>, <<2>>>>)}
    \cup {[ListOf(<<<<7>>, <<3>>>>) EXCEPT !.tail = t, !.claimed = c, !.wrapped = w] :
             t \in {<<>>, <<5>>, <<0, 9, 0, 0, 0, 0, 0, 1>>}, c \in {0, 1}, w \in BOOLEAN}

Name(tag, length) == [tag |-> tag, body |-> [i \in 1..length |-> 97]]

MCLeaves ==
    [kind : {0, 1}, stamp : {-1, 0, 5}, list : MCSCTLists, chopped : {0},
     sans : {<<>>, <<Name(DNSName, 1)>>,
             <<Name(129, 2), Name(DNSName, 150), Name(DNSName, 120)>>}]
    \cup [kind : {0, 1, 2}, stamp : {5}, list : {ListOf(<<<<3>>>>)}, chopped : 0..3,
          sans : {<<Name(DNSName, 1)>>}]

MCCuts(lf) ==
    IF lf.stamp = 5 /\ lf.list.scts # <<>> /\ Len(lf.sans) = 1 THEN 0..Len(Encoded(lf)) ELSE {0}

-----------------------------------------------------------------------------
(* Names *)

MCPublicSuffixes == {<<"com">>, <<"a", "com">>, <<"arpa">>, <<"home", "arpa">>}

MCLower == [l \in Labels |-> IF l = "A" THEN "a" ELSE l]

MCAscii ==
    [l \in Labels |-> CASE l \in {"*", "_", "ctl"} -> ""
                        [] l = "A"   -> "a"
                        [] l = "uni" -> "xn"
                        [] OTHER     -> l]

MCSpecial == {<<"local">>, <<"home", "arpa">>}

-----------------------------------------------------------------------------

partsVars == <<vars, statsVars, merkleVars, listVars, entryVars, hostVars>>

\* Where each part is while a behaviour is about another one.
AtRest(p) ==
    CASE p = "limiter" -> Init
      [] p = "stats"   -> StatsInit
      [] p = "proofs"  -> /\ size = 0 /\ index = 0 /\ leaf = Short /\ path = <<>>
                          /\ fn = 0 /\ sn = 0 /\ r = Short /\ verdict = "elsewhere"
      [] p = "lists"   -> ListInit
      [] p = "entries" -> /\ given = "none" /\ entry = <<>>
                          /\ decoded = Undecided /\ dated = <<>>
      [] p = "names"   -> host = <<>> /\ stored = <<>>

Begins(p) ==
    CASE p = "proofs"  -> MerkleInit
      [] p = "entries" -> EntryInit
      [] p = "names"   -> HostInit
      [] OTHER         -> AtRest(p)

Parts == {"limiter", "stats", "proofs", "lists", "entries", "names"}

MCInit ==
    /\ part \in Parts
    /\ \A p \in Parts : IF p = part THEN Begins(p) ELSE AtRest(p)

MCNext ==
    /\ UNCHANGED part
    /\ \/ /\ part = "limiter" /\ Next
          /\ UNCHANGED <<statsVars, merkleVars, listVars, entryVars, hostVars>>
       \/ /\ part = "stats" /\ StatsNext
          /\ UNCHANGED <<vars, merkleVars, listVars, entryVars, hostVars>>
       \/ /\ part = "proofs" /\ MerkleNext
          /\ UNCHANGED <<vars, statsVars, listVars, entryVars, hostVars>>
       \/ /\ part = "lists" /\ ListNext
          /\ UNCHANGED <<vars, statsVars, merkleVars, entryVars, hostVars>>
       \/ /\ part = "entries" /\ EntryNext
          /\ UNCHANGED <<vars, statsVars, merkleVars, listVars, hostVars>>
       \/ /\ part = "names" /\ HostNext
          /\ UNCHANGED <<vars, statsVars, merkleVars, listVars, entryVars>>

MCSpec == MCInit /\ [][MCNext]_<<partsVars, part>>
=============================================================================
