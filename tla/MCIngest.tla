------------------------------ MODULE MCIngest ------------------------------
(***************************************************************************)
(* Ingest on small logs.  MCTwoLogs: a live log with two names, and a      *)
(* frozen one with the first of them.  MCOneLog: a log with an entry that  *)
(* cannot be decoded between its names.  MCSameName: every entry has the   *)
(* same name, each time with another date.                                 *)
(***************************************************************************)
EXTENDS Ingest

CONSTANTS l1, l2, a1, b1, A

MCApexOf == [n \in Names |-> A]

Entry(date, names) == [date |-> date, names |-> names]

MCTwoLogs ==
    [l \in Logs |-> IF l = l1 THEN <<Entry(1, {a1}), Entry(1, {b1})>>
                              ELSE <<Entry(1, {a1})>>]

MCOneLog == [l \in Logs |-> <<Entry(3, {a1}), Entry(2, {}), Entry(1, {b1})>>]

MCSameName ==
    [l \in Logs |-> IF l = l1
                    THEN <<Entry(3, {a1}), Entry(2, {}), Entry(1, {a1})>>
                    ELSE <<Entry(2, {a1})>>]
=============================================================================
