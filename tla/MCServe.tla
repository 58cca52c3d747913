------------------------------ MODULE MCServe ------------------------------
(* Serve with the names of one apex, in the order of their keys. *)
EXTENDS Serve

CONSTANTS a1, a2, a3, A

MCApexOf == [n \in Names |-> A]
MCWants == [r \in Clients |-> A]
MCKeyOrder == SelectSeq(<<a1, a2, a3>>, LAMBDA n : n \in Names)
=============================================================================
