---------------------------- MODULE MCLiveClient ----------------------------
(* LiveClient for an apex that has names and, if there is one, an apex that has none. *)
EXTENDS LiveClient

CONSTANTS a1

MCApexOf == [n \in Names |-> a1]
=============================================================================
