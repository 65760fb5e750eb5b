----------------------------- MODULE MCInbound -----------------------------
(* Inbound for TLC: everything comes from one sender in one room. *)
EXTENDS Inbound

CONSTANTS k1

OneSender == [e \in Events |-> k1]
=============================================================================
