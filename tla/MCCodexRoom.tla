---------------------------- MODULE MCCodexRoom ----------------------------
(* CodexRoom for TLC: messages of one room. *)
EXTENDS CodexRoom, TLC

CONSTANTS r1

OneRoom == [m \in Calls |-> r1]
=============================================================================
