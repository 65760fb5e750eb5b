---------------------------- MODULE MCTurnManager ----------------------------
(* Three messages of one key, and for another key a message and a probe.   *)
EXTENDS TurnManager

CONSTANTS t1, t2, t3, t4, p1, k1, k2

MCKeyOf == [p \in Procs |-> IF p \in {t4, p1} THEN k2 ELSE k1]
=============================================================================
