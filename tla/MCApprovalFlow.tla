--------------------------- MODULE MCApprovalFlow ---------------------------
(* Instances of ApprovalFlow for TLC: requests for one approval or for one *)
(* each, replying to the same message of the turn or to none; the server   *)
(* says when they end or does not.                                         *)
EXTENDS ApprovalFlow

CONSTANTS a1, a2, r1, r2, t1

OneId   == [r \in Requests |-> a1]
TwoIds  == [r \in Requests |-> IF r = r1 THEN a1 ELSE a2]
OneTurn == [r \in Requests |-> t1]
NoReply == [r \in Requests |-> None]
NoEnd   == [r \in Requests |-> None]
EndAt1  == [r \in Requests |-> 1]

=============================================================================
