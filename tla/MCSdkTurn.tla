------------------------------ MODULE MCSdkTurn ------------------------------
(* SdkTurn for TLC: the parameters are given in the .cfg. *)
EXTENDS SdkTurn
=============================================================================
