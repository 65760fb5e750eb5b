----------------------------- MODULE SerialRoom -----------------------------
(***************************************************************************)
(* What the dispatch of a room promises for the turns it dispatches,       *)
(* without saying how: one is worked on at a time.  A turn is whoever runs *)
(* it together with what it puts before the model; neither changes while   *)
(* it is live, and the next turn begins only after this one has ended.     *)
(***************************************************************************)
VARIABLE live   \* the dispatched turns in progress

Init == live = {}

Begin == live = {} /\ \E turn \in live' : live' = {turn}

End == live # {} /\ live' = {}

Next == Begin \/ End

Spec == Init /\ [][Next]_live
=============================================================================
