---------------------------- MODULE OrderedStream ----------------------------
(***************************************************************************)
(* What a stream promises its reader, whoever writes to it and whatever    *)
(* fails on the way: parts arrive in the order in which they were          *)
(* accepted, none is skipped and none arrives twice.                       *)
(***************************************************************************)
EXTENDS Naturals, Sequences

VARIABLES accepted, delivered

vars == <<accepted, delivered>>

Init == accepted = <<>> /\ delivered = <<>>

\* One part more, behind the others.
Accept ==
    /\ accepted' \in Seq(Nat)
    /\ Len(accepted') = Len(accepted) + 1
    /\ SubSeq(accepted', 1, Len(accepted)) = accepted
    /\ UNCHANGED delivered

Deliver ==
    /\ Len(delivered) < Len(accepted)
    /\ delivered' = SubSeq(accepted, 1, Len(delivered) + 1)
    /\ UNCHANGED accepted

Next == Accept \/ Deliver

Spec == Init /\ [][Next]_vars
=============================================================================
