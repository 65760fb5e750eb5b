--------------------------- MODULE MCRoomDispatch ---------------------------
(* Small rooms for RoomDispatch: the constants of its TLC runs.            *)
EXTENDS RoomDispatch

CONSTANTS m1, m2, m3, m4, w1, w2, w3, b1

\* Two threads: m2 is outside the one of m1 and m3.
MCThreadOf == [m \in Messages |-> IF m = m2 THEN "t2" ELSE "t1"]

\* Where m2 is the internal message the other two are alike.
Symmetry == Permutations(Workers) \cup Permutations(Messages \ Internal)
=============================================================================
