----------------------------- MODULE OneVerdict -----------------------------
(***************************************************************************)
(* What the owner of a room may rely on when looking at approval prompts:  *)
(* a prompt message shows one verdict at most, and never changes it.       *)
(***************************************************************************)
CONSTANTS Prompts, Verdicts

VARIABLE shown  \* per prompt message: the verdicts it has shown

Init == shown = [m \in Prompts |-> {}]

Show(m, d) ==
    /\ shown[m] = {}
    /\ shown' = [shown EXCEPT ![m] = {d}]

Next == \E m \in Prompts, d \in Verdicts : Show(m, d)

Spec == Init /\ [][Next]_shown
=============================================================================
