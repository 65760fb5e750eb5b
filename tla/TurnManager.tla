----------------------------- MODULE TurnManager -----------------------------
(***************************************************************************)
(* The turn manager of the SDK (sdk/turn_manager.go): every message of a   *)
(* conversation gets a goroutine, and Run lets one at a time per key call  *)
(* the handler.                                                            *)
(*                                                                         *)
(* Each key has a gate: a channel that holds one token while nobody runs,  *)
(* and a count of those who wait for it.  The gate is made by the first    *)
(* goroutine that needs it and evicted by the last one that does not.      *)
(* tm.mu guards the map and the counts, but the token is taken and put     *)
(* back without it, and a goroutine looks up the gate in one critical      *)
(* section and counts itself in the next.  An action is one critical       *)
(* section or one operation on the channel.                                *)
(***************************************************************************)
EXTENDS Integers, FiniteSets

CONSTANTS
    Turns,      \* goroutines that call Run, one for each message
    Probes,     \* goroutines that call IsActive
    Keys,
    KeyOf,      \* the key of each goroutine
    Gates,      \* turnGate objects
    None,
    Debounces   \* DebounceMs > 0

Procs == Turns \cup Probes

ASSUME KeyAssumption  == KeyOf \in [Procs -> Keys]
ASSUME ProcAssumption == Turns \cap Probes = {}
ASSUME NoneAssumption == None \notin Gates
ASSUME DebounceAssumption == Debounces \in BOOLEAN

VARIABLES
    gates,      \* tm.gates: per key
    token,      \* per gate: its channel holds the token
    waiters,    \* per gate: g.waiters
    pc,         \* per goroutine: where it is
    gateOf,     \* per goroutine: the gate it looked up
    cancelled   \* the context of the turns is done

vars == <<gates, token, waiters, pc, gateOf, cancelled>>

\* Run, from the lookup of the gate to its eviction.
TurnPcs  == {"start", "found", "wait", "taken", "debounce", "run", "release",
             "quit", "evict", "done"}
\* IsActive: the token is tried, and put back if it was there.
ProbePcs == {"start", "found", "putBack", "done"}

\* It has the token of its gate in hand.
Holding(p) == pc[p] \in {"taken", "debounce", "run", "release", "putBack"}

Init ==
    /\ gates = [k \in Keys |-> None]
    /\ token = [g \in Gates |-> FALSE]
    /\ waiters = [g \in Gates |-> 0]
    /\ pc = [p \in Procs |-> "start"]
    /\ gateOf = [p \in Procs |-> None]
    /\ cancelled = FALSE

At(p, c)   == pc[p] = c
Goes(p, c) == pc' = [pc EXCEPT ![p] = c]

\* A new object: no key has it and no goroutine refers to it.
Fresh(g) ==
    /\ \A k \in Keys : gates[k] # g
    /\ \A p \in Procs : gateOf[p] # g

\* gate: the key's gate is g, made on demand.
Gate(p, g) ==
    LET k == KeyOf[p]
    IN  IF gates[k] # None
        THEN g = gates[k] /\ UNCHANGED <<gates, token, waiters>>
        ELSE /\ Fresh(g) /\ g = CHOOSE h \in Gates : Fresh(h)
             /\ gates' = [gates EXCEPT ![k] = g]
             /\ token' = [token EXCEPT ![g] = TRUE]
             /\ waiters' = [waiters EXCEPT ![g] = 0]

Lookup(p, g) ==
    /\ At(p, "start")
    /\ Gate(p, g)
    /\ gateOf' = [gateOf EXCEPT ![p] = g]
    /\ Goes(p, "found")
    /\ UNCHANGED cancelled

-----------------------------------------------------------------------------
(* Acquire and Run.                                                        *)

Register(p) ==
    /\ p \in Turns /\ At(p, "found")
    /\ waiters' = [waiters EXCEPT ![gateOf[p]] = @ + 1]
    /\ Goes(p, "wait")
    /\ UNCHANGED <<gates, token, gateOf, cancelled>>

\* The select of Acquire: the token, or the end of the context.
Take(p) ==
    /\ At(p, "wait")
    /\ token[gateOf[p]]
    /\ token' = [token EXCEPT ![gateOf[p]] = FALSE]
    /\ Goes(p, "taken")
    /\ UNCHANGED <<gates, waiters, gateOf, cancelled>>

GiveUp(p) ==
    /\ At(p, "wait")
    /\ cancelled
    /\ Goes(p, "quit")
    /\ UNCHANGED <<gates, token, waiters, gateOf, cancelled>>

\* Mutant: who gives up stays counted.
Unregister_Taken(p) ==
    /\ At(p, "taken") \/ At(p, "quit")
    /\ waiters' = [waiters EXCEPT ![gateOf[p]] =
                     IF At(p, "taken") THEN @ - 1 ELSE @]
    /\ Goes(p, IF At(p, "quit") THEN "evict"
               ELSE IF Debounces THEN "debounce" ELSE "run")
    /\ UNCHANGED <<gates, token, gateOf, cancelled>>

\* Either way it no longer waits.
Unregister(p) ==
    /\ At(p, "taken") \/ At(p, "quit")
    /\ waiters' = [waiters EXCEPT ![gateOf[p]] = @ - 1]
    /\ Goes(p, IF At(p, "quit") THEN "evict"
               ELSE IF Debounces THEN "debounce" ELSE "run")
    /\ UNCHANGED <<gates, token, gateOf, cancelled>>

\* The debounce window ends, or the context does.
DebounceEnds(p) ==
    /\ At(p, "debounce")
    /\ \/ Goes(p, "run")
       \/ cancelled /\ Goes(p, "release")
    /\ UNCHANGED <<gates, token, waiters, gateOf, cancelled>>

\* fn returns.
RunEnds(p) ==
    /\ At(p, "run")
    /\ Goes(p, "release")
    /\ UNCHANGED <<gates, token, waiters, gateOf, cancelled>>

\* The release function puts the token back, if the channel is empty ...
Release(p) ==
    /\ At(p, "release")
    /\ token' = [token EXCEPT ![gateOf[p]] = TRUE]
    /\ Goes(p, "evict")
    /\ UNCHANGED <<gates, waiters, gateOf, cancelled>>

\* Mutants: waiters are not looked at; nor is the token.
MayEvict_Waiters(g) == token[g]
MayEvict_Token(g) == waiters[g] = 0

MayEvict(g) == waiters[g] = 0 /\ token[g]

\* ... and evictGate removes the key's gate, whichever it is by now, unless
\* somebody waits for it or runs.  The token goes with it.
Evict(p) ==
    LET k == KeyOf[p]
        g == gates[k]
    IN  /\ At(p, "evict")
        /\ IF g # None /\ MayEvict(g)
           THEN /\ token' = [token EXCEPT ![g] = FALSE]
                /\ gates' = [gates EXCEPT ![k] = None]
           ELSE UNCHANGED <<token, gates>>
        /\ Goes(p, "done")
        /\ gateOf' = [gateOf EXCEPT ![p] = None]
        /\ UNCHANGED <<waiters, cancelled>>

\* The login's context ends.
Cancel ==
    /\ ~cancelled
    /\ cancelled' = TRUE
    /\ UNCHANGED <<gates, token, waiters, pc, gateOf>>

-----------------------------------------------------------------------------
(* IsActive.                                                               *)

\* The token is taken if it is there; if it is not, a run is reported.
Probe(p) ==
    LET g == gateOf[p]
    IN  /\ p \in Probes /\ At(p, "found")
        /\ IF token[g]
           THEN /\ token' = [token EXCEPT ![g] = FALSE]
                /\ Goes(p, "putBack")
                /\ UNCHANGED gateOf
           ELSE /\ Goes(p, "done")
                /\ gateOf' = [gateOf EXCEPT ![p] = None]
                /\ UNCHANGED token
        /\ UNCHANGED <<gates, waiters, cancelled>>

PutBack(p) ==
    /\ At(p, "putBack")
    /\ ~token[gateOf[p]]
    /\ token' = [token EXCEPT ![gateOf[p]] = TRUE]
    /\ Goes(p, "done")
    /\ gateOf' = [gateOf EXCEPT ![p] = None]
    /\ UNCHANGED <<gates, waiters, cancelled>>

-----------------------------------------------------------------------------
TurnStep(p) ==
    \/ \E g \in Gates : Lookup(p, g)
    \/ Register(p) \/ Take(p) \/ GiveUp(p) \/ Unregister(p)
    \/ DebounceEnds(p) \/ RunEnds(p) \/ Release(p) \/ Evict(p)

ProbeStep(p) ==
    \/ \E g \in Gates : Lookup(p, g)
    \/ Probe(p) \/ PutBack(p)

Next ==
    \/ \E p \in Turns : TurnStep(p)
    \/ \E p \in Probes : ProbeStep(p)
    \/ Cancel

Spec == Init /\ [][Next]_vars

(***************************************************************************)
(* Goroutines are scheduled, the handler returns and timers fire.  Nothing *)
(* makes the context end.                                                  *)
(***************************************************************************)
FairSpec ==
    /\ Spec
    /\ \A p \in Turns : WF_vars(TurnStep(p))
    /\ \A p \in Probes : WF_vars(ProbeStep(p))

-----------------------------------------------------------------------------
(* Properties.                                                             *)

\* Every variable keeps its type, and a gate counts exactly the goroutines
\* that wait for it.
Counted(g) == {p \in Turns : gateOf[p] = g /\ pc[p] \in {"wait", "taken", "quit"}}
TypeOK ==
    /\ gates \in [Keys -> Gates \cup {None}]
    /\ token \in [Gates -> BOOLEAN]
    /\ waiters \in [Gates -> Int]
    /\ \A p \in Turns : pc[p] \in TurnPcs
    /\ \A p \in Probes : pc[p] \in ProbePcs
    /\ gateOf \in [Procs -> Gates \cup {None}]
    /\ cancelled \in BOOLEAN
    /\ \A p \in Procs : gateOf[p] # None => waiters[gateOf[p]] = Cardinality(Counted(gateOf[p]))

\* Although gates come and go while goroutines still refer to them, the token
\* of a key is in one hand at most: Run calls one handler at a time per key.
OneHolder ==
    \A p, q \in Procs : Holding(p) /\ Holding(q) /\ KeyOf[p] = KeyOf[q] => p = q

\* When the last turn of a key is over its gate is gone from the map, unless
\* IsActive has been called for it.
GateIsEvicted ==
    \A k \in Keys :
        /\ \A p \in Turns : KeyOf[p] = k => At(p, "done")
        /\ \A p \in Probes : KeyOf[p] # k
        => gates[k] = None

\* A goroutine that was counted while its gate was the one of its key gets
\* its turn, or gives up with its context.
CountedTurnEnds ==
    \A p \in Turns : At(p, "wait") /\ gates[KeyOf[p]] = gateOf[p] ~> At(p, "done")

=============================================================================
