-------------------------- MODULE TurnManagerProofs --------------------------
(***************************************************************************)
(* Theorems about TurnManager, for any goroutines, keys and gates.         *)
(*                                                                         *)
(* That a key has one holder depends on the life of its gates: a gate that *)
(* was evicted has lost its token for good, so whoever still waits for it  *)
(* never becomes a holder, and a gate is not evicted while its token is in *)
(* somebody's hand.  The invariant says so.                                *)
(*                                                                         *)
(* That the last turn evicts the gate depends on its count and its token:  *)
(* a gate counts those who wait for it, although they were counted in an-  *)
(* other critical section than the one that found it, and one in the map   *)
(* has its token or a holder.                                              *)
(***************************************************************************)
EXTENDS TurnManager, FiniteSetTheorems, TLAPS

Types ==
    /\ gates \in [Keys -> Gates \cup {None}]
    /\ token \in [Gates -> BOOLEAN]
    /\ pc \in [Procs -> TurnPcs \cup ProbePcs]
    /\ gateOf \in [Procs -> Gates \cup {None}]

\* Who is past the lookup refers to a gate.
HasGate == \A p \in Procs : pc[p] \notin {"start", "done"} => gateOf[p] # None

\* No two keys share a gate, and nobody refers to the gate of another key.
GateHasOneKey ==
    /\ \A k, l \in Keys : gates[k] # None /\ gates[k] = gates[l] => k = l
    /\ \A p \in Procs, k \in Keys :
          gateOf[p] # None /\ gateOf[p] = gates[k] => KeyOf[p] = k

\* Only a gate in the map has a token to give.
TokenIsReachable == \A g \in Gates : token[g] => \E k \in Keys : gates[k] = g

\* The gate of a holder is in the map, without its token.
HolderKeepsGate ==
    \A p \in Procs : Holding(p) =>
        /\ gates[KeyOf[p]] = gateOf[p]
        /\ ~token[gateOf[p]]

IInv ==
    /\ Types /\ HasGate /\ GateHasOneKey
    /\ TokenIsReachable /\ HolderKeepsGate /\ OneHolder

\* What the invariant reads.
control == <<gates, token, pc, gateOf>>

LEMMA IInvUnchanged == IInv /\ UNCHANGED control => IInv'
BY DEF IInv, control, Types, HasGate, GateHasOneKey, TokenIsReachable,
       HolderKeepsGate, OneHolder, Holding

\* Initially there are no gates.
LEMMA InitIInv == Init => IInv
BY DEF Init, IInv, Types, HasGate, GateHasOneKey, TokenIsReachable,
       HolderKeepsGate, OneHolder, Holding, TurnPcs

\* A goroutine that moves on without touching gates and tokens, and without
\* coming to hold one.
LEMMA MovesOn ==
    ASSUME IInv, NEW p \in Procs, NEW c \in (TurnPcs \cup ProbePcs) \ {"start"},
           Goes(p, c), UNCHANGED <<gates, token>>,
           ~At(p, "start"), ~At(p, "done"),
           \/ UNCHANGED gateOf
           \/ c = "done" /\ gateOf' = [gateOf EXCEPT ![p] = None],
           c \in {"taken", "debounce", "run", "release", "putBack"} => Holding(p)
    PROVE  IInv'
<1> USE DEF Goes, At, IInv, Types
<1>1. Types'
  OBVIOUS
<1>2. HasGate'
  BY DEF HasGate
<1>3. GateHasOneKey'
  BY DEF GateHasOneKey
<1>4. TokenIsReachable'
  BY DEF TokenIsReachable
<1>5. \A q \in Procs : Holding(q)' => Holding(q) /\ gateOf'[q] = gateOf[q]
  BY DEF Holding
<1>6. HolderKeepsGate'
  BY <1>5 DEF HolderKeepsGate
<1>7. OneHolder'
  BY <1>5 DEF OneHolder
<1> QED
  BY <1>1, <1>2, <1>3, <1>4, <1>6, <1>7

\* Looking up the gate of a key, which may make one.
LEMMA LookupIInv ==
    ASSUME IInv, NEW p \in Procs, NEW g \in Gates, Lookup(p, g)
    PROVE  IInv'
<1> USE DEF Goes, At, IInv, Types, Lookup, Gate
<1>1. KeyOf[p] \in Keys
  BY KeyAssumption
<1>2. g # None
  BY NoneAssumption
<1>3. Types'
  BY <1>1 DEF TurnPcs
<1>4. HasGate'
  BY <1>2 DEF HasGate
<1>5. CASE gates[KeyOf[p]] # None
  <2>1. UNCHANGED <<gates, token>> /\ g = gates[KeyOf[p]]
    BY <1>5
  <2>2. GateHasOneKey'
    BY <2>1, <1>1, <1>2 DEF GateHasOneKey
  <2>3. TokenIsReachable'
    BY <2>1 DEF TokenIsReachable
  <2>4. \A q \in Procs : Holding(q)' => Holding(q) /\ gateOf'[q] = gateOf[q]
    BY DEF Holding
  <2>5. HolderKeepsGate' /\ OneHolder'
    BY <2>1, <2>4 DEF HolderKeepsGate, OneHolder
  <2> QED
    BY <2>2, <2>3, <2>5, <1>3, <1>4
<1>6. CASE gates[KeyOf[p]] = None
  <2>1. /\ Fresh(g)
        /\ gates' = [gates EXCEPT ![KeyOf[p]] = g]
        /\ token' = [token EXCEPT ![g] = TRUE]
    BY <1>6
  <2>2. GateHasOneKey'
    BY <2>1, <1>1, <1>2 DEF GateHasOneKey, Fresh
  <2>3. TokenIsReachable'
    <3>1. SUFFICES ASSUME NEW h \in Gates, token'[h]
                   PROVE  \E k \in Keys : gates'[k] = h
      BY DEF TokenIsReachable
    <3>2. CASE h = g
      BY <3>2, <2>1, <1>1
    <3>3. CASE h # g
      <4>1. PICK k \in Keys : gates[k] = h
        BY <3>1, <3>3, <2>1 DEF TokenIsReachable
      <4>2. gates'[k] = h
        BY <4>1, <2>1, <1>1, <1>6, NoneAssumption
      <4> QED
        BY <4>2
    <3> QED
      BY <3>2, <3>3
  <2>4. \A q \in Procs : Holding(q)' => Holding(q) /\ gateOf'[q] = gateOf[q]
    BY DEF Holding
  <2>5. \A q \in Procs : Holding(q) => gateOf[q] # g /\ KeyOf[q] # KeyOf[p]
    BY <2>1, <1>6 DEF Fresh, HolderKeepsGate, HasGate, Holding
  <2>6. HolderKeepsGate'
    BY <2>1, <2>4, <2>5, KeyAssumption, NoneAssumption DEF HolderKeepsGate, HasGate, Holding
  <2>7. OneHolder'
    BY <2>4 DEF OneHolder
  <2> QED
    BY <2>2, <2>3, <2>6, <2>7, <1>3, <1>4
<1> QED
  BY <1>5, <1>6

\* The token of the gate is there and the goroutine takes it.
LEMMA TakesToken ==
    ASSUME IInv, NEW p \in Procs, NEW c \in {"taken", "putBack"},
           At(p, "wait") \/ At(p, "found"), token[gateOf[p]],
           token' = [token EXCEPT ![gateOf[p]] = FALSE], Goes(p, c),
           UNCHANGED <<gates, gateOf>>
    PROVE  IInv'
<1> USE DEF Goes, At, IInv, Types
<1>1. gateOf[p] \in Gates /\ KeyOf[p] \in Keys
  BY KeyAssumption DEF HasGate
<1>2. gates[KeyOf[p]] = gateOf[p]
  BY <1>1, NoneAssumption DEF TokenIsReachable, GateHasOneKey
<1>3. \A q \in Procs : Holding(q) => KeyOf[q] # KeyOf[p]
  BY <1>1, <1>2 DEF HolderKeepsGate
<1>4. \A q \in Procs : Holding(q)' <=> Holding(q) \/ q = p
  BY DEF Holding
<1>5. Types' /\ HasGate' /\ GateHasOneKey'
  BY DEF HasGate, GateHasOneKey, TurnPcs, ProbePcs
<1>6. TokenIsReachable'
  BY DEF TokenIsReachable
<1>7. HolderKeepsGate'
  BY <1>1, <1>2, <1>4 DEF HolderKeepsGate, HasGate, Holding
<1>8. OneHolder'
  BY <1>3, <1>4 DEF OneHolder
<1> QED
  BY <1>5, <1>6, <1>7, <1>8

\* The holder puts the token back.
LEMMA PutsToken ==
    ASSUME IInv, NEW p \in Procs, Holding(p), NEW c \in {"evict", "done"},
           token' = [token EXCEPT ![gateOf[p]] = TRUE], Goes(p, c),
           UNCHANGED gates,
           \/ UNCHANGED gateOf
           \/ c = "done" /\ gateOf' = [gateOf EXCEPT ![p] = None]
    PROVE  IInv'
<1> USE DEF Goes, At, IInv, Types
<1>1. gateOf[p] \in Gates /\ KeyOf[p] \in Keys
  BY KeyAssumption DEF HasGate, Holding
<1>2. gates[KeyOf[p]] = gateOf[p]
  BY DEF HolderKeepsGate
<1>3. \A q \in Procs : Holding(q)' => Holding(q) /\ q # p /\ gateOf'[q] = gateOf[q]
  BY DEF Holding
<1>4. \A q \in Procs : Holding(q)' => gateOf[q] # gateOf[p]
  BY <1>1, <1>2, <1>3, KeyAssumption DEF HolderKeepsGate, OneHolder, GateHasOneKey, HasGate, Holding
<1>5. Types' /\ HasGate' /\ GateHasOneKey'
  BY DEF HasGate, GateHasOneKey, TurnPcs, ProbePcs, Holding
<1>6. TokenIsReachable'
  BY <1>1, <1>2 DEF TokenIsReachable
<1>7. HolderKeepsGate'
  BY <1>1, <1>3, <1>4 DEF HolderKeepsGate
<1>8. OneHolder'
  BY <1>3 DEF OneHolder
<1> QED
  BY <1>5, <1>6, <1>7, <1>8

\* Eviction takes the gate's token out of the world.
LEMMA EvictIInv ==
    ASSUME IInv, NEW p \in Procs, Evict(p)
    PROVE  IInv'
<1> USE DEF Goes, At, IInv, Types, Evict
<1> DEFINE g == gates[KeyOf[p]]
<1>1. KeyOf[p] \in Keys
  BY KeyAssumption
<1>2. CASE g # None /\ MayEvict(g)
  <2>1. /\ g \in Gates /\ token[g]
        /\ token' = [token EXCEPT ![g] = FALSE]
        /\ gates' = [gates EXCEPT ![KeyOf[p]] = None]
    BY <1>1, <1>2 DEF MayEvict
  <2>2. \A q \in Procs : Holding(q) => KeyOf[q] # KeyOf[p]
    BY <2>1 DEF HolderKeepsGate
  <2>3. \A q \in Procs : Holding(q)' => Holding(q) /\ gateOf'[q] = gateOf[q]
    BY DEF Holding
  <2>4. Types' /\ HasGate' /\ GateHasOneKey'
    BY <2>1, <1>1 DEF HasGate, GateHasOneKey, TurnPcs
  <2>5. TokenIsReachable'
    BY <2>1, <1>1 DEF TokenIsReachable
  <2>6. HolderKeepsGate'
    BY <2>1, <2>2, <2>3, KeyAssumption DEF HolderKeepsGate, HasGate, Holding
  <2>7. OneHolder'
    BY <2>3 DEF OneHolder
  <2> QED
    BY <2>4, <2>5, <2>6, <2>7
<1>3. CASE ~(g # None /\ MayEvict(g))
  BY <1>3, MovesOn DEF TurnPcs
<1> QED
  BY <1>2, <1>3

\* Every step preserves the invariant.
LEMMA NextIInv == IInv /\ [Next]_vars => IInv'
<1> SUFFICES ASSUME IInv, [Next]_vars PROVE IInv'
  OBVIOUS
<1>1. ASSUME NEW p \in Turns, TurnStep(p) PROVE IInv'
  <2> p \in Procs
    BY DEF Procs
  <2>1. ASSUME NEW g \in Gates, Lookup(p, g) PROVE IInv'
    BY <2>1, LookupIInv
  <2>2. CASE Register(p)
    BY <2>2, MovesOn DEF Register, At, TurnPcs
  <2>3. CASE Take(p)
    BY <2>3, TakesToken DEF Take
  <2>4. CASE GiveUp(p)
    BY <2>4, MovesOn DEF GiveUp, At, TurnPcs
  <2>5. CASE Unregister(p)
    BY <2>5, MovesOn DEF Unregister, At, TurnPcs, Holding
  <2>6. CASE DebounceEnds(p)
    BY <2>6, MovesOn DEF DebounceEnds, At, TurnPcs, Holding
  <2>7. CASE RunEnds(p)
    BY <2>7, MovesOn DEF RunEnds, At, TurnPcs, Holding
  <2>8. CASE Release(p)
    BY <2>8, PutsToken DEF Release, At, Holding
  <2>9. CASE Evict(p)
    BY <2>9, EvictIInv
  <2> QED
    BY <1>1, <2>1, <2>2, <2>3, <2>4, <2>5, <2>6, <2>7, <2>8, <2>9 DEF TurnStep
<1>2. ASSUME NEW p \in Probes, ProbeStep(p) PROVE IInv'
  <2> p \in Procs
    BY DEF Procs
  <2>1. ASSUME NEW g \in Gates, Lookup(p, g) PROVE IInv'
    BY <2>1, LookupIInv
  <2>2. CASE Probe(p)
    <3>1. CASE token[gateOf[p]]
      BY <2>2, <3>1, TakesToken DEF Probe
    <3>2. CASE ~token[gateOf[p]]
      BY <2>2, <3>2, MovesOn DEF Probe, At, ProbePcs
    <3> QED
      BY <3>1, <3>2
  <2>3. CASE PutBack(p)
    BY <2>3, PutsToken DEF PutBack, At, Holding
  <2> QED
    BY <1>2, <2>1, <2>2, <2>3 DEF ProbeStep
<1>3. CASE Cancel
  BY <1>3, IInvUnchanged DEF Cancel, control
<1>4. CASE UNCHANGED vars
  BY <1>4, IInvUnchanged DEF vars, control
<1> QED
  BY <1>1, <1>2, <1>3, <1>4 DEF Next

\* In every reachable state evicted gates have no token, the gates of holders
\* are in the map, and a key has one holder at most.
THEOREM SpecIInv == Spec => []IInv
<1>1. IInv /\ [Next]_vars => IInv'
  BY NextIInv
<1> QED
  BY InitIInv, <1>1, PTL DEF Spec

\* Run never calls two handlers of one key at the same time, whatever gates
\* are made and evicted meanwhile.
THEOREM SpecOneHolder == Spec => []OneHolder
<1>1. IInv => OneHolder
  BY DEF IInv
<1> QED
  BY SpecIInv, <1>1, PTL

-----------------------------------------------------------------------------
(* Counts and eviction.                                                    *)

MoreTypes ==
    /\ waiters \in [Gates -> Int]
    /\ \A p \in Turns : pc[p] \in TurnPcs
    /\ \A p \in Probes : pc[p] \in ProbePcs
    /\ cancelled \in BOOLEAN

\* A gate counts those who wait for it, in the map or not.
CountsAreExact ==
    \A g \in Gates : IsFiniteSet(Counted(g)) /\ waiters[g] = Cardinality(Counted(g))

\* A gate in the map has its token, or somebody has it in hand.
TokenOrHolder ==
    \A k \in Keys : gates[k] # None =>
        token[gates[k]] \/ \E p \in Procs : Holding(p) /\ gateOf[p] = gates[k]

EInv == MoreTypes /\ CountsAreExact /\ TokenOrHolder /\ GateIsEvicted

LEMMA InitEInv == Init => EInv
<1> SUFFICES ASSUME Init PROVE EInv
  OBVIOUS
<1>1. MoreTypes
  <2>1. /\ waiters = [g \in Gates |-> 0] /\ cancelled = FALSE
        /\ \A p \in Procs : pc[p] = "start"
    BY DEF Init
  <2>2. Turns \subseteq Procs /\ Probes \subseteq Procs
    BY DEF Procs
  <2>3. cancelled \in BOOLEAN
    BY <2>1, Zenon
  <2> QED
    BY <2>1, <2>2, <2>3 DEF MoreTypes, TurnPcs, ProbePcs
<1>2. \A g \in Gates : Counted(g) = {} /\ waiters[g] = 0
  BY DEF Init, Counted, Procs
<1> QED
  BY <1>1, <1>2, FS_EmptySet
     DEF Init, EInv, CountsAreExact, TokenOrHolder, GateIsEvicted

\* Who is counted.
CountedPcs == {"wait", "taken", "quit"}

\* A step that counts nobody and uncounts nobody.
LEMMA CountsStay ==
    ASSUME IInv, EInv, NEW p \in Procs, NEW c, Goes(p, c),
           UNCHANGED waiters,
           \A q \in Procs : q # p => gateOf'[q] = gateOf[q],
           pc[p] \in CountedPcs <=> c \in CountedPcs,
           pc[p] \in CountedPcs => gateOf'[p] = gateOf[p]
    PROVE  CountsAreExact'
<1>1. \A q \in Procs : pc'[q] = IF q = p THEN c ELSE pc[q]
  BY DEF Goes, IInv, Types
<1>2. \A g \in Gates : Counted(g)' = Counted(g)
  BY <1>1 DEF Counted, CountedPcs, Procs
<1> QED
  BY <1>2 DEF EInv, CountsAreExact

\* A step of a goroutine that leaves gates and tokens alone, does not end a
\* turn, and lets no token go.
LEMMA TurnGoesOn ==
    ASSUME IInv, EInv, NEW p \in Procs, NEW c, Goes(p, c), UNCHANGED <<gates, token>>,
           \A q \in Procs : q # p => gateOf'[q] = gateOf[q],
           Holding(p) => Holding(p)' /\ gateOf'[p] = gateOf[p],
           c # "done" \/ p \in Probes
    PROVE  TokenOrHolder' /\ GateIsEvicted'
<1>1. \A q \in Procs : pc'[q] = IF q = p THEN c ELSE pc[q]
  BY DEF Goes, IInv, Types
<1>2. \A q \in Procs : Holding(q) => Holding(q)' /\ gateOf'[q] = gateOf[q]
  BY <1>1 DEF Holding
<1>3. TokenOrHolder'
  BY <1>2 DEF TokenOrHolder, EInv
<1>4. \A q \in Turns : pc'[q] = "done" => pc[q] = "done"
  BY <1>1, ProcAssumption DEF Procs
<1>5. GateIsEvicted'
  BY <1>4 DEF GateIsEvicted, EInv, At
<1> QED
  BY <1>3, <1>5

LEMMA LookupEInv ==
    ASSUME IInv, EInv, NEW p \in Procs, NEW g \in Gates, Lookup(p, g)
    PROVE  EInv'
<1> USE DEF IInv, EInv, Types
<1> DEFINE k == KeyOf[p]
<1>1. /\ pc[p] = "start" /\ Goes(p, "found") /\ UNCHANGED cancelled
      /\ gateOf' = [gateOf EXCEPT ![p] = g]
      /\ k \in Keys
  BY KeyAssumption DEF Lookup, At
<1>2. \A q \in Procs : pc'[q] = IF q = p THEN "found" ELSE pc[q]
  BY <1>1 DEF Goes
<1>3. \A q \in Procs : q # p => gateOf'[q] = gateOf[q]
  BY <1>1
<1>4. waiters' \in [Gates -> Int] => MoreTypes'
  BY <1>1, <1>2 DEF MoreTypes, TurnPcs, ProbePcs, Procs
<1>5. CASE gates[k] # None
  <2>1. UNCHANGED <<gates, token, waiters>>
    BY <1>5 DEF Lookup, Gate
  <2>2. CountsAreExact'
    BY <1>1, <1>3, <2>1, CountsStay DEF CountedPcs
  <2>3. TokenOrHolder' /\ GateIsEvicted'
    BY <1>1, <1>3, <2>1, TurnGoesOn DEF Holding
  <2> QED
    BY <1>4, <2>1, <2>2, <2>3 DEF MoreTypes
<1>6. CASE gates[k] = None
  <2>1. /\ Fresh(g)
        /\ gates' = [gates EXCEPT ![k] = g]
        /\ token' = [token EXCEPT ![g] = TRUE]
        /\ waiters' = [waiters EXCEPT ![g] = 0]
    BY <1>6 DEF Lookup, Gate
  <2>2. MoreTypes'
    BY <1>4, <2>1 DEF MoreTypes
  <2>3. CountsAreExact'
    <3>1. Counted(g) = {}
      BY <2>1 DEF Counted, Fresh, Procs
    <3>2. \A h \in Gates : Counted(h)' = Counted(h)
      BY <1>1, <1>2, <1>3 DEF Counted, Procs
    <3> QED
      BY <2>1, <3>1, <3>2, FS_EmptySet DEF CountsAreExact, MoreTypes
  <2>4. TokenOrHolder'
    <3> SUFFICES ASSUME NEW l \in Keys, gates'[l] # None, ~token'[gates'[l]]
                 PROVE  \E q \in Procs : Holding(q)' /\ gateOf'[q] = gates'[l]
      BY DEF TokenOrHolder
    <3>1. l # k /\ gates'[l] = gates[l] /\ gates[l] \in Gates
      BY <1>1, <2>1
    <3>2. ~token[gates[l]]
      BY <2>1, <3>1
    <3>3. PICK q \in Procs : Holding(q) /\ gateOf[q] = gates[l]
      BY <3>1, <3>2 DEF TokenOrHolder
    <3>4. q # p
      BY <1>1, <3>3 DEF Holding
    <3> QED
      BY <1>2, <1>3, <3>1, <3>3, <3>4 DEF Holding
  <2>5. GateIsEvicted'
    BY <1>1, <1>2, <2>1, ProcAssumption DEF GateIsEvicted, At, Procs
  <2> QED
    BY <2>2, <2>3, <2>4, <2>5
<1> QED
  BY <1>5, <1>6

LEMMA RegisterEInv ==
    ASSUME IInv, EInv, NEW p \in Procs, Register(p)
    PROVE  EInv'
<1> USE DEF IInv, EInv, Types
<1>0. PICK g \in Gates : g = gateOf[p]
  BY DEF Register, At, HasGate
<1>1. /\ p \in Turns /\ pc[p] = "found" /\ Goes(p, "wait")
      /\ waiters' = [waiters EXCEPT ![g] = @ + 1]
      /\ UNCHANGED <<gates, token, gateOf, cancelled>>
  BY <1>0 DEF Register, At
<1>2. \A q \in Procs : pc'[q] = IF q = p THEN "wait" ELSE pc[q]
  BY <1>1 DEF Goes
<1>3. MoreTypes'
  BY <1>1, <1>2, ProcAssumption DEF MoreTypes, TurnPcs, Procs
<1>4. CountsAreExact'
  <2>1. Counted(g)' = Counted(g) \cup {p} /\ p \notin Counted(g)
    BY <1>0, <1>1, <1>2 DEF Counted, Procs
  <2>2. \A h \in Gates \ {g} : Counted(h)' = Counted(h)
    BY <1>0, <1>1, <1>2 DEF Counted, Procs
  <2>3. /\ IsFiniteSet(Counted(g) \cup {p})
        /\ Cardinality(Counted(g) \cup {p}) = Cardinality(Counted(g)) + 1
        /\ waiters[g] = Cardinality(Counted(g))
    BY <1>1, <2>1, FS_AddElement DEF CountsAreExact
  <2>4. waiters'[g] = waiters[g] + 1 /\ \A h \in Gates \ {g} : waiters'[h] = waiters[h]
    BY <1>1 DEF MoreTypes
  <2>5. IsFiniteSet(Counted(g)') /\ waiters'[g] = Cardinality(Counted(g)')
    BY <2>1, <2>3, <2>4
  <2>6. \A h \in Gates : IsFiniteSet(Counted(h)') /\ waiters'[h] = Cardinality(Counted(h)')
    BY <2>2, <2>4, <2>5 DEF CountsAreExact
  <2> QED
    BY <2>6, Zenon DEF CountsAreExact
<1>5. TokenOrHolder' /\ GateIsEvicted'
  BY <1>1, TurnGoesOn DEF Holding
<1> QED
  BY <1>3, <1>4, <1>5

LEMMA UnregisterEInv ==
    ASSUME IInv, EInv, NEW p \in Turns, Unregister(p)
    PROVE  EInv'
<1> USE DEF IInv, EInv, Types
<1>0. PICK g \in Gates : g = gateOf[p]
  BY DEF Unregister, At, HasGate, Procs
<1> DEFINE c == IF At(p, "quit") THEN "evict" ELSE IF Debounces THEN "debounce" ELSE "run"
<1>1. /\ p \in Procs /\ pc[p] \in {"taken", "quit"} /\ Goes(p, c)
      /\ waiters' = [waiters EXCEPT ![g] = @ - 1]
      /\ UNCHANGED <<gates, token, gateOf, cancelled>>
  BY <1>0 DEF Unregister, At, Procs
<1>2. \A q \in Procs : pc'[q] = IF q = p THEN c ELSE pc[q]
  BY <1>1 DEF Goes
<1>3. c \in TurnPcs /\ c \notin CountedPcs /\ c # "done"
  BY DEF TurnPcs, CountedPcs
<1>4. MoreTypes'
  BY <1>1, <1>2, <1>3, ProcAssumption DEF MoreTypes, Procs
<1>5. CountsAreExact'
  <2>1. Counted(g)' = Counted(g) \ {p} /\ p \in Counted(g)
    BY <1>0, <1>1, <1>2, <1>3 DEF Counted, CountedPcs, Procs
  <2>2. \A h \in Gates \ {g} : Counted(h)' = Counted(h)
    BY <1>0, <1>1, <1>2 DEF Counted, Procs
  <2>3. /\ IsFiniteSet(Counted(g) \ {p})
        /\ Cardinality(Counted(g) \ {p}) = Cardinality(Counted(g)) - 1
        /\ waiters[g] = Cardinality(Counted(g))
    BY <1>1, <2>1, FS_RemoveElement DEF CountsAreExact
  <2>4. waiters'[g] = waiters[g] - 1 /\ \A h \in Gates \ {g} : waiters'[h] = waiters[h]
    BY <1>1 DEF MoreTypes
  <2>5. IsFiniteSet(Counted(g)') /\ waiters'[g] = Cardinality(Counted(g)')
    BY <2>1, <2>3, <2>4
  <2>6. \A h \in Gates : IsFiniteSet(Counted(h)') /\ waiters'[h] = Cardinality(Counted(h)')
    BY <2>2, <2>4, <2>5 DEF CountsAreExact
  <2> QED
    BY <2>6, Zenon DEF CountsAreExact
<1>6. TokenOrHolder' /\ GateIsEvicted'
  <2>1. Holding(p) => Holding(p)'
    BY <1>1, <1>2 DEF Holding, At
  <2> QED
    BY <1>1, <1>3, <2>1, TurnGoesOn
<1> QED
  BY <1>4, <1>5, <1>6

\* The token is taken from a gate that has it.
LEMMA TakesEInv ==
    ASSUME IInv, EInv, NEW p \in Procs, NEW c \in {"taken", "putBack"},
           IF p \in Turns THEN At(p, "wait") /\ c = "taken"
                          ELSE At(p, "found") /\ c = "putBack",
           token' = [token EXCEPT ![gateOf[p]] = FALSE], Goes(p, c),
           UNCHANGED <<gates, gateOf, waiters, cancelled>>
    PROVE  EInv'
<1> USE DEF IInv, EInv, Types
<1>1. \A q \in Procs : pc'[q] = IF q = p THEN c ELSE pc[q]
  BY DEF Goes
<1>2. gateOf[p] \in Gates /\ pc[p] \in {"wait", "found"}
  BY DEF HasGate, At
<1>3. MoreTypes'
  BY <1>1, ProcAssumption DEF MoreTypes, TurnPcs, ProbePcs, Procs
<1>4. CountsAreExact'
  BY CountsStay DEF At, CountedPcs
<1>5. TokenOrHolder'
  <2>1. \A q \in Procs : Holding(q) => Holding(q)'
    BY <1>1, <1>2 DEF Holding
  <2>2. Holding(p)'
    BY <1>1 DEF Holding
  <2> QED
    BY <1>2, <2>1, <2>2 DEF TokenOrHolder
<1>6. GateIsEvicted'
  BY <1>1 DEF GateIsEvicted, At, Procs
<1> QED
  BY <1>3, <1>4, <1>5, <1>6

\* The token is put back.
LEMMA PutsEInv ==
    ASSUME IInv, EInv, NEW p \in Procs, Holding(p), NEW c,
           IF p \in Turns THEN At(p, "release") /\ c = "evict"
                          ELSE At(p, "putBack") /\ c = "done",
           token' = [token EXCEPT ![gateOf[p]] = TRUE], Goes(p, c),
           UNCHANGED <<gates, waiters, cancelled>>,
           \A q \in Procs : q # p => gateOf'[q] = gateOf[q]
    PROVE  EInv'
<1> USE DEF IInv, EInv, Types
<1>1. \A q \in Procs : pc'[q] = IF q = p THEN c ELSE pc[q]
  BY DEF Goes
<1>2. gateOf[p] \in Gates /\ pc[p] \notin CountedPcs /\ c \notin CountedPcs
  BY DEF HasGate, At, CountedPcs
<1>3. MoreTypes'
  BY <1>1, ProcAssumption DEF MoreTypes, TurnPcs, ProbePcs, Procs
<1>4. CountsAreExact'
  BY <1>2, CountsStay
<1>5. TokenOrHolder'
  <2> SUFFICES ASSUME NEW k \in Keys, gates[k] # None, ~token'[gates[k]]
               PROVE  \E q \in Procs : Holding(q)' /\ gateOf'[q] = gates[k]
    BY DEF TokenOrHolder
  <2>1. gates[k] # gateOf[p] /\ ~token[gates[k]]
    BY <1>2
  <2>2. PICK q \in Procs : Holding(q) /\ gateOf[q] = gates[k]
    BY <2>1 DEF TokenOrHolder
  <2> QED
    BY <1>1, <2>1, <2>2 DEF Holding
<1>6. GateIsEvicted'
  BY <1>1 DEF GateIsEvicted, At, Procs
<1> QED
  BY <1>3, <1>4, <1>5, <1>6

\* The last turn of a key finds its gate with its token, and nobody counted.
LEMMA EvictEInv ==
    ASSUME IInv, EInv, NEW p \in Turns, Evict(p)
    PROVE  EInv'
<1> USE DEF IInv, EInv, Types
<1> DEFINE k == KeyOf[p]
           g == gates[k]
<1>1. /\ p \in Procs /\ k \in Keys /\ pc[p] = "evict" /\ Goes(p, "done")
      /\ UNCHANGED <<waiters, cancelled>>
      /\ gateOf' = [gateOf EXCEPT ![p] = None]
      /\ IF g # None /\ MayEvict(g)
         THEN token' = [token EXCEPT ![g] = FALSE] /\ gates' = [gates EXCEPT ![k] = None]
         ELSE UNCHANGED <<token, gates>>
  BY KeyAssumption DEF Evict, At, Procs
<1>2. \A q \in Procs : pc'[q] = IF q = p THEN "done" ELSE pc[q]
  BY <1>1 DEF Goes
<1>3. \A q \in Procs : q # p => gateOf'[q] = gateOf[q]
  BY <1>1
<1>4. MoreTypes'
  BY <1>1, <1>2, ProcAssumption DEF MoreTypes, TurnPcs, Procs
<1>5. CountsAreExact'
  BY <1>1, <1>3, CountsStay DEF CountedPcs
<1>6. \A l \in Keys : gates'[l] = gates[l] \/ (l = k /\ gates'[l] = None)
  BY <1>1
<1>7. TokenOrHolder'
  <2> SUFFICES ASSUME NEW l \in Keys, gates'[l] # None, ~token'[gates'[l]]
               PROVE  \E q \in Procs : Holding(q)' /\ gateOf'[q] = gates'[l]
    BY DEF TokenOrHolder
  <2>1. gates'[l] = gates[l] /\ gates[l] \in Gates
    BY <1>6
  <2>2. ~token[gates[l]]
    <3>1. CASE g # None /\ MayEvict(g)
      <4>1. l # k
        BY <1>1, <3>1
      <4>2. gates[l] # g
        BY <1>1, <2>1, <4>1 DEF GateHasOneKey
      <4> QED
        BY <1>1, <2>1, <3>1, <4>2
    <3>2. CASE ~(g # None /\ MayEvict(g))
      BY <1>1, <2>1, <3>2
    <3> QED
      BY <3>1, <3>2
  <2>3. PICK q \in Procs : Holding(q) /\ gateOf[q] = gates[l]
    BY <2>1, <2>2 DEF TokenOrHolder
  <2>4. q # p
    BY <1>1, <2>3 DEF Holding
  <2> QED
    BY <1>2, <1>3, <2>1, <2>3, <2>4 DEF Holding
<1>8. GateIsEvicted'
  <2> SUFFICES ASSUME NEW l \in Keys,
                      \A q \in Turns : KeyOf[q] = l => pc'[q] = "done",
                      \A q \in Probes : KeyOf[q] # l
               PROVE  gates'[l] = None
    BY DEF GateIsEvicted, At
  <2>1. CASE l # k
    <3>1. \A q \in Turns : KeyOf[q] = l => pc[q] = "done"
      BY <1>2, <2>1 DEF Procs
    <3> QED
      BY <1>6, <3>1 DEF GateIsEvicted, At
  <2>2. CASE l = k /\ g # None
    <3>1. \A q \in Procs : KeyOf[q] = k => q = p \/ pc[q] = "done"
      BY <1>2, <2>2 DEF Procs
    <3>2. \A q \in Procs : gateOf[q] = g => KeyOf[q] = k
      BY <1>1, <2>2 DEF GateHasOneKey
    <3>3. g \in Gates /\ Counted(g) = {}
      BY <1>1, <2>2, <3>1, <3>2 DEF Counted, Procs
    <3>4. waiters[g] = 0
      BY <3>3, FS_EmptySet DEF CountsAreExact
    <3>5. token[g]
      BY <1>1, <2>2, <3>1, <3>2 DEF TokenOrHolder, Holding
    <3> QED
      BY <1>1, <2>2, <3>4, <3>5 DEF MayEvict
  <2>3. CASE l = k /\ g = None
    BY <1>6, <2>3
  <2> QED
    BY <2>1, <2>2, <2>3
<1> QED
  BY <1>4, <1>5, <1>7, <1>8

\* A goroutine that goes on, with the token or without.
LEMMA GoesOnEInv ==
    ASSUME IInv, EInv, NEW p \in Procs, NEW c, Goes(p, c),
           IF p \in Turns THEN c \in TurnPcs \ {"done"} ELSE c \in ProbePcs,
           UNCHANGED <<gates, token, waiters, cancelled>>,
           \A q \in Procs : q # p => gateOf'[q] = gateOf[q],
           pc[p] \in CountedPcs <=> c \in CountedPcs,
           pc[p] \in CountedPcs \/ Holding(p) => gateOf'[p] = gateOf[p],
           Holding(p) => c \in {"debounce", "run", "release"}
    PROVE  EInv'
<1> USE DEF IInv, EInv, Types
<1>1. \A q \in Procs : pc'[q] = IF q = p THEN c ELSE pc[q]
  BY DEF Goes
<1>2. MoreTypes'
  BY <1>1, ProcAssumption DEF MoreTypes, Procs
<1>3. CountsAreExact'
  BY CountsStay
<1>4. Holding(p) => Holding(p)'
  BY <1>1 DEF Holding
<1>5. TokenOrHolder' /\ GateIsEvicted'
  BY <1>4, TurnGoesOn DEF Procs
<1> QED
  BY <1>2, <1>3, <1>5

LEMMA NextEInv == IInv /\ EInv /\ [Next]_vars => EInv'
<1> SUFFICES ASSUME IInv, EInv, [Next]_vars PROVE EInv'
  OBVIOUS
<1> USE DEF At
<1>1. ASSUME NEW p \in Turns, TurnStep(p) PROVE EInv'
  <2>0. p \in Procs
    BY DEF Procs
  <2>1. ASSUME NEW g \in Gates, Lookup(p, g) PROVE EInv'
    BY <2>0, <2>1, LookupEInv
  <2>2. CASE Register(p)
    BY <2>0, <2>2, RegisterEInv
  <2>3. CASE Take(p)
    BY <2>0, <2>3, TakesEInv DEF Take
  <2>4. CASE GiveUp(p)
    BY <2>0, <2>4, GoesOnEInv DEF GiveUp, Holding, CountedPcs, TurnPcs
  <2>5. CASE Unregister(p)
    BY <2>5, UnregisterEInv
  <2>6. CASE DebounceEnds(p) \/ RunEnds(p)
    <3>1. PICK c \in {"run", "release"} : Goes(p, c)
      BY <2>6 DEF DebounceEnds, RunEnds
    <3>2. c \in TurnPcs \ {"done"} /\ c \notin CountedPcs
      BY DEF TurnPcs, CountedPcs
    <3>3. /\ pc[p] \in {"debounce", "run"}
          /\ UNCHANGED <<gates, token, waiters, gateOf, cancelled>>
      BY <2>6 DEF DebounceEnds, RunEnds
    <3> QED
      BY <2>0, <3>1, <3>2, <3>3, GoesOnEInv DEF Holding, CountedPcs
  <2>7. CASE Release(p)
    BY <2>0, <2>7, PutsEInv DEF Release, Holding
  <2>8. CASE Evict(p)
    BY <2>8, EvictEInv
  <2> QED
    BY <1>1, <2>1, <2>2, <2>3, <2>4, <2>5, <2>6, <2>7, <2>8 DEF TurnStep
<1>2. ASSUME NEW p \in Probes, ProbeStep(p) PROVE EInv'
  <2>0. p \in Procs /\ p \notin Turns
    BY ProcAssumption DEF Procs
  <2>1. ASSUME NEW g \in Gates, Lookup(p, g) PROVE EInv'
    BY <2>0, <2>1, LookupEInv
  <2>2. CASE Probe(p)
    <3>1. CASE token[gateOf[p]]
      BY <2>0, <2>2, <3>1, TakesEInv DEF Probe
    <3>2. CASE ~token[gateOf[p]]
      <4>1. /\ pc[p] = "found" /\ Goes(p, "done") /\ gateOf' = [gateOf EXCEPT ![p] = None]
            /\ UNCHANGED <<gates, token, waiters, cancelled>>
        BY <2>2, <3>2 DEF Probe
      <4>2. \A q \in Procs : q # p => gateOf'[q] = gateOf[q]
        BY <4>1 DEF IInv, Types
      <4> QED
        BY <2>0, <4>1, <4>2, GoesOnEInv DEF Holding, CountedPcs, ProbePcs
    <3> QED
      BY <3>1, <3>2
  <2>3. CASE PutBack(p)
    <3>1. \A q \in Procs : q # p => gateOf'[q] = gateOf[q]
      BY <2>3 DEF PutBack, IInv, Types
    <3> QED
      BY <2>0, <2>3, <3>1, PutsEInv DEF PutBack, Holding
  <2> QED
    BY <1>2, <2>1, <2>2, <2>3 DEF ProbeStep
<1>3. CASE Cancel \/ UNCHANGED vars
  <2>1. UNCHANGED <<gates, token, waiters, pc, gateOf>> /\ cancelled' \in BOOLEAN
    BY <1>3 DEF Cancel, vars, EInv, MoreTypes
  <2>2. MoreTypes'
    BY <2>1 DEF EInv, MoreTypes
  <2>3. CountsAreExact'
    BY <2>1 DEF EInv, CountsAreExact, Counted
  <2>4. TokenOrHolder' /\ GateIsEvicted'
    BY <2>1 DEF EInv, TokenOrHolder, Holding, GateIsEvicted
  <2> QED
    BY <2>2, <2>3, <2>4 DEF EInv
<1> QED
  BY <1>1, <1>2, <1>3 DEF Next

LEMMA SpecEInv == Spec => []EInv
<1>1. IInv /\ EInv /\ [Next]_vars => EInv'
  BY NextEInv
<1> QED
  BY InitEInv, SpecIInv, <1>1, PTL DEF Spec

\* A gate counts those who wait for it, no more and no less, even those who
\* were counted after it was evicted.
THEOREM SpecTypeOK == Spec => []TypeOK
<1>1. IInv /\ EInv => TypeOK
  BY DEF IInv, EInv, Types, MoreTypes, CountsAreExact, TypeOK
<1> QED
  BY SpecIInv, SpecEInv, <1>1, PTL

\* The gate of a key does not outlive its turns, so the map does not grow
\* with the rooms that ever had one.
THEOREM SpecGateIsEvicted == Spec => []GateIsEvicted
<1>1. EInv => GateIsEvicted
  BY DEF EInv
<1> QED
  BY SpecEInv, <1>1, PTL
=============================================================================
