---------------------------- MODULE SdkTurnProofs ----------------------------
(***************************************************************************)
(* Every turn, with any number of parts and failures, delivers its stream  *)
(* in order: SdkTurn implements OrderedStream.  It is finalized once at    *)
(* most, and a final flush that succeeds has left nothing behind.          *)
(***************************************************************************)
EXTENDS SdkTurn, SequenceTheorems, TLAPS

\* What carries the argument: whoever publishes holds flushMu, so there is one part
\* in flight at most; and the starter does nothing before it is started.
StreamInv ==
    /\ pendingParts \in Seq(Nat) /\ published \in Seq(Nat)
    /\ stepCount \in Nat
    /\ held \in [Actor -> Nat]
    /\ at \in [Actor -> Place]
    /\ flusher \in Actor \cup {None}
    /\ \A a \in Actor : at[a] = "publish" <=> flusher = a
    /\ DOMAIN ops = Actor
    /\ ops[Starter] \in {<<>>, <<"retry">>}
    /\ ops[Starter] = <<>> => at[Starter] = "done"

promise == <<Accepted, published>>

-----------------------------------------------------------------------------
\* Two ways to change what is accepted or delivered, and one not to.
LEMMA AcceptOne ==
    ASSUME NEW s \in Seq(Nat), NEW t \in Seq(Nat), NEW x \in Nat
    PROVE  /\ s \o Append(t, x) = Append(s \o t, x)
           /\ Append(s, x) \in Seq(Nat)
           /\ Len(Append(s, x)) = Len(s) + 1
           /\ SubSeq(Append(s, x), 1, Len(s)) = s
  OBVIOUS

LEMMA DeliverOne ==
    ASSUME NEW s \in Seq(Nat), NEW t \in Seq(Nat), NEW x \in Nat
    PROVE  /\ (s \o <<x>>) \o t \in Seq(Nat)
           /\ Append(s, x) = s \o <<x>>
           /\ Len(s) < Len((s \o <<x>>) \o t)
           /\ Append(s, x) = SubSeq((s \o <<x>>) \o t, 1, Len(s) + 1)
<1> DEFINE u == s \o <<x>>
<1>1. <<x>> \in Seq(Nat) /\ Len(<<x>>) = 1
  OBVIOUS
<1>2. u \in Seq(Nat) /\ Len(u) = Len(s) + 1 /\ Append(s, x) = u
  BY <1>1, AppendIsConcat, ConcatProperties
<1>3. Len(s) \in Nat /\ Len(t) \in Nat
  BY LenProperties
<1> HIDE DEF u
<1>4. u \o t \in Seq(Nat) /\ Len(u \o t) = Len(u) + Len(t)
  BY <1>2, ConcatProperties
<1>5. SubSeq(u \o t, 1, Len(u)) = SubSeq(u, 1, Len(u))
  BY <1>2, <1>3, SubSeqOfConcat1
<1>6. SubSeq(u, 1, Len(u)) = u
  BY <1>2, SubSeqFull
<1>7. Append(s, x) = SubSeq(u \o t, 1, Len(s) + 1)
  BY <1>2, <1>5, <1>6
<1>8. Len(s) < Len(u \o t)
  BY <1>2, <1>3, <1>4
<1>9. QED
  BY <1>2, <1>4, <1>7, <1>8 DEF u

LEMMA HeadTail ==
    ASSUME NEW s \in Seq(Nat), s # <<>>
    PROVE  Head(s) \in Nat /\ Tail(s) \in Seq(Nat) /\ <<Head(s)>> \o Tail(s) = s
  OBVIOUS

LEMMA Concat ==
    ASSUME NEW s \in Seq(Nat), NEW t \in Seq(Nat), NEW u \in Seq(Nat)
    PROVE  s \o t \in Seq(Nat) /\ (s \o t) \o u = s \o (t \o u)
           /\ s \o <<>> = s
  BY ConcatProperties, ConcatAssociative, ConcatEmptySeq

-----------------------------------------------------------------------------
\* A step that touches neither the queue nor what the flusher carries.
LEMMA Quiet ==
    ASSUME UNCHANGED <<pendingParts, published, flusher>>,
           flusher # None => held'[flusher] = held[flusher]
    PROVE  UNCHANGED promise
  BY DEF promise, Accepted, InFlight

\* Taking the next part, or none, from the queue moves it out of pendingParts into
\* flight: what follows the published parts stays the same.
LEMMA TakeNextKeeps ==
    ASSUME StreamInv, NEW a \in Actor, TakeNext(a), at[a] # "publish" \/ flusher = a,
           flusher \in {None, a}
    PROVE  /\ InFlight' \o pendingParts' = pendingParts
           /\ InFlight' \in Seq(Nat) /\ pendingParts' \in Seq(Nat)
           /\ held' \in [Actor -> Nat]
           /\ at' \in [Actor -> Place]
           /\ flusher' \in Actor \cup {None}
           /\ \A b \in Actor : at'[b] = "publish" <=> flusher' = b
           /\ \A b \in Actor \ {a} : at'[b] = at[b]
           /\ at'[a] \in {"done", "publish"}
<1> USE DEF StreamInv, TakeNext, Goto, Carry
<1>1. CASE pendingParts = <<>>
  <2>1. flusher' = None /\ pendingParts' = <<>> /\ InFlight' = <<>>
    BY <1>1 DEF InFlight
  <2>2. InFlight' \o pendingParts' = pendingParts /\ <<>> \in Seq(Nat)
    BY <1>1, <2>1, ConcatEmptySeq
  <2>3. held' = [held EXCEPT ![a] = 0] /\ at' = [at EXCEPT ![a] = "done"]
    BY <1>1
  <2>4. QED
    BY <2>1, <2>2, <2>3, SessionAssumption DEF Place, Returned
<1>2. CASE pendingParts # <<>>
  <2>1. flusher' = a /\ held' = [held EXCEPT ![a] = Head(pendingParts)]
        /\ pendingParts' = Tail(pendingParts) /\ at' = [at EXCEPT ![a] = "publish"]
    BY <1>2
  <2>2. Head(pendingParts) \in Nat /\ Tail(pendingParts) \in Seq(Nat)
        /\ <<Head(pendingParts)>> \o Tail(pendingParts) = pendingParts
    BY <1>2, HeadTail
  <2>3. InFlight' = <<Head(pendingParts)>>
    BY <2>1, SessionAssumption DEF InFlight
  <2>4. InFlight' \in Seq(Nat)
    BY <2>2, <2>3
  <2>5. QED
    BY <2>1, <2>2, <2>3, <2>4, SessionAssumption DEF Place, Returned
<1>3. QED
  BY <1>1, <1>2

-----------------------------------------------------------------------------
THEOREM TurnInit == Init => StreamInv /\ Promise!Init
<1> SUFFICES ASSUME Init PROVE StreamInv /\ Promise!Init
  OBVIOUS
<1> USE DEF Init, SessionInit
<1>1. StreamInv
  BY SessionAssumption, ActorAssumption DEF StreamInv, Place, Returned
<1>2. Promise!Init
  BY ConcatEmptySeq DEF Promise!Init, Accepted, InFlight
<1>3. QED
  BY <1>1, <1>2

\* A step into another place of the session, or back out of it, that leaves the queue
\* and flushMu alone.
LEMMA Moves ==
    ASSUME StreamInv, NEW a \in Actor, NEW place \in Place,
           at[a] # "publish", place # "publish",
           Goto(a, place),
           UNCHANGED <<pendingParts, published, flusher>>,
           held' \in [Actor -> Nat], \A b \in Actor \ {a} : held'[b] = held[b],
           stepCount' \in Nat,
           DOMAIN ops' = Actor,
           ops'[Starter] \in {<<>>, <<"retry">>},
           ops'[Starter] = <<>> => at'[Starter] = "done"
    PROVE  StreamInv' /\ UNCHANGED promise
<1>1. flusher # a
  BY DEF StreamInv
<1>2. UNCHANGED promise
  BY <1>1, Quiet DEF StreamInv
<1>3. at' \in [Actor -> Place] /\ \A b \in Actor : at'[b] = "publish" <=> flusher' = b
  BY DEF StreamInv, Goto
<1>4. QED
  BY <1>2, <1>3 DEF StreamInv

\* The starter is in no place of the session before it is started.
LEMMA StarterWaits ==
    ASSUME StreamInv, NEW a \in Actor, at[a] \notin Returned
    PROVE  a = Starter => ops[Starter] = <<"retry">>
  BY DEF StreamInv, Returned

LEMMA SessionKeeps ==
    ASSUME StreamInv, NEW a \in Actor, SessionStep(a), UNCHANGED turnVars
    PROVE  StreamInv' /\ (Promise!Next \/ UNCHANGED promise)
<1>0. UNCHANGED ops
  BY DEF turnVars
<1>a. ASSUME NEW place \in Place, at[a] \notin Returned, at' = [at EXCEPT ![a] = place]
      PROVE  /\ DOMAIN ops' = Actor
             /\ ops'[Starter] \in {<<>>, <<"retry">>}
             /\ ops'[Starter] = <<>> => at'[Starter] = "done"
  <2>1. <<"retry">> # <<>>
    OBVIOUS
  <2>2. CASE a = Starter
    BY <1>0, <1>a, <2>1, <2>2, StarterWaits DEF StreamInv
  <2>3. CASE a # Starter
    BY <1>0, <1>a, <2>3, ActorAssumption DEF StreamInv
  <2>4. QED
    BY <2>2, <2>3
<1>b. {"emit", "enqueue", "target", "register", "lock", "end", "release"} \cap Returned = {}
  BY DEF Returned
<1>1. CASE EmitRefused(a)
  BY <1>1, <1>a, <1>b, Moves DEF EmitRefused, Goto, Place, Returned, StreamInv
<1>2. CASE NextSeq(a)
  <2>1. stepCount' \in Nat /\ held' \in [Actor -> Nat] /\ \A b \in Actor \ {a} : held'[b] = held[b]
    BY <1>2 DEF NextSeq, Carry, StreamInv
  <2>2. Goto(a, "enqueue") /\ at[a] = "emit" /\ UNCHANGED <<pendingParts, published, flusher>>
    BY <1>2 DEF NextSeq
  <2>3. "enqueue" \in Place /\ at[a] \notin Returned
    BY <2>2, <1>b DEF Place
  <2>4. QED
    BY <2>1, <2>2, <2>3, <1>a, Moves DEF Goto
<1>3. CASE Enqueue(a)
  <2>1. held[a] \in Nat /\ flusher # a /\ at[a] \notin Returned
    BY <1>3, <1>b DEF Enqueue, StreamInv
  <2>2. InFlight \in Seq(Nat) /\ InFlight' = InFlight /\ published' = published
    BY <1>3, <2>1, SessionAssumption DEF Enqueue, Carry, InFlight, StreamInv
  <2>3. pendingParts' = Append(pendingParts, held[a]) /\ pendingParts' \in Seq(Nat)
    BY <1>3, <2>1, AppendProperties DEF Enqueue, StreamInv
  <2> DEFINE before == published \o InFlight
  <2>4. before \in Seq(Nat) /\ Accepted = before \o pendingParts
        /\ Accepted' = before \o pendingParts' /\ Accepted \in Seq(Nat)
    BY <2>2, <2>3, ConcatProperties DEF Accepted, StreamInv
  <2> HIDE DEF before
  <2>5. Accepted' = Append(Accepted, held[a])
    BY <2>1, <2>3, <2>4, AcceptOne DEF StreamInv
  <2>6. Promise!Accept
    BY <2>1, <2>2, <2>4, <2>5, AcceptOne DEF Promise!Accept
  <2>7. StreamInv'
    <3>1. at' = [at EXCEPT ![a] = "target"] /\ held' = [held EXCEPT ![a] = 0]
          /\ UNCHANGED <<flusher, stepCount, published>>
      BY <1>3 DEF Enqueue, Goto, Carry
    <3>2. at' \in [Actor -> Place] /\ \A b \in Actor : at'[b] = "publish" <=> flusher' = b
      BY <1>3, <2>1, <3>1 DEF StreamInv, Place, Enqueue
    <3>3. QED
      BY <2>1, <2>3, <3>1, <3>2, <1>a DEF StreamInv, Place
  <2>8. QED
    BY <2>6, <2>7 DEF Promise!Next
<1>4. CASE FindTarget(a)
  BY <1>4, <1>a, <1>b, Moves DEF FindTarget, Goto, Place, Returned, StreamInv
<1>5. CASE NoTarget(a)
  BY <1>5, <1>a, <1>b, Moves DEF NoTarget, Goto, Place, Returned, StreamInv
<1>6. CASE Register(a)
  <2>1. PICK place \in {"done", "lock"} : Goto(a, place)
    BY <1>6 DEF Register
  <2>2. at[a] = "register" /\ UNCHANGED <<pendingParts, published, flusher, held, stepCount>>
    BY <1>6 DEF Register
  <2>3. place \in Place /\ at[a] \notin Returned
    BY <2>2, <1>b DEF Place, Returned
  <2>4. QED
    BY <2>1, <2>2, <2>3, <1>a, Moves DEF Goto, StreamInv
<1>7. CASE RegisterFails(a)
  BY <1>7, <1>a, <1>b, Moves DEF RegisterFails, Goto, Place, Returned, StreamInv
<1>8. CASE FlushNoTarget(a)
  <2>1. PICK place \in Returned : Goto(a, place)
    BY <1>8 DEF FlushNoTarget
  <2>2. at[a] = "lock" /\ UNCHANGED <<pendingParts, published, flusher, held, stepCount>>
    BY <1>8 DEF FlushNoTarget
  <2>3. place \in Place /\ place # "publish" /\ at[a] \notin Returned
    BY <2>1, <2>2 DEF Place, Returned
  <2>4. QED
    BY <2>1, <2>2, <2>3, <1>a, Moves DEF Goto, StreamInv
<1>9. CASE EndClose(a)
  BY <1>9, <1>a, <1>b, Moves DEF EndClose, Goto, Place, Returned, StreamInv
<1>10. CASE EndRelease(a)
  BY <1>10, <1>a, <1>b, Moves DEF EndRelease, Goto, Place, Returned, StreamInv
<1>11. CASE FlushLock(a)
  <2>1. flusher = None /\ TakeNext(a) /\ at[a] = "lock" /\ UNCHANGED <<published, stepCount>>
    BY <1>11 DEF FlushLock
  <2>2. InFlight = <<>>
    BY <2>1 DEF InFlight
  <2>3. /\ InFlight' \o pendingParts' = pendingParts
        /\ InFlight' \in Seq(Nat) /\ pendingParts' \in Seq(Nat)
    BY <2>1, TakeNextKeeps
  <2>4. Accepted = published \o pendingParts
    BY <2>2, Concat DEF Accepted, StreamInv
  <2>5. Accepted' = published \o (InFlight' \o pendingParts')
    <3> DEFINE x == InFlight'
               y == pendingParts'
    <3>1. Accepted' = (published \o x) \o y
      BY <2>1 DEF Accepted
    <3>2. x \in Seq(Nat) /\ y \in Seq(Nat) /\ published \in Seq(Nat)
      BY <2>3 DEF StreamInv
    <3> HIDE DEF x, y
    <3>3. (published \o x) \o y = published \o (x \o y)
      BY <3>2, Concat
    <3>4. QED
      BY <3>1, <3>3 DEF x, y
  <2>6. UNCHANGED promise
    BY <2>1, <2>3, <2>4, <2>5 DEF promise
  <2>7. StreamInv'
    <3>1. ops'[Starter] = <<>> => at'[Starter] = "done"
      BY <2>1, <1>0, <1>b, TakeNextKeeps, StarterWaits, ActorAssumption DEF StreamInv, Returned
    <3>2. QED
      BY <2>1, <1>0, <3>1, TakeNextKeeps DEF StreamInv
  <2>8. QED
    BY <2>6, <2>7
<1>12. CASE Publish(a)
  <2>1. at[a] = "publish" /\ published' = Append(published, held[a]) /\ TakeNext(a)
        /\ UNCHANGED stepCount
    BY <1>12 DEF Publish
  <2>2. flusher = a /\ held[a] \in Nat /\ InFlight = <<held[a]>>
    BY <2>1, SessionAssumption DEF StreamInv, InFlight
  <2>3. /\ InFlight' \o pendingParts' = pendingParts
        /\ InFlight' \in Seq(Nat) /\ pendingParts' \in Seq(Nat)
    BY <2>1, <2>2, TakeNextKeeps
  <2>4. published' = published \o <<held[a]>> /\ published' \in Seq(Nat)
    BY <2>1, <2>2, AppendIsConcat, AppendProperties DEF StreamInv
  <2>5. Accepted = published' \o pendingParts
    BY <2>2, <2>4 DEF Accepted
  <2>6. Accepted' = published' \o (InFlight' \o pendingParts')
    <3>1. Accepted' = (published' \o InFlight') \o pendingParts'
      BY DEF Accepted
    <3>2. ASSUME NEW p \in Seq(Nat), NEW x \in Seq(Nat), NEW y \in Seq(Nat)
          PROVE  (p \o x) \o y = p \o (x \o y)
      BY Concat, SMTT(60)
    <3>3. QED
      BY <2>3, <2>4, <3>1, <3>2
  <2>7. Accepted' = Accepted
    BY <2>3, <2>5, <2>6
  <2>8. Promise!Deliver
    BY <2>1, <2>2, <2>4, <2>5, <2>7, DeliverOne DEF Promise!Deliver, StreamInv
  <2>9. StreamInv'
    <3>1. ops'[Starter] = <<>> => at'[Starter] = "done"
      <4>1. at[a] # "done" /\ \A b \in Actor \ {a} : at'[b] = at[b]
        BY <2>1, <2>2, TakeNextKeeps
      <4>2. QED
        BY <4>1, <1>0, ActorAssumption DEF StreamInv
    <3>2. QED
      BY <2>1, <2>2, <2>4, <1>0, <3>1, TakeNextKeeps DEF StreamInv
  <2>10. QED
    BY <2>8, <2>9 DEF Promise!Next
<1>13. CASE PublishFails(a)
  <2>1. at[a] = "publish" /\ flusher' = None /\ pendingParts' = <<held[a]>> \o pendingParts
        /\ UNCHANGED <<published, stepCount>>
        /\ at' = [at EXCEPT ![a] = "undone"] /\ held' = [held EXCEPT ![a] = 0]
    BY <1>13 DEF PublishFails, Goto, Carry
  <2>2. flusher = a /\ held[a] \in Nat /\ InFlight = <<held[a]>> /\ InFlight' = <<>>
        /\ InFlight \in Seq(Nat)
    BY <2>1, SessionAssumption DEF StreamInv, InFlight
  <2>3. pendingParts' = InFlight \o pendingParts /\ pendingParts' \in Seq(Nat)
    BY <2>1, <2>2, ConcatProperties DEF StreamInv
  <2>4. Accepted = published \o pendingParts'
    BY <2>2, <2>3, Concat DEF Accepted, StreamInv
  <2>5. Accepted' = published \o pendingParts'
    BY <2>1, <2>2, Concat DEF Accepted, StreamInv
  <2>6. UNCHANGED promise
    BY <2>1, <2>4, <2>5 DEF promise
  <2>7. at' \in [Actor -> Place] /\ \A b \in Actor : at'[b] = "publish" <=> flusher' = b
    BY <2>1, <2>2, SessionAssumption DEF StreamInv, Place, Returned
  <2>8. StreamInv'
    BY <2>1, <2>3, <2>7, <1>0, StarterWaits DEF StreamInv, Returned
  <2>9. QED
    BY <2>6, <2>8
<1>20. QED
  BY <1>1, <1>2, <1>3, <1>4, <1>5, <1>6, <1>7, <1>8, <1>9, <1>10, <1>11, <1>12, <1>13
     DEF SessionStep
-----------------------------------------------------------------------------
LEMMA TurnStepKeeps == StreamInv /\ [Next]_vars => StreamInv' /\ (Promise!Next \/ UNCHANGED promise)
<1> SUFFICES ASSUME StreamInv, [Next]_vars
             PROVE  StreamInv' /\ (Promise!Next \/ UNCHANGED promise)
  OBVIOUS
\* Every operation of the turn but the start of the starter keeps these, whatever it
\* does to the actor's own operations.
<1>a. ASSUME NEW a \in Actor, NEW todo, a # Starter, ops' = [ops EXCEPT ![a] = todo],
             at' = at \/ \E place \in Place \ {"publish"} : Goto(a, place),
             at[a] # "publish",
             UNCHANGED <<pendingParts, published, flusher, held, stepCount>>
      PROVE  StreamInv' /\ UNCHANGED promise
  <2>1. DOMAIN ops' = Actor /\ ops'[Starter] = ops[Starter] /\ at'[Starter] = at[Starter]
    BY <1>a, ActorAssumption DEF StreamInv, Goto
  <2>2. CASE at' = at
    BY <1>a, <2>1, <2>2, Quiet DEF StreamInv
  <2>3. ASSUME NEW place \in Place \ {"publish"}, Goto(a, place)
        PROVE  StreamInv' /\ UNCHANGED promise
    BY <1>a, <2>1, <2>3, Moves DEF StreamInv
  <2>4. QED
    BY <1>a, <2>2, <2>3
<1>b. ASSUME NEW a \in Actor, NEW op, Has(a, op), op # "retry"
      PROVE  a # Starter /\ at[a] # "publish"
  BY <1>b DEF Has, Ready, Returned, StreamInv
<1>c. ASSUME UNCHANGED <<sessionVars, ops>>
      PROVE  StreamInv' /\ UNCHANGED promise
  BY <1>c, Quiet DEF StreamInv, sessionVars
<1>1. CASE ProducerWrites
  BY <1>1, <1>a, ActorAssumption DEF ProducerWrites, GoOn, Idle, Ready, Returned, sessionVars
<1>2. CASE ProducerEnds
  BY <1>2, <1>a, ActorAssumption DEF ProducerEnds, EndTurn, GoOn, Idle, Ready, Returned, sessionVars
<1>3. CASE StarterPolls
  <2>1. PICK place \in {"done", "target"} : Goto(Starter, place)
    BY <1>3 DEF StarterPolls
  <2>2. /\ at[Starter] = "undone" /\ ops[Starter] # <<>>
        /\ UNCHANGED <<pendingParts, published, flusher, held, stepCount, ops>>
    BY <1>3 DEF StarterPolls, Has, sessionRest, turnVars
  <2>3. QED
    BY <2>1, <2>2, Moves, ActorAssumption DEF StreamInv, Place, Returned
<1>4. CASE TimerStep
  <2>1. CASE TimerFires
    BY <2>1, <1>c DEF TimerFires
  <2>2. CASE HandleIdleTimeout
    BY <2>2, <1>a, ActorAssumption DEF HandleIdleTimeout, GoOn, Idle, Ready, Returned, sessionVars
  <2>3. QED
    BY <1>4, <2>1, <2>2 DEF TimerStep
<1>5. ASSUME NEW a \in Actor, OwnStep(a)
      PROVE  StreamInv' /\ (Promise!Next \/ UNCHANGED promise)
  <2>1. CASE SessionStep(a) /\ UNCHANGED turnVars
    BY <2>1, SessionKeeps
  <2>2. CASE SendPlaceholder(a)
    <3>1. PICK place \in {"done", "register"} : at' = at \/ Goto(a, place)
      BY <2>2 DEF SendPlaceholder, Call
    <3>2. ops' = [ops EXCEPT ![a] = Tail(ops[a])]
      BY <2>2 DEF SendPlaceholder, Call, GoOn
    <3>3. place \in Place \ {"publish"}
      BY DEF Place, Returned
    <3>4. QED
      BY <2>2, <3>1, <3>2, <3>3, <1>a, <1>b DEF SendPlaceholder, sessionRest
  <2>3. CASE PlaceholderFails(a)
    BY <2>3, <1>a, <1>b DEF PlaceholderFails, GoOn, sessionVars
  <2>4. CASE EnsureStreamStartedAsync(a)
    <3>1. ops' = [ops EXCEPT ![a] = Tail(ops[a]), ![Starter] = <<"retry">>]
          /\ Goto(Starter, "undone") /\ ops[Starter] = <<>> /\ a # Starter
          /\ UNCHANGED <<pendingParts, published, flusher, held, stepCount>>
      BY <2>4, <1>b DEF EnsureStreamStartedAsync, sessionRest
    <3>2. DOMAIN ops' = Actor /\ ops'[Starter] = <<"retry">> /\ <<"retry">> # <<>>
      BY <3>1, ActorAssumption DEF StreamInv
    <3>3. QED
      BY <3>1, <3>2, Moves, ActorAssumption DEF StreamInv, Place, Returned
  <2>5. CASE EmitPart(a)
    <3>1. ops' = [ops EXCEPT ![a] = Tail(ops[a])] /\ (at' = at \/ Goto(a, "emit"))
      BY <2>5 DEF EmitPart, Call, GoOn
    <3>2. QED
      BY <2>5, <3>1, <1>a, <1>b DEF EmitPart, sessionRest, Place
  <2>6. CASE Abort(a)
    BY <2>6, <1>a, <1>b DEF Abort, EndTurn, GoOn, sessionVars
  <2>7. CASE FlushPendingStream(a)
    <3>1. ops' = [ops EXCEPT ![a] = Tail(ops[a])] /\ (Goto(a, "done") \/ Goto(a, "lock"))
      BY <2>7 DEF FlushPendingStream, Call
    <3>2. QED
      BY <2>7, <3>1, <1>a, <1>b DEF FlushPendingStream, sessionRest, Place, Returned
  <2>8. CASE EndSession(a)
    <3>1. ops' = [ops EXCEPT ![a] = Tail(ops[a])] /\ Goto(a, "end")
      BY <2>8 DEF EndSession, Call
    <3>2. QED
      BY <2>8, <3>1, <1>a, <1>b DEF EndSession, sessionRest, Place
  <2>9. CASE Persist(a)
    BY <2>9, <1>a, <1>b DEF Persist, GoOn, sessionVars
  <2>10. QED
    BY <1>5, <2>1, <2>2, <2>3, <2>4, <2>5, <2>6, <2>7, <2>8, <2>9 DEF OwnStep
<1>6. CASE UNCHANGED vars
  BY <1>6, <1>c DEF vars, turnVars
<1>7. QED
  BY <1>1, <1>2, <1>3, <1>4, <1>5, <1>6 DEF Next

-----------------------------------------------------------------------------
\* The inductive invariant.
THEOREM SpecStreamInv == Spec => []StreamInv
<1>1. Init => StreamInv
  BY TurnInit
<1>2. StreamInv /\ [Next]_vars => StreamInv'
  BY TurnStepKeeps
<1>3. QED
  BY <1>1, <1>2, PTL DEF Spec

\* Whoever writes and flushes and whatever fails, the homeserver sees the parts of a
\* turn in the order in which they were accepted, none skipped and none twice: the
\* turn implements OrderedStream, for any number of parts and failures.
THEOREM SpecStreamKeepsOrder == Spec => StreamKeepsOrder
<1>1. Init => Promise!Init
  BY TurnInit
<1>2. StreamInv /\ [Next]_vars => [Promise!Next]_(Promise!vars)
  BY TurnStepKeeps DEF promise, Promise!vars
<1>3. QED
  BY <1>1, <1>2, SpecStreamInv, PTL DEF Spec, StreamKeepsOrder, Promise!Spec
-----------------------------------------------------------------------------
\* The operations of an actor.
Op == {"placeholder", "spawn", "write", "retry", "abort", "flush", "end", "persist"}

\* Why no second finalization begins: whoever is in the middle of one has set ended,
\* and so has whoever is through.
FinalInv ==
    /\ ops \in [Actor -> Seq(Op)]
    /\ finalised => ended
    /\ \A a \in Actor : Finalising(a) => ended
    /\ FinalisedOnce

\* What is left of an actor's operations holds no operation that was not there.
LEMMA RestOfOps ==
    ASSUME NEW s \in Seq(Op), NEW n \in Nat
    PROVE  /\ SubSeq(s, n + 1, Len(s)) \in Seq(Op)
           /\ \A i \in 1..Len(SubSeq(s, n + 1, Len(s))) :
                 i + n \in 1..Len(s) /\ SubSeq(s, n + 1, Len(s))[i] = s[i + n]
  BY LenProperties, SubSeqProperties

LEMMA TailOfOps ==
    ASSUME NEW s \in Seq(Op), s # <<>>
    PROVE  /\ Tail(s) \in Seq(Op)
           /\ \A i \in 1..Len(Tail(s)) : i + 1 \in 1..Len(s) /\ Tail(s)[i] = s[i + 1]
  OBVIOUS

\* A step that makes nobody begin a finalization.
LEMMA BeginsNothing ==
    ASSUME FinalInv, ops' \in [Actor -> Seq(Op)],
           \A b \in Actor : Finalising(b)' => Finalising(b),
           UNCHANGED <<ended, finalised>>
    PROVE  FinalInv'
  BY DEF FinalInv, FinalisedOnce

\* An actor goes on with fewer operations, or with others that finalize nothing.
LEMMA GoesOn ==
    ASSUME FinalInv, NEW a \in Actor, NEW todo \in Seq(Op),
           ops' = [ops EXCEPT ![a] = todo], UNCHANGED <<ended, finalised>>,
           \A i \in 1..Len(todo) : todo[i] = "persist" => Finalising(a)
    PROVE  FinalInv'
<1>1. ops' \in [Actor -> Seq(Op)]
  BY DEF FinalInv
<1>2. ops'[a] = todo /\ \A b \in Actor \ {a} : ops'[b] = ops[b]
  BY DEF FinalInv
<1>3. \A b \in Actor : Finalising(b)' => Finalising(b)
  BY <1>2 DEF Finalising
<1>4. QED
  BY <1>1, <1>3, BeginsNothing

\* The actor is through with its next operation.
LEMMA NextOpDone ==
    ASSUME FinalInv, NEW a \in Actor, ops[a] # <<>>,
           ops' = [ops EXCEPT ![a] = Tail(ops[a])], UNCHANGED <<ended, finalised>>
    PROVE  FinalInv'
<1>1. ops[a] \in Seq(Op)
  BY DEF FinalInv
<1>2. Tail(ops[a]) \in Seq(Op)
      /\ \A i \in 1..Len(Tail(ops[a])) : Tail(ops[a])[i] = "persist" => Finalising(a)
  BY <1>1, TailOfOps DEF Finalising
<1>3. QED
  BY <1>2, GoesOn

\* The first to set ended may begin a finalization, and nobody else has.
LEMMA BeginsOne ==
    ASSUME FinalInv, ~ended, ended', UNCHANGED finalised,
           NEW a \in Actor, NEW todo \in Seq(Op), ops' = [ops EXCEPT ![a] = todo]
    PROVE  FinalInv'
<1>1. ops' \in [Actor -> Seq(Op)] /\ \A b \in Actor \ {a} : ops'[b] = ops[b]
  BY DEF FinalInv
<1>2. \A b \in Actor \ {a} : ~Finalising(b)'
  BY <1>1 DEF FinalInv, Finalising
<1>3. ~finalised'
  BY DEF FinalInv
<1>4. QED
  BY <1>1, <1>2, <1>3 DEF FinalInv, FinalisedOnce

LEMMA FinalStepKeeps == FinalInv /\ [Next]_vars => FinalInv'
<1> SUFFICES ASSUME FinalInv, [Next]_vars PROVE FinalInv'
  OBVIOUS
<1>a. ASSUME UNCHANGED <<ops, ended, finalised>> PROVE FinalInv'
  BY <1>a DEF FinalInv, FinalisedOnce, Finalising
<1>b. \A parts \in {<<"write">>, <<"write", "write">>} : Finalisation(parts) \in Seq(Op)
  <2>1. <<"write">> \in Seq(Op) /\ <<"write", "write">> \in Seq(Op)
    BY DEF Op
  <2>2. <<"flush", "end", "persist">> \in Seq(Op)
    BY DEF Op
  <2>3. QED
    BY <2>1, <2>2, ConcatProperties DEF Finalisation
<1>1. CASE ProducerWrites
  <2>1. PICK todo \in {<<"write">>, <<"placeholder", "spawn", "write", "write">>} :
           ops' = [ops EXCEPT ![Producer] = todo]
    BY <1>1 DEF ProducerWrites, GoOn
  <2>2. todo \in Seq(Op) /\ \A i \in 1..Len(todo) : todo[i] # "persist"
    <3>1. CASE todo = <<"write">>
      BY <3>1 DEF Op
    <3>2. CASE todo = <<"placeholder", "spawn", "write", "write">>
      BY <3>2 DEF Op
    <3>3. QED
      BY <2>1, <3>1, <3>2
  <2>3. QED
    BY <1>1, <2>1, <2>2, GoesOn, ActorAssumption DEF ProducerWrites
<1>2. CASE ProducerEnds
  <2>1. PICK parts \in {<<"write">>, <<"write", "write">>} :
           GoOn(Producer, IF started THEN Finalisation(parts) ELSE <<>>)
    BY <1>2 DEF ProducerEnds
  <2>2. (IF started THEN Finalisation(parts) ELSE <<>>) \in Seq(Op)
    BY <1>b
  <2>3. QED
    BY <1>2, <2>1, <2>2, BeginsOne, ActorAssumption DEF ProducerEnds, EndTurn, GoOn
<1>3. CASE StarterPolls
  BY <1>3, <1>a DEF StarterPolls, turnVars
<1>4. CASE TimerFires
  BY <1>4, <1>a DEF TimerFires
<1>5. CASE HandleIdleTimeout
  <2>1. PICK todo \in {<<>>, <<"abort">>} : ops' = [ops EXCEPT ![IdleTimer] = todo]
    BY <1>5 DEF HandleIdleTimeout, GoOn
  <2>2. todo \in Seq(Op) /\ \A i \in 1..Len(todo) : todo[i] # "persist"
    <3>1. CASE todo = <<>>
      BY <3>1
    <3>2. CASE todo = <<"abort">>
      BY <3>2 DEF Op
    <3>3. QED
      BY <2>1, <3>1, <3>2
  <2>3. QED
    BY <1>5, <2>1, <2>2, GoesOn, ActorAssumption DEF HandleIdleTimeout
<1>6. ASSUME NEW a \in Actor, OwnStep(a) PROVE FinalInv'
  <2>1. CASE SessionStep(a) /\ UNCHANGED turnVars
    BY <2>1, <1>a DEF turnVars
  <2>2. CASE SendPlaceholder(a)
    BY <2>2, NextOpDone DEF SendPlaceholder, Has, Call, GoOn
  <2>3. CASE PlaceholderFails(a)
    <3>1. PICK skipped \in {2, 3} : GoOn(a, SubSeq(ops[a], skipped + 1, Len(ops[a])))
      BY <2>3 DEF PlaceholderFails
    <3>2. ops[a] \in Seq(Op)
      BY DEF FinalInv
    <3>3. SubSeq(ops[a], skipped + 1, Len(ops[a])) \in Seq(Op)
          /\ \A i \in 1..Len(SubSeq(ops[a], skipped + 1, Len(ops[a]))) :
                SubSeq(ops[a], skipped + 1, Len(ops[a]))[i] = "persist" => Finalising(a)
      BY <3>2, RestOfOps DEF Finalising
    <3>4. QED
      BY <2>3, <3>1, <3>3, GoesOn DEF PlaceholderFails, GoOn
  <2>4. CASE EnsureStreamStartedAsync(a)
    <3>1. ops[a] # <<>> /\ UNCHANGED <<ended, finalised>>
          /\ ops' = [ops EXCEPT ![a] = Tail(ops[a]), ![Starter] = <<"retry">>]
      BY <2>4 DEF EnsureStreamStartedAsync, Has
    <3>2. ops[a] \in Seq(Op) /\ <<"retry">> \in Seq(Op) /\ Starter \in Actor
      BY ActorAssumption DEF FinalInv, Op
    <3>3. /\ ops' \in [Actor -> Seq(Op)]
          /\ ops'[Starter] = <<"retry">>
          /\ \A b \in Actor \ {a, Starter} : ops'[b] = ops[b]
          /\ (a # Starter => ops'[a] = Tail(ops[a]))
      BY <3>1, <3>2, TailOfOps DEF FinalInv
    <3>4. \A b \in Actor : Finalising(b)' => Finalising(b)
      <4>1. ~Finalising(Starter)'
        BY <3>3 DEF Finalising
      <4>2. ASSUME a # Starter, Finalising(a)' PROVE Finalising(a)
        <5>1. PICK i \in 1..Len(ops'[a]) : ops'[a][i] = "persist"
          BY <4>2 DEF Finalising
        <5>2. ops'[a] = Tail(ops[a]) /\ ops[a] # <<>> /\ ops[a] \in Seq(Op)
          BY <3>1, <3>2, <3>3, <4>2
        <5>3. i + 1 \in 1..Len(ops[a]) /\ ops[a][i + 1] = "persist"
          BY <5>1, <5>2, TailOfOps
        <5>4. QED
          BY <5>3 DEF Finalising
      <4>3. \A b \in Actor \ {a, Starter} : Finalising(b)' => Finalising(b)
        BY <3>3 DEF Finalising
      <4>4. QED
        BY <4>1, <4>2, <4>3
    <3>5. QED
      BY <3>1, <3>3, <3>4, BeginsNothing
  <2>5. CASE EmitPart(a)
    BY <2>5, NextOpDone DEF EmitPart, Has, Call, GoOn
  <2>6. CASE Abort(a)
    <3>2. CASE ended /\ GoOn(a, <<>>) /\ UNCHANGED <<ended, finalised>>
      <4>1. ASSUME NEW todo, todo = <<>>
            PROVE  todo \in Seq(Op) /\ \A i \in 1..Len(todo) : todo[i] # "persist"
        BY <4>1
      <4>2. ASSUME NEW todo, todo = <<>> PROVE FinalInv'
        <5>1. ops' = [ops EXCEPT ![a] = todo]
          BY <3>2, <4>2 DEF GoOn
        <5>2. QED
          BY <3>2, <4>1, <4>2, <5>1, GoesOn
      <4>3. QED
        BY <4>2
    <3>3. CASE ~ended /\ EndTurn /\ GoOn(a, Finalisation(<<"write">>))
      BY <3>3, <1>b, BeginsOne DEF EndTurn, GoOn
    <3>4. QED
      BY <2>6, <3>2, <3>3 DEF Abort
  <2>7. CASE FlushPendingStream(a)
    BY <2>7, NextOpDone DEF FlushPendingStream, Has, Call
  <2>8. CASE EndSession(a)
    BY <2>8, NextOpDone DEF EndSession, Has, Call
  <2>9. CASE Persist(a)
    <3>1. Finalising(a)
      BY <2>9 DEF Persist, Has, Finalising, FinalInv
    <3>2. ops' = [ops EXCEPT ![a] = <<>>] /\ UNCHANGED ended /\ finalised'
      BY <2>9 DEF Persist, GoOn
    <3>3. ops' \in [Actor -> Seq(Op)] /\ \A b \in Actor : ~Finalising(b)'
      BY <3>1, <3>2 DEF FinalInv, FinalisedOnce, Finalising
    <3>4. QED
      BY <3>1, <3>2, <3>3 DEF FinalInv, FinalisedOnce
  <2>10. QED
    BY <1>6, <2>1, <2>2, <2>3, <2>4, <2>5, <2>6, <2>7, <2>8, <2>9 DEF OwnStep
<1>7. CASE UNCHANGED vars
  BY <1>7, <1>a DEF vars, turnVars
<1>8. QED
  BY <1>1, <1>2, <1>3, <1>4, <1>5, <1>6, <1>7 DEF Next, TimerStep

\* Of End, EndWithError and Abort, called by the provider and by the idle timer in any
\* order, one finalizes the turn, and nobody does once it is finalized.
THEOREM SpecFinalisedOnce == Spec => []FinalisedOnce
<1>1. Init => FinalInv
  BY DEF Init, FinalInv, FinalisedOnce, Finalising
<1>2. FinalInv /\ [Next]_vars => FinalInv'
  BY FinalStepKeeps
<1>3. FinalInv => FinalisedOnce
  BY DEF FinalInv
<1>4. QED
  BY <1>1, <1>2, <1>3, PTL DEF Spec
-----------------------------------------------------------------------------
\* What was accepted when the turn ended stays accepted.
OwedInv == owed \in Nat /\ owed <= Len(Accepted)

\* What is accepted only grows.
LEMMA AcceptedGrows ==
    ASSUME StreamInv, [Next]_vars
    PROVE  /\ Accepted \in Seq(Nat) /\ Accepted' \in Seq(Nat)
           /\ Len(Accepted) <= Len(Accepted')
<1>1. StreamInv' /\ (Promise!Next \/ UNCHANGED promise)
  BY TurnStepKeeps
<1>2. Accepted \in Seq(Nat)
  <2>1. InFlight \in Seq(Nat)
    <3>1. CASE flusher = None
      BY <3>1, ConcatEmptySeq DEF InFlight
    <3>2. CASE flusher # None
      <4>1. held[flusher] \in Nat
        BY <3>2 DEF StreamInv
      <4>2. QED
        BY <3>2, <4>1 DEF InFlight
    <3>3. QED
      BY <3>1, <3>2
  <2>2. published \o InFlight \in Seq(Nat)
    BY <2>1, ConcatProperties DEF StreamInv
  <2>3. QED
    BY <2>2, ConcatProperties DEF StreamInv, Accepted
<1>3. Accepted' \in Seq(Nat) /\ Len(Accepted) <= Len(Accepted')
  <2>1. CASE Promise!Accept
    BY <2>1, <1>2, LenProperties DEF Promise!Accept
  <2>2. CASE Promise!Deliver
    BY <2>2, <1>2, LenProperties DEF Promise!Deliver
  <2>3. CASE UNCHANGED promise
    BY <2>3, <1>2, LenProperties DEF promise
  <2>4. QED
    BY <1>1, <2>1, <2>2, <2>3 DEF Promise!Next
<1>4. QED
  BY <1>2, <1>3

\* Only the end of the turn sets what is owed, to what is accepted then.
LEMMA OwedIsSet ==
    ASSUME [Next]_vars
    PROVE  \/ UNCHANGED owed
           \/ owed' = Len(Accepted) /\ UNCHANGED sessionVars
<1>1. ASSUME NEW a \in Actor, OwnStep(a)
      PROVE  UNCHANGED owed \/ (owed' = Len(Accepted) /\ UNCHANGED sessionVars)
  BY <1>1 DEF OwnStep, turnVars, SendPlaceholder, PlaceholderFails, EnsureStreamStartedAsync,
              EmitPart, Abort, EndTurn, FlushPendingStream, EndSession, Persist
<1>2. QED
  BY <1>1 DEF Next, vars, turnVars, ProducerWrites, ProducerEnds, EndTurn, StarterPolls,
              TimerStep, TimerFires, HandleIdleTimeout

LEMMA OwedKept == StreamInv /\ OwedInv /\ [Next]_vars => OwedInv'
<1> SUFFICES ASSUME StreamInv, OwedInv, [Next]_vars PROVE OwedInv'
  OBVIOUS
<1>1. Len(Accepted) \in Nat /\ Len(Accepted') \in Nat /\ Len(Accepted) <= Len(Accepted')
  BY AcceptedGrows, LenProperties
<1>2. QED
  BY <1>1, OwedIsSet DEF OwedInv

\* A flush that has an event and returns success leaves nothing behind, neither in the
\* queue nor in the hands of another flusher.
LEMMA FlushLeavesNothing ==
    ASSUME StreamInv, [Next]_vars, NEW a \in Actor,
           at[a] \in {"lock", "publish"}, at'[a] = "done", target' = "event"
    PROVE  pendingParts' = <<>> /\ flusher' = None /\ UNCHANGED owed
<1>1. at'[a] # at[a] /\ at[a] \notin Returned
  BY DEF Returned
<1>2. ASSUME NEW b \in Actor, SessionStep(b), UNCHANGED turnVars
      PROVE  pendingParts' = <<>> /\ flusher' = None /\ UNCHANGED owed
  <2>1. b = a
    BY <1>1, <1>2 DEF SessionStep, StreamInv, Goto, TakeNext, EmitRefused, NextSeq, Enqueue,
                      FindTarget, NoTarget, Register, RegisterFails, FlushNoTarget, FlushLock,
                      Publish, PublishFails, EndClose, EndRelease
  <2>2. FlushLock(a) \/ Publish(a)
    BY <1>2, <2>1 DEF SessionStep, StreamInv, Goto, EmitRefused, NextSeq, Enqueue, FindTarget,
                      NoTarget, Register, RegisterFails, FlushNoTarget, PublishFails,
                      EndClose, EndRelease
  <2>3. TakeNext(a)
    BY <2>2 DEF FlushLock, Publish
  <2>4. pendingParts = <<>>
    BY <2>3 DEF TakeNext, Goto, StreamInv
  <2>5. QED
    BY <1>2, <2>3, <2>4 DEF TakeNext, turnVars
<1>3. ASSUME NEW b \in Actor, OwnStep(b), Ready(b)
      PROVE  ~(SessionStep(b) /\ UNCHANGED turnVars) => at'[a] = at[a] \/ at'[a] = "undone"
  BY <1>1, <1>3 DEF OwnStep, Ready, StreamInv, Goto, Call, SendPlaceholder, PlaceholderFails,
                    EnsureStreamStartedAsync, EmitPart, Abort, EndTurn, FlushPendingStream,
                    EndSession, Persist, sessionVars
<1>4. ASSUME NEW b \in Actor, OwnStep(b)
      PROVE  pendingParts' = <<>> /\ flusher' = None /\ UNCHANGED owed
  <2>1. CASE SessionStep(b) /\ UNCHANGED turnVars
    BY <1>2, <2>1
  <2>2. CASE ~(SessionStep(b) /\ UNCHANGED turnVars)
    <3>1. Ready(b)
      BY <1>4, <2>2 DEF OwnStep, SendPlaceholder, PlaceholderFails, EnsureStreamStartedAsync,
                        EmitPart, Abort, FlushPendingStream, EndSession, Persist, Has
    <3>2. QED
      BY <1>1, <1>3, <1>4, <2>2, <3>1
  <2>3. QED
    BY <2>1, <2>2
<1>5. QED
  BY <1>1, <1>4 DEF Next, vars, sessionVars, ProducerWrites, ProducerEnds, EndTurn, StarterPolls,
                    TimerStep, TimerFires, HandleIdleTimeout, StreamInv, Goto, Returned

\* A final flush that has found the event of the stream and reports success has
\* published every part that was accepted before the turn ended, also one that another
\* goroutine was about to publish.
THEOREM SpecFinalFlushIsComplete == Spec => FinalFlushIsComplete
<1>1. Init => OwedInv
  <2>1. ASSUME Init PROVE OwedInv
    <3>1. Accepted = <<>>
      BY <2>1, ConcatEmptySeq DEF Init, SessionInit, Accepted, InFlight
    <3>2. QED
      BY <2>1, <3>1 DEF Init, OwedInv
  <2>2. QED
    BY <2>1
<1>2. ASSUME StreamInv, OwedInv, [Next]_vars, NEW a \in Actor,
             at[a] \in {"lock", "publish"}, at'[a] = "done", target' = "event"
      PROVE  Len(published') >= owed
  <2>1. pendingParts' = <<>> /\ flusher' = None /\ UNCHANGED owed
    BY <1>2, FlushLeavesNothing
  <2>2. StreamInv'
    BY <1>2, TurnStepKeeps
  <2>3. Accepted' = published'
    BY <2>1, <2>2, ConcatEmptySeq DEF Accepted, InFlight, StreamInv
  <2>4. Len(Accepted) \in Nat /\ Len(published') \in Nat /\ Len(Accepted) <= Len(published')
    BY <1>2, <2>3, AcceptedGrows, LenProperties
  <2>5. QED
    BY <1>2, <2>4 DEF OwedInv
<1>3. StreamInv /\ OwedInv /\ [Next]_vars
      => [\A a \in Actor :
            /\ at[a] \in {"lock", "publish"} /\ at'[a] = "done"
            /\ ops[a] # <<>> /\ Head(ops[a]) = "end"
            /\ target' = "event"
            => Len(published') >= owed]_vars
  BY <1>2
<1>4. QED
  BY <1>1, <1>3, OwedKept, SpecStreamInv, PTL DEF Spec, FinalFlushIsComplete
=============================================================================
