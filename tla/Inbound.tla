------------------------------ MODULE Inbound ------------------------------
(***************************************************************************)
(* src/bridges/ai/handlematrix.go, debounce.go, dedupe.go: messages on     *)
(* their way into the rooms of a login.  An event that was seen before is  *)
(* skipped; text waits in the buffer of its room and sender, with a timer  *)
(* that every further text restarts; anything else first flushes that      *)
(* buffer.  Handlers, timers, whose goroutines may have fired and still    *)
(* wait for the lock, and Disconnect empty the same buffers.               *)
(*                                                                         *)
(* Abstracted: what decides between buffer and immediate handling; the     *)
(* clock, by which timers fire and seen events expire; the prompt and      *)
(* dispatchOrQueue, where RoomDispatch begins.                             *)
(***************************************************************************)
EXTENDS Integers, Sequences, FiniteSets, SequencesExt

CONSTANTS
    Events,     \* events of the homeserver, numbered as they come
    Repeated,   \* events that may be delivered once more
    Keys,       \* rooms with their senders
    KeyOf,      \* the key of each event
    MaxSize     \* bound of the dedupe cache: 5000

ASSUME InboundAssumption ==
    /\ Events \subseteq Nat /\ Repeated \subseteq Events /\ MaxSize \in Nat \ {0}
    /\ KeyOf \in [Events -> Keys]

\* One handler per delivery.
Handlers == (Events \X {"first"}) \cup (Repeated \X {"again"})
Key(h) == KeyOf[h[1]]

\* New events come in their order, a repeated one at any time after.
Precedes(g, h) == g[2] = "first" /\ (IF h[2] = "first" THEN g[1] < h[1] ELSE g[1] <= h[1])

VARIABLES
    stage,      \* where each handler, or what it left in a buffer, is
    seen,       \* the dedupe cache, the oldest first
    buffer,     \* entries of each key, in their order
    armed,      \* keys whose buffer has a running timer
    fired,      \* timers of each key that fired and are to flush
    own,        \* the batch a handler flushes before its own message
    flights,    \* batches in the hands of timers and of Disconnect
    closing,    \* keys Disconnect has still to flush; {None} before
    ahead,      \* what was buffered when a handler came (history)
    forgotten   \* events the cache has given up (history)

vars == <<stage, seen, buffer, armed, fired, own, flights, closing, ahead, forgotten>>

None == "none"
In(s) == {h \in Handlers : stage[h] = s}
Buffered == UNION {ToSet(buffer[k]) : k \in Keys}
InFlight == UNION {ToSet(b) : b \in flights}
Owned == UNION {ToSet(own[h]) : h \in Handlers}

Init ==
    /\ stage = [h \in Handlers |-> "new"]
    /\ seen = <<>>
    /\ buffer = [k \in Keys |-> <<>>]
    /\ armed = {} /\ fired = [k \in Keys |-> 0]
    /\ own = [h \in Handlers |-> <<>>]
    /\ flights = {}
    /\ closing = {None}
    /\ ahead = [h \in Handlers |-> {}]
    /\ forgotten = {}

Goes(h, s) == stage' = [stage EXCEPT ![h] = s]

-----------------------------------------------------------------------------
(* DedupeCache.                                                            *)

\* An event seen again is young again.
Refreshed(e) == LET i == CHOOSE j \in DOMAIN seen : seen[j] = e
                IN  Append(RemoveAt(seen, i), e)

\* prune: the oldest make room.
Pruned(s) == IF Len(s) > MaxSize THEN Tail(s) ELSE s

Expire ==
    /\ seen # <<>>
    /\ seen' = Tail(seen)
    /\ forgotten' = forgotten \cup {Head(seen)}
    /\ UNCHANGED <<stage, buffer, armed, fired, own, flights, closing, ahead>>

\* HandleMatrixMessage begins.  The framework handles the events of one room
\* one after the other.
Receive(h) ==
    /\ stage[h] = "new"
    /\ \A g \in Handlers :
          /\ Precedes(g, h) => stage[g] # "new"
          /\ Key(g) = Key(h) => stage[g] \notin {"route", "flushed"}
    /\ IF Contains(seen, h[1])
       THEN Goes(h, "skipped") /\ seen' = Refreshed(h[1]) /\ UNCHANGED ahead
       ELSE /\ Goes(h, "route") /\ seen' = Pruned(Append(seen, h[1]))
            /\ ahead' = [ahead EXCEPT ![h] = ToSet(buffer[Key(h)])]
    /\ forgotten' = forgotten \cup (ToSet(seen) \ ToSet(seen'))
    /\ UNCHANGED <<buffer, armed, fired, own, flights, closing>>

-----------------------------------------------------------------------------
(* The routes of a message.                                                *)

\* Edits, bots, stops and messages without a mention.
Ignore(h) ==
    /\ stage[h] = "route"
    /\ Goes(h, "ignored")
    /\ ahead' = [ahead EXCEPT ![h] = {}]
    /\ UNCHANGED <<seen, buffer, armed, fired, own, flights, closing, forgotten>>

\* EnqueueWithDelay: a timer that has fired is started again nevertheless.
Enqueue(h) ==
    /\ stage[h] = "route"
    /\ buffer' = [buffer EXCEPT ![Key(h)] = Append(@, h)]
    /\ armed' = armed \cup {Key(h)}
    /\ Goes(h, "buffered")
    /\ ahead' = [ahead EXCEPT ![h] = {}]
    /\ UNCHANGED <<seen, fired, own, flights, closing, forgotten>>

\* Mutant: the entries are taken and the buffer is left to the next flush.
Emptied_Later(k) ==
    /\ armed' = armed \ {k}
    /\ UNCHANGED buffer

\* What flush does to the buffer.
Emptied(k) ==
    /\ buffer' = [buffer EXCEPT ![k] = <<>>]
    /\ armed' = armed \ {k}

\* Mutant: media and commands do not wait for the buffer.
FlushFirst_Not(h) ==
    /\ stage[h] = "route"
    /\ Goes(h, "flushed")
    /\ UNCHANGED <<seen, buffer, armed, fired, own, flights, closing, ahead, forgotten>>

FlushFirst(h) ==
    /\ stage[h] = "route"
    /\ own' = [own EXCEPT ![h] = buffer[Key(h)]]
    /\ Emptied(Key(h))
    /\ Goes(h, "flushed")
    /\ UNCHANGED <<seen, fired, flights, closing, ahead, forgotten>>

\* Entries that are dispatched get a stage of their own.
Dispatched(batch) == [h \in Handlers |-> IF h \in ToSet(batch) THEN "dispatched" ELSE stage[h]]

DispatchOwn(h) ==
    /\ stage[h] = "flushed"
    /\ own[h] # <<>>
    /\ stage' = Dispatched(own[h])
    /\ own' = [own EXCEPT ![h] = <<>>]
    /\ UNCHANGED <<seen, buffer, armed, fired, flights, closing, ahead, forgotten>>

DispatchNow(h) ==
    /\ stage[h] = "flushed"
    /\ own[h] = <<>>
    /\ Goes(h, "dispatched")
    /\ ahead' = [ahead EXCEPT ![h] = {}]
    /\ UNCHANGED <<seen, buffer, armed, fired, own, flights, closing, forgotten>>

-----------------------------------------------------------------------------
(* Timers and Disconnect.                                                  *)

Fire(k) ==
    /\ k \in armed
    /\ armed' = armed \ {k}
    /\ fired' = [fired EXCEPT ![k] = @ + 1]
    /\ UNCHANGED <<stage, seen, buffer, own, flights, closing, ahead, forgotten>>

TakeBuffer(k) ==
    /\ Emptied(k)
    /\ flights' = IF buffer[k] = <<>> THEN flights ELSE flights \cup {buffer[k]}

\* Mutant: a timer that was started again is left to flush what it finds.
TimerFlush_IfArmed(k) ==
    /\ fired[k] > 0
    /\ fired' = [fired EXCEPT ![k] = @ - 1]
    /\ IF k \in armed THEN armed' = armed \ {k} /\ UNCHANGED <<buffer, flights>>
                      ELSE TakeBuffer(k)
    /\ UNCHANGED <<stage, seen, own, closing, ahead, forgotten>>

TimerFlush(k) ==
    /\ fired[k] > 0
    /\ fired' = [fired EXCEPT ![k] = @ - 1]
    /\ TakeBuffer(k)
    /\ UNCHANGED <<stage, seen, own, closing, ahead, forgotten>>

DispatchFlight(b) ==
    /\ b \in flights
    /\ flights' = flights \ {b}
    /\ stage' = Dispatched(b)
    /\ UNCHANGED <<seen, buffer, armed, fired, own, closing, ahead, forgotten>>

\* FlushAll looks at the keys once; what comes later has its timer.
Disconnect ==
    /\ closing = {None}
    /\ closing' = {k \in Keys : buffer[k] # <<>>}
    /\ UNCHANGED <<stage, seen, buffer, armed, fired, own, flights, ahead, forgotten>>

DisconnectFlush(k) ==
    /\ k \in closing \cap Keys
    /\ closing' = closing \ {k}
    /\ TakeBuffer(k)
    /\ UNCHANGED <<stage, seen, fired, own, ahead, forgotten>>

-----------------------------------------------------------------------------
HandlerStep(h) == FlushFirst(h) \/ Enqueue(h) \/ Ignore(h) \/ DispatchOwn(h) \/ DispatchNow(h)
TimerStep(k) == Fire(k) \/ TimerFlush(k) \/ DisconnectFlush(k)

Progress ==
    \/ \E h \in Handlers : HandlerStep(h)
    \/ \E k \in Keys : TimerStep(k)
    \/ \E b \in flights : DispatchFlight(b)

Next ==
    \/ Progress
    \/ \E h \in Handlers : Receive(h)
    \/ Expire
    \/ Disconnect

Spec == Init /\ [][Next]_vars

\* Handlers go on and timers fire; the homeserver owes nothing.  Every step of
\* Progress takes an entry or a timer further, so none can starve another.
FairSpec == Spec /\ WF_vars(Progress)

-----------------------------------------------------------------------------
(* Properties.                                                             *)

\* Whoever flushes, what waits is in one place: a buffer, the hands of a handler
\* or those of a timer.  And an event delivered again is not handled again, not
\* even while its first delivery is still being debounced, unless the cache had
\* to give it up.
Places == <<Buffered, InFlight, Owned>>
HandledOnce ==
    /\ In("buffered") = Buffered \cup InFlight \cup Owned
    /\ \A i, j \in DOMAIN Places : i # j => Places[i] \cap Places[j] = {}
    /\ \A g, h \in Handlers :
          {stage[g], stage[h]} \cap {"new", "skipped"} = {} /\ g[1] = h[1]
          => g = h \/ g[1] \in forgotten

\* A message that is not debounced comes after the text that its sender wrote
\* before it, unless a timer (or Disconnect) has taken that text and did not
\* hand it over yet.
NoOvertaking ==
    [][\A h \in Handlers :
          stage[h] = "flushed" /\ stage'[h] = "dispatched"
          => ahead[h] \cap In("buffered") \subseteq InFlight]_vars

\* Text that waits is dispatched in the end, although timers are restarted after
\* they fired, fire for buffers that are gone, and flush buffers of others.
TextIsDispatched == \A h \in Handlers : stage[h] = "buffered" ~> stage[h] = "dispatched"
=============================================================================
