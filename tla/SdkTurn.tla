------------------------------- MODULE SdkTurn -------------------------------
(***************************************************************************)
(* src/sdk/turn.go over src/turns/session.go: one turn of an agent.  The   *)
(* producer, the goroutine of the provider, writes parts and ends the      *)
(* turn; the first part sends the placeholder message and starts the       *)
(* stream.  Meanwhile the idle timer aborts a turn that has gone quiet,    *)
(* which writes a part of its own, and awaitStreamStart (the starter)      *)
(* retries the start of the stream every 15 ms.                            *)
(*                                                                         *)
(* What an actor still has to do is ops[a], a sequence of operations; the  *)
(* head is taken when its last call into the session has returned.         *)
(*                                                                         *)
(* Abstracted: the content of parts and of the final edit (the UI state    *)
(* but for its counter), the agent, the sender, status events.  Left out:  *)
(* turns whose send is suppressed (they have no stream) and step starts,   *)
(* which add to the counter once more, without a lock (a data race with    *)
(* NextSeq).  A provider that serves approval requests on goroutines of    *)
(* their own (codex/client.go:2212) adds writers like the idle timer.      *)
(***************************************************************************)
EXTENDS StreamSession

CONSTANTS
    Producer, IdleTimer, Starter,
    Watchdog,   \* whether turns have an idle timer: IdleTimeoutMs is not negative
    MaxParts    \* bound on the parts written before the final ones

ASSUME ActorAssumption ==
    /\ Actor = {Producer, IdleTimer, Starter}
    /\ Producer # IdleTimer /\ Producer # Starter /\ IdleTimer # Starter
    /\ Watchdog \in BOOLEAN
    /\ MaxParts \in Nat

VARIABLES
    started, ended,     \* Turn.started, Turn.ended
    timer,              \* Turn.idleTimer: "off", "armed", "fired" (callback not yet run)
    ops,                \* what each actor still has to do
    written,            \* how many parts were begun before the final ones
    finalised,          \* the final edit and message are out, the context is cancelled
    owed                \* how many parts were accepted when the turn ended (history)

turnVars == <<started, ended, timer, ops, written, finalised, owed>>
vars == <<sessionVars, turnVars>>

Init ==
    /\ SessionInit
    /\ started = FALSE /\ ended = FALSE /\ finalised = FALSE
    /\ timer = "off"
    /\ owed = 0
    /\ ops = [a \in Actor |-> <<>>]
    /\ written = 0

Ready(a) == at[a] \in Returned
Idle(a) == Ready(a) /\ ops[a] = <<>>
Has(a, op) == Ready(a) /\ ops[a] # <<>> /\ Head(ops[a]) = op

\* The actor does its next operation with a call into the session at place.
Call(a, place) == Goto(a, place) /\ ops' = [ops EXCEPT ![a] = Tail(@)]
\* The actor is done with its next operation and goes on with todo.
GoOn(a, todo) == ops' = [ops EXCEPT ![a] = todo]

sessionRest == <<closed, registration, pendingParts, flusher, stepCount, held,
                 published, faults>>

-----------------------------------------------------------------------------
(* Writer.ready, ensureStarted: whoever writes first starts the turn.      *)

ProducerWrites ==
    /\ Idle(Producer)
    /\ written < MaxParts
    /\ written' = written + 1
    /\ started' = (started \/ ~ended)
    /\ GoOn(Producer, IF started \/ ended THEN <<"write">>
                      ELSE <<"placeholder", "spawn", "write", "write">>)
    /\ UNCHANGED <<sessionVars, ended, timer, finalised, owed>>

\* The placeholder is sent and the stream started on its event, or the event is
\* known to the database only, and later.
SendPlaceholder(a) ==
    /\ Has(a, "placeholder")
    /\ \/ target' = "event" /\ Call(a, IF closed THEN "done" ELSE "register")
       \/ target' = "id" /\ GoOn(a, Tail(ops[a])) /\ UNCHANGED at
    /\ UNCHANGED <<sessionRest, started, ended, timer, written, finalised, owed>>

\* EnsureRoomAgent or ensureSenderJoined fails, which skips the start part as well,
\* or the send does.
PlaceholderFails(a) ==
    /\ Has(a, "placeholder")
    /\ \E skipped \in {2, 3} : GoOn(a, SubSeq(ops[a], skipped + 1, Len(ops[a])))
    /\ UNCHANGED <<sessionVars, started, ended, timer, written, finalised, owed>>

\* streamStartOnce.
EnsureStreamStartedAsync(a) ==
    /\ Has(a, "spawn")
    /\ ops[Starter] = <<>>
    /\ ops' = [ops EXCEPT ![a] = Tail(@), ![Starter] = <<"retry">>]
    /\ Goto(Starter, "undone")
    /\ UNCHANGED <<sessionRest, target, started, ended, timer, written, finalised, owed>>

\* A negative IdleTimeoutMs disables the timer.
ResetIdleTimeout == timer' = IF Watchdog /\ started /\ ~ended THEN "armed" ELSE timer
StopIdleTimeout == timer' = "off"

EmitPart_NoTimer(a) ==
    /\ Has(a, "write")
    /\ IF started THEN Call(a, "emit") ELSE GoOn(a, Tail(ops[a])) /\ UNCHANGED at
    /\ UNCHANGED <<sessionRest, target, started, ended, timer, written, finalised, owed>>

\* emitPart: resets the idle timer, then applies the part and delivers it if
\* there is a session.
EmitPart(a) ==
    /\ Has(a, "write")
    /\ ResetIdleTimeout
    /\ IF started THEN Call(a, "emit") ELSE GoOn(a, Tail(ops[a])) /\ UNCHANGED at
    /\ UNCHANGED <<sessionRest, target, started, ended, written, finalised, owed>>

-----------------------------------------------------------------------------
(* awaitStreamStart, until the stream is up or closed.                     *)

\* EnsureStarted.  A session that is closed or a cancelled context ends the loop.
StarterPolls ==
    /\ Has(Starter, "retry")
    /\ at[Starter] = "undone"
    /\ Goto(Starter, IF closed \/ finalised THEN "done" ELSE "target")
    /\ UNCHANGED <<sessionRest, target, turnVars>>

-----------------------------------------------------------------------------
(* The idle timer.                                                         *)

TimerFires ==
    /\ timer = "armed"
    /\ timer' = "fired"
    /\ UNCHANGED <<sessionVars, started, ended, ops, written, finalised, owed>>

\* handleIdleTimeout: a reset or a stop in the meantime has made "fired" void.  The
\* abort itself looks at ended only, not at the timer again.
HandleIdleTimeout ==
    /\ timer = "fired"
    /\ Idle(IdleTimer)
    /\ timer' = "off"
    /\ GoOn(IdleTimer, IF started /\ ~ended THEN <<"abort">> ELSE <<>>)
    /\ UNCHANGED <<sessionVars, started, ended, written, finalised, owed>>

-----------------------------------------------------------------------------
(* End, EndWithError, Abort: the first one wins and finalizes the turn.    *)

\* finalizeTurn, after one final part, or two for an error.
Finalisation(parts) == parts \o <<"flush", "end", "persist">>

\* An actor that is in the middle of it.
Finalising(a) == \E i \in 1..Len(ops[a]) : ops[a][i] = "persist"

EndTurn ==
    /\ ended' = TRUE
    /\ owed' = Len(Accepted)
    /\ StopIdleTimeout
    /\ UNCHANGED <<sessionVars, started, written, finalised>>

ProducerEnds ==
    /\ Idle(Producer)
    /\ ~ended
    /\ EndTurn
    /\ \E parts \in {<<"write">>, <<"write", "write">>} :
          GoOn(Producer, IF started THEN Finalisation(parts) ELSE <<>>)

Abort_Again(a) ==
    /\ Has(a, "abort")
    /\ EndTurn
    /\ GoOn(a, Finalisation(<<"write">>))

Abort(a) ==
    /\ Has(a, "abort")
    /\ \/ ended /\ GoOn(a, <<>>) /\ UNCHANGED <<sessionVars, started, ended, timer, written,
                                                 finalised, owed>>
       \/ ~ended /\ EndTurn /\ GoOn(a, Finalisation(<<"write">>))

FlushPendingStream(a) ==
    /\ Has(a, "flush")
    /\ Call(a, IF closed THEN "done" ELSE "lock")
    /\ UNCHANGED <<sessionRest, target, started, ended, timer, written, finalised, owed>>

EndSession(a) ==
    /\ Has(a, "end")
    /\ Call(a, "end")
    /\ UNCHANGED <<sessionRest, target, started, ended, timer, written, finalised, owed>>

\* dispatchFinalEdit, persistFinalMessage, and the deferred cancel.
Persist(a) ==
    /\ Has(a, "persist")
    /\ finalised' = TRUE
    /\ GoOn(a, <<>>)
    /\ UNCHANGED <<sessionVars, started, ended, timer, written, owed>>

-----------------------------------------------------------------------------
\* The steps a goroutine takes on its own once it has begun something.
OwnStep(a) ==
    \/ SessionStep(a) /\ UNCHANGED turnVars
    \/ SendPlaceholder(a) \/ PlaceholderFails(a)
    \/ EnsureStreamStartedAsync(a) \/ EmitPart(a)
    \/ Abort(a) \/ FlushPendingStream(a) \/ EndSession(a) \/ Persist(a)

TimerStep == TimerFires \/ HandleIdleTimeout

Next ==
    \/ ProducerWrites \/ ProducerEnds \/ StarterPolls \/ TimerStep
    \/ \E a \in Actor : OwnStep(a)

Spec == Init /\ [][Next]_vars

\* Go runs its goroutines and timers fire.  The provider need not say anything more,
\* so what the producer begins is not fair.
Fairness ==
    /\ \A a \in Actor : WF_vars(OwnStep(a))
    /\ WF_vars(StarterPolls) /\ WF_vars(TimerFires) /\ WF_vars(HandleIdleTimeout)

FairSpec == Spec /\ Fairness

-----------------------------------------------------------------------------
\* Whoever writes, flushes, fails and retries, the homeserver sees the parts in the
\* order in which pendingParts took them, none lost in between and none twice
\* (session.go: flushMu, requeuePendingFront).
StreamKeepsOrder == Promise!Spec

\* A final flush that has found the event of the stream and reports success has
\* published every part that was accepted before the turn ended, also those another
\* goroutine was publishing when it came (finalizeTurn sends the final edit next).  A
\* flush that has no event yet reports success and publishes nothing.
FinalFlushIsComplete ==
    [][\A a \in Actor :
          /\ at[a] \in {"lock", "publish"} /\ at'[a] = "done"
          /\ ops[a] # <<>> /\ Head(ops[a]) = "end"
          /\ target' = "event"
          => Len(published') >= owed]_vars

\* One of End, EndWithError and Abort finalizes the turn, and no second one does,
\* although the idle timer aborts without looking at the timer again.
FinalisedOnce ==
    /\ \A a, b \in Actor : Finalising(a) /\ Finalising(b) => a = b
    /\ finalised => \A a \in Actor : ~Finalising(a)

\* The turn will end: somebody has ended it, or the idle timer watches over it.
Ending == Watchdog \/ ended

\* A started turn ends with a final edit and message, also when the provider never
\* says anything again (the idle timer) and whatever the stream does.  Without the
\* timer this is said of a turn that End, EndWithError or Abort has ended: one whose
\* provider falls silent stays open.
TurnIsFinalised == (started /\ Ending) ~> finalised

\* Nothing outlives the turn: a stream registered while the session is open does
\* not stay registered, and the retry loop of awaitStreamStart ends.
StreamIsReleased ==
    /\ (registration = "live" /\ ~closed /\ Ending) ~> (registration = "gone")
    /\ finalised ~> at[Starter] = "done"

\* However a turn goes that ends or is watched by the idle timer, it comes to an end
\* and so does everything it started.
TurnEnds == TurnIsFinalised /\ StreamIsReleased

=============================================================================
