---------------------------- MODULE StreamSession ----------------------------
(***************************************************************************)
(* src/turns/session.go: the stream of one turn.  Goroutines (Actor) hand  *)
(* parts to EmitPart; a part gets its sequence number, waits in            *)
(* pendingParts, and is published by whichever goroutine flushes, once the *)
(* event the stream belongs to is known and the stream is registered with  *)
(* the homeserver.  The critical sections (the turn's mu in NextSeq,       *)
(* streamMu, flushMu, the swap of closed) and the calls to the publisher   *)
(* are steps of their own; a step takes with it the reads that follow it   *)
(* and that commute with what others do.                                   *)
(*                                                                         *)
(* Abstracted: the content of a part (its sequence number stands for it)   *)
(* and the encoding of the envelope.  There is a publisher; its calls fail *)
(* at most MaxFaults times, the look-up in the database any time.  A       *)
(* publication that fails is taken to have had no effect.                  *)
(***************************************************************************)
EXTENDS Naturals, Sequences

CONSTANTS
    Actor,      \* the goroutines that call into the session
    None,       \* no actor
    MaxFaults   \* bound on the failures of Register and Publish

ASSUME SessionAssumption == None \notin Actor /\ MaxFaults \in Nat

VARIABLES
    closed,         \* StreamSession.closed
    registration,   \* streamStarted, and the stream at the homeserver: "none", "live", "gone"
    pendingParts,   \* StreamSession.pendingParts: sequence numbers
    flusher,        \* the holder of flushMu
    target,         \* the placeholder: "none", "id" (not in the database yet), "event"
    stepCount,      \* UIState.UIStepCount, the source of sequence numbers
    at,             \* where each actor is in the session, or how its call ended
    held,           \* the part an actor carries, 0 for none
    published,      \* what the homeserver accepted, in order
    faults          \* failures so far

sessionVars == <<closed, registration, pendingParts, flusher, target, stepCount, at,
                 held, published, faults>>

\* "undone": no target yet, or a failure; the starter tries again.
Returned == {"done", "undone"}
Place == Returned \cup {"emit", "enqueue", "target", "register", "lock", "publish",
                        "end", "release"}

SessionInit ==
    /\ closed = FALSE /\ registration = "none"
    /\ pendingParts = <<>> /\ published = <<>>
    /\ flusher = None
    /\ target = "none"
    /\ stepCount = 0 /\ faults = 0
    /\ at = [a \in Actor |-> "done"]
    /\ held = [a \in Actor |-> 0]

Goto(a, place) == at' = [at EXCEPT ![a] = place]
Carry(a, part) == held' = [held EXCEPT ![a] = part]

-----------------------------------------------------------------------------
(* EmitPart.                                                               *)

EmitRefused(a) ==
    /\ at[a] = "emit"
    /\ closed
    /\ Goto(a, "done")
    /\ UNCHANGED <<closed, registration, pendingParts, flusher, target, stepCount,
                   held, published, faults>>

\* The number is taken under the turn's lock, before the queue is locked.
NextSeq(a) ==
    /\ at[a] = "emit"
    /\ ~closed
    /\ stepCount' = stepCount + 1
    /\ Carry(a, stepCount + 1)
    /\ Goto(a, "enqueue")
    /\ UNCHANGED <<closed, registration, pendingParts, flusher, target, published, faults>>

Enqueue(a) ==
    /\ at[a] = "enqueue"
    /\ pendingParts' = Append(pendingParts, held[a])
    /\ Carry(a, 0)
    /\ Goto(a, "target")
    /\ UNCHANGED <<closed, registration, flusher, target, stepCount, published, faults>>

-----------------------------------------------------------------------------
(* currentTargetEventID, Start and tryStart.                               *)

\* The event of the placeholder was returned by the send, or the database has it by now.
FoundTarget == target # "none" /\ target' = "event"

FindTarget(a) ==
    /\ at[a] = "target"
    /\ FoundTarget
    /\ Goto(a, IF closed THEN "done" ELSE "register")
    /\ UNCHANGED <<closed, registration, pendingParts, flusher, stepCount, held,
                   published, faults>>

\* No placeholder yet, not in the database yet, or the look-up fails.
NoTarget(a) ==
    /\ at[a] = "target"
    /\ target # "event"
    /\ Goto(a, "undone")
    /\ UNCHANGED <<closed, registration, pendingParts, flusher, target, stepCount, held,
                   published, faults>>

\* Registers under streamMu, whatever closed has become since Start looked at it;
\* FlushPending looks again.
Register(a) ==
    /\ at[a] = "register"
    /\ registration' = IF registration = "none" THEN "live" ELSE registration
    /\ Goto(a, IF closed THEN "done" ELSE "lock")
    /\ UNCHANGED <<closed, pendingParts, flusher, target, stepCount, held, published,
                   faults>>

\* NewDescriptor or Register fails: the next part, or the starter, tries again.
RegisterFails(a) ==
    /\ at[a] = "register"
    /\ registration = "none"
    /\ faults < MaxFaults
    /\ faults' = faults + 1
    /\ Goto(a, "undone")
    /\ UNCHANGED <<closed, registration, pendingParts, flusher, target, stepCount, held,
                   published>>

-----------------------------------------------------------------------------
(* FlushPending: one flusher at a time drains the queue; a part that       *)
(* cannot be published goes back to the front.                             *)

\* No placeholder, or none in the database yet, is a success; a look-up may fail.
FlushNoTarget(a) ==
    /\ at[a] = "lock"
    /\ flusher = None
    /\ target # "event"
    /\ \E place \in Returned : Goto(a, place) /\ (target = "none" => place = "done")
    /\ UNCHANGED <<closed, registration, pendingParts, flusher, target, stepCount, held,
                   published, faults>>

\* The head of the queue becomes the flusher's, or the flush is over.
TakeNext(a) ==
    IF pendingParts = <<>>
    THEN /\ flusher' = None
         /\ Carry(a, 0)
         /\ Goto(a, "done")
         /\ UNCHANGED pendingParts
    ELSE /\ flusher' = a
         /\ Carry(a, Head(pendingParts))
         /\ pendingParts' = Tail(pendingParts)
         /\ Goto(a, "publish")

FlushLock_GivesUp(a) ==
    /\ at[a] = "lock"
    /\ FoundTarget
    /\ IF flusher = None THEN TakeNext(a)
       ELSE Goto(a, "done") /\ UNCHANGED <<flusher, held, pendingParts>>
    /\ UNCHANGED <<closed, registration, stepCount, published, faults>>

FlushLock(a) ==
    /\ at[a] = "lock"
    /\ flusher = None
    /\ FoundTarget
    /\ TakeNext(a)
    /\ UNCHANGED <<closed, registration, stepCount, published, faults>>

Publish(a) ==
    /\ at[a] = "publish"
    /\ published' = Append(published, held[a])
    /\ TakeNext(a)
    /\ UNCHANGED <<closed, registration, target, stepCount, faults>>

PublishFails_Back(a) ==
    /\ at[a] = "publish"
    /\ faults < MaxFaults
    /\ faults' = faults + 1
    /\ pendingParts' = Append(pendingParts, held[a])
    /\ Carry(a, 0)
    /\ flusher' = None
    /\ Goto(a, "undone")
    /\ UNCHANGED <<closed, registration, target, stepCount, published>>

PublishFails(a) ==
    /\ at[a] = "publish"
    /\ faults < MaxFaults
    /\ faults' = faults + 1
    /\ pendingParts' = <<held[a]>> \o pendingParts
    /\ Carry(a, 0)
    /\ flusher' = None
    /\ Goto(a, "undone")
    /\ UNCHANGED <<closed, registration, target, stepCount, published>>

-----------------------------------------------------------------------------
(* End: closes first, then looks whether there is a stream to unregister.  *)

EndClose(a) ==
    /\ at[a] = "end"
    /\ closed' = TRUE
    /\ Goto(a, IF closed THEN "done" ELSE "release")
    /\ UNCHANGED <<registration, pendingParts, flusher, target, stepCount, held,
                   published, faults>>

EndRelease(a) ==
    /\ at[a] = "release"
    /\ registration' = IF registration = "live" THEN "gone" ELSE registration
    /\ Goto(a, "done")
    /\ UNCHANGED <<closed, pendingParts, flusher, target, stepCount, held, published,
                   faults>>

-----------------------------------------------------------------------------
SessionStep(a) ==
    \/ EmitRefused(a) \/ NextSeq(a) \/ Enqueue(a)
    \/ FindTarget(a) \/ NoTarget(a) \/ Register(a) \/ RegisterFails(a)
    \/ FlushNoTarget(a) \/ FlushLock(a) \/ Publish(a) \/ PublishFails(a)
    \/ EndClose(a) \/ EndRelease(a)

-----------------------------------------------------------------------------
(* The promise of the session, OrderedStream: whatever goroutines do, the  *)
(* homeserver sees the parts in the order in which they were accepted,     *)
(* none skipped and none twice.  A part that a flusher carries is still    *)
(* accepted and not yet delivered.                                         *)

InFlight == IF flusher # None THEN <<held[flusher]>> ELSE <<>>

Accepted == published \o InFlight \o pendingParts

Promise == INSTANCE OrderedStream WITH accepted <- Accepted, delivered <- published
=============================================================================
