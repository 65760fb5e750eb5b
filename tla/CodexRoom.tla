----------------------------- MODULE CodexRoom -----------------------------
(***************************************************************************)
(* src/bridges/codex/client.go: messages of Codex rooms, from              *)
(* HandleMatrixMessage over the room's queue and turn/start to the event   *)
(* that completes the turn.  roomMu is held for each look at activeRooms   *)
(* and pendingMessages; a turn and the kick after it run in a goroutine,   *)
(* one per turn, and one dispatcher hands out the notifications of all.    *)
(*                                                                         *)
(* Abstracted: commands, the events of a turn but the last, starting the   *)
(* app server and a room's thread, which succeed or fail.  Not here:       *)
(* Disconnect and a connect after it.                                      *)
(***************************************************************************)
EXTENDS CodexRpc

CONSTANTS
    None,
    Rooms,
    RoomOf      \* the room of each message

\* Messages are numbered as they come; each makes one call, turn/start.
Messages == Calls

ASSUME RoomsAssumption ==
    /\ Messages \subseteq Nat
    /\ RoomOf \in [Messages -> Rooms]
    /\ None \notin Messages

VARIABLES
    stage,      \* where each message, with its goroutine, is
    active,     \* activeRooms
    queue,      \* pendingMessages
    loaded,     \* rooms whose thread the app server has loaded
    running,    \* turns the app server works on
    notifs,     \* notifCh: turn/completed of these turns
    current,    \* what the dispatcher holds
    subs,       \* turnSubs
    inbox       \* turns whose channel holds the terminal event

roomVars == <<stage, active, queue, loaded>>
turnVars == <<running, notifs, current, subs, inbox>>
vars == <<rpcVars, roomVars, turnVars>>

HandlerStages == {"ensured", "toQueue"}
TurnStages == {"turn", "calling", "started", "events", "over"}
Stages == {"new", "refused", "queued", "kick", "load", "done"} \cup HandlerStages \cup TurnStages

Of(r) == {m \in Messages : RoomOf[m] = r}
In(stages) == {m \in Messages : stage[m] \in stages}
Before(m) == {k \in Of(RoomOf[m]) : k < m}

Init ==
    /\ RpcInit
    /\ stage = [m \in Messages |-> "new"]
    /\ active = {} /\ loaded = {}
    /\ queue = [r \in Rooms |-> <<>>]
    /\ notifs = <<>>
    /\ running = {} /\ subs = {} /\ inbox = {}
    /\ current = None

Goes(m, s) == stage' = [stage EXCEPT ![m] = s]

-----------------------------------------------------------------------------
(* HandleMatrixMessage.  The framework handles the events of one room one  *)
(* after the other.                                                        *)

\* A thread is loaded already, or an app server that still answers loads it.
CanLoad(r) == r \in loaded \/ output = "open"

\* ensureRPC, ensureCodexThread and ensureCodexThreadLoaded.
HandleMessage(m) ==
    /\ stage[m] = "new"
    /\ Before(m) \cap In({"new"} \cup HandlerStages) = {}
    /\ \/ CanLoad(RoomOf[m]) /\ Goes(m, "ensured") /\ loaded' = loaded \cup {RoomOf[m]}
       \/ RoomOf[m] \notin loaded /\ Goes(m, "refused") /\ UNCHANGED loaded
    /\ UNCHANGED <<rpcVars, active, queue, turnVars>>

\* Mutant: queued messages do not keep the room busy.
RoomFree_ActiveOnly(r) == r \notin active

\* acquireRoomIfQueueEmpty succeeds.
RoomFree(r) == r \notin active /\ queue[r] = <<>>

AcquireRoom(m) ==
    /\ stage[m] = "ensured"
    /\ IF RoomFree(RoomOf[m])
       THEN active' = active \cup {RoomOf[m]} /\ Goes(m, "turn")
       ELSE Goes(m, "toQueue") /\ UNCHANGED active
    /\ UNCHANGED <<rpcVars, queue, loaded, turnVars>>

\* queuePendingCodex, in a critical section of its own.
QueuePending(m) ==
    /\ stage[m] = "toQueue"
    /\ queue' = [queue EXCEPT ![RoomOf[m]] = Append(@, m)]
    /\ Goes(m, "queued")
    /\ UNCHANGED <<rpcVars, active, loaded, turnVars>>

-----------------------------------------------------------------------------
(* runTurn.                                                                *)

CallTurnStart(m) ==
    /\ stage[m] = "turn"
    /\ StartCall(m)
    /\ Goes(m, "calling")
    /\ UNCHANGED <<active, queue, loaded, turnVars>>

TurnStarted(m) ==
    /\ stage[m] = "calling"
    /\ call[m] = "ok"
    /\ Goes(m, "started")
    /\ UNCHANGED <<rpcVars, active, queue, loaded, turnVars>>

\* Mutant: the kick is part of runTurn, behind its early return.
TurnRefused_NoKick(m) ==
    /\ stage[m] = "calling"
    /\ call[m] = "failed"
    /\ Goes(m, "done")
    /\ active' = active \ {RoomOf[m]}
    /\ UNCHANGED <<rpcVars, queue, loaded, turnVars>>

TurnRefused(m) ==
    /\ stage[m] = "calling"
    /\ call[m] = "failed"
    /\ Goes(m, "over")
    /\ UNCHANGED <<rpcVars, active, queue, loaded, turnVars>>

\* Comes after markMessageSendSuccess, a request to the homeserver.
SubscribeTurn(m) ==
    /\ stage[m] = "started"
    /\ subs' = subs \cup {m}
    /\ Goes(m, "events")
    /\ UNCHANGED <<rpcVars, active, queue, loaded, running, notifs, current, inbox>>

TurnEnds(m) ==
    /\ stage[m] = "events"
    /\ Goes(m, "over")
    /\ subs' = subs \ {m}
    /\ inbox' = inbox \ {m}
    /\ UNCHANGED <<rpcVars, active, queue, loaded, running, notifs, current>>

\* turn/completed, or ten minutes without an event.
TurnCompleted(m) == m \in inbox /\ TurnEnds(m)
TurnTimesOut(m) == m \notin inbox /\ TurnEnds(m)

-----------------------------------------------------------------------------
(* releaseRoom and processPendingCodex.                                    *)

ReleaseRoom(m) ==
    /\ stage[m] = "over"
    /\ active' = active \ {RoomOf[m]}
    /\ Goes(m, "kick")
    /\ UNCHANGED <<rpcVars, queue, loaded, turnVars>>

\* Mutant: beginPendingCodex takes the room from whoever holds it.
BeginPending_Taken(m) ==
    /\ stage[m] = "kick"
    /\ IF queue[RoomOf[m]] = <<>>
       THEN Goes(m, "done") /\ UNCHANGED active
       ELSE active' = active \cup {RoomOf[m]} /\ Goes(m, "load")
    /\ UNCHANGED <<rpcVars, queue, loaded, turnVars>>

BeginPending(m) ==
    /\ stage[m] = "kick"
    /\ IF RoomOf[m] \in active \/ queue[RoomOf[m]] = <<>>
       THEN Goes(m, "done") /\ UNCHANGED active
       ELSE active' = active \cup {RoomOf[m]} /\ Goes(m, "load")
    /\ UNCHANGED <<rpcVars, queue, loaded, turnVars>>

\* popPendingCodex and the goroutine of the next turn.
StartPending(m) ==
    /\ stage' = [stage EXCEPT ![m] = "done", ![Head(queue[RoomOf[m]])] = "turn"]
    /\ queue' = [queue EXCEPT ![RoomOf[m]] = Tail(@)]

LoadPending(m) ==
    /\ stage[m] = "load"
    /\ CanLoad(RoomOf[m])
    /\ StartPending(m)
    /\ loaded' = loaded \cup {RoomOf[m]}
    /\ UNCHANGED <<rpcVars, active, turnVars>>

\* The thread cannot be resumed: the room is released and nothing else happens.
LoadPendingFails(m) ==
    /\ stage[m] = "load"
    /\ RoomOf[m] \notin loaded
    /\ active' = active \ {RoomOf[m]}
    /\ Goes(m, "done")
    /\ UNCHANGED <<rpcVars, queue, loaded, turnVars>>

\* cleanupImportedPortalState, when a directory is forgotten.
ForgetDirectory(r) ==
    /\ r \in loaded
    /\ loaded' = loaded \ {r}
    /\ UNCHANGED <<rpcVars, stage, active, queue, turnVars>>

-----------------------------------------------------------------------------
(* The app server, and dispatchNotifications.                              *)

AnswerTurnStart(m) ==
    /\ Answer(m)
    /\ running' = running \cup {m}
    /\ UNCHANGED <<roomVars, notifs, current, subs, inbox>>

\* OnNotification drops the event while notifCh is full or the login is off.
CompleteTurn(m) ==
    /\ output = "open"
    /\ m \in running
    /\ running' = running \ {m}
    /\ notifs' \in {notifs, Append(notifs, m)}
    /\ UNCHANGED <<rpcVars, roomVars, current, subs, inbox>>

DispatchNext ==
    /\ current = None /\ notifs # <<>>
    /\ current' = Head(notifs)
    /\ notifs' = Tail(notifs)
    /\ UNCHANGED <<rpcVars, roomVars, running, subs, inbox>>

DispatchToTurn ==
    /\ current \in subs
    /\ inbox' = inbox \cup {current}
    /\ current' = None
    /\ UNCHANGED <<rpcVars, roomVars, running, notifs, subs>>

\* After twenty looks, a second, the event of a turn that has not subscribed
\* or has ended is dropped.
DispatchGivesUp ==
    /\ current # None /\ current \notin subs
    /\ current' = None
    /\ UNCHANGED <<rpcVars, roomVars, running, notifs, subs, inbox>>

-----------------------------------------------------------------------------
Progress ==
    \/ RpcProgress /\ UNCHANGED <<roomVars, turnVars>>
    \/ \E m \in Messages :
         \/ AcquireRoom(m) \/ QueuePending(m)
         \/ CallTurnStart(m) \/ TurnStarted(m) \/ TurnRefused(m)
         \/ SubscribeTurn(m) \/ TurnCompleted(m) \/ TurnTimesOut(m)
         \/ ReleaseRoom(m) \/ BeginPending(m) \/ LoadPending(m) \/ LoadPendingFails(m)
    \/ DispatchNext \/ DispatchToTurn \/ DispatchGivesUp

Next ==
    \/ Progress
    \/ \E m \in Messages : HandleMessage(m) \/ AnswerTurnStart(m) \/ CompleteTurn(m)
    \/ \E r \in Rooms : ForgetDirectory(r)
    \/ OutputEnds /\ UNCHANGED <<roomVars, turnVars>>

Spec == Init /\ [][Next]_vars

\* Goroutines go on, calls and turns have deadlines; the user and the app server
\* owe nothing.  Every step of Progress takes a message or an event further, so
\* none can starve another.
FairSpec == Spec /\ WF_vars(Progress)

-----------------------------------------------------------------------------
(* Properties.                                                             *)

\* The turns of each room are serial: handlers and the kicks of ended turns
\* compete for a room, and each room implements SerialRoom (Serial(r)!Spec for
\* every r, in the one form TLC takes).
LiveTurns(r) == Of(r) \cap In(TurnStages)
Serial(r) == INSTANCE SerialRoom WITH live <- LiveTurns(r)
TurnsAreSerial ==
    /\ \A r \in Rooms : Serial(r)!Init
    /\ [][\A r \in Rooms : [Serial(r)!Next]_(LiveTurns(r))]_vars

\* A turn never starts while a message that came to the room before is waiting.
TurnsInOrder ==
    [][\A m \in Messages :
          stage[m] # "turn" /\ stage'[m] = "turn"
          => Before(m) \cap In({"queued"} \cup HandlerStages) = {}]_vars

\* A message that is queued while the room works is taken out of the queue,
\* unless the directory of the room is forgotten on the way.
QueueIsKicked ==
    \A m \in Messages :
        (stage[m] = "queued" /\ RoomOf[m] \in active) ~> (stage[m] # "queued" \/ RoomOf[m] \notin loaded)

\* "Queued - waiting for current turn to finish...": a queued message starts.
QueuedIsServed ==
    \A m \in Messages : stage[m] = "queued" ~> (stage[m] # "queued" \/ RoomOf[m] \notin loaded)
=============================================================================
