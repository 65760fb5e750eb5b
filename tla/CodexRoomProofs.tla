-------------------------- MODULE CodexRoomProofs --------------------------
(***************************************************************************)
(* Proofs about CodexRoom, for any messages and rooms: each room           *)
(* implements SerialRoom, and no call is forgotten when the client closes. *)
(***************************************************************************)
EXTENDS CodexRoom, TLAPS

(***************************************************************************)
(* Calls.  Until failAllPending has run every open call is pending; after  *)
(* it the client is closed, or the output has ended and the reader is just *)
(* about to close, so a new call is refused or counted as late.            *)
(***************************************************************************)
Open(c) == call[c] \in {"write", "wait"} /\ reply[c] = "none"

CallInv ==
    /\ call \in [Calls -> {"none", "write", "wait", "ok", "failed"}]
    /\ reply \in [Calls -> {"none", "result", "closed"}]
    /\ drained => closed \/ output = "ended"
    /\ ~drained => \A c \in Calls : Open(c) => c \in pending
    /\ drained => \A c \in Calls \ late : Open(c) => call[c] = "write" /\ closed

\* The actions of the calls keep it.
LEMMA CallStep ==
    ASSUME CallInv, [Next]_vars
    PROVE  CallInv'
<1> USE DEF CallInv, Open, Messages
<1>1. ASSUME NEW c \in Calls, StartCall(c) PROVE CallInv'
  BY <1>1 DEF StartCall
<1>2. ASSUME NEW c \in Calls, WriteRefused(c) PROVE CallInv'
  BY <1>2 DEF WriteRefused, CallReturns
<1>3. ASSUME NEW c \in Calls, Write(c) PROVE CallInv'
  BY <1>3 DEF Write
<1>4. ASSUME NEW c \in Calls, ReceiveReply(c) PROVE CallInv'
  BY <1>4 DEF ReceiveReply, CallReturns
<1>5. ASSUME NEW c \in Calls, Deadline(c) PROVE CallInv'
  BY <1>5 DEF Deadline, CallReturns
<1>6. ASSUME NEW c \in Calls, Answer(c) PROVE CallInv'
  BY <1>6 DEF Answer
<1>7. CASE OutputEnds
  BY <1>7 DEF OutputEnds
<1>8. CASE FailAllPending
  BY <1>8 DEF FailAllPending
<1>9. CASE CloseAfterRead
  BY <1>9 DEF CloseAfterRead
<1>10. CASE UNCHANGED rpcVars
  BY <1>10 DEF rpcVars
<1>11. QED
  BY <1>1, <1>2, <1>3, <1>4, <1>5, <1>6, <1>7, <1>8, <1>9, <1>10
     DEF Next, Progress, RpcProgress, vars, CallTurnStart, AnswerTurnStart,
         HandleMessage, AcquireRoom, QueuePending, TurnStarted, TurnRefused, SubscribeTurn,
         TurnCompleted, TurnTimesOut, TurnEnds, ReleaseRoom, BeginPending, LoadPending,
         LoadPendingFails, ForgetDirectory, CompleteTurn, DispatchNext, DispatchToTurn,
         DispatchGivesUp

\* Once the client is closed and drained no call but a late one waits in vain
\* (codexrpc/client.go, Close and failAllPending).
THEOREM SpecCallsAreFailed == Spec => []CallsAreFailed
<1>1. Init => CallInv
  BY DEF Init, RpcInit, CallInv, Open
<1>2. CallInv => CallsAreFailed
  BY DEF CallInv, CallsAreFailed, Open
<1>3. QED
  BY <1>1, <1>2, CallStep, PTL DEF Spec
(***************************************************************************)
(* Rooms.  A room that is taken is held by one message: the one whose turn *)
(* runs, or the one whose goroutine is about to start the head of the      *)
(* queue.  The queue holds queued messages of the room, each once, so the  *)
(* head is free to become the next turn.                                   *)
(***************************************************************************)
Holding(m) == stage[m] \in TurnStages \cup {"load"}

QueueOk(q, r) ==
    /\ q \in Seq(Messages)
    /\ \A i \in 1..Len(q) : stage[q[i]] = "queued" /\ RoomOf[q[i]] = r
    /\ \A i, j \in 1..Len(q) : q[i] = q[j] => i = j

RoomInv ==
    /\ stage \in [Messages -> Stages]
    /\ queue \in [Rooms -> Seq(Messages)]
    /\ \A m \in Messages : Holding(m) => RoomOf[m] \in active
    /\ \A m, k \in Messages : RoomOf[m] = RoomOf[k] /\ Holding(m) /\ Holding(k) => m = k
    /\ \A r \in Rooms : QueueOk(queue[r], r)
    /\ \A m \in Messages : stage[m] = "load" => queue[RoomOf[m]] # <<>>

\* What TurnsAreSerial says of a step.
SerialStep == \A r \in Rooms : [Serial(r)!Next]_(LiveTurns(r))

\* A message goes on without taking or giving back its room, and queues stay.
Moves(m, s) ==
    /\ stage' = [stage EXCEPT ![m] = s]
    /\ stage[m] # "queued" /\ s \in Stages
    /\ UNCHANGED queue

LEMMA QueuesStay ==
    ASSUME RoomInv, NEW m \in Messages, NEW s, Moves(m, s)
    PROVE  /\ stage' \in [Messages -> Stages]
           /\ queue' \in [Rooms -> Seq(Messages)]
           /\ \A r \in Rooms : QueueOk(queue[r], r)'
BY DEF RoomInv, Moves, QueueOk

LEMMA StepWithin ==
    ASSUME RoomInv, NEW m \in Messages, NEW s, Moves(m, s), UNCHANGED active,
           \/ stage[m] \in TurnStages /\ s \in TurnStages
           \/ ~Holding(m) /\ s \notin TurnStages \cup {"load"}
    PROVE  RoomInv' /\ SerialStep
<1>1. RoomInv'
  BY QueuesStay DEF RoomInv, Moves, Holding, TurnStages, Stages, HandlerStages
<1>2. \A r \in Rooms : LiveTurns(r)' = LiveTurns(r)
  BY DEF RoomInv, Moves, Holding, LiveTurns, Of, In, TurnStages, Stages, HandlerStages
<1>3. QED
  BY <1>1, <1>2 DEF SerialStep

LEMMA StepTakes ==
    ASSUME RoomInv, NEW m \in Messages, NEW s, Moves(m, s), RoomOf[m] \notin active,
           active' = active \cup {RoomOf[m]},
           s = "turn" \/ (s = "load" /\ queue[RoomOf[m]] # <<>>)
    PROVE  RoomInv' /\ SerialStep
<1>1. RoomInv'
  <2>1. \A k \in Messages : Holding(k)' <=> k = m \/ Holding(k)
    BY DEF RoomInv, Moves, Holding, TurnStages
  <2>2. \A k \in Messages : Holding(k) => RoomOf[k] # RoomOf[m]
    BY DEF RoomInv
  <2>3. \A k \in Messages : Holding(k)' => RoomOf[k] \in active'
    BY <2>1 DEF RoomInv
  <2>4. \A k, l \in Messages : RoomOf[k] = RoomOf[l] /\ Holding(k)' /\ Holding(l)' => k = l
    BY <2>1, <2>2 DEF RoomInv
  <2>5. \A k \in Messages : stage'[k] = "load" => queue'[RoomOf[k]] # <<>>
    BY DEF RoomInv, Moves
  <2>6. QED
    BY QueuesStay, <2>3, <2>4, <2>5 DEF RoomInv
<1>2. ASSUME NEW r \in Rooms PROVE LiveTurns(r)' = LiveTurns(r) \/ (LiveTurns(r) = {} /\ LiveTurns(r)' = {m})
  BY <1>2 DEF RoomInv, Moves, Holding, LiveTurns, Of, In, TurnStages, Stages, HandlerStages
<1>3. QED
  BY <1>1, <1>2 DEF SerialStep, Serial!Next, Serial!Begin

LEMMA StepReleases ==
    ASSUME RoomInv, NEW m \in Messages, NEW s, Moves(m, s), Holding(m),
           active' = active \ {RoomOf[m]}, s \in {"kick", "done"}
    PROVE  RoomInv' /\ SerialStep
<1>1. RoomInv'
  BY QueuesStay DEF RoomInv, Moves, Holding, TurnStages, Stages, HandlerStages
<1>2. ASSUME NEW r \in Rooms PROVE LiveTurns(r)' = LiveTurns(r) \/ (LiveTurns(r) # {} /\ LiveTurns(r)' = {})
  BY <1>2 DEF RoomInv, Moves, Holding, LiveTurns, Of, In, TurnStages, Stages, HandlerStages
<1>3. QED
  BY <1>1, <1>2 DEF SerialStep, Serial!Next, Serial!End

LEMMA StepQueues ==
    ASSUME RoomInv, NEW m \in Messages, QueuePending(m)
    PROVE  RoomInv' /\ SerialStep
<1>1. ASSUME NEW r \in Rooms PROVE QueueOk(queue[r], r)'
  <2>1. CASE r = RoomOf[m]
    <3>1. /\ queue'[r] = Append(queue[r], m)
          /\ \A i \in 1..Len(queue[r]) : queue[r][i] # m
      BY <2>1 DEF RoomInv, QueuePending, QueueOk, RoomsAssumption
    <3>2. QED
      BY <3>1, <2>1 DEF RoomInv, QueuePending, QueueOk, Goes, Stages
  <2>2. CASE r # RoomOf[m]
    BY <2>2 DEF RoomInv, QueuePending, QueueOk, Goes
  <2>3. QED
    BY <2>1, <2>2
<1>2. queue' \in [Rooms -> Seq(Messages)] /\ \A r \in Rooms : queue[r] # <<>> => queue'[r] # <<>>
  <2>1. RoomOf[m] \in Rooms /\ queue[RoomOf[m]] \in Seq(Messages)
    BY RoomsAssumption DEF RoomInv
  <2>2. /\ Append(queue[RoomOf[m]], m) \in Seq(Messages)
        /\ Append(queue[RoomOf[m]], m) # <<>>
    BY <2>1
  <2>3. QED
    BY <2>1, <2>2 DEF RoomInv, QueuePending
<1>3. RoomInv'
  BY <1>1, <1>2 DEF RoomInv, QueuePending, Goes, Holding, TurnStages, Stages, HandlerStages
<1>4. \A r \in Rooms : LiveTurns(r)' = LiveTurns(r)
  BY DEF RoomInv, QueuePending, Goes, LiveTurns, Of, In, TurnStages
<1>5. QED
  BY <1>3, <1>4 DEF SerialStep

LEMMA StepStartsPending ==
    ASSUME RoomInv, NEW m \in Messages, LoadPending(m)
    PROVE  RoomInv' /\ SerialStep
<1> DEFINE r0 == RoomOf[m]
           h == Head(queue[r0])
<1>1. /\ r0 \in Rooms /\ queue[r0] \in Seq(Messages) /\ queue[r0] # <<>>
      /\ h \in Messages /\ h = queue[r0][1] /\ stage[h] = "queued" /\ RoomOf[h] = r0 /\ h # m
  BY RoomsAssumption DEF RoomInv, LoadPending, QueueOk
<1>2. /\ stage' = [stage EXCEPT ![m] = "done", ![h] = "turn"]
      /\ queue' = [queue EXCEPT ![r0] = Tail(@)]
      /\ UNCHANGED active
      /\ stage[m] = "load"
  BY DEF LoadPending, StartPending
<1> HIDE DEF h
<1>3. ASSUME NEW r \in Rooms PROVE QueueOk(queue[r], r)'
  <2>1. CASE r = r0
    <3>1. queue'[r] = Tail(queue[r]) /\ Tail(queue[r]) \in Seq(Messages)
      BY <1>1, <1>2, <2>1 DEF RoomInv
    <3>2. /\ Len(Tail(queue[r])) = Len(queue[r]) - 1
          /\ \A i \in 1..Len(Tail(queue[r])) : /\ i + 1 \in 1..Len(queue[r])
                                               /\ Tail(queue[r])[i] = queue[r][i + 1]
      BY <1>1, <2>1
    <3>3. \A i \in 1..Len(queue[r]) : queue[r][i] # m /\ (queue[r][i] = h => i = 1)
      BY <1>1, <1>2, <2>1 DEF RoomInv, QueueOk
    <3>4. \A i \in 1..Len(Tail(queue[r])) : queue[r][i + 1] # m /\ queue[r][i + 1] # h
      BY <3>2, <3>3, <1>1, <2>1
    <3>5. QED
      BY <3>1, <3>2, <3>4, <1>1, <1>2, <2>1 DEF RoomInv, QueueOk
  <2>2. CASE r # r0
    BY <2>2, <1>1, <1>2 DEF RoomInv, QueueOk
  <2>3. QED
    BY <2>1, <2>2
<1>4. queue' \in [Rooms -> Seq(Messages)]
  BY <1>1, <1>2 DEF RoomInv
<1>5. stage' \in [Messages -> Stages]
  BY <1>1, <1>2 DEF RoomInv, Stages, TurnStages
<1>6. \A k \in Messages : k # m /\ RoomOf[k] = r0 => ~Holding(k)
  BY <1>2 DEF RoomInv, Holding
<1>7. \A k \in Messages : Holding(k)' => k = h \/ (k # m /\ Holding(k) /\ RoomOf[k] # r0)
  BY <1>1, <1>2, <1>6 DEF RoomInv, Holding, TurnStages
<1>8. \A k \in Messages : stage'[k] = "load" => stage[k] = "load" /\ RoomOf[k] # r0
  BY <1>1, <1>2, <1>6 DEF RoomInv, Holding
<1>9. RoomInv'
  <2>1. \A k \in Messages : Holding(k)' => (RoomOf[k] \in active)'
    BY <1>1, <1>2, <1>7 DEF RoomInv, Holding
  <2>2. \A k, l \in Messages : RoomOf[k] = RoomOf[l] /\ Holding(k)' /\ Holding(l)' => k = l
    BY <1>1, <1>7 DEF RoomInv
  <2>3. \A k \in Messages : stage'[k] = "load" => queue'[RoomOf[k]] # <<>>
    BY <1>1, <1>2, <1>8, RoomsAssumption DEF RoomInv
  <2>4. QED
    BY <1>3, <1>4, <1>5, <2>1, <2>2, <2>3 DEF RoomInv
<1>10. ASSUME NEW r \in Rooms PROVE LiveTurns(r)' = LiveTurns(r) \/ (LiveTurns(r) = {} /\ LiveTurns(r)' = {h})
  <2>1. CASE r = r0
    BY <2>1, <1>1, <1>2, <1>6 DEF RoomInv, LiveTurns, Of, In, Holding, TurnStages
  <2>2. CASE r # r0
    BY <2>2, <1>1, <1>2 DEF RoomInv, LiveTurns, Of, In, TurnStages
  <2>3. QED
    BY <2>1, <2>2
<1>11. QED
  BY <1>9, <1>10 DEF SerialStep, Serial!Next, Serial!Begin

LEMMA StepElsewhere ==
    ASSUME RoomInv, UNCHANGED <<stage, active, queue>>
    PROVE  RoomInv' /\ SerialStep
<1>1. RoomInv'
  BY DEF RoomInv, QueueOk, Holding
<1>2. \A r \in Rooms : LiveTurns(r)' = LiveTurns(r)
  BY DEF LiveTurns, Of, In
<1>3. QED
  BY <1>1, <1>2 DEF SerialStep

LEMMA RoomStep ==
    ASSUME RoomInv, [Next]_vars
    PROVE  RoomInv' /\ SerialStep
<1> USE DEF Goes, Moves, Holding, TurnStages, Stages, HandlerStages
<1>1. ASSUME NEW m \in Messages, HandleMessage(m) PROVE RoomInv' /\ SerialStep
  <2>1. PICK s \in {"ensured", "refused"} : Moves(m, s) /\ UNCHANGED active
    BY <1>1 DEF HandleMessage
  <2>2. QED
    BY <2>1, <1>1, StepWithin DEF HandleMessage
<1>2. ASSUME NEW m \in Messages, AcquireRoom(m) PROVE RoomInv' /\ SerialStep
  <2>1. CASE RoomFree(RoomOf[m])
    BY <1>2, <2>1, StepTakes DEF AcquireRoom, RoomFree
  <2>2. CASE ~RoomFree(RoomOf[m])
    BY <1>2, <2>2, StepWithin DEF AcquireRoom
  <2>3. QED
    BY <2>1, <2>2
<1>3. ASSUME NEW m \in Messages, QueuePending(m) PROVE RoomInv' /\ SerialStep
  BY <1>3, StepQueues
<1>4. ASSUME NEW m \in Messages, CallTurnStart(m) PROVE RoomInv' /\ SerialStep
  BY <1>4, StepWithin DEF CallTurnStart
<1>5. ASSUME NEW m \in Messages, TurnStarted(m) PROVE RoomInv' /\ SerialStep
  BY <1>5, StepWithin DEF TurnStarted
<1>6. ASSUME NEW m \in Messages, TurnRefused(m) PROVE RoomInv' /\ SerialStep
  BY <1>6, StepWithin DEF TurnRefused
<1>7. ASSUME NEW m \in Messages, SubscribeTurn(m) PROVE RoomInv' /\ SerialStep
  BY <1>7, StepWithin DEF SubscribeTurn
<1>8. ASSUME NEW m \in Messages, TurnEnds(m) PROVE RoomInv' /\ SerialStep
  BY <1>8, StepWithin DEF TurnEnds
<1>9. ASSUME NEW m \in Messages, ReleaseRoom(m) PROVE RoomInv' /\ SerialStep
  BY <1>9, StepReleases DEF ReleaseRoom
<1>10. ASSUME NEW m \in Messages, BeginPending(m) PROVE RoomInv' /\ SerialStep
  <2>1. CASE RoomOf[m] \in active \/ queue[RoomOf[m]] = <<>>
    BY <1>10, <2>1, StepWithin DEF BeginPending
  <2>2. CASE ~(RoomOf[m] \in active \/ queue[RoomOf[m]] = <<>>)
    BY <1>10, <2>2, StepTakes DEF BeginPending
  <2>3. QED
    BY <2>1, <2>2
<1>11. ASSUME NEW m \in Messages, LoadPending(m) PROVE RoomInv' /\ SerialStep
  BY <1>11, StepStartsPending
<1>12. ASSUME NEW m \in Messages, LoadPendingFails(m) PROVE RoomInv' /\ SerialStep
  BY <1>12, StepReleases DEF LoadPendingFails
<1>13. CASE UNCHANGED <<stage, active, queue>>
  BY <1>13, StepElsewhere
<1>14. QED
  BY <1>1, <1>2, <1>3, <1>4, <1>5, <1>6, <1>7, <1>8, <1>9, <1>10, <1>11, <1>12, <1>13
     DEF Next, Progress, vars, roomVars, TurnCompleted, TurnTimesOut, AnswerTurnStart,
         CompleteTurn, ForgetDirectory, DispatchNext, DispatchToTurn, DispatchGivesUp

\* Each room implements SerialRoom: no two turns of a room overlap, whoever
\* starts them (client.go, acquireRoomIfQueueEmpty and processPendingCodex).
THEOREM SpecTurnsAreSerial == Spec => TurnsAreSerial
<1>1. Init => RoomInv
  BY DEF Init, RoomInv, Holding, QueueOk, TurnStages, Stages, HandlerStages
<1>2. Init => \A r \in Rooms : Serial(r)!Init
  BY DEF Init, Serial!Init, LiveTurns, Of, In, TurnStages
<1>3. RoomInv /\ [Next]_vars => RoomInv' /\ [SerialStep]_vars
  BY RoomStep
<1>4. QED
  BY <1>1, <1>2, <1>3, PTL DEF Spec, TurnsAreSerial, SerialStep

(***************************************************************************)
(* Order.  Messages of a room come one after the other, so whoever is      *)
(* queued came before whoever is being handled: the queue is sorted, and   *)
(* it holds every message that waits.                                      *)
(***************************************************************************)
Sorted(q) == \A i, j \in 1..Len(q) : i < j => q[i] < q[j]

OrderInv ==
    /\ \A m, k \in Messages :
          RoomOf[m] = RoomOf[k] /\ k < m /\ stage[m] # "new" => stage[k] \notin {"new"} \cup HandlerStages
    /\ \A m \in Messages : stage[m] = "queued" => \E i \in 1..Len(queue[RoomOf[m]]) : queue[RoomOf[m]][i] = m
    /\ \A r \in Rooms : Sorted(queue[r])

OrderStep ==
    \A m \in Messages :
        stage[m] # "turn" /\ stage'[m] = "turn"
        => Before(m) \cap In({"queued"} \cup HandlerStages) = {}

\* A message that is no longer handled, or moves on in its handler, and queues that stay.
LEMMA OrderWithin ==
    ASSUME RoomInv, OrderInv, NEW m \in Messages, NEW s, Moves(m, s), s # "queued", s # "new",
           \/ stage[m] # "new" /\ (s \in HandlerStages => stage[m] \in HandlerStages)
           \/ stage[m] = "new" /\ Before(m) \cap In({"new"} \cup HandlerStages) = {},
           s = "turn" => queue[RoomOf[m]] = <<>> /\ stage[m] \in HandlerStages
    PROVE  OrderInv' /\ OrderStep
<1> USE DEF Moves
<1>1. \A k \in Messages : k # m => stage'[k] = stage[k]
  BY DEF RoomInv
<1>2. stage'[m] = s
  BY DEF RoomInv
<1>3. \A k, l \in Messages :
         RoomOf[l] = RoomOf[k] /\ k < l /\ stage'[l] # "new" => stage'[k] \notin {"new"} \cup HandlerStages
  BY <1>1, <1>2 DEF OrderInv, Before, Of, In
<1>4. OrderInv'
  BY <1>1, <1>2, <1>3 DEF OrderInv
<1>5. ASSUME NEW k \in Messages, stage[k] # "turn", stage'[k] = "turn"
      PROVE  Before(k) \cap In({"queued"} \cup HandlerStages) = {}
  <2>1. k = m /\ queue[RoomOf[m]] = <<>> /\ stage[m] \in HandlerStages
    BY <1>1, <1>2, <1>5
  <2>2. \A l \in Before(m) : stage[l] # "queued"
    BY <2>1, RoomsAssumption DEF OrderInv, Before, Of
  <2>3. \A l \in Before(m) : stage[l] \notin HandlerStages
    BY <2>1 DEF OrderInv, Before, Of, HandlerStages
  <2>4. QED
    BY <2>1, <2>2, <2>3 DEF In
<1>6. QED
  BY <1>4, <1>5 DEF OrderStep

LEMMA OrderQueues ==
    ASSUME RoomInv, OrderInv, NEW m \in Messages, QueuePending(m)
    PROVE  OrderInv' /\ OrderStep
<1> DEFINE r0 == RoomOf[m]
           q == queue[r0]
<1>1. /\ r0 \in Rooms /\ q \in Seq(Messages) /\ Messages \subseteq Nat
      /\ stage[m] \in HandlerStages
      /\ stage' = [stage EXCEPT ![m] = "queued"] /\ stage'[m] = "queued"
      /\ queue' = [queue EXCEPT ![r0] = Append(q, m)] /\ queue'[r0] = Append(q, m)
  BY RoomsAssumption DEF RoomInv, QueuePending, Goes, HandlerStages
<1>2. /\ Len(Append(q, m)) = Len(q) + 1 /\ Len(q) \in Nat
      /\ Append(q, m)[Len(q) + 1] = m
      /\ \A i \in 1..Len(q) : Append(q, m)[i] = q[i] /\ q[i] \in Messages
  BY <1>1
<1>3. ASSUME NEW i \in 1..Len(q) PROVE q[i] < m
  <2>1. QueueOk(q, r0)
    BY <1>1 DEF RoomInv
  <2>2. q[i] \in Messages /\ stage[q[i]] = "queued" /\ RoomOf[q[i]] = r0
    BY <1>2, <2>1 DEF QueueOk
  <2>3. q[i] # m
    BY <1>1, <2>2 DEF HandlerStages
  <2>4. ~(m < q[i])
    BY <1>1, <2>2 DEF OrderInv
  <2>5. m \in Nat /\ q[i] \in Nat
    BY <1>1, <2>2
  <2>6. QED
    BY <2>3, <2>4, <2>5
<1>4. Sorted(Append(q, m))
  BY <1>1, <1>2, <1>3 DEF OrderInv, Sorted
<1>5. \A r \in Rooms : Sorted(queue'[r])
  BY <1>1, <1>4 DEF OrderInv, RoomInv
<1>6. \A k, l \in Messages :
         RoomOf[l] = RoomOf[k] /\ k < l /\ stage'[l] # "new" => stage'[k] \notin {"new"} \cup HandlerStages
  BY <1>1 DEF OrderInv, RoomInv, HandlerStages
<1>7. ASSUME NEW k \in Messages, stage'[k] = "queued"
      PROVE  \E i \in 1..Len(queue'[RoomOf[k]]) : queue'[RoomOf[k]][i] = k
  <2>1. CASE k = m
    BY <2>1, <1>1, <1>2
  <2>2. CASE k # m /\ RoomOf[k] = r0
    <3>1. PICK i \in 1..Len(q) : q[i] = k
      BY <2>2, <1>1, <1>7 DEF OrderInv, RoomInv
    <3>2. QED
      BY <3>1, <2>2, <1>1, <1>2
  <2>3. CASE k # m /\ RoomOf[k] # r0
    BY <2>3, <1>1, <1>7, RoomsAssumption DEF OrderInv, RoomInv
  <2>4. QED
    BY <2>1, <2>2, <2>3
<1>8. OrderInv'
  BY <1>5, <1>6, <1>7 DEF OrderInv
<1>9. OrderStep
  BY <1>1 DEF OrderStep, RoomInv
<1>10. QED
  BY <1>8, <1>9

LEMMA OrderStartsPending ==
    ASSUME RoomInv, OrderInv, NEW m \in Messages, LoadPending(m)
    PROVE  OrderInv' /\ OrderStep
<1> DEFINE r0 == RoomOf[m]
           q == queue[r0]
           h == Head(q)
<1>1. /\ r0 \in Rooms /\ q \in Seq(Messages) /\ q # <<>> /\ Messages \subseteq Nat
      /\ h \in Messages /\ h = q[1] /\ stage[h] = "queued" /\ RoomOf[h] = r0 /\ h # m
      /\ stage[m] = "load"
  BY RoomsAssumption DEF RoomInv, LoadPending, QueueOk
<1>2. /\ stage' = [stage EXCEPT ![m] = "done", ![h] = "turn"]
      /\ queue' = [queue EXCEPT ![r0] = Tail(q)] /\ queue'[r0] = Tail(q)
  BY <1>1 DEF LoadPending, StartPending, RoomInv
<1> HIDE DEF h
<1>3. /\ stage'[m] = "done" /\ stage'[h] = "turn"
      /\ \A k \in Messages : k # m /\ k # h => stage'[k] = stage[k]
  BY <1>1, <1>2 DEF RoomInv
<1>4. /\ Len(Tail(q)) = Len(q) - 1 /\ Len(q) \in Nat
      /\ \A i \in 1..Len(Tail(q)) : i + 1 \in 1..Len(q) /\ Tail(q)[i] = q[i + 1]
      /\ \A i \in 1..Len(q) : q[i] \in Messages
  BY <1>1
<1>5. Sorted(q)
  BY <1>1 DEF OrderInv
<1>6. Sorted(Tail(q))
  BY <1>4, <1>5 DEF Sorted
<1>7. \A r \in Rooms : Sorted(queue'[r])
  BY <1>1, <1>2, <1>6 DEF OrderInv, RoomInv
<1>8. \A k, l \in Messages :
         RoomOf[l] = RoomOf[k] /\ k < l /\ stage'[l] # "new" => stage'[k] \notin {"new"} \cup HandlerStages
  BY <1>1, <1>3 DEF OrderInv, HandlerStages
<1>9. ASSUME NEW k \in Messages, stage'[k] = "queued"
      PROVE  \E i \in 1..Len(queue'[RoomOf[k]]) : queue'[RoomOf[k]][i] = k
  <2>1. k # m /\ k # h /\ stage[k] = "queued"
    BY <1>3, <1>9
  <2>2. CASE RoomOf[k] = r0
    <3>1. PICK i \in 1..Len(q) : q[i] = k
      BY <2>1, <2>2 DEF OrderInv
    <3>2. i # 1 /\ i - 1 \in 1..Len(Tail(q))
      BY <3>1, <2>1, <1>1, <1>4
    <3>3. Tail(q)[i - 1] = k
      BY <3>1, <3>2, <1>4
    <3>4. QED
      BY <3>2, <3>3, <2>2, <1>2
  <2>3. CASE RoomOf[k] # r0
    BY <2>1, <2>3, <1>1, <1>2, RoomsAssumption DEF OrderInv, RoomInv
  <2>4. QED
    BY <2>2, <2>3
<1>10. OrderInv'
  BY <1>7, <1>8, <1>9 DEF OrderInv
<1>11. Before(h) \cap In({"queued"} \cup HandlerStages) = {}
  <2>1. \A l \in Before(h) : stage[l] \notin HandlerStages
    BY <1>1 DEF OrderInv, Before, Of
  <2>2. ASSUME NEW l \in Before(h), stage[l] = "queued" PROVE FALSE
    <3>1. l \in Messages /\ RoomOf[l] = r0 /\ l < h
      BY <2>2, <1>1 DEF Before, Of
    <3>2. PICK i \in 1..Len(q) : q[i] = l
      BY <3>1, <2>2 DEF OrderInv
    <3>3. h = l \/ h < l
      BY <3>2, <1>1, <1>4, <1>5 DEF Sorted
    <3>4. l \in Nat /\ h \in Nat
      BY <3>1, <1>1
    <3>5. QED
      BY <3>1, <3>3, <3>4
  <2>3. QED
    BY <2>1, <2>2 DEF In
<1>12. OrderStep
  BY <1>3, <1>11 DEF OrderStep
<1>13. QED
  BY <1>10, <1>12

LEMMA OrderKept ==
    ASSUME RoomInv, OrderInv, [Next]_vars
    PROVE  OrderInv' /\ OrderStep
<1> USE DEF Goes, Moves, HandlerStages, Stages, TurnStages
<1>1. ASSUME NEW m \in Messages, HandleMessage(m) PROVE OrderInv' /\ OrderStep
  <2>1. PICK s \in {"ensured", "refused"} : Moves(m, s)
    BY <1>1 DEF HandleMessage
  <2>2. QED
    BY <2>1, <1>1, OrderWithin DEF HandleMessage
<1>2. ASSUME NEW m \in Messages, AcquireRoom(m) PROVE OrderInv' /\ OrderStep
  <2>1. CASE RoomFree(RoomOf[m])
    BY <1>2, <2>1, OrderWithin DEF AcquireRoom, RoomFree
  <2>2. CASE ~RoomFree(RoomOf[m])
    BY <1>2, <2>2, OrderWithin DEF AcquireRoom
  <2>3. QED
    BY <2>1, <2>2
<1>3. ASSUME NEW m \in Messages, QueuePending(m) PROVE OrderInv' /\ OrderStep
  BY <1>3, OrderQueues
<1>4. ASSUME NEW m \in Messages, CallTurnStart(m) PROVE OrderInv' /\ OrderStep
  BY <1>4, OrderWithin DEF CallTurnStart
<1>5. ASSUME NEW m \in Messages, TurnStarted(m) PROVE OrderInv' /\ OrderStep
  BY <1>5, OrderWithin DEF TurnStarted
<1>6. ASSUME NEW m \in Messages, TurnRefused(m) PROVE OrderInv' /\ OrderStep
  BY <1>6, OrderWithin DEF TurnRefused
<1>7. ASSUME NEW m \in Messages, SubscribeTurn(m) PROVE OrderInv' /\ OrderStep
  BY <1>7, OrderWithin DEF SubscribeTurn
<1>8. ASSUME NEW m \in Messages, TurnEnds(m) PROVE OrderInv' /\ OrderStep
  BY <1>8, OrderWithin DEF TurnEnds
<1>9. ASSUME NEW m \in Messages, ReleaseRoom(m) PROVE OrderInv' /\ OrderStep
  BY <1>9, OrderWithin DEF ReleaseRoom
<1>10. ASSUME NEW m \in Messages, BeginPending(m) PROVE OrderInv' /\ OrderStep
  <2>1. CASE RoomOf[m] \in active \/ queue[RoomOf[m]] = <<>>
    BY <1>10, <2>1, OrderWithin DEF BeginPending
  <2>2. CASE ~(RoomOf[m] \in active \/ queue[RoomOf[m]] = <<>>)
    BY <1>10, <2>2, OrderWithin DEF BeginPending
  <2>3. QED
    BY <2>1, <2>2
<1>11. ASSUME NEW m \in Messages, LoadPending(m) PROVE OrderInv' /\ OrderStep
  BY <1>11, OrderStartsPending
<1>12. ASSUME NEW m \in Messages, LoadPendingFails(m) PROVE OrderInv' /\ OrderStep
  BY <1>12, OrderWithin DEF LoadPendingFails
<1>13. CASE UNCHANGED <<stage, queue>>
  BY <1>13 DEF OrderInv, OrderStep, Sorted
<1>14. QED
  BY <1>1, <1>2, <1>3, <1>4, <1>5, <1>6, <1>7, <1>8, <1>9, <1>10, <1>11, <1>12, <1>13
     DEF Next, Progress, vars, roomVars, TurnCompleted, TurnTimesOut, AnswerTurnStart,
         CompleteTurn, ForgetDirectory, DispatchNext, DispatchToTurn, DispatchGivesUp

\* No turn starts while an earlier message of its room waits (client.go,
\* acquireRoomIfQueueEmpty and popPendingCodex).
THEOREM SpecTurnsInOrder == Spec => TurnsInOrder
<1>1. Init => RoomInv /\ OrderInv
  BY DEF Init, RoomInv, OrderInv, Sorted, Holding, QueueOk, TurnStages, Stages, HandlerStages
<1>2. RoomInv /\ OrderInv /\ [Next]_vars => RoomInv' /\ OrderInv' /\ [OrderStep]_vars
  BY RoomStep, OrderKept
<1>3. QED
  BY <1>1, <1>2, PTL DEF Spec, TurnsInOrder, OrderStep
=============================================================================
