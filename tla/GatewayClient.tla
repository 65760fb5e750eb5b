--------------------------- MODULE GatewayClient ---------------------------
(***************************************************************************)
(* src/bridges/openclaw/gateway_client.go: one WebSocket connection to an  *)
(* OpenClaw gateway, from the end of Connect on.  A reader takes the       *)
(* frames off the socket, a pinger watches it, callers wait for answers,   *)
(* and whoever first calls shutdown takes the connection down while the    *)
(* others wait for him (shutdownOnce).  Around it, from manager.go and     *)
(* client.go: Start, which synchronises, handles the events one after the  *)
(* other and closes the connection when it leaves, and Disconnect.         *)
(*                                                                         *)
(* Abstracted: the handshake of Connect, payloads, HTTP history, the       *)
(* connection after this one; the requests of Start are one that must      *)
(* succeed, an event makes at most one.                                    *)
(***************************************************************************)
EXTENDS Integers, Sequences, FiniteSets

CONSTANTS
    None,
    Users,      \* requests of message handlers and other goroutines
    Own,        \* requests of Start and its event handlers
    MaxEvents,  \* bound on the events of the gateway
    Cap         \* capacity of the events channel: 256

Requests == Users \cup Own

ASSUME GatewayAssumption ==
    /\ MaxEvents \in Nat /\ Cap \in Nat \ {0}
    /\ Users \cap Own = {}
    /\ None \notin Requests
    /\ Requests \cap Nat = {}

VARIABLES
    link,       \* the socket: "up", "broken" by the network, "closed" by us
    wire,       \* frames on their way to us: numbers of events, and requests answered
    sent,       \* events the gateway has sent
    asked,      \* requests the gateway has got and not answered
    req,        \* where each request is
    pending,    \* c.pending
    mailbox,    \* respCh of each request
    reader,     \* readLoop
    frame,      \* the event it holds
    events,     \* c.events
    shut,       \* how far shutdown is
    closer,     \* who runs it
    main,       \* Start
    mine,       \* the request it waits for
    handled,    \* the events it has handled
    stopper,    \* Disconnect
    attached    \* m.gateway is this client

serverVars == <<sent, asked>>
reqVars == <<req, pending, mailbox>>
readVars == <<reader, frame, events>>
shutVars == <<shut, closer>>
mainVars == <<main, mine, handled, stopper, attached>>
vars == <<link, wire, serverVars, reqVars, readVars, shutVars, mainVars>>

InFlight == {q \in Requests : req[q] \in {"write", "wait"}}
Closed == shut # "open"             \* closeCh is closed
Disconnected == stopper # "none"    \* ctx of Start is cancelled

\* A request is pending while it is in flight, until shutdown has failed it.
TypeOK ==
    /\ link \in {"up", "broken", "closed"}
    /\ wire \in Seq(1..MaxEvents \cup Requests) /\ events \in Seq(1..MaxEvents)
    /\ sent \in 0..MaxEvents /\ asked \subseteq Requests
    /\ req \in [Requests -> {"new", "write", "wait", "ok", "failed"}]
    /\ mailbox \in [Requests -> {"none", "answer", "closed"}]
    /\ pending \subseteq InFlight
    /\ shut \in {"open", "closing", "failing"} => pending = InFlight
    /\ reader \in {"read", "event", "blocked", "shutdown", "done", "panicked"}
    /\ frame \in 0..MaxEvents /\ Len(events) <= Cap
    /\ shut \in {"open", "closing", "failing", "draining", "done"}
    /\ closer \in {None, "reader", "pinger", "start", "stop"}
    /\ main \in {"sync", "loop", "handle", "close", "returned"}
    /\ mine \in Own \cup {None} /\ handled \in Seq(1..MaxEvents)
    /\ stopper \in {"none", "stop", "close", "stopped"} /\ attached \in BOOLEAN

Init ==
    /\ link = "up" /\ wire = <<>>
    /\ sent = 0 /\ asked = {}
    /\ req = [q \in Requests |-> "new"]
    /\ pending = {}
    /\ mailbox = [q \in Requests |-> "none"]
    /\ reader = "read" /\ frame = 0 /\ events = <<>>
    /\ shut = "open" /\ closer = None
    /\ main = "sync" /\ mine = None /\ handled = <<>>
    /\ stopper = "none" /\ attached = TRUE

-----------------------------------------------------------------------------
(* The gateway and the network.                                            *)

SendEvent ==
    /\ link = "up"
    /\ sent < MaxEvents
    /\ sent' = sent + 1
    /\ wire' = Append(wire, sent')
    /\ UNCHANGED <<link, asked, reqVars, readVars, shutVars, mainVars>>

Respond(q) ==
    /\ link = "up"
    /\ q \in asked
    /\ asked' = asked \ {q}
    /\ wire' = Append(wire, q)
    /\ UNCHANGED <<link, sent, reqVars, readVars, shutVars, mainVars>>

\* What has arrived can still be read.
LinkFails ==
    /\ link = "up"
    /\ link' = "broken" /\ asked' = {}
    /\ UNCHANGED <<wire, sent, reqVars, readVars, shutVars, mainVars>>

-----------------------------------------------------------------------------
(* Request.                                                                *)

StartRequest(q) ==
    /\ req[q] = "new"
    /\ req' = [req EXCEPT ![q] = "write"]
    /\ pending' = pending \cup {q}
    /\ UNCHANGED <<link, wire, serverVars, mailbox, readVars, shutVars>>

\* Mutant: only the answer takes the request out of the map.
Leaves_Stays(q, result) ==
    /\ req' = [req EXCEPT ![q] = result]
    /\ pending' = IF result = "ok" THEN pending \ {q} ELSE pending

Leaves(q, result) ==
    /\ req' = [req EXCEPT ![q] = result]
    /\ pending' = pending \ {q}

Write(q) ==
    /\ req[q] = "write"
    /\ link # "closed"
    /\ req' = [req EXCEPT ![q] = "wait"]
    /\ asked' = IF link = "up" THEN asked \cup {q} ELSE asked
    /\ UNCHANGED <<link, wire, sent, pending, mailbox, readVars, shutVars, mainVars>>

\* A write that fails, or that its context ends, leaves a broken connection.
WriteFails(q) ==
    /\ req[q] = "write"
    /\ Leaves(q, "failed")
    /\ link' = IF link = "up" THEN "broken" ELSE link
    /\ asked' = {}
    /\ UNCHANGED <<wire, sent, mailbox, readVars, shutVars, mainVars>>

RequestReturns(q) ==
    /\ req[q] = "wait"
    /\ \/ mailbox[q] # "none" /\ Leaves(q, IF mailbox[q] = "answer" THEN "ok" ELSE "failed")
       \/ Closed /\ Leaves(q, "failed")
    /\ UNCHANGED <<link, wire, serverVars, mailbox, readVars, shutVars, mainVars>>

Deadline(q) ==
    /\ req[q] = "wait"
    /\ Leaves(q, "failed")
    /\ UNCHANGED <<link, wire, serverVars, mailbox, readVars, shutVars, mainVars>>

-----------------------------------------------------------------------------
(* readLoop.                                                               *)

ReadAnswer ==
    /\ reader = "read" /\ link # "closed"
    /\ wire # <<>> /\ Head(wire) \in Requests
    /\ wire' = Tail(wire)
    /\ mailbox' = IF Head(wire) \in pending
                  THEN [mailbox EXCEPT ![Head(wire)] = "answer"] ELSE mailbox
    /\ UNCHANGED <<link, serverVars, req, pending, readVars, shutVars, mainVars>>

ReadEvent ==
    /\ reader = "read" /\ link # "closed"
    /\ wire # <<>> /\ Head(wire) \in Nat
    /\ wire' = Tail(wire)
    /\ reader' = "event" /\ frame' = Head(wire)
    /\ UNCHANGED <<link, serverVars, reqVars, events, shutVars, mainVars>>

ReadFails ==
    /\ reader = "read" /\ link # "up"
    /\ reader' = "shutdown" /\ wire' = <<>>
    /\ UNCHANGED <<link, serverVars, reqVars, frame, events, shutVars, mainVars>>

\* Mutant: an event that finds the channel full is dropped, as an answer is.
Deliver_Drops ==
    /\ reader = "event" /\ shut # "done"
    /\ events' = IF Len(events) < Cap THEN Append(events, frame) ELSE events
    /\ reader' = "read" /\ frame' = 0
    /\ UNCHANGED <<link, wire, serverVars, reqVars, shutVars, mainVars>>

Deliver ==
    /\ reader \in {"event", "blocked"} /\ shut # "done"
    /\ Len(events) < Cap
    /\ events' = Append(events, frame)
    /\ reader' = "read" /\ frame' = 0
    /\ UNCHANGED <<link, wire, serverVars, reqVars, shutVars, mainVars>>

WaitForRoom ==
    /\ reader = "event" /\ ~Closed
    /\ Len(events) = Cap
    /\ reader' = "blocked"
    /\ UNCHANGED <<link, wire, serverVars, reqVars, frame, events, shutVars, mainVars>>

DeliverCancelled ==
    /\ reader \in {"event", "blocked"} /\ Closed
    /\ reader' = "done" /\ frame' = 0
    /\ UNCHANGED <<link, wire, serverVars, reqVars, events, shutVars, mainVars>>

\* A select that begins after the channel is closed may choose the send.
DeliverPanics ==
    /\ reader = "event" /\ shut = "done"
    /\ reader' = "panicked"
    /\ UNCHANGED <<link, wire, serverVars, reqVars, frame, events, shutVars, mainVars>>

-----------------------------------------------------------------------------
(* shutdown.  The reader passes (closeConn, waitRead) = (no, no), the      *)
(* pinger (yes, no), Close (yes, yes).                                     *)

ReaderShutsDown == reader = "shutdown" /\ closer' = "reader"

\* Mutant: a ping fails with its connection only.
PingFails_Link == link # "up" /\ closer' = "pinger"

\* The answer to a ping is read by the reader, in Read.
PingFails ==
    /\ link # "up" \/ reader = "blocked"
    /\ closer' = "pinger"

Close == \/ main = "close" /\ closer' = "start"
         \/ stopper = "close" /\ closer' = "stop"

BeginShutdown ==
    /\ shut = "open"
    /\ ReaderShutsDown \/ PingFails \/ Close
    /\ shut' = "closing"
    /\ UNCHANGED <<link, wire, serverVars, reqVars, readVars, mainVars>>

CloseConn ==
    /\ shut = "closing"
    /\ shut' = "failing"
    /\ IF closer = "reader" THEN UNCHANGED <<link, wire>>
                            ELSE link' = "closed" /\ wire' = <<>>
    /\ asked' = {}
    /\ UNCHANGED <<sent, reqVars, readVars, closer, mainVars>>

FailPending ==
    /\ shut = "failing"
    /\ shut' = "draining"
    /\ pending' = {}
    /\ mailbox' = [q \in Requests |->
                     IF q \in pending /\ mailbox[q] = "none" THEN "closed" ELSE mailbox[q]]
    /\ UNCHANGED <<link, wire, serverVars, req, readVars, closer, mainVars>>

\* Mutant: only a Close, when the reader has left, closes the channel.
CloseEvents_AfterRead ==
    /\ shut = "draining"
    /\ closer \in {"start", "stop"} /\ reader = "done"
    /\ shut' = "done"
    /\ UNCHANGED <<link, wire, serverVars, reqVars, readVars, closer, mainVars>>

\* Close waits for the reader, and a reader that comes to shutdown for Close.
CloseEvents ==
    /\ shut = "draining"
    /\ closer \in {"start", "stop"} => reader = "done"
    /\ shut' = "done"
    /\ UNCHANGED <<link, wire, serverVars, reqVars, readVars, closer, mainVars>>

ReaderLeaves ==
    /\ reader = "shutdown" /\ shut = "done"
    /\ reader' = "done"
    /\ UNCHANGED <<link, wire, serverVars, reqVars, frame, events, shutVars, mainVars>>

-----------------------------------------------------------------------------
(* Start.                                                                  *)

MainGoes(s) ==
    /\ main' = s
    /\ UNCHANGED <<link, wire, serverVars, readVars, shutVars, handled, stopper>>

\* The requests of syncSessions and of event handlers.
MainRequests(q) ==
    /\ main \in {"sync", "handle"} /\ mine = None
    /\ StartRequest(q)
    /\ mine' = q
    /\ UNCHANGED <<main, handled, stopper, attached>>

Synchronized ==
    /\ main = "sync" /\ mine # None
    /\ \/ req[mine] = "ok" /\ MainGoes("loop")
       \/ req[mine] = "failed" /\ MainGoes("close")
    /\ mine' = None
    /\ UNCHANGED <<reqVars, attached>>

\* validateGatewayCompatibility.
Incompatible ==
    /\ main = "sync" /\ mine = None
    /\ MainGoes("close")
    /\ UNCHANGED <<reqVars, mine, attached>>

TakeEvent ==
    /\ main = "loop" /\ events # <<>>
    /\ events' = Tail(events)
    /\ handled' = Append(handled, Head(events))
    /\ main' = "handle"
    /\ UNCHANGED <<link, wire, serverVars, reqVars, reader, frame, shutVars, mine, stopper, attached>>

EventHandled ==
    /\ main = "handle"
    /\ mine # None => req[mine] \in {"ok", "failed"}
    /\ mine' = None
    /\ MainGoes("loop")
    /\ UNCHANGED <<reqVars, attached>>

\* After a Disconnect closing is left to Stop.
LoopEnds ==
    /\ main = "loop"
    /\ \/ Disconnected /\ MainGoes("returned") /\ attached' = FALSE
       \/ /\ ~Disconnected /\ shut = "done" /\ events = <<>>
          /\ MainGoes("close") /\ UNCHANGED attached
    /\ UNCHANGED <<reqVars, mine>>

StartReturns ==
    /\ main = "close" /\ shut = "done"
    /\ MainGoes("returned")
    /\ attached' = FALSE
    /\ UNCHANGED <<reqVars, mine>>

-----------------------------------------------------------------------------
(* Disconnect and Stop.                                                    *)

StopperGoes(s) ==
    /\ stopper' = s
    /\ UNCHANGED <<link, wire, serverVars, reqVars, readVars, shutVars, main, mine, handled>>

Disconnect == stopper = "none" /\ StopperGoes("stop") /\ UNCHANGED attached

TakeGateway ==
    /\ stopper = "stop"
    /\ StopperGoes(IF attached THEN "close" ELSE "stopped")
    /\ attached' = FALSE

StopReturns == stopper = "close" /\ shut = "done" /\ StopperGoes("stopped") /\ UNCHANGED attached

-----------------------------------------------------------------------------
Progress ==
    /\ reader # "panicked"
    /\ \/ \E q \in Requests : Write(q) \/ WriteFails(q) \/ RequestReturns(q)
       \/ ReadAnswer \/ ReadEvent \/ ReadFails \/ ReaderLeaves
       \/ Deliver \/ WaitForRoom \/ DeliverCancelled \/ DeliverPanics
       \/ BeginShutdown \/ CloseConn \/ FailPending \/ CloseEvents
       \/ \E q \in Own : MainRequests(q)
       \/ Synchronized \/ TakeEvent \/ EventHandled \/ LoopEnds \/ StartReturns
       \/ TakeGateway \/ StopReturns

Next ==
    \/ Progress
    \/ /\ reader # "panicked"
       /\ \/ SendEvent \/ LinkFails \/ Incompatible \/ Disconnect
          \/ \E q \in Requests : Respond(q) \/ Deadline(q)
          \/ \E q \in Users : StartRequest(q) /\ UNCHANGED mainVars

Spec == Init /\ [][Next]_vars

\* Goroutines go on and a ping that fails is noticed; the gateway, the network,
\* the user and the deadlines of requests owe nothing.  Every step of Progress
\* takes a frame, a request or the shutdown further, so none can starve another.
FairSpec == Spec /\ WF_vars(Progress)

-----------------------------------------------------------------------------
(* Properties.                                                             *)

\* Whatever fills the channel, Start sees the events of the gateway in their
\* order and without a gap, up to the one at which the connection is given up.
Stream == INSTANCE OrderedStream WITH accepted <- [i \in 1..sent |-> i], delivered <- handled
EventsInOrder == Stream!Spec

\* When the connection is lost, Start notices and returns, which is what makes
\* connectLoop connect again; except that a Close may hang (with the reader).
LinkLossIsNoticed ==
    link # "up" ~> \/ main = "returned"
                   \/ closer \in {"start", "stop"}
                   \/ reader = "panicked"

\* A request that waits when the connection is shut down ends without its
\* deadline, also when it came after failPending.
RequestsEnd ==
    \A q \in Requests : req[q] = "wait" /\ Closed ~> req[q] # "wait" \/ reader = "panicked"

\* The handler of an event may wait for an answer that is behind an event for
\* which the channel has no room; the reader is freed even when nothing else
\* ends the request.
ReaderIsFreed == reader = "blocked" ~> reader # "blocked"

\* Nobody waits on a connection for ever.
NobodyIsStuck == RequestsEnd /\ ReaderIsFreed
=============================================================================
