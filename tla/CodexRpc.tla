------------------------------ MODULE CodexRpc ------------------------------
(***************************************************************************)
(* src/bridges/codex/codexrpc/client.go: JSON-RPC calls to a Codex app     *)
(* server over the pipes (or the WebSocket) of a child process.  A call    *)
(* enters the pending map, writes, and waits for its channel or its        *)
(* deadline.  When the output of the child ends, the reader first fails    *)
(* what is pending and then closes; Close sets its flag first and then     *)
(* fails what is pending.  failAllPending happens once, whoever comes      *)
(* first.                                                                  *)
(*                                                                         *)
(* Abstracted: encoding, requests of the server (approvals), the write     *)
(* queue, which fails as the write itself does, and the retries of an      *)
(* overloaded WebSocket server.                                            *)
(***************************************************************************)
EXTENDS Integers, Sequences

CONSTANT
    Calls       \* calls of the client; every one has a deadline

VARIABLES
    call,       \* where each call is
    pending,    \* c.pending: the calls an answer can still reach
    reply,      \* what is in the channel of each call
    served,     \* requests the server has got and not answered
    output,     \* the output of the child: "open" or "ended"
    drained,    \* failAllPending has happened
    closed,     \* c.closed
    late        \* calls that entered pending after the reader had drained it (history)

rpcVars == <<call, pending, reply, served, output, drained, closed, late>>

RpcInit ==
    /\ call = [c \in Calls |-> "none"]
    /\ reply = [c \in Calls |-> "none"]
    /\ pending = {} /\ served = {} /\ late = {}
    /\ output = "open"
    /\ drained = FALSE /\ closed = FALSE

-----------------------------------------------------------------------------
(* Call.                                                                   *)

StartCall(c) ==
    /\ call[c] = "none"
    /\ call' = [call EXCEPT ![c] = "write"]
    /\ pending' = pending \cup {c}
    /\ late' = IF drained /\ output = "ended" THEN late \cup {c} ELSE late
    /\ UNCHANGED <<reply, served, output, drained, closed>>

CallReturns(c, result) ==
    /\ call' = [call EXCEPT ![c] = result]
    /\ pending' = pending \ {c}

\* writeJSONL and writeLoop: a closed client refuses; a child that is gone may
\* refuse, or take what nobody will read.
WriteRefused(c) ==
    /\ call[c] = "write"
    /\ closed \/ output = "ended"
    /\ CallReturns(c, "failed")
    /\ UNCHANGED <<reply, served, output, drained, closed, late>>

Write(c) ==
    /\ call[c] = "write"
    /\ ~closed
    /\ call' = [call EXCEPT ![c] = "wait"]
    /\ served' = IF output = "open" THEN served \cup {c} ELSE served
    /\ UNCHANGED <<pending, reply, output, drained, closed, late>>

ReceiveReply(c) ==
    /\ call[c] = "wait"
    /\ reply[c] # "none"
    /\ CallReturns(c, IF reply[c] = "result" THEN "ok" ELSE "failed")
    /\ UNCHANGED <<reply, served, output, drained, closed, late>>

\* Mutant: Close fails what is pending before it refuses new calls.
Deadline_DrainsFirst(c) ==
    /\ call[c] \in {"write", "wait"}
    /\ call' = [call EXCEPT ![c] = "failed"]
    /\ pending' = IF call[c] = "write" THEN {} ELSE pending \ {c}
    /\ drained' = (drained \/ call[c] = "write")
    /\ reply' = [d \in Calls |-> IF call[c] = "write" /\ ~drained /\ d \in pending /\ reply[d] = "none"
                               THEN "closed" ELSE reply[d]]
    /\ UNCHANGED <<served, output, closed, late>>

\* ctx.Done(): a call stuck in its write takes the client down.
Deadline(c) ==
    /\ call[c] \in {"write", "wait"}
    /\ CallReturns(c, "failed")
    /\ closed' = (closed \/ call[c] = "write")
    /\ UNCHANGED <<reply, served, output, drained, late>>

-----------------------------------------------------------------------------
(* The reader and Close.                                                   *)

\* handleInboundJSON: an answer reaches its call if that is still pending.
Answer(c) ==
    /\ output = "open"
    /\ c \in served
    /\ served' = served \ {c}
    /\ reply' = IF c \in pending /\ reply[c] = "none"
                THEN [reply EXCEPT ![c] = "result"] ELSE reply
    /\ UNCHANGED <<call, pending, output, drained, closed, late>>

\* The process exits, or Close has killed it, or the reader gives up on a line
\* that is too long.
OutputEnds ==
    /\ output = "open"
    /\ output' = "ended"
    /\ served' = {}
    /\ UNCHANGED <<call, pending, reply, drained, closed, late>>

FailAllPending ==
    /\ output = "ended" \/ closed
    /\ ~drained
    /\ drained' = TRUE
    /\ reply' = [c \in Calls |->
                   IF c \in pending /\ reply[c] = "none" THEN "closed" ELSE reply[c]]
    /\ pending' = {}
    /\ UNCHANGED <<call, served, output, closed, late>>

\* readLoop and the monitor come here after failAllPending; before Deadline
\* calls Close, closed is set and FailAllPending follows.
CloseAfterRead ==
    /\ drained /\ ~closed
    /\ closed' = TRUE
    /\ UNCHANGED <<call, pending, reply, served, output, drained, late>>

RpcProgress ==
    \/ \E c \in Calls : WriteRefused(c) \/ Write(c) \/ ReceiveReply(c) \/ Deadline(c)
    \/ FailAllPending
    \/ CloseAfterRead
    \/ closed /\ OutputEnds     \* Close kills the process

-----------------------------------------------------------------------------
(* Properties.                                                             *)

\* Once the client is closed and has failed what was pending, no call is left
\* waiting for an answer that cannot come, but for the calls that came between
\* the two steps of the reader; those wait for their deadline.
CallsAreFailed ==
    closed /\ drained =>
        \A c \in Calls \ late : call[c] = "wait" => reply[c] # "none"
=============================================================================
