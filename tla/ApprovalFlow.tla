---------------------------- MODULE ApprovalFlow ----------------------------
(***************************************************************************)
(* The life of approval prompts (approval_flow.go) and of the bridges that *)
(* use it.  An agent asks for an approval; the owner answers with a Matrix *)
(* reaction, a policy or the remote agent server answers instead, or the   *)
(* request expires.                                                        *)
(*                                                                         *)
(* f.mu guards the pending approvals and the prompt store, but a request,  *)
(* a reaction, a remote decision and the reaper each take it several times *)
(* and find the approval again by its ID.  An action is one critical       *)
(* section, or one operation on the channel of a pending approval.         *)
(*                                                                         *)
(* Client says which bridge drives the flow: "ai" (bridges/ai), "codex" and*)
(* "sdk" wait on the channel; "callback" (OpenCode, OpenClaw) delivers the *)
(* decision to its server, which tells every client what was decided.      *)
(***************************************************************************)
EXTENDS ApprovalPrompts, FiniteSets

CONSTANTS
    IdOf,           \* the approval each request is for
    TargetOf,       \* the message each request's prompt replies to, or None
    Client,
    AutoApprove,    \* policy may approve without asking
    MayFail,        \* prompts and deliveries may fail
    MayCancel,      \* turns may be cancelled
    TTL,            \* lifetime of a request
    EndOf,          \* when the server says it ends (0: it does not say), or None
    MaxTime,        \* bound: clock ticks
    MaxReactions    \* bound: reactions

ASSUME ClientAssumption == Client \in {"ai", "codex", "sdk", "callback"}
ASSUME FlagsAssumption  == {AutoApprove, MayFail, MayCancel} \subseteq BOOLEAN
ASSUME MapsAssumption   == /\ IdOf \in [Requests -> Approvals]
                           /\ TargetOf \in [Requests -> Targets \cup {None}]
ASSUME NumbersAssumption == {TTL, MaxTime, MaxReactions} \subseteq Nat
\* Only OpenClaw's server says when a request ends.
ASSUME EndsAssumption   == /\ EndOf \in [Requests -> Nat \cup {None}]
                           /\ Client # "callback" => \A r \in Requests : EndOf[r] = None
ASSUME NamesAssumption  == Requests \cap (Approvals \cup Targets) = {}

VARIABLES
    now,        \* the clock
    pending,    \* f.pending: per approval, the request that registered it
    expires,    \* per request: ExpiresAt of its Pending
    ch,         \* per request: the decision in its Pending's channel
    done,       \* per request: its Pending is marked as finalized
    store,      \* the prompt store
    settled,    \* resolvedByMsgID, resolvedByReactionMsgID: until when
    pc,         \* per request and per remote decision: where its handler is
    held,       \* the Pending it looked up
    dec,        \* the decision it carries, or got
    before,     \* the prompt SendPrompt saved
    promptEnd,  \* the ExpiresAt it was given
    rpc,        \* where the handler of a reaction is
    rplace,     \* the message reacted to, when no prompt was found by it
    rnow,       \* the time at which it started, until it has looked that up
    rid,        \* the approval it matched
    rdec,       \* the decision it matched
    rheld,      \* the Pending it looked up
    reactions,  \* reactions so far
    reap,       \* the reaper's candidates
    cut,        \* the candidate it is about to finalize
    upstream,   \* per approval: what the agent server holds
    sent,       \* prompt messages in the room
    edits,      \* history: the final decisions a prompt message showed
    ended,      \* history: how a Pending was finalized
    accepted    \* history: the decisions a Pending's channel accepted

promptVars == <<before, promptEnd>>
procVars  == <<pc, held, dec, promptVars>>
reactVars == <<rpc, rplace, rnow, rid, rdec, rheld, reactions>>
reapVars  == <<reap, cut>>
vars == <<now, pending, expires, ch, done, store, settled, procVars, reactVars,
          reapVars, upstream, sent, edits, ended, accepted>>

Procs     == Requests \cup Approvals
IdFor(s)  == IF s \in Requests THEN IdOf[s] ELSE s
Answers   == {"allow", "deny"}
Decisions == Answers \cup {"timeout", "cancelled"}
Waits     == Client # "callback"
Places    == Requests \cup Targets

ASSUME NoDecisionAssumption == None \notin Decisions

Candidate == [id : Approvals, pending : Requests, prompt : Nat,
              byPending : BOOLEAN, byPrompt : BOOLEAN]
NoCut     == [id |-> None, version |-> 0]

ResolvePcs == {"lookup", "expired", "put", "close", "finish", "done"}
RequestPcs == ResolvePcs \cup
              {"new", "prompt", "send", "bind", "schedule",
               "get", "wait", "waiting", "timeout"}
RemotePcs  == ResolvePcs \cup {"idle"}
ReactPcs   == {"idle", "settled", "fallback", "drop", "lookup", "expired",
               "deliver", "finish"}

-----------------------------------------------------------------------------
Init ==
    /\ now = 0
    /\ pending = [a \in Approvals |-> None]
    /\ expires = [r \in Requests |-> 0]
    /\ ch = [r \in Requests |-> None]
    /\ done = [r \in Requests |-> FALSE]
    /\ store = EmptyStore
    /\ settled = [p \in Places |-> 0]
    /\ pc = [s \in Procs |-> IF s \in Requests THEN "new" ELSE "idle"]
    /\ held = [s \in Procs |-> None]
    /\ dec = [s \in Procs |-> None]
    /\ before = [r \in Requests |-> None]
    /\ promptEnd = [r \in Requests |-> 0]
    /\ rpc = "idle" /\ rplace = None /\ rnow = 0
    /\ rid = None /\ rdec = None /\ rheld = None /\ reactions = 0
    /\ reap = {} /\ cut = NoCut
    /\ upstream = [a \in Approvals |-> "open"]
    /\ sent = {}
    /\ edits = [r \in Requests |-> {}]
    /\ ended = [r \in Requests |-> None]
    /\ accepted = [r \in Requests |-> {}]

Goes(s, to) == pc' = [pc EXCEPT ![s] = to]
Holds(s, p) == held' = [held EXCEPT ![s] = p]

\* now.After(t); Register and Wait count the instant itself as expired.
After(t)  == now > t
Lapsed(t) == now >= t

Tick ==
    /\ now < MaxTime
    /\ now' = now + 1
    /\ UNCHANGED <<pending, expires, ch, done, store, settled, procVars,
                   reactVars, reapVars, upstream, sent, edits, ended, accepted>>

-----------------------------------------------------------------------------
(* finalizeWithPromptVersion: the Pending and the prompt of a go, whoever  *)
(* registered them; the prompt message is edited to decision d.            *)

flowVars == <<pending, done, store, settled, edits, ended>>

\* Mutant: the prompt stays registered.
Finalize_KeepsPrompt(a, d) ==
    LET p == store.prompt[a]
    IN  /\ pending' = [pending EXCEPT ![a] = None]
        /\ done' = [r \in Requests |-> done[r] \/ pending[a] = r]
        /\ ended' = [r \in Requests |-> IF pending[a] = r THEN d ELSE ended[r]]
        /\ edits' = [m \in Requests |->
                       IF HasPrompt(store, a) /\ p.msg = m /\ d \in Decisions
                       THEN edits[m] \cup {d} ELSE edits[m]]
        /\ UNCHANGED <<store, settled>>

\* Mutant: the Pending stays in the map.
Finalize_KeepsPending(a, d) ==
    /\ done' = [r \in Requests |-> done[r] \/ pending[a] = r]
    /\ ended' = [r \in Requests |-> IF pending[a] = r THEN d ELSE ended[r]]
    /\ store' = DropPrompt(store, a)
    /\ UNCHANGED <<pending, settled, edits>>

Finalize(a, d) ==
    LET p == store.prompt[a]
        shows(m) == HasPrompt(store, a) /\ m \in {p.msg, p.target} /\ d \in Decisions
    IN  /\ pending' = [pending EXCEPT ![a] = None]
        /\ done' = [r \in Requests |-> done[r] \/ pending[a] = r]
        /\ ended' = [r \in Requests |-> IF pending[a] = r THEN d ELSE ended[r]]
        /\ edits' = [m \in Requests |->
                       IF shows(m) THEN edits[m] \cup {d} ELSE edits[m]]
        /\ settled' = [m \in Places |->
                       IF shows(m) THEN p.expires ELSE settled[m]]
        /\ store' = DropPrompt(store, a)

FinishTimedOut(a) == Finalize(a, "timeout")

-----------------------------------------------------------------------------
(* A request: Register, SendPrompt, and Wait.                              *)

AfterRegister(created) ==
    IF created THEN IF Client = "ai" /\ AutoApprove THEN {"prompt", "lookup"}
                    ELSE {"prompt"}
    ELSE CASE Client = "callback" -> {"done"}
           [] Client = "ai"       -> {"get", "done"}
           [] OTHER               -> {"prompt"}

AfterPrompt ==
    CASE Client = "callback" -> {"done"}
      [] Client = "ai"       -> {"get"}
      [] Client = "codex" /\ AutoApprove -> {"wait", "lookup"}
      [] OTHER -> {"wait"}

\* A request moves on, if it is approved by policy with that decision.
GoesOn(r, to) ==
    /\ before' = [before EXCEPT ![r] = None]
    /\ promptEnd' = [promptEnd EXCEPT ![r] = 0]
    /\ \E next \in to :
         /\ Goes(r, next)
         /\ dec' = [dec EXCEPT ![r] = IF next = "lookup" THEN "allow" ELSE None]

\* A time that is not ahead gives a ttl that Register replaces by a default ...
PendingExpiry(r) == IF EndOf[r] # None /\ EndOf[r] > now THEN EndOf[r] ELSE now + TTL

\* Mutant: the time of the request for that of its end.
PromptExpiry_Created(r) == now

\* ... while the prompt gets the time as it is.
PromptExpiry(r) == IF EndOf[r] # None THEN EndOf[r] ELSE now + TTL

\* Register; with the bound that a request can still expire.
Register(r) ==
    LET a == IdOf[r]
        old == pending[a]
        created == old # None => Lapsed(expires[old])
    IN  /\ pc[r] = "new"
        /\ PendingExpiry(r) < MaxTime
        /\ GoesOn(r, AfterRegister(created))
        /\ IF created
           THEN /\ pending' = [pending EXCEPT ![a] = r]
                /\ expires' = [expires EXCEPT ![r] = PendingExpiry(r)]
           ELSE UNCHANGED <<pending, expires>>
        /\ UNCHANGED <<now, ch, done, store, settled, held, reactVars,
                       reapVars, upstream, sent, edits, ended, accepted>>

\* SendPrompt registers the prompt before it is sent ...
PromptRegister(r) ==
    LET a == IdOf[r]
    IN  /\ pc[r] = "prompt"
        /\ before' = [before EXCEPT ![r] = store.prompt[a]]
        /\ store' = RegisterPrompt(store, a,
                      [msg |-> None, target |-> TargetOf[r], version |-> 0,
                       expires |-> PromptExpiry(r), serial |-> 0])
        /\ promptEnd' = [promptEnd EXCEPT ![r] = PromptExpiry(r)]
        /\ Goes(r, "send")
        /\ UNCHANGED <<now, pending, expires, ch, done, settled, held, dec,
                       reactVars, reapVars, upstream, sent, edits, ended, accepted>>

\* sendApprovalPromptWhenReady of OpenClaw sends none when nothing is pending.
PromptSkip(r) ==
    /\ pc[r] = "prompt"
    /\ ~Waits
    /\ pending[IdOf[r]] = None
    /\ Goes(r, "done")
    /\ UNCHANGED <<now, expires, ch, held, dec, promptVars, reactVars, reapVars,
                   upstream, sent, accepted, flowVars>>

\* ... sends it ...
PromptSend(r) ==
    /\ pc[r] = "send"
    /\ sent' = sent \cup {r}
    /\ Goes(r, "bind")
    /\ UNCHANGED <<now, expires, ch, held, dec, promptVars, reactVars, reapVars,
                   upstream, accepted, flowVars>>

PromptSendFails(r) ==
    /\ pc[r] = "send"
    /\ MayFail
    /\ store' = RestorePrompt(store, IdOf[r], before[r])
    /\ GoesOn(r, AfterPrompt)
    /\ UNCHANGED <<now, pending, expires, ch, done, settled, held,
                   reactVars, reapVars, upstream, sent, edits, ended, accepted>>

\* ... and binds the message to whatever prompt the approval has by then.
PromptBind(r) ==
    LET a == IdOf[r]
    IN  /\ pc[r] = "bind"
        /\ IF HasPrompt(store, a)
           THEN /\ store' = BindPrompt(store, a, r)
                /\ Goes(r, "schedule")
                /\ UNCHANGED <<dec, before, promptEnd>>
           ELSE /\ store' = RestorePrompt(store, a, before[r])
                /\ GoesOn(r, AfterPrompt)
        /\ UNCHANGED <<now, pending, expires, ch, done, settled, held,
                       reactVars, reapVars, upstream, sent, edits, ended, accepted>>

\* schedulePromptTimeout, after the placeholder reactions went out.
PromptSchedule(r) ==
    /\ pc[r] = "schedule"
    /\ IF Lapsed(promptEnd[r]) THEN FinishTimedOut(IdOf[r]) ELSE UNCHANGED flowVars
    /\ GoesOn(r, AfterPrompt)
    /\ UNCHANGED <<now, expires, ch, held, reactVars, reapVars,
                   upstream, sent, accepted>>

-----------------------------------------------------------------------------
(* Resolve: by policy, within a request, or by the agent server.           *)

BeginWait == IF Client = "ai" THEN "get" ELSE "wait"

\* What follows Resolve: a request waits (startStreamingMCPApproval gives up
\* when Resolve failed); ResolveExternal finishes when it did not.
AfterResolve(s, ok) ==
    CASE s \in Requests /\ (ok \/ Client # "ai") -> BeginWait
      [] s \in Approvals /\ ok -> "finish"
      [] OTHER -> "done"

\* The Pending is looked up ...
ResolveLookup(s) ==
    LET p == pending[IdFor(s)]
    IN  /\ pc[s] = "lookup"
        /\ Holds(s, p)
        /\ Goes(s, IF p = None THEN AfterResolve(s, FALSE)
                   ELSE IF After(expires[p]) THEN "expired" ELSE "put")
        /\ UNCHANGED <<now, expires, ch, dec, promptVars, reactVars, reapVars,
                       upstream, sent, accepted, flowVars>>

ResolveExpired(s) ==
    /\ pc[s] = "expired"
    /\ FinishTimedOut(IdFor(s))
    /\ Holds(s, None)
    /\ Goes(s, AfterResolve(s, FALSE))
    /\ UNCHANGED <<now, expires, ch, dec, promptVars, reactVars, reapVars,
                   upstream, sent, accepted>>

\* ... its channel takes the decision, unless it holds one ...
ResolvePut(s) ==
    LET p == held[s]
    IN  /\ pc[s] = "put"
        /\ IF ch[p] = None
           THEN /\ ch' = [ch EXCEPT ![p] = dec[s]]
                /\ accepted' = [accepted EXCEPT ![p] = @ \cup {dec[s]}]
                /\ Goes(s, "close")
           ELSE Goes(s, AfterResolve(s, FALSE)) /\ UNCHANGED <<ch, accepted>>
        /\ Holds(s, None)
        /\ UNCHANGED <<now, pending, expires, done, store, settled, dec,
                       promptVars, reactVars, reapVars, upstream, sent, edits, ended>>

\* ... and cancelPendingTimeout marks whatever Pending the ID has by then.
ResolveClose(s) ==
    /\ pc[s] = "close"
    /\ done' = [r \in Requests |-> done[r] \/ pending[IdFor(s)] = r]
    /\ Goes(s, AfterResolve(s, TRUE))
    /\ UNCHANGED <<now, pending, expires, ch, store, settled, held, dec, promptVars,
                   reactVars, reapVars, upstream, sent, edits, ended, accepted>>

\* The server's event that it was decided: handleApprovalResolved or
\* handlePermissionRepliedEvent; with no Pending left OpenClaw may Drop.
RemoteResolved(a) ==
    /\ pc[a] = "idle"
    /\ upstream[a] \in Answers
    /\ dec' = [dec EXCEPT ![a] = upstream[a]]
    /\ \/ Goes(a, "lookup") /\ UNCHANGED flowVars
       \/ pending[a] = None /\ Goes(a, "done") /\ Finalize(a, "dropped")
    /\ UNCHANGED <<now, expires, ch, held, promptVars, reactVars, reapVars,
                   upstream, sent, accepted>>

\* rehydratePendingApprovals of OpenClaw, after a reconnect: what the server
\* does not list as pending any more is resolved as expired.
RemoteUnlisted(a) ==
    /\ pc[a] = "idle"
    /\ upstream[a] # "open" /\ pending[a] # None
    /\ dec' = [dec EXCEPT ![a] = "timeout"]
    /\ Goes(a, "lookup")
    /\ UNCHANGED <<now, expires, ch, held, promptVars, reactVars, reapVars,
                   upstream, sent, accepted, flowVars>>

\* Another client of the server decides, or the server gives the request up.
RemoteDecides(a) ==
    /\ ~Waits
    /\ upstream[a] = "open"
    /\ \E d \in Answers \cup {"gone"} : upstream' = [upstream EXCEPT ![a] = d]
    /\ UNCHANGED <<now, expires, ch, procVars, reactVars, reapVars, sent,
                   accepted, flowVars>>

-----------------------------------------------------------------------------
(* Wait, and FinishResolved after it.                                      *)

\* waitToolApproval of bridges/ai first asks whether there is a Pending.
Get(r) ==
    /\ pc[r] = "get"
    /\ Goes(r, IF pending[IdOf[r]] = None THEN "done" ELSE "wait")
    /\ dec' = [dec EXCEPT ![r] = IF pending[IdOf[r]] = None THEN "timeout" ELSE @]
    /\ UNCHANGED <<now, expires, ch, held, promptVars, reactVars, reapVars,
                   upstream, sent, accepted, flowVars>>

\* Wait finds no Pending: the answer is a timeout.
WaitUnknown(r) ==
    /\ pc[r] = "wait"
    /\ pending[IdOf[r]] = None
    /\ Goes(r, "finish")
    /\ dec' = [dec EXCEPT ![r] = "timeout"]
    /\ UNCHANGED <<now, expires, ch, held, promptVars, reactVars, reapVars,
                   upstream, sent, accepted, flowVars>>

\* It finds one without a decision, and waits for as long as that is valid.
WaitBegin(r) ==
    LET p == pending[IdOf[r]]
    IN  /\ pc[r] = "wait"
        /\ p # None /\ ch[p] = None
        /\ Holds(r, IF Lapsed(expires[p]) THEN None ELSE p)
        /\ Goes(r, IF Lapsed(expires[p]) THEN "timeout" ELSE "waiting")
        /\ dec' = [dec EXCEPT ![r] = IF Lapsed(expires[p]) THEN "timeout" ELSE @]
        /\ UNCHANGED <<now, expires, ch, promptVars, reactVars, reapVars,
                       upstream, sent, accepted, flowVars>>

Takes(r, p) ==
    /\ p # None /\ ch[p] # None
    /\ dec' = [dec EXCEPT ![r] = ch[p]]
    /\ ch' = [ch EXCEPT ![p] = None]
    /\ Holds(r, None)
    /\ Goes(r, "finish")

\* The decision is taken, at once or in the select of Wait ...
WaitTake(r) ==
    /\ \/ pc[r] = "wait" /\ Takes(r, pending[IdOf[r]])
       \/ pc[r] = "waiting" /\ Takes(r, held[r])
    /\ UNCHANGED <<now, expires, promptVars, reactVars, reapVars,
                   upstream, sent, accepted, flowVars>>

\* ... or the timer fired, whatever is in the channel ...
WaitTimer(r) ==
    /\ pc[r] = "waiting"
    /\ Lapsed(expires[held[r]])
    /\ dec' = [dec EXCEPT ![r] = "timeout"]
    /\ Holds(r, None)
    /\ Goes(r, "timeout")
    /\ UNCHANGED <<now, expires, ch, promptVars, reactVars, reapVars,
                   upstream, sent, accepted, flowVars>>

WaitTimedOut(r) ==
    /\ pc[r] = "timeout"
    /\ FinishTimedOut(IdOf[r])
    /\ Goes(r, "finish")
    /\ UNCHANGED <<now, expires, ch, held, dec, promptVars, reactVars, reapVars,
                   upstream, sent, accepted>>

\* ... or the turn was cancelled.
WaitCancelled(r) ==
    /\ pc[r] = "waiting"
    /\ MayCancel
    /\ dec' = [dec EXCEPT ![r] = "cancelled"]
    /\ Holds(r, None)
    /\ Goes(r, IF Client = "ai" THEN "done" ELSE "finish")
    /\ UNCHANGED <<now, expires, ch, promptVars, reactVars, reapVars,
                   upstream, sent, accepted, flowVars>>

\* A turn of bridges/ai that ends early never comes to wait: MCP approvals
\* are requested while the response streams and awaited after it.
Abandon(r) ==
    /\ pc[r] = "get"
    /\ MayCancel
    /\ dec' = [dec EXCEPT ![r] = "cancelled"]
    /\ Goes(r, "done")
    /\ UNCHANGED <<now, expires, ch, held, promptVars, reactVars, reapVars,
                   upstream, sent, accepted, flowVars>>

\* Mutant: a decision that was taken is not finalized.
Finish_Forgets(s) ==
    /\ pc[s] = "finish"
    /\ Goes(s, "done")
    /\ UNCHANGED <<now, expires, ch, held, dec, promptVars, reactVars, reapVars,
                   upstream, sent, accepted, flowVars>>

\* FinishResolved, of a request and of ResolveExternal.
Finish(s) ==
    /\ pc[s] = "finish"
    /\ Finalize(IdFor(s), dec[s])
    /\ Goes(s, "done")
    /\ UNCHANGED <<now, expires, ch, held, dec, promptVars, reactVars, reapVars,
                   upstream, sent, accepted>>

-----------------------------------------------------------------------------
(* HandleReaction: the owner reacts.  The reactions in a room are handled  *)
(* one after the other.                                                    *)

\* The approval that a message leads to, if that has a prompt.
Found(p) ==
    LET a == CASE p \in Requests -> store.byMsg[p]
               [] p \in Targets  -> store.byTarget[p]
               [] OTHER          -> None
    IN  IF a # None /\ HasPrompt(store, a) THEN a ELSE None

\* The message is that of a prompt that was answered and would be open yet.
Settled(p) == p \in Places /\ ~Lapsed(settled[p])

\* The prompts of the room the fallback scan looks at, at time t.
Live        == {a \in Approvals : HasPrompt(store, a) /\ pending[a] # None}
Stale(t)    == {a \in Live : t > store.prompt[a].expires}
Fallback(t) == Live \ Stale(t)

DropAll(gone) ==
    [prompt   |-> [a \in Approvals |-> IF a \in gone THEN None ELSE store.prompt[a]],
     byMsg    |-> [m \in Requests |->
                      IF store.byMsg[m] \in gone THEN None ELSE store.byMsg[m]],
     byTarget |-> [t \in Targets |->
                      IF store.byTarget[t] \in gone THEN None ELSE store.byTarget[t]],
     serial   |-> store.serial]

ReactEnds ==
    /\ rpc' = "idle" /\ rplace' = None /\ rnow' = 0
    /\ rid' = None /\ rdec' = None /\ rheld' = None

\* matchReactionTarget finds the prompt; an expired one is to be dropped.
ReactKnown(p) ==
    /\ Found(p) # None
    /\ rid' = Found(p)
    /\ rpc' = IF After(store.prompt[Found(p)].expires) THEN "drop" ELSE "lookup"
    /\ UNCHANGED rplace

\* It finds none.
ReactMiss(p) ==
    /\ Found(p) = None
    /\ rpc' = "settled" /\ rplace' = p
    /\ UNCHANGED rid

React(p, d) ==
    /\ rpc = "idle"
    /\ reactions < MaxReactions
    /\ p \in Requests => p \in sent
    /\ reactions' = reactions + 1
    /\ rnow' = now /\ rdec' = d
    /\ ReactKnown(p) \/ ReactMiss(p)
    /\ UNCHANGED <<now, expires, ch, procVars, rheld, reapVars, upstream, sent,
                   accepted, flowVars>>

\* handleResolvedApprovalReactionChange: the message is that of a prompt that
\* was answered; the reaction is refused.
ReactSettled ==
    /\ rpc = "settled"
    /\ IF Settled(rplace) THEN ReactEnds
       ELSE /\ rpc' = "fallback" /\ rplace' = None
            /\ UNCHANGED <<rnow, rid, rdec, rheld>>
    /\ UNCHANGED <<now, expires, ch, procVars, reactions, reapVars, upstream, sent,
                   accepted, flowVars>>

\* matchFallbackReaction: the only prompt of the room that is still open is
\* meant; the scan, which stops at the second one, drops the expired prompts
\* it comes across.
ReactFallback ==
    /\ rpc = "fallback"
    /\ IF Cardinality(Fallback(rnow)) = 1
       THEN /\ rid' \in Fallback(rnow)
            /\ rpc' = "lookup"
            /\ store' = DropAll(Stale(rnow))
            /\ UNCHANGED <<rplace, rnow, rdec, rheld>>
       ELSE /\ \E gone \in SUBSET Stale(rnow) :
                 /\ Fallback(rnow) = {} => gone = Stale(rnow)
                 /\ store' = DropAll(gone)
            /\ ReactEnds
    /\ UNCHANGED <<now, pending, expires, ch, done, settled, procVars, reactions,
                   reapVars, upstream, sent, edits, ended, accepted>>

ReactDrop ==
    /\ rpc = "drop"
    /\ store' = DropPrompt(store, rid)
    /\ ReactEnds
    /\ UNCHANGED <<now, pending, expires, ch, done, settled, procVars, reactions,
                   reapVars, upstream, sent, edits, ended, accepted>>

\* The Pending of the approval is looked up; whether it has expired is judged
\* by the time at which the reaction came in.
ReactLookup ==
    LET p == pending[rid]
    IN  /\ rpc = "lookup"
        /\ IF p = None THEN ReactEnds
           ELSE /\ rnow' = 0
                /\ IF rnow > expires[p]
                   THEN rpc' = "expired" /\ UNCHANGED rheld
                   ELSE rpc' = "deliver" /\ rheld' = p
                /\ UNCHANGED <<rplace, rid, rdec>>
        /\ UNCHANGED <<now, expires, ch, procVars, reactions, reapVars,
                       upstream, sent, accepted, flowVars>>

ReactExpired ==
    /\ rpc = "expired"
    /\ FinishTimedOut(rid)
    /\ ReactEnds
    /\ UNCHANGED <<now, expires, ch, procVars, reactions, reapVars,
                   upstream, sent, accepted>>

\* The decision goes into the channel, unless that holds one.
ReactPut ==
    /\ rpc = "deliver"
    /\ Waits
    /\ IF ch[rheld] = None
       THEN /\ ch' = [ch EXCEPT ![rheld] = rdec]
            /\ accepted' = [accepted EXCEPT ![rheld] = @ \cup {rdec}]
            /\ rpc' = "finish" /\ UNCHANGED <<rplace, rnow, rid, rdec, rheld>>
       ELSE ReactEnds /\ UNCHANGED <<ch, accepted>>
    /\ UNCHANGED <<now, expires, procVars, reactions, reapVars,
                   upstream, sent, flowVars>>

\* Mutant: the error of the callback is ignored.
ReactDeliver_Anyway ==
    /\ rpc = "deliver"
    /\ ~Waits
    /\ rpc' = "finish"
    /\ upstream' = [upstream EXCEPT ![rid] = IF @ = "open" THEN rdec ELSE @]
    /\ UNCHANGED <<now, expires, ch, procVars, rplace, rnow, rid, rdec, rheld,
                   reactions, reapVars, sent, accepted, flowVars>>

\* DeliverDecision: the server takes the first decision and refuses others;
\* a call may fail before or after the server has taken it.
ReactDeliver ==
    /\ rpc = "deliver"
    /\ ~Waits
    /\ \E took, ok \in BOOLEAN :
         /\ took => upstream[rid] = "open"
         /\ ok => took
         /\ ok \/ MayFail \/ upstream[rid] # "open"
         /\ upstream' = [upstream EXCEPT ![rid] = IF took THEN rdec ELSE @]
         /\ IF ok THEN rpc' = "finish" /\ UNCHANGED <<rplace, rnow, rid, rdec, rheld>>
            ELSE ReactEnds
    /\ UNCHANGED <<now, expires, ch, procVars, reactions, reapVars,
                   sent, accepted, flowVars>>

ReactFinish ==
    /\ rpc = "finish"
    /\ Finalize(rid, rdec)
    /\ ReactEnds
    /\ UNCHANGED <<now, expires, ch, procVars, reactions, reapVars,
                   upstream, sent, accepted>>

-----------------------------------------------------------------------------
(* The reaper.                                                             *)

PromptOver(a) == HasPrompt(store, a) /\ After(store.prompt[a].expires)
Resolved(p)   == p # None /\ done[p]

\* Mutant: the expiry of the Pending is not looked at.
PendingOver_Always(a) == pending[a] # None
PendingOver(a) == pending[a] # None /\ After(expires[pending[a]])

Candidates ==
    {[id |-> a, pending |-> pending[a],
      prompt |-> IF PromptOver(a) THEN store.prompt[a].serial ELSE 0,
      byPending |-> PendingOver(a), byPrompt |-> PromptOver(a)] :
        a \in {b \in Approvals : /\ pending[b] # None /\ ~Resolved(pending[b])
                                 /\ PendingOver(b) \/ PromptOver(b)}}

Orphans == {a \in Approvals : pending[a] = None /\ PromptOver(a)}

\* reapExpired notes the candidates and drops prompts without a Pending ...
ReapScan ==
    /\ reap = {} /\ cut = NoCut
    /\ Candidates \cup Orphans # {}
    /\ reap' = Candidates
    /\ store' = DropAll(Orphans)
    /\ UNCHANGED <<now, pending, expires, ch, done, settled, procVars, reactVars,
                   cut, upstream, sent, edits, ended, accepted>>

\* The second look at a candidate.
StillDue(c) == pending[c.id] = c.pending /\ ~done[c.pending]

PromptStillDue(c) ==
    /\ StillDue(c) /\ c.byPrompt
    /\ HasPrompt(store, c.id) /\ store.prompt[c.id].serial = c.prompt

\* ... finalizeExpiredCandidate looks again ...
ReapCheck(c) ==
    /\ c \in reap /\ cut = NoCut
    /\ reap' = reap \ {c}
    /\ cut' = CASE StillDue(c) /\ c.byPending -> [id |-> c.id, version |-> 0]
                [] ~c.byPending /\ PromptStillDue(c) ->
                     [id |-> c.id, version |-> store.prompt[c.id].version]
                [] OTHER -> NoCut
    /\ UNCHANGED <<now, expires, ch, procVars, reactVars, upstream, sent, accepted,
                   flowVars>>

\* ... and finalizes, if a prompt's generation is still the one it saw.
ReapFinish ==
    /\ cut # NoCut
    /\ IF \/ cut.version = 0
          \/ HasPrompt(store, cut.id) /\ store.prompt[cut.id].version = cut.version
       THEN FinishTimedOut(cut.id)
       ELSE UNCHANGED flowVars
    /\ cut' = NoCut
    /\ UNCHANGED <<now, expires, ch, procVars, reactVars, reap, upstream, sent,
                   accepted>>

-----------------------------------------------------------------------------
RequestStep(r) ==
    \/ PromptRegister(r) \/ PromptSkip(r) \/ PromptSend(r) \/ PromptSendFails(r)
    \/ PromptBind(r) \/ PromptSchedule(r)
    \/ Get(r) \/ WaitUnknown(r) \/ WaitBegin(r) \/ WaitTake(r)
    \/ WaitTimer(r) \/ WaitTimedOut(r)

ResolveStep(s) ==
    ResolveLookup(s) \/ ResolveExpired(s) \/ ResolvePut(s) \/ ResolveClose(s)
    \/ Finish(s)

ReactStep ==
    \/ ReactSettled \/ ReactFallback \/ ReactDrop \/ ReactLookup \/ ReactExpired
    \/ ReactPut \/ ReactDeliver \/ ReactFinish

ReapStep == ReapScan \/ (\E c \in reap : ReapCheck(c)) \/ ReapFinish

Next ==
    \/ Tick
    \/ \E r \in Requests : Register(r) \/ RequestStep(r)
                           \/ WaitCancelled(r) \/ Abandon(r)
    \/ \E s \in Procs : ResolveStep(s)
    \/ \E a \in Approvals : RemoteDecides(a) \/ RemoteResolved(a) \/ RemoteUnlisted(a)
    \/ \E p \in Places \cup {None}, d \in Answers : React(p, d)
    \/ ReactStep
    \/ ReapStep

Spec == Init /\ [][Next]_vars

(***************************************************************************)
(* Time passes, goroutines that can run do, the agent server delivers its  *)
(* events.  Nothing makes an agent ask, an owner react or a server decide. *)
(***************************************************************************)
Fairness ==
    /\ WF_vars(Tick)
    /\ \A r \in Requests : WF_vars(RequestStep(r))
    /\ \A s \in Procs : WF_vars(ResolveStep(s))
    /\ \A a \in Approvals : WF_vars(RemoteResolved(a))
    /\ WF_vars(ReactStep)
    /\ WF_vars(ReapStep)

FairSpec == Spec /\ Fairness

-----------------------------------------------------------------------------
(* Properties.                                                             *)

\* A channel of the approval took a decision.
Decided(a) == \E q \in Requests : IdOf[q] = a /\ accepted[q] # {}

\* Every variable keeps its type; what is registered as pending belongs to its
\* approval and was not finalized; and what is marked as done, which the reaper
\* leaves alone, is for an approval that got a decision.
TypeOK ==
    /\ now \in 0..MaxTime
    /\ pending \in [Approvals -> Requests \cup {None}]
    /\ \A r \in Requests, a \in Approvals :
          pending[a] = r => /\ IdOf[r] = a /\ ended[r] = None
                            /\ done[r] => Decided(a)
    /\ expires \in [Requests -> Nat] /\ promptEnd \in [Requests -> Nat]
    /\ ch \in [Requests -> Decisions \cup {None}]
    /\ done \in [Requests -> BOOLEAN]
    /\ store \in Store
    /\ settled \in [Places -> Nat]
    /\ \A r \in Requests : pc[r] \in RequestPcs
    /\ \A a \in Approvals : pc[a] \in RemotePcs
    /\ held \in [Procs -> Requests \cup {None}]
    /\ dec \in [Procs -> Decisions \cup {None}]
    /\ before \in [Requests -> Prompt \cup {None}]
    /\ rpc \in ReactPcs /\ rplace \in Places \cup {None} /\ rnow \in 0..MaxTime
    /\ rid \in Approvals \cup {None} /\ rdec \in Answers \cup {None}
    /\ rheld \in Requests \cup {None} /\ reactions \in 0..MaxReactions
    /\ reap \subseteq Candidate /\ cut \in [id : Approvals \cup {None}, version : Nat]
    /\ upstream \in [Approvals -> Answers \cup {"open", "gone"}]
    /\ sent \subseteq Requests
    /\ edits \in [Requests -> SUBSET Decisions]
    /\ ended \in [Requests -> Decisions \cup {None, "dropped"}]
    /\ accepted \in [Requests -> SUBSET Decisions]

\* The message indexes of the prompt store and the prompts themselves agree
\* at every moment, through replaced, restored, dropped and expired prompts:
\* no reaction is attributed to the wrong approval.
StoreIndexed == IndexesAgree(store)

\* However reactions, remote decisions, timeouts and cancellations race, a
\* prompt message shows one verdict at most: FinishResolved is idempotent.
Verdict == INSTANCE OneVerdict WITH Prompts <- Requests, Verdicts <- Decisions,
                                    shown <- edits
PromptsShowOneVerdict == Verdict!Spec

\* No other request for the approval of r was registered.
Alone(r) == \A q \in Requests \ {r} : IdOf[q] = IdOf[r] => pc[q] = "new"

\* The Pending of r has expired, or the end that the server gave is past: then its
\* prompt is, though a default lifetime may keep the Pending.
Overdue(r) == Lapsed(expires[r]) \/ (EndOf[r] # None /\ Lapsed(EndOf[r]))

\* A Pending is only timed out once it has expired, the end its server gave is past,
\* or the server has decided it, however the timers of Wait, of the prompt and of the
\* reaper race.  Only an approval ID that is used again can break this: what is left
\* of the handler of the one request then times out the Pending of the other.
TimeoutIsDue ==
    [][\A r \in Requests :
         Alone(r) /\ ended[r] = None /\ ended'[r] = "timeout" =>
            Overdue(r) \/ upstream[IdOf[r]] # "open"]_vars

\* What a prompt shows as the answer is what the agent server decided.
UpstreamAgrees ==
    \A r \in Requests : ~Waits => edits[r] \cap Answers \subseteq {upstream[IdOf[r]]}

\* Every Wait returns.
WaitEnds == \A r \in Requests : pc[r] \in {"get", "wait", "waiting"} ~> pc[r] = "done"

\* Nothing stays pending for ever.
PendingIsFinalized ==
    \A r \in Requests : pending[IdOf[r]] = r ~> pending[IdOf[r]] # r

\* Every request is settled, for the turn that waits and in the flow, also when
\* a decision, the timer of its Wait and the reaper meet.
RequestsSettled == WaitEnds /\ PendingIsFinalized
=============================================================================
