---------------------------- MODULE DelayedTicks ----------------------------
(***************************************************************************)
(* src/bridges/ai/scheduler_ticks.go and the homeserver behind it: the     *)
(* scheduler keeps no timers.  It sends itself delayed events (ticks); the *)
(* homeserver delivers a tick when its time has come, and the pending      *)
(* delay of the persisted record is all that a restarted process knows.    *)
(*                                                                         *)
(* One record, rec, with its ticks.  Time is a number of slots.  A tick is *)
(* [id, key]; the run key "rev<r>:<kind>:<ms>" is [rev, kind, at, n]: two  *)
(* readings of the clock differ in the program and not in the slots, so a  *)
(* key made from one carries a number n of its own; a key computed from    *)
(* the schedule has n = 0.  What a critical section builds before it saves *)
(* is a draft [rec, delayed, sent].                                        *)
(***************************************************************************)
EXTENDS Integers, Sequences, SequencesExt

CONSTANTS
    None,
    MaxTime,    \* bound on the clock
    MaxOps,     \* bound on requests, restarts and reconnects
    MaxFaults,  \* bound on failing calls and repeated deliveries
    Horizon,    \* schedulePlannerHorizon, in slots
    KeyLimit    \* run keys a record remembers (8)

ASSUME TicksAssumption ==
    /\ MaxTime \in Nat \ {0} /\ MaxOps \in Nat /\ MaxFaults \in Nat
    /\ Horizon \in Nat \ {0} /\ KeyLimit \in Nat \ {0}

VARIABLES
    now,        \* the clock of homeserver and program
    delayed,    \* ticks the homeserver holds
    inbox,      \* ticks delivered and not handled yet
    sent,       \* how many delayed events and manual keys there have been
    rec,        \* the persisted record
    runs,       \* ticks whose run is in progress, between its two critical sections
    ops, faults,
    healthy,    \* nothing was lost since the last reconciliation that could repair it
    trouble,    \* what went wrong so far: failed calls, repeated deliveries, and what a
                \* reconnect did not notice (history)
    finished    \* run keys of the record's finished and saved runs (history)

vars == <<now, delayed, inbox, sent, rec, runs, ops, faults, healthy, trouble, finished>>

\* Which call of a critical section fails: loading or saving the record,
\* sending a tick (refused, or accepted and the answer lost), cancelling one.
Fault == {"none", "load", "save", "send", "answer", "cancel"}

Key == [rev : Nat, kind : {"run", "plan", "wake", "retry", "manual"}, at : Int, n : Nat]
Tick == [id : Nat, key : Key]

TicksInit ==
    /\ now = 1 /\ sent = 0 /\ ops = 0 /\ faults = 0
    /\ delayed = {} /\ inbox = {} /\ runs = {} /\ finished = {}
    /\ rec = None
    /\ healthy = TRUE /\ trouble = {}

\* A request, a restart or a reconnect.
Operate == ops < MaxOps /\ ops' = ops + 1

\* A section in which call f fails, and that may lose the next tick without that.
Suffering(f, loses) ==
    /\ f # "none" => faults < MaxFaults
    /\ faults' = IF f = "none" THEN faults ELSE faults + 1
    /\ trouble' = trouble \cup ({f} \ {"none"})
    /\ healthy' = (healthy /\ f \in {"none", "cancel"} /\ ~loses)

Suffer(f) == Suffering(f, FALSE)

Draft(r) == [rec |-> r, delayed |-> delayed, sent |-> sent]

\* The record of a draft is saved, or the save fails and only the homeserver
\* remembers what was sent and cancelled.
Save(d, f) ==
    /\ rec' = IF f = "save" THEN rec ELSE d.rec
    /\ delayed' = d.delayed
    /\ sent' = d.sent

ScheduleTick(d, key, f) ==
    CASE f = "send" -> d
      [] f = "answer" ->
           [d EXCEPT !.sent = @ + 1, !.delayed = @ \cup {[id |-> d.sent + 1, key |-> key]}]
      [] OTHER ->
           [rec |-> [d.rec EXCEPT !.pending = d.sent + 1], sent |-> d.sent + 1,
            delayed |-> d.delayed \cup {[id |-> d.sent + 1, key |-> key]}]

CancelPending(d, f) ==
    IF f = "cancel" THEN d
    ELSE [d EXCEPT !.delayed = {t \in @ : t.id # d.rec.pending}]

AppendRunKey_Not(keys, key) == keys

AppendRunKey(keys, key) ==
    IF Contains(keys, key) THEN keys
    ELSE LET longer == Append(keys, key)
         IN  IF Len(longer) > KeyLimit THEN Tail(longer) ELSE longer

\* The tick that leads to a due time: a run, or a planner tick when that is
\* further away than the homeserver would hold a delayed event.
KeyTowards(r, due, n) ==
    IF due.at - now > Horizon
    THEN [rev |-> r.rev, kind |-> "plan", at |-> now + Horizon, n |-> n]
    ELSE [rev |-> r.rev, kind |-> "run", at |-> due.at, n |-> due.n]

\* The three conditions every handler repeats after loading the record.
Current(t) ==
    /\ rec # None
    /\ rec.enabled
    /\ t.key.rev = rec.rev
    /\ ~Contains(rec.keys, t.key)

-----------------------------------------------------------------------------
(* The homeserver.                                                         *)

Advance ==
    /\ now < MaxTime
    /\ now' = now + 1
    /\ UNCHANGED <<delayed, inbox, sent, rec, runs, ops, faults, healthy, trouble, finished>>

Deliver ==
    \E t \in delayed :
        /\ t.key.at <= now
        /\ delayed' = delayed \ {t}
        /\ inbox' = inbox \cup {t}
        /\ UNCHANGED <<now, sent, rec, runs, ops, faults, healthy, trouble, finished>>

\* A handler has taken a tick; a tick delivered once more stays in the inbox.
Taken(t, f) ==
    /\ t \in inbox
    /\ inbox' = IF f = "again" THEN inbox ELSE inbox \ {t}

\* The process dies.  The homeserver repeats the ticks it has no receipt for
\* (again) and the others are lost, with the runs in progress.
Crash(repeated) ==
    /\ Operate
    /\ runs # {} \/ inbox # repeated
    /\ repeated \subseteq {t \in inbox : t.key.kind # "manual"}
    /\ runs' = {}
    /\ inbox' = repeated
    /\ healthy' = (/\ healthy
                   /\ {t \in inbox : t.key.kind # "manual"} = repeated
                   /\ \/ \A t \in runs : t.key.kind = "manual"
                      \/ rec = None
                      \/ rec.pending # None)
    /\ UNCHANGED <<now, delayed, sent, rec, faults, trouble, finished>>
=============================================================================
