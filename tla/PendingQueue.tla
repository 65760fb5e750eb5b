---------------------------- MODULE PendingQueue ----------------------------
(***************************************************************************)
(* The per-room pending queue of the AI bridge                             *)
(* (bridges/ai/pending_queue.go, queue_helpers.go and the queue policy of  *)
(* pkg/runtime) as pure operators: every operator here is one critical     *)
(* section of the code, from taking queue.mu to releasing it.              *)
(*                                                                         *)
(* A queue is a record.  The code keeps it in a map and deletes the map    *)
(* entry exactly when it holds neither items nor dropped messages, so      *)
(* EmptyQueue stands for the missing entry and there is no other empty     *)
(* queue: a fresh queue always admits its first item.                      *)
(***************************************************************************)
EXTENDS Naturals, Sequences, SequencesExt

CONSTANTS
    Messages,       \* inbound messages: user messages and internal triggers
    Cap,            \* QueueSettings.Cap
    DropPolicy,     \* QueueSettings.DropPolicy
    ThreadOf        \* queueThreadKey of each message

AllModes == {"interrupt", "backlog", "steer", "followup", "collect",
             "steer+backlog"}
DropPolicies == {"old", "new", "summarize"}

ASSUME CapAssumption == Cap \in Nat \ {0}
ASSUME DropPolicyAssumption == DropPolicy \in DropPolicies

\* ResolveQueueBehavior.
Steers(mode)       == mode \in {"steer", "steer+backlog"}
FollowsUp(mode)    == mode \in {"followup", "collect", "steer+backlog"}
Collects(mode)     == mode = "collect"
BacklogsAfter(mode) == mode = "steer+backlog"

(***************************************************************************)
(* A queued item.  allowDuplicate marks the copy that a finished           *)
(* steer+backlog run puts back.                                            *)
(***************************************************************************)
Item == [msg : Messages, backlogAfter : BOOLEAN, allowDuplicate : BOOLEAN]

Queue == [items    : Seq(Item),
          dropped  : SUBSET Messages,   \* droppedCount and summaryLines
          last     : Seq(Item),         \* lastItem: at most one
          mode     : AllModes,
          draining : BOOLEAN]

EmptyQueue == [items |-> <<>>, dropped |-> {}, last |-> <<>>,
               mode |-> "collect", draining |-> FALSE]

IsEmpty(q) == q.items = <<>> /\ q.dropped = {}

\* Mutant: the emptied queue stays in the map.
Settle_Kept(q) == q

\* The map entry goes away with its last item and last dropped message.
Settle(q) == IF IsEmpty(q) THEN EmptyQueue ELSE q

Msgs(items) == {items[i].msg : i \in DOMAIN items}

\* pendingQueueItemsConflict: the same message is queued once.
Conflicts(item, items) == ~item.allowDuplicate /\ item.msg \in Msgs(items)

(***************************************************************************)
(* ResolveQueueOverflow: how many of len items make room for a new one,    *)
(* and whether the new one is kept at all.                                 *)
(***************************************************************************)
KeepsNew(len) == len < Cap \/ DropPolicy # "new"
ItemsToDrop(len) == IF len < Cap THEN 0 ELSE len - Cap + 1

(***************************************************************************)
(* enqueuePendingItem.  The settings of the newest message overwrite the   *)
(* queue's, even when the message is refused; lastItem is set before the   *)
(* drop policy decides.                                                    *)
(***************************************************************************)
Admits(q, item) == ~Conflicts(item, q.items) /\ KeepsNew(Len(q.items))

Evicted(q, item) ==
    IF Admits(q, item)
    THEN SubSeq(q.items, 1, ItemsToDrop(Len(q.items)))
    ELSE <<>>

Enqueue(q, item, mode) ==
    LET reset == [q EXCEPT !.mode = mode]
        kept  == SubSeq(q.items, Len(Evicted(q, item)) + 1, Len(q.items))
    IN  IF Conflicts(item, q.items)  THEN reset
        ELSE IF ~Admits(q, item)     THEN [reset EXCEPT !.last = <<item>>]
        ELSE [reset EXCEPT
                !.last    = <<item>>,
                !.items   = Append(kept, item),
                !.dropped = IF DropPolicy = "summarize"
                            THEN @ \cup Msgs(Evicted(q, item)) ELSE @]

\* popQueueItems: up to count items from the front; lastItem is left alone.
\* Mutant: the front item is skipped.
Popped_Skip(q, count) == SubSeq(q.items, 2, Len(q.items))

Popped(q, count) ==
    SubSeq(q.items, 1, IF count > Len(q.items) THEN Len(q.items) ELSE count)

\* Mutant: the last item taken also takes the dropped messages with it.
Pop_Forgets(q, count) ==
    Settle([q EXCEPT !.items = SubSeq(@, Len(Popped(q, count)) + 1, Len(@)),
                     !.dropped = {}])

Pop(q, count) ==
    Settle([q EXCEPT !.items = SubSeq(@, Len(Popped(q, count)) + 1, Len(@))])

\* consumeQueueSummary.
ConsumeSummary(q) == Settle([q EXCEPT !.dropped = {}])

\* removePendingQueueBySourceEvent.  (SelectSeq would say the same; the provers know
\* nothing of it.)
NotFrom(m, items) ==
    LET kept   == {i \in DOMAIN items : items[i].msg # m}
        nth(k) == CHOOSE i \in kept : Cardinality({j \in kept : j <= i}) = k
    IN  [k \in 1..Cardinality(kept) |-> items[nth(k)]]

RemoveSource(q, m) ==
    LET kept == NotFrom(m, q.items)
    IN  Settle([q EXCEPT
          !.items = kept,
          !.last  = IF @ # <<>> /\ m \in Msgs(@)
                    THEN (IF kept = <<>> THEN <<>> ELSE <<Last(kept)>>)
                    ELSE @])

(***************************************************************************)
(* The prefix of the queue that a collect-mode dispatch merges into one    *)
(* turn: the longest one that stays in the first item's thread.            *)
(***************************************************************************)
OneThread(items) ==
    \A i, j \in DOMAIN items : ThreadOf[items[i].msg] = ThreadOf[items[j].msg]

CollectCount(items) ==
    CHOOSE n \in 1..Len(items) :
        /\ OneThread(SubSeq(items, 1, n))
        /\ n < Len(items) => ~OneThread(SubSeq(items, 1, n + 1))
=============================================================================
