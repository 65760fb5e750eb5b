------------------------ MODULE GatewayClientProofs ------------------------
(***************************************************************************)
(* Theorems about GatewayClient, for any requests, events and capacity of  *)
(* the channel: Start sees the events in their order and without a gap,    *)
(* and the map of pending requests is exact.                               *)
(*                                                                         *)
(* The events in the channel are the numbers that follow those which were  *)
(* handled, the one in the hands of the reader comes next, and the wire    *)
(* has the rest in rising order.  Between them the wire has answers; what  *)
(* makes the next event the right one is that none is missing, as long as  *)
(* the reader may go on reading.                                           *)
(***************************************************************************)
EXTENDS GatewayClient, TLAPS

\* The sequence s has the numbers that follow n.
Follows(s, n) == s \in Seq(Nat) /\ \A i \in 1..Len(s) : s[i] = n + i

\* The events of the wire w are past n, up to top, and rise.
Rising(w, n, top) ==
    /\ w \in Seq(Nat \cup Requests)
    /\ \A i \in 1..Len(w) : w[i] \in Nat => n < w[i] /\ w[i] <= top
    /\ \A i, j \in 1..Len(w) : i < j /\ w[i] \in Nat /\ w[j] \in Nat => w[i] < w[j]

\* None of them is missing.
Gapless(w, n, top) == \A k \in (n + 1)..top : \E i \in 1..Len(w) : w[i] = k

Holds == reader \in {"event", "blocked"}
Reads == reader = "read" \/ Holds
ReadSoFar == Len(handled) + Len(events) + (IF Holds THEN 1 ELSE 0)

OrderInv ==
    /\ sent \in Nat
    /\ Follows(handled, 0)
    /\ Follows(events, Len(handled))
    /\ Holds => frame = Len(handled) + Len(events) + 1
    /\ ReadSoFar <= sent
    /\ Rising(wire, ReadSoFar, sent)
    /\ link # "closed" /\ Reads => Gapless(wire, ReadSoFar, sent)

-----------------------------------------------------------------------------
(* The wire.                                                               *)

LEMMA EmptyRises == ASSUME NEW n \in Nat, NEW top \in Nat PROVE Rising(<<>>, n, top)
BY DEF Rising

LEMMA RisesFromLess ==
    ASSUME NEW w, NEW n \in Nat, NEW m \in Nat, m <= n, NEW top \in Nat, Rising(w, n, top)
    PROVE  Rising(w, m, top)
BY DEF Rising

\* An answer taken from the wire, or put on it, does not matter.
LEMMA AnswerTaken ==
    ASSUME NEW w, NEW n \in Nat, NEW top \in Nat, Rising(w, n, top), w # <<>>,
           Head(w) \in Requests
    PROVE  /\ Rising(Tail(w), n, top)
           /\ Gapless(w, n, top) => Gapless(Tail(w), n, top)
<1> DEFINE t == Tail(w)
<1>1. /\ t \in Seq(Nat \cup Requests) /\ Len(t) = Len(w) - 1 /\ Len(w) \in Nat \ {0}
      /\ \A i \in 1..Len(t) : t[i] = w[i + 1] /\ i + 1 \in 1..Len(w)
  BY DEF Rising
<1>2. w[1] \notin Nat
  BY <1>1, GatewayAssumption DEF Rising
<1>3. Rising(t, n, top)
  BY <1>1 DEF Rising
<1>4. ASSUME Gapless(w, n, top), NEW k \in (n + 1)..top
      PROVE  \E i \in 1..Len(t) : t[i] = k
  <2>1. PICK i \in 1..Len(w) : w[i] = k
    BY <1>4 DEF Gapless
  <2>2. i - 1 \in 1..Len(t) /\ t[i - 1] = k
    BY <2>1, <1>1, <1>2
  <2>3. QED
    BY <2>2
<1>5. QED
  BY <1>3, <1>4 DEF Gapless

LEMMA AnswerPut ==
    ASSUME NEW w, NEW n \in Nat, NEW top \in Nat, Rising(w, n, top), NEW q \in Requests
    PROVE  /\ Rising(Append(w, q), n, top)
           /\ Gapless(w, n, top) => Gapless(Append(w, q), n, top)
<1> DEFINE u == Append(w, q)
<1>1. /\ u \in Seq(Nat \cup Requests) /\ Len(u) = Len(w) + 1 /\ Len(w) \in Nat
      /\ \A i \in 1..Len(w) : u[i] = w[i]
      /\ u[Len(u)] \notin Nat
  BY GatewayAssumption DEF Rising
<1>2. \A i \in 1..Len(u) : u[i] \in Nat => i \in 1..Len(w)
  BY <1>1
<1>3. Rising(u, n, top)
  BY <1>1, <1>2 DEF Rising
<1>4. Gapless(w, n, top) => Gapless(u, n, top)
  BY <1>1 DEF Gapless
<1>5. QED
  BY <1>3, <1>4

\* When nothing is missing the first event of the wire is the next one.
LEMMA EventTaken ==
    ASSUME NEW w, NEW n \in Nat, NEW top \in Nat, Rising(w, n, top), Gapless(w, n, top),
           w # <<>>, Head(w) \in Nat
    PROVE  /\ Head(w) = n + 1 /\ n + 1 <= top
           /\ Rising(Tail(w), n + 1, top)
           /\ Gapless(Tail(w), n + 1, top)
<1> DEFINE t == Tail(w)
<1>1. /\ t \in Seq(Nat \cup Requests) /\ Len(t) = Len(w) - 1 /\ Len(w) \in Nat \ {0}
      /\ \A i \in 1..Len(t) : t[i] = w[i + 1] /\ i + 1 \in 1..Len(w)
      /\ w[1] = Head(w)
  BY DEF Rising
<1>2. n < w[1] /\ w[1] <= top
  BY <1>1 DEF Rising
<1>3. n + 1 \in (n + 1)..top
  BY <1>1, <1>2
<1>4. PICK i \in 1..Len(w) : w[i] = n + 1
  BY <1>3 DEF Gapless
<1>5. w[1] = n + 1
  <2>1. i > 1 => w[1] < w[i]
    BY <1>1, <1>4 DEF Rising
  <2>2. QED
    BY <2>1, <1>1, <1>2, <1>4
<1>6. Rising(t, n + 1, top)
  <2>1. ASSUME NEW j \in 1..Len(t), t[j] \in Nat PROVE n + 1 < t[j] /\ t[j] <= top
    BY <2>1, <1>1, <1>5 DEF Rising
  <2>2. ASSUME NEW j \in 1..Len(t), NEW k \in 1..Len(t), j < k, t[j] \in Nat, t[k] \in Nat
        PROVE  t[j] < t[k]
    BY <2>2, <1>1 DEF Rising
  <2>3. QED
    BY <2>1, <2>2, <1>1 DEF Rising
<1>7. ASSUME NEW k \in (n + 1 + 1)..top
      PROVE  \E j \in 1..Len(t) : t[j] = k
  <2>1. PICK j \in 1..Len(w) : w[j] = k
    BY <1>7 DEF Gapless
  <2>2. j - 1 \in 1..Len(t) /\ t[j - 1] = k
    BY <2>1, <1>1, <1>5, <1>7
  <2>3. QED
    BY <2>2
<1>8. QED
  BY <1>1, <1>2, <1>5, <1>6, <1>7 DEF Gapless

LEMMA EventPut ==
    ASSUME NEW w, NEW n \in Nat, NEW top \in Nat, n <= top, Rising(w, n, top)
    PROVE  /\ Rising(Append(w, top + 1), n, top + 1)
           /\ Gapless(w, n, top) => Gapless(Append(w, top + 1), n, top + 1)
<1> DEFINE u == Append(w, top + 1)
<1>1. /\ u \in Seq(Nat \cup Requests) /\ Len(u) = Len(w) + 1 /\ Len(w) \in Nat
      /\ \A i \in 1..Len(w) : u[i] = w[i]
      /\ u[Len(u)] = top + 1 /\ Len(u) \in 1..Len(u)
  BY DEF Rising
<1>2. \A i \in 1..Len(u) : i \in 1..Len(w) \/ i = Len(u)
  BY <1>1
<1>3. ASSUME NEW i \in 1..Len(u), u[i] \in Nat PROVE n < u[i] /\ u[i] <= top + 1
  BY <1>1, <1>2, <1>3 DEF Rising
<1>4. ASSUME NEW i \in 1..Len(u), NEW j \in 1..Len(u), i < j, u[i] \in Nat, u[j] \in Nat
      PROVE  u[i] < u[j]
  <2>1. i \in 1..Len(w) /\ u[i] <= top
    BY <1>1, <1>2, <1>4 DEF Rising
  <2>2. CASE j = Len(u)
    BY <2>1, <2>2, <1>1, <1>4
  <2>3. CASE j \in 1..Len(w)
    BY <2>1, <2>3, <1>1, <1>4 DEF Rising
  <2>4. QED
    BY <2>2, <2>3, <1>2
<1> HIDE DEF u
<1>5. Rising(u, n, top + 1)
  BY <1>1, <1>3, <1>4 DEF Rising
<1> USE DEF u
<1>6. ASSUME Gapless(w, n, top), NEW k \in (n + 1)..(top + 1)
      PROVE  \E i \in 1..Len(u) : u[i] = k
  <2>1. CASE k = top + 1
    BY <2>1, <1>1
  <2>2. CASE k \in (n + 1)..top
    <3>1. PICK i \in 1..Len(w) : w[i] = k
      BY <2>2, <1>6 DEF Gapless
    <3>2. u[i] = k /\ i \in 1..Len(u)
      BY <3>1, <1>1
    <3>3. QED
      BY <3>2
  <2>3. QED
    BY <2>1, <2>2
<1>7. QED
  BY <1>5, <1>6 DEF Gapless

-----------------------------------------------------------------------------
(* Sequences of consecutive numbers.                                       *)

LEMMA FollowsPut ==
    ASSUME NEW s, NEW n \in Nat, Follows(s, n)
    PROVE  Follows(Append(s, n + Len(s) + 1), n)
<1> DEFINE u == Append(s, n + Len(s) + 1)
<1>1. /\ Len(s) \in Nat /\ u \in Seq(Nat) /\ Len(u) = Len(s) + 1
      /\ \A i \in 1..Len(s) : u[i] = s[i]
      /\ u[Len(s) + 1] = n + Len(s) + 1
  BY DEF Follows
<1> HIDE DEF u
<1>2. ASSUME NEW i \in 1..Len(u) PROVE u[i] = n + i
  <2>1. i \in 1..Len(s) \/ i = Len(s) + 1
    BY <1>1
  <2>2. i \in 1..Len(s) => s[i] = n + i
    BY DEF Follows
  <2>3. QED
    BY <1>1, <2>1, <2>2
<1>3. QED
  BY <1>1, <1>2 DEF Follows, u

LEMMA FollowsTaken ==
    ASSUME NEW s, NEW n \in Nat, Follows(s, n), s # <<>>
    PROVE  /\ Head(s) = n + 1
           /\ Follows(Tail(s), n + 1)
           /\ Len(Tail(s)) = Len(s) - 1 /\ Len(s) \in Nat \ {0}
BY DEF Follows

-----------------------------------------------------------------------------
(* Steps.                                                                  *)

LEMMA OrderInit == Init => OrderInv /\ Stream!Init
<1> SUFFICES ASSUME Init PROVE OrderInv /\ Stream!Init
  OBVIOUS
<1>1. Follows(<<>>, 0)
  BY DEF Follows
<1>2. /\ sent = 0 /\ wire = <<>> /\ handled = <<>> /\ events = <<>>
      /\ ~Holds /\ ReadSoFar = 0
  BY DEF Init, Holds, ReadSoFar
<1>3. Gapless(<<>>, 0, 0)
  BY DEF Gapless
<1>4. OrderInv
  BY <1>1, <1>2, <1>3, EmptyRises DEF OrderInv
<1>5. Stream!Init
  BY <1>2 DEF Stream!Init
<1>6. QED
  BY <1>4, <1>5

\* Steps away from the events; a closed connection stays closed.
LEMMA OrderStays ==
    ASSUME OrderInv, UNCHANGED <<sent, wire, readVars, handled>>,
           link' # "closed" => link # "closed"
    PROVE  OrderInv'
BY DEF OrderInv, ReadSoFar, Holds, Reads, readVars

\* The wire gets or loses an answer, or another event.
LEMMA AnswersPass ==
    ASSUME OrderInv, UNCHANGED <<link, sent, readVars, handled>>,
           \/ \E q \in Requests : wire' = Append(wire, q)
           \/ wire # <<>> /\ Head(wire) \in Requests /\ wire' = Tail(wire)
    PROVE  OrderInv'
<1>1. ReadSoFar \in Nat /\ Rising(wire, ReadSoFar, sent) /\ sent \in Nat
  BY DEF OrderInv, ReadSoFar, Follows
<1>2. /\ Rising(wire', ReadSoFar, sent)
      /\ Gapless(wire, ReadSoFar, sent) => Gapless(wire', ReadSoFar, sent)
  BY <1>1, AnswerPut, AnswerTaken
<1>3. ReadSoFar' = ReadSoFar /\ Holds' = Holds /\ Reads' = Reads
  BY DEF ReadSoFar, Holds, Reads, readVars
<1>4. QED
  BY <1>2, <1>3 DEF OrderInv, readVars

LEMMA SendEventKeeps == ASSUME OrderInv, SendEvent PROVE OrderInv'
<1>1. /\ ReadSoFar \in Nat /\ ReadSoFar <= sent /\ Rising(wire, ReadSoFar, sent) /\ sent \in Nat
      /\ sent' = sent + 1 /\ wire' = Append(wire, sent + 1)
  BY DEF OrderInv, ReadSoFar, Follows, SendEvent
<1>2. /\ Rising(wire', ReadSoFar, sent')
      /\ Gapless(wire, ReadSoFar, sent) => Gapless(wire', ReadSoFar, sent')
  BY <1>1, EventPut
<1>3. ReadSoFar' = ReadSoFar /\ Holds' = Holds /\ Reads' = Reads
  BY DEF ReadSoFar, Holds, Reads, SendEvent, readVars, mainVars
<1>4. QED
  BY <1>1, <1>2, <1>3 DEF OrderInv, SendEvent, readVars, mainVars

LEMMA ReadEventKeeps == ASSUME OrderInv, ReadEvent PROVE OrderInv'
<1> DEFINE n == Len(handled) + Len(events)
<1>1. /\ n \in Nat /\ sent \in Nat /\ ReadSoFar = n
      /\ Rising(wire, n, sent) /\ Gapless(wire, n, sent)
  BY DEF OrderInv, ReadEvent, ReadSoFar, Holds, Reads, Follows
<1>2. /\ Head(wire) = n + 1 /\ n + 1 <= sent
      /\ Rising(Tail(wire), n + 1, sent) /\ Gapless(Tail(wire), n + 1, sent)
  BY <1>1, EventTaken DEF ReadEvent
<1>3. ReadSoFar' = n + 1 /\ frame' = n + 1 /\ wire' = Tail(wire) /\ UNCHANGED <<sent, events, handled>>
  BY <1>1, <1>2 DEF ReadEvent, ReadSoFar, Holds, serverVars, mainVars
<1>4. QED
  BY <1>2, <1>3 DEF OrderInv

\* What is not read any more may be lost.
LEMMA WireLost ==
    ASSUME OrderInv, wire' = <<>>, UNCHANGED <<sent, events, frame, handled>>,
           \/ reader' = reader /\ link' = "closed"
           \/ ~Holds /\ reader' = "shutdown"
    PROVE  OrderInv'
<1>0. Holds' <=> Holds
  BY DEF Holds
<1>1. ReadSoFar' \in Nat /\ ReadSoFar' = ReadSoFar
  <2>1. Len(handled) \in Nat /\ Len(events) \in Nat
    BY DEF OrderInv, Follows
  <2>2. QED
    BY <2>1, <1>0 DEF ReadSoFar
<1>2. ~(link' # "closed" /\ Reads')
  BY DEF Reads, Holds
<1>3. Rising(wire', ReadSoFar', sent')
  BY <1>1, EmptyRises DEF OrderInv
<1>4. QED
  BY <1>0, <1>1, <1>2, <1>3 DEF OrderInv

LEMMA DeliverKeeps == ASSUME OrderInv, Deliver PROVE OrderInv'
<1> DEFINE n == Len(handled)
<1>1. /\ n \in Nat /\ Len(events) \in Nat /\ Follows(events, n)
      /\ events' = Append(events, n + Len(events) + 1)
  BY DEF OrderInv, Deliver, Follows, Holds
<1>2. Follows(events', n) /\ Len(events') = Len(events) + 1
  <2>1. Follows(events', n)
    BY <1>1, FollowsPut
  <2>2. Len(events') = Len(events) + 1
    BY <1>1 DEF Follows
  <2>3. QED
    BY <2>1, <2>2
<1>3. /\ Holds /\ ~Holds' /\ Reads /\ Reads'
      /\ UNCHANGED <<link, wire, sent, handled>>
  BY DEF Deliver, Holds, Reads, serverVars, mainVars
<1>4. ReadSoFar' = ReadSoFar
  BY <1>1, <1>2, <1>3 DEF ReadSoFar
<1>5. QED
  BY <1>2, <1>3, <1>4 DEF OrderInv

\* The reader gives up, with the event it holds.
LEMMA ReaderGivesUp ==
    ASSUME OrderInv, reader' \in {"done", "panicked"},
           UNCHANGED <<wire, sent, events, handled>>
    PROVE  OrderInv'
<1>1. /\ ReadSoFar \in Nat /\ ReadSoFar' \in Nat /\ ReadSoFar' <= ReadSoFar /\ sent \in Nat
      /\ ~Holds' /\ ~Reads'
  BY DEF OrderInv, ReadSoFar, Holds, Reads, Follows
<1>2. Rising(wire, ReadSoFar', sent)
  BY <1>1, RisesFromLess DEF OrderInv
<1>3. QED
  BY <1>1, <1>2 DEF OrderInv

LEMMA TakeEventKeeps ==
    ASSUME OrderInv, TakeEvent
    PROVE  OrderInv' /\ handled' = Append(handled, Len(handled) + 1)
<1> DEFINE n == Len(handled)
<1>1. n \in Nat /\ Follows(events, n) /\ events # <<>> /\ Follows(handled, 0)
  BY DEF OrderInv, TakeEvent, Follows
<1>2. /\ Head(events) = n + 1 /\ Follows(events', n + 1)
      /\ Len(events') = Len(events) - 1 /\ Len(events) \in Nat \ {0}
  BY <1>1, FollowsTaken DEF TakeEvent
<1>3. handled' = Append(handled, n + 1)
  BY <1>2 DEF TakeEvent
<1>4. Follows(handled', 0)
  <2>1. 0 + Len(handled) + 1 = n + 1
    BY <1>1
  <2>2. Follows(Append(handled, 0 + Len(handled) + 1), 0)
    BY <1>1, FollowsPut
  <2>3. QED
    BY <2>1, <2>2, <1>3
<1>5. Len(handled') = n + 1
  BY <1>1, <1>3 DEF Follows
<1>6. /\ UNCHANGED <<link, wire, sent, reader, frame>>
      /\ Holds' = Holds /\ Reads' = Reads
  BY DEF TakeEvent, Holds, Reads, serverVars
<1>7. ReadSoFar' = ReadSoFar
  BY <1>1, <1>2, <1>5, <1>6 DEF ReadSoFar
<1>8. Len(handled') + Len(events') = Len(handled) + Len(events)
  BY <1>1, <1>2, <1>5
<1>9. QED
  BY <1>1, <1>2, <1>3, <1>4, <1>5, <1>6, <1>7, <1>8 DEF OrderInv

\* Every step keeps the invariant, and is one of OrderedStream or none for Start.
LEMMA StepKeeps ==
    ASSUME OrderInv, [Next]_vars
    PROVE  OrderInv' /\ [Stream!Next]_(Stream!vars)
<1> DEFINE Nothing == UNCHANGED <<sent, handled>>
<1>0. Nothing => UNCHANGED Stream!vars
  BY DEF Stream!vars
<1>1. CASE UNCHANGED vars
  BY <1>0, <1>1, OrderStays DEF vars, serverVars, mainVars
<1>2. ASSUME NEW q \in Requests, Write(q) \/ WriteFails(q) \/ RequestReturns(q) \/ Deadline(q)
      PROVE  OrderInv' /\ Nothing
  BY <1>2, OrderStays DEF Write, WriteFails, RequestReturns, Deadline, serverVars, mainVars
<1>3. CASE LinkFails
  BY <1>0, <1>3, OrderStays DEF LinkFails, mainVars
<1>4. CASE BeginShutdown \/ FailPending \/ CloseEvents
  BY <1>0, <1>4, OrderStays DEF BeginShutdown, FailPending, CloseEvents, serverVars, mainVars
<1>5. CASE Synchronized \/ Incompatible \/ EventHandled \/ LoopEnds \/ StartReturns
  BY <1>0, <1>5, OrderStays
     DEF Synchronized, Incompatible, EventHandled, LoopEnds, StartReturns, MainGoes, serverVars
<1>6. CASE Disconnect \/ TakeGateway \/ StopReturns
  BY <1>0, <1>6, OrderStays DEF Disconnect, TakeGateway, StopReturns, StopperGoes, serverVars
<1>7. ASSUME NEW q \in Requests,
             MainRequests(q) \/ (StartRequest(q) /\ UNCHANGED mainVars)
      PROVE  OrderInv' /\ Nothing
  BY <1>7, OrderStays DEF MainRequests, StartRequest, serverVars, mainVars
<1>8. ASSUME NEW q \in Requests, Respond(q)
      PROVE  OrderInv' /\ Nothing
  BY <1>8, AnswersPass DEF Respond, mainVars
<1>9. CASE ReadAnswer
  BY <1>0, <1>9, AnswersPass DEF ReadAnswer, serverVars, mainVars
<1>10. CASE ReadEvent
  BY <1>0, <1>10, ReadEventKeeps DEF ReadEvent, serverVars, mainVars
<1>11. CASE ReadFails
  BY <1>0, <1>11, WireLost DEF ReadFails, Holds, serverVars, mainVars
<1>12. CASE CloseConn
  BY <1>0, <1>12, WireLost, OrderStays DEF CloseConn, readVars, mainVars
<1>13. CASE Deliver
  BY <1>0, <1>13, DeliverKeeps DEF Deliver, serverVars, mainVars
<1>14. CASE WaitForRoom
  BY <1>0, <1>14 DEF WaitForRoom, OrderInv, ReadSoFar, Holds, Reads, serverVars, mainVars
<1>15. CASE DeliverCancelled \/ DeliverPanics \/ ReaderLeaves
  BY <1>0, <1>15, ReaderGivesUp
     DEF DeliverCancelled, DeliverPanics, ReaderLeaves, readVars, serverVars, mainVars
<1>16. CASE SendEvent
  <2>1. sent \in Nat /\ sent' = sent + 1 /\ handled' = handled
    BY <1>16 DEF SendEvent, OrderInv, mainVars
  <2>2. Stream!Accept
    <3> DEFINE a == [i \in 1..sent |-> i]
               b == [i \in 1..(sent + 1) |-> i]
    <3>1. a \in Seq(Nat) /\ b \in Seq(Nat) /\ Len(a) = sent /\ Len(b) = sent + 1
      BY <2>1
    <3>2. SubSeq(b, 1, sent) = a
      BY <2>1, <3>1
    <3>3. QED
      BY <2>1, <3>1, <3>2 DEF Stream!Accept
  <2>3. QED
    BY <1>16, <2>2, SendEventKeeps DEF Stream!Next
<1>17. CASE TakeEvent
  <2> DEFINE a == [i \in 1..sent |-> i]
             n == Len(handled)
  <2>1. /\ OrderInv' /\ handled' = Append(handled, n + 1) /\ sent' = sent
    BY <1>17, TakeEventKeeps DEF TakeEvent, serverVars
  <2>2. /\ sent \in Nat /\ n \in Nat /\ Follows(handled, 0) /\ n + 1 <= sent
    BY <1>17 DEF OrderInv, ReadSoFar, Follows, TakeEvent
  <2>3. a \in Seq(Nat) /\ Len(a) = sent /\ \A i \in 1..sent : a[i] = i
    BY <2>2
  <2>4. handled' = SubSeq(a, 1, n + 1)
    BY <2>1, <2>2, <2>3 DEF Follows
  <2>5. Stream!Deliver
    <3>1. [i \in 1..sent' |-> i] = a
      BY <2>1
    <3>2. Len(handled) < Len(a)
      BY <2>2, <2>3
    <3> QED
      BY <2>4, <3>1, <3>2, Zenon DEF Stream!Deliver
  <2>6. QED
    BY <2>1, <2>5 DEF Stream!Next
<1>18. QED
  BY <1>0, <1>1, <1>2, <1>3, <1>4, <1>5, <1>6, <1>7, <1>8, <1>9, <1>10, <1>11, <1>12,
     <1>13, <1>14, <1>15, <1>16, <1>17 DEF Next, Progress, Requests

-----------------------------------------------------------------------------
\* The inductive invariant: what was handled, what waits in the channel, what the
\* reader holds and what is on the wire follow each other.
THEOREM SpecOrderInv == Spec => []OrderInv
<1>1. OrderInv /\ [Next]_vars => OrderInv'
  BY StepKeeps
<1>2. QED
  BY <1>1, OrderInit, PTL DEF Spec

\* Whatever fills the channel and whenever the connection breaks or is closed,
\* Start sees the events of the gateway in their order and without a gap: the client
\* implements OrderedStream, for any requests, events and capacity of the channel.
THEOREM SpecEventsInOrder == Spec => EventsInOrder
<1>1. Init => Stream!Init
  BY OrderInit
<1>2. OrderInv /\ [Next]_vars => [Stream!Next]_(Stream!vars)
  BY StepKeeps
<1>3. QED
  BY <1>1, <1>2, SpecOrderInv, PTL DEF Spec, EventsInOrder, Stream!Spec

-----------------------------------------------------------------------------
(* The type invariant, whose point is c.pending: a request is in it while  *)
(* it is in flight, from before its write to the return of Request, until  *)
(* shutdown has failed those in the map.                                   *)

StreamOK ==
    /\ link \in {"up", "broken", "closed"}
    /\ wire \in Seq(1..MaxEvents \cup Requests) /\ events \in Seq(1..MaxEvents)
    /\ sent \in 0..MaxEvents /\ asked \subseteq Requests
    /\ reader \in {"read", "event", "blocked", "shutdown", "done", "panicked"}
    /\ frame \in 0..MaxEvents /\ Len(events) <= Cap
    /\ handled \in Seq(1..MaxEvents)
    /\ Holds => frame \in 1..MaxEvents

PendingOK ==
    /\ req \in [Requests -> {"new", "write", "wait", "ok", "failed"}]
    /\ mailbox \in [Requests -> {"none", "answer", "closed"}]
    /\ pending \subseteq InFlight
    /\ shut \in {"open", "closing", "failing"} => pending = InFlight

PlacesOK ==
    /\ shut \in {"open", "closing", "failing", "draining", "done"}
    /\ closer \in {None, "reader", "pinger", "start", "stop"}
    /\ main \in {"sync", "loop", "handle", "close", "returned"}
    /\ mine \in Own \cup {None}
    /\ stopper \in {"none", "stop", "close", "stopped"} /\ attached \in BOOLEAN

TypeInv == StreamOK /\ PendingOK /\ PlacesOK

LEMMA EmptyInSeq == \A S : <<>> \in Seq(S)
OBVIOUS

\* A request enters and leaves the map with the step that puts it in flight or ends it.
LEMMA RequestMoves ==
    ASSUME PendingOK, NEW q \in Requests, NEW to \in {"write", "wait", "ok", "failed"},
           req' = [req EXCEPT ![q] = to], mailbox' = mailbox, shut' = shut,
           pending' = IF to \in {"ok", "failed"} THEN pending \ {q}
                      ELSE IF to = "write" THEN pending \cup {q} ELSE pending,
           to = "wait" => q \in InFlight
    PROVE  PendingOK'
<1>1. req' \in [Requests -> {"new", "write", "wait", "ok", "failed"}]
  BY DEF PendingOK
<1>2. \A r \in Requests : req'[r] = IF r = q THEN to ELSE req[r]
  BY DEF PendingOK
<1>3. pending' \subseteq InFlight'
  BY <1>2 DEF PendingOK, InFlight
<1>4. pending = InFlight => pending' = InFlight'
  BY <1>2 DEF InFlight
<1> QED
  BY <1>1, <1>3, <1>4 DEF PendingOK

LEMMA PendingStays ==
    ASSUME PendingOK, UNCHANGED <<req, pending, mailbox>>,
           shut' = shut \/ shut = "open" \/ shut' \notin {"open", "closing", "failing"} \/ shut = "closing"
    PROVE  PendingOK'
BY DEF PendingOK, InFlight

LEMMA NextPendingOK ==
    ASSUME TypeInv, [Next]_vars
    PROVE  PendingOK'
<1>0. PendingOK
  BY DEF TypeInv
<1>1. ASSUME NEW q \in Requests, StartRequest(q)
      PROVE  PendingOK'
  BY <1>0, <1>1, RequestMoves DEF StartRequest, shutVars
<1>2. ASSUME NEW q \in Requests, Write(q)
      PROVE  PendingOK'
  <2>1. q \in InFlight
    BY <1>2 DEF Write, InFlight
  <2> QED
    BY <1>0, <1>2, <2>1, RequestMoves DEF Write, shutVars
<1>3. ASSUME NEW q \in Requests, WriteFails(q) \/ Deadline(q)
      PROVE  PendingOK'
  BY <1>0, <1>3, RequestMoves DEF WriteFails, Deadline, Leaves, shutVars
<1>4. ASSUME NEW q \in Requests, RequestReturns(q)
      PROVE  PendingOK'
  <2>1. PICK to \in {"ok", "failed"} : Leaves(q, to)
    BY <1>4 DEF RequestReturns
  <2> QED
    BY <1>0, <1>4, <2>1, RequestMoves DEF RequestReturns, Leaves, shutVars
<1>5. CASE ReadAnswer
  <2>1. UNCHANGED <<req, pending, shut>>
    BY <1>5 DEF ReadAnswer, shutVars
  <2>2. mailbox' \in [Requests -> {"none", "answer", "closed"}]
    BY <1>0, <1>5 DEF ReadAnswer, PendingOK
  <2> QED
    BY <1>0, <2>1, <2>2 DEF PendingOK, InFlight
<1>6. CASE FailPending
  <2>1. req' = req /\ pending' = {} /\ shut' = "draining"
    BY <1>6 DEF FailPending
  <2>2. mailbox' \in [Requests -> {"none", "answer", "closed"}]
    BY <1>0, <1>6 DEF FailPending, PendingOK
  <2> QED
    BY <1>0, <2>1, <2>2 DEF PendingOK, InFlight
<1>7. CASE BeginShutdown \/ CloseConn \/ CloseEvents
  BY <1>0, <1>7, PendingStays DEF BeginShutdown, CloseConn, CloseEvents, reqVars
<1>8. CASE ReadEvent \/ ReadFails \/ ReaderLeaves \/ Deliver \/ WaitForRoom
             \/ DeliverCancelled \/ DeliverPanics
  BY <1>0, <1>8, PendingStays DEF ReadEvent, ReadFails, ReaderLeaves, Deliver, WaitForRoom,
     DeliverCancelled, DeliverPanics, reqVars, shutVars
<1>9. CASE SendEvent \/ LinkFails \/ \E q \in Requests : Respond(q)
  BY <1>0, <1>9, PendingStays DEF SendEvent, LinkFails, Respond, reqVars, shutVars
<1>10. CASE Synchronized \/ Incompatible \/ TakeEvent \/ EventHandled \/ LoopEnds \/ StartReturns
  BY <1>0, <1>10, PendingStays DEF Synchronized, Incompatible, TakeEvent, EventHandled, LoopEnds,
     StartReturns, MainGoes, reqVars, shutVars
<1>11. CASE Disconnect \/ TakeGateway \/ StopReturns
  BY <1>0, <1>11, PendingStays DEF Disconnect, TakeGateway, StopReturns, StopperGoes, reqVars, shutVars
<1>12. CASE UNCHANGED vars
  BY <1>0, <1>12, PendingStays DEF vars, reqVars, shutVars
<1> QED
  BY <1>1, <1>2, <1>3, <1>4, <1>5, <1>6, <1>7, <1>8, <1>9, <1>10, <1>11, <1>12
     DEF Next, Progress, MainRequests, Requests

LEMMA NextPlacesOK ==
    ASSUME TypeInv, [Next]_vars
    PROVE  PlacesOK'
<1>0. PlacesOK
  BY DEF TypeInv
<1>1. CASE BeginShutdown
  BY <1>0, <1>1 DEF BeginShutdown, ReaderShutsDown, PingFails, Close, PlacesOK, mainVars
<1>2. CASE CloseConn \/ FailPending \/ CloseEvents
  BY <1>0, <1>2 DEF CloseConn, FailPending, CloseEvents, PlacesOK, mainVars
<1>3. ASSUME NEW q \in Own, MainRequests(q)
      PROVE  PlacesOK'
  BY <1>0, <1>3 DEF MainRequests, StartRequest, PlacesOK, shutVars
<1>4. CASE Synchronized \/ Incompatible \/ TakeEvent \/ EventHandled
  BY <1>0, <1>4 DEF Synchronized, Incompatible, TakeEvent, EventHandled, MainGoes, PlacesOK, shutVars
<1>5. CASE LoopEnds \/ StartReturns
  BY <1>0, <1>5 DEF LoopEnds, StartReturns, MainGoes, PlacesOK, shutVars
<1>6. CASE Disconnect \/ TakeGateway \/ StopReturns
  BY <1>0, <1>6 DEF Disconnect, TakeGateway, StopReturns, StopperGoes, PlacesOK, shutVars
<1>7. CASE UNCHANGED <<shutVars, mainVars>>
  BY <1>0, <1>7 DEF PlacesOK, shutVars, mainVars
<1>8. ASSUME NEW q \in Requests,
             \/ Write(q) \/ WriteFails(q) \/ RequestReturns(q) \/ Respond(q) \/ Deadline(q)
             \/ StartRequest(q) /\ UNCHANGED mainVars
      PROVE  UNCHANGED <<shutVars, mainVars>>
  BY <1>8 DEF Write, WriteFails, RequestReturns, Respond, Deadline, StartRequest
<1>9. ASSUME ReadAnswer \/ ReadEvent \/ ReadFails \/ ReaderLeaves \/ Deliver \/ WaitForRoom
             \/ DeliverCancelled \/ DeliverPanics \/ SendEvent \/ LinkFails \/ UNCHANGED vars
      PROVE  UNCHANGED <<shutVars, mainVars>>
  BY <1>9 DEF ReadAnswer, ReadEvent, ReadFails, ReaderLeaves, Deliver, WaitForRoom, DeliverCancelled,
     DeliverPanics, SendEvent, LinkFails, vars
<1> QED
  BY <1>1, <1>2, <1>3, <1>4, <1>5, <1>6, <1>7, <1>8, <1>9 DEF Next, Progress, Requests

LEMMA NextStreamOK ==
    ASSUME TypeInv, [Next]_vars
    PROVE  StreamOK'
<1>0. StreamOK /\ MaxEvents \in Nat /\ Cap \in Nat
  BY GatewayAssumption DEF TypeInv
<1>1. CASE UNCHANGED <<wire, sent, readVars, handled>> /\ link' \in {"up", "broken", "closed"} /\ asked' \subseteq Requests
  BY <1>0, <1>1 DEF StreamOK, Holds, readVars
<1>2. CASE SendEvent
  <2>1. sent' \in 1..MaxEvents
    BY <1>0, <1>2 DEF SendEvent, StreamOK
  <2>2. Append(wire, sent') \in Seq(1..MaxEvents \cup Requests)
    BY <1>0, <2>1 DEF StreamOK
  <2> QED
    BY <1>0, <1>2, <2>1, <2>2 DEF SendEvent, StreamOK, Holds, readVars, mainVars
<1>3. ASSUME NEW q \in Requests, Respond(q)
      PROVE  StreamOK'
  <2>1. Append(wire, q) \in Seq(1..MaxEvents \cup Requests)
    BY <1>0 DEF StreamOK
  <2> QED
    BY <1>0, <1>3, <2>1 DEF Respond, StreamOK, Holds, readVars, mainVars
<1>4. CASE ReadAnswer
  <2>1. Tail(wire) \in Seq(1..MaxEvents \cup Requests)
    BY <1>0, <1>4 DEF ReadAnswer, StreamOK
  <2> QED
    BY <1>0, <1>4, <2>1 DEF ReadAnswer, StreamOK, Holds, readVars, serverVars, mainVars
<1>5. CASE ReadEvent
  <2>1. Tail(wire) \in Seq(1..MaxEvents \cup Requests) /\ Head(wire) \in 1..MaxEvents \cup Requests
    BY <1>0, <1>5 DEF ReadEvent, StreamOK
  <2>2. Head(wire) \in 1..MaxEvents
    BY <1>5, <2>1, GatewayAssumption DEF ReadEvent
  <2> QED
    BY <1>0, <1>5, <2>1, <2>2 DEF ReadEvent, StreamOK, Holds, serverVars, mainVars
<1>6. CASE ReadFails
  BY <1>0, <1>6 DEF ReadFails, StreamOK, Holds, serverVars, mainVars
<1>7. CASE Deliver
  <2>1. frame \in 1..MaxEvents /\ Len(events) < Cap
    BY <1>0, <1>7 DEF Deliver, StreamOK, Holds
  <2>2. Append(events, frame) \in Seq(1..MaxEvents) /\ Len(Append(events, frame)) = Len(events) + 1
    BY <1>0, <2>1 DEF StreamOK
  <2>3. Len(Append(events, frame)) <= Cap
    BY <1>0, <2>1, <2>2 DEF StreamOK
  <2> QED
    BY <1>0, <1>7, <2>2, <2>3 DEF Deliver, StreamOK, Holds, serverVars, mainVars
<1>8. CASE WaitForRoom \/ DeliverCancelled \/ DeliverPanics \/ ReaderLeaves
  BY <1>0, <1>8 DEF WaitForRoom, DeliverCancelled, DeliverPanics, ReaderLeaves, StreamOK, Holds,
     serverVars, mainVars
<1>9. CASE CloseConn
  <2>1. UNCHANGED <<sent, reader, frame, events, handled>> /\ asked' = {}
    BY <1>9 DEF CloseConn, readVars, mainVars
  <2>2. wire' \in Seq(1..MaxEvents \cup Requests)
    <3>1. wire \in Seq(1..MaxEvents \cup Requests)
      BY <1>0 DEF StreamOK
    <3>2. wire' = wire \/ wire' = <<>>
      BY <1>9 DEF CloseConn
    <3> QED
      BY <3>1, <3>2, EmptyInSeq
  <2>3. link' \in {"up", "broken", "closed"}
    BY <1>0, <1>9 DEF CloseConn, StreamOK
  <2> QED
    BY <1>0, <2>1, <2>2, <2>3 DEF StreamOK, Holds
<1>10. CASE TakeEvent
  <2>1. Head(events) \in 1..MaxEvents /\ Tail(events) \in Seq(1..MaxEvents) /\ Len(Tail(events)) <= Cap
    BY <1>0, <1>10 DEF TakeEvent, StreamOK
  <2>2. Append(handled, Head(events)) \in Seq(1..MaxEvents)
    BY <1>0, <2>1 DEF StreamOK
  <2> QED
    BY <1>0, <1>10, <2>1, <2>2 DEF TakeEvent, StreamOK, Holds, serverVars
<1>11. ASSUME NEW q \in Requests, \/ Write(q) \/ WriteFails(q) \/ RequestReturns(q) \/ Deadline(q)
                                  \/ StartRequest(q) /\ handled' = handled
       PROVE  StreamOK'
  <2>1. UNCHANGED <<wire, sent, readVars, handled>>
    BY <1>11 DEF Write, WriteFails, RequestReturns, Deadline, StartRequest, serverVars, mainVars
  <2>2. link' \in {"up", "broken", "closed"} /\ asked' \subseteq Requests
    BY <1>0, <1>11 DEF Write, WriteFails, RequestReturns, Deadline, StartRequest, serverVars, StreamOK
  <2> QED
    BY <1>1, <2>1, <2>2
<1>12. CASE LinkFails \/ BeginShutdown \/ FailPending \/ CloseEvents
  BY <1>0, <1>1, <1>12 DEF LinkFails, BeginShutdown, FailPending, CloseEvents, serverVars, mainVars, StreamOK
<1>13. CASE Synchronized \/ Incompatible \/ EventHandled \/ LoopEnds \/ StartReturns
  BY <1>0, <1>1, <1>13 DEF Synchronized, Incompatible, EventHandled, LoopEnds, StartReturns, MainGoes,
     serverVars, StreamOK
<1>14. CASE Disconnect \/ TakeGateway \/ StopReturns
  BY <1>0, <1>1, <1>14 DEF Disconnect, TakeGateway, StopReturns, StopperGoes, serverVars, StreamOK
<1>15. CASE UNCHANGED vars
  BY <1>0, <1>1, <1>15 DEF vars, serverVars, mainVars, StreamOK
<1> QED
  BY <1>2, <1>3, <1>4, <1>5, <1>6, <1>7, <1>8, <1>9, <1>10, <1>11, <1>12, <1>13, <1>14, <1>15
     DEF Next, Progress, Requests, MainRequests, mainVars

\* The type invariant: the channel never has more than its capacity, and the pending
\* map has exactly the requests in flight until shutdown has emptied it, and none
\* that has ended at any time, whoever fails, answers or cancels them.
THEOREM SpecTypeOK == Spec => []TypeOK
<1>1. Init => TypeInv
  BY GatewayAssumption DEF Init, TypeInv, StreamOK, PendingOK, PlacesOK, InFlight, Holds
<1>2. TypeInv /\ [Next]_vars => TypeInv'
  BY NextStreamOK, NextPendingOK, NextPlacesOK DEF TypeInv
<1>3. TypeInv => TypeOK
  BY DEF TypeInv, StreamOK, PendingOK, PlacesOK, TypeOK
<1> QED
  BY <1>1, <1>2, <1>3, PTL DEF Spec
=============================================================================
