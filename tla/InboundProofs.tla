--------------------------- MODULE InboundProofs ---------------------------
(***************************************************************************)
(* Theorems about Inbound, for any events, repetitions, keys and size of   *)
(* the dedupe cache.                                                       *)
(*                                                                         *)
(* The invariant follows the entries.  One handler of a key is under way   *)
(* at a time, so what a handler took from a buffer cannot be mixed with    *)
(* what another took; batches in flight share no entry; an event that is   *)
(* handled is in the cache until the cache gives it up; and what a handler *)
(* found buffered stays in that buffer, goes to the handler itself, to a   *)
(* timer, or is dispatched.                                                *)
(***************************************************************************)
EXTENDS Inbound, SequenceTheorems, TLAPS

-----------------------------------------------------------------------------
(* The elements of sequences.                                              *)

LEMMA ElementsOfEmpty == ToSet(<<>>) = {}
BY EmptySeq DEF ToSet

LEMMA ElementsInSet ==
    ASSUME NEW S, NEW s \in Seq(S)
    PROVE  /\ ToSet(s) \subseteq S
           /\ s # <<>> => ToSet(s) # {}
<1>1. \A i \in 1 .. Len(s) : s[i] \in S
  BY ElementOfSeq
<1>2. s # <<>> => 1 \in DOMAIN s
  BY EmptySeq
<1> QED
  BY <1>1, <1>2 DEF ToSet

LEMMA ElementsOfAppend ==
    ASSUME NEW S, NEW s \in Seq(S), NEW e \in S
    PROVE  Append(s, e) \in Seq(S) /\ ToSet(Append(s, e)) = ToSet(s) \cup {e}
<1> DEFINE t == Append(s, e)
<1>1. /\ t \in Seq(S)
      /\ Len(t) = Len(s) + 1
      /\ \A i \in 1 .. Len(s) : t[i] = s[i]
      /\ t[Len(s) + 1] = e
  BY AppendProperties
<1>2. DOMAIN t = DOMAIN s \cup {Len(s) + 1} /\ DOMAIN s = 1 .. Len(s)
  BY <1>1
<1> HIDE DEF t
<1> QED
  BY <1>1, <1>2 DEF ToSet

LEMMA ElementsOfTail ==
    ASSUME NEW S, NEW s \in Seq(S), s # <<>>
    PROVE  /\ Tail(s) \in Seq(S)
           /\ ToSet(Tail(s)) \subseteq ToSet(s)
           /\ ToSet(s) \subseteq ToSet(Tail(s)) \cup {Head(s)}
           /\ Len(s) > 1 => s[Len(s)] \in ToSet(Tail(s))
<1> DEFINE t == Tail(s)
<1>1. /\ t \in Seq(S)
      /\ Len(t) = Len(s) - 1 /\ Len(s) \in Nat \ {0}
      /\ \A i \in 1 .. Len(t) : t[i] = s[i+1]
      /\ Head(s) = s[1]
  BY HeadTailProperties, EmptySeq
<1>2. DOMAIN t = 1 .. Len(s) - 1 /\ DOMAIN s = 1 .. Len(s)
  BY <1>1
<1> HIDE DEF t
<1>3. ToSet(t) \subseteq ToSet(s)
  BY <1>1, <1>2 DEF ToSet
<1>4. ASSUME NEW i \in 1 .. Len(s), i # 1
      PROVE  s[i] \in ToSet(t)
  <2>1. i - 1 \in 1 .. Len(t) /\ t[i-1] = s[i]
    BY <1>1, <1>4
  <2> QED
    BY <2>1, <1>1, <1>2 DEF ToSet
<1>5. ToSet(s) \subseteq ToSet(t) \cup {Head(s)}
  BY <1>1, <1>2, <1>4 DEF ToSet
<1>6. Len(s) > 1 => s[Len(s)] \in ToSet(t)
  BY <1>1, <1>4
<1> QED
  BY <1>1, <1>3, <1>5, <1>6 DEF t

\* Moving an element to the end of a sequence loses none.
LEMMA ElementsOfMoved ==
    ASSUME NEW S, NEW s \in Seq(S), NEW i \in DOMAIN s
    PROVE  LET t == Append(RemoveAt(s, i), s[i])
           IN  t \in Seq(S) /\ ToSet(t) = ToSet(s) /\ Len(t) = Len(s)
<1> DEFINE n == Len(s)
           a == SubSeq(s, 1, i-1)
           b == SubSeq(s, i+1, n)
           r == a \o b
<1>1. n \in Nat /\ DOMAIN s = 1 .. n /\ i \in 1 .. n /\ s[i] \in S
  BY ElementOfSeq
<1>2. /\ a \in Seq(S) /\ Len(a) = i - 1
      /\ \A j \in 1 .. i-1 : a[j] = s[j]
  <2>1. \A j \in 1 .. i-1 : s[j] \in S
    BY <1>1, ElementOfSeq
  <2>2. /\ Len(a) = IF 1 <= i-1 THEN (i-1)-1+1 ELSE 0
        /\ a \in Seq(S)
        /\ \A j \in 1 .. (i-1)-1+1 : a[j] = s[1+j-1]
    BY <1>1, <2>1, SubSeqProperties
  <2> QED
    BY <1>1, <2>2
<1>3. /\ b \in Seq(S) /\ Len(b) = n - i
      /\ \A j \in 1 .. n-i : b[j] = s[i+j]
  <2>1. /\ Len(b) = IF i+1 <= n THEN n-(i+1)+1 ELSE 0
        /\ b \in Seq(S)
        /\ \A j \in 1 .. n-(i+1)+1 : b[j] = s[(i+1)+j-1]
    BY <1>1, SubSeqProperties
  <2> QED
    BY <1>1, <2>1
<1> HIDE DEF a, b, n
<1>4. /\ r \in Seq(S) /\ Len(r) = n - 1
      /\ \A j \in 1 .. n-1 : r[j] = IF j < i THEN s[j] ELSE s[j+1]
  <2>1. /\ r \in Seq(S) /\ Len(r) = Len(a) + Len(b)
        /\ \A j \in 1 .. Len(a) + Len(b) :
              r[j] = IF j <= Len(a) THEN a[j] ELSE b[j - Len(a)]
    BY <1>2, <1>3, ConcatProperties
  <2>2. Len(a) + Len(b) = n - 1
    BY <1>1, <1>2, <1>3
  <2>3. ASSUME NEW j \in 1 .. n-1
        PROVE  r[j] = IF j < i THEN s[j] ELSE s[j+1]
    <3>1. CASE j < i
      BY <1>1, <1>2, <2>1, <2>2, <3>1
    <3>2. CASE ~(j < i)
      <4>1. j - (i-1) \in 1 .. n-i /\ i + (j - (i-1)) = j + 1
        BY <1>1, <3>2
      <4>2. r[j] = b[j - (i-1)]
        BY <1>1, <1>2, <2>1, <2>2, <3>2
      <4> QED
        BY <1>3, <3>2, <4>1, <4>2
    <3> QED
      BY <3>1, <3>2
  <2> QED
    BY <2>1, <2>2, <2>3
<1> HIDE DEF r
<1>5. ToSet(r) \cup {s[i]} = ToSet(s)
  <2>1. DOMAIN r = 1 .. n-1
    BY <1>1, <1>4
  <2>2. ToSet(r) \subseteq ToSet(s)
    BY <1>1, <1>4, <2>1 DEF ToSet
  <2>3. ASSUME NEW j \in 1 .. n, j # i
        PROVE  s[j] \in ToSet(r)
    <3>1. CASE j < i
      <4>1. j \in 1 .. n-1 /\ r[j] = s[j]
        BY <1>1, <1>4, <3>1
      <4> QED
        BY <2>1, <4>1 DEF ToSet
    <3>2. CASE j > i
      <4>1. j-1 \in 1 .. n-1 /\ r[j-1] = s[j]
        BY <1>1, <1>4, <3>2
      <4> QED
        BY <2>1, <4>1 DEF ToSet
    <3> QED
      BY <1>1, <2>3, <3>1, <3>2
  <2> QED
    BY <1>1, <2>2, <2>3 DEF ToSet
<1>6. r = RemoveAt(s, i)
  BY DEF RemoveAt, r, a, b, n
<1>7. /\ Append(r, s[i]) \in Seq(S)
      /\ ToSet(Append(r, s[i])) = ToSet(r) \cup {s[i]}
      /\ Len(Append(r, s[i])) = Len(r) + 1
  BY <1>1, <1>4, ElementsOfAppend, AppendProperties
<1>8. Len(Append(r, s[i])) = Len(s)
  BY <1>1, <1>4, <1>7 DEF n
<1>9. ToSet(Append(r, s[i])) = ToSet(s)
  BY <1>5, <1>7
<1> QED
  BY <1>6, <1>7, <1>8, <1>9
-----------------------------------------------------------------------------
(* The invariant.                                                          *)

Stages == {"new", "route", "flushed", "buffered", "dispatched", "ignored", "skipped"}
Handled(h) == stage[h] \notin {"new", "skipped"}
UnderWay(h) == stage[h] \in {"route", "flushed"}

Types ==
    /\ stage \in [Handlers -> Stages]
    /\ seen \in Seq(Events)
    /\ Len(seen) <= MaxSize
    /\ buffer \in [Keys -> Seq(Handlers)]
    /\ own \in [Handlers -> Seq(Handlers)]
    /\ flights \subseteq Seq(Handlers) \ {<<>>}
    /\ ahead \in [Handlers -> SUBSET Handlers]

\* The handlers of a key are one after the other.
OneAtATime ==
    \A g, h \in Handlers : Key(g) = Key(h) /\ UnderWay(g) /\ UnderWay(h) => g = h

\* The entries of a buffer, of a handler and of a flight wait, ...
BufferIsHome ==
    \A k \in Keys : \A g \in ToSet(buffer[k]) : Key(g) = k /\ stage[g] = "buffered"
OwnIsHome ==
    \A h \in Handlers :
        /\ own[h] # <<>> => stage[h] = "flushed"
        /\ \A g \in ToSet(own[h]) : Key(g) = Key(h) /\ stage[g] = "buffered"
FlightsWait == \A b \in flights : \A g \in ToSet(b) : stage[g] = "buffered"

\* ... and no entry is in two of these places, ...
Apart ==
    /\ \A k \in Keys, h \in Handlers : ToSet(buffer[k]) \cap ToSet(own[h]) = {}
    /\ \A k \in Keys, b \in flights : ToSet(buffer[k]) \cap ToSet(b) = {}
    /\ \A h \in Handlers, b \in flights : ToSet(own[h]) \cap ToSet(b) = {}
    /\ \A b, c \in flights : b # c => ToSet(b) \cap ToSet(c) = {}

\* ... nor in none.
NoneLost ==
    \A g \in Handlers : stage[g] = "buffered" =>
        \/ g \in ToSet(buffer[Key(g)])
        \/ \E h \in Handlers : g \in ToSet(own[h])
        \/ \E b \in flights : g \in ToSet(b)

\* What was handled is remembered or given up, and was handled once.
Remembered ==
    /\ \A h \in Handlers : Handled(h) => h[1] \in ToSet(seen) \cup forgotten
    /\ \A g, h \in Handlers :
          Handled(g) /\ Handled(h) /\ g[1] = h[1] => g = h \/ g[1] \in forgotten

\* Where the text is that a handler found buffered.
Reach(h) == IF stage[h] = "route" THEN ToSet(buffer[Key(h)]) ELSE ToSet(own[h])
AheadKept ==
    \A h \in Handlers : UnderWay(h) =>
        \A g \in ahead[h] :
            \/ stage[g] = "dispatched"
            \/ stage[g] = "buffered" /\ (g \in Reach(h) \/ g \in InFlight)

IInv ==
    /\ Types /\ OneAtATime
    /\ BufferIsHome /\ OwnIsHome /\ FlightsWait /\ Apart /\ NoneLost
    /\ Remembered /\ AheadKept

LEMMA HandlerTypes ==
    ASSUME NEW h \in Handlers
    PROVE  h[1] \in Events /\ Key(h) \in Keys
BY InboundAssumption DEF Handlers, Key

LEMMA BatchElements ==
    ASSUME Types
    PROVE  /\ \A k \in Keys : ToSet(buffer[k]) \subseteq Handlers
           /\ \A h \in Handlers : ToSet(own[h]) \subseteq Handlers
           /\ \A b \in flights : ToSet(b) \subseteq Handlers /\ ToSet(b) # {}
BY ElementsInSet DEF Types

LEMMA InitIInv == Init => IInv
<1> SUFFICES ASSUME Init PROVE IInv
  OBVIOUS
<1> USE DEF Init
<1>1. Types
  BY EmptySeq, InboundAssumption DEF Types, Stages
<1>2. \A h \in Handlers : stage[h] = "new" /\ own[h] = <<>>
  OBVIOUS
<1>3. \A k \in Keys : buffer[k] = <<>>
  OBVIOUS
<1> QED
  BY <1>1, <1>2, <1>3, ElementsOfEmpty
     DEF IInv, OneAtATime, BufferIsHome, OwnIsHome, FlightsWait, Apart, NoneLost,
         Remembered, AheadKept, UnderWay, Handled

-----------------------------------------------------------------------------
(* The dedupe cache.                                                       *)

\* A step of the cache alone.
LEMMA CacheStep ==
    ASSUME IInv, UNCHANGED <<stage, buffer, own, flights, ahead>>,
           seen' \in Seq(Events), Len(seen') <= MaxSize,
           ToSet(seen) \cup forgotten \subseteq ToSet(seen') \cup forgotten',
           forgotten \subseteq forgotten'
    PROVE  IInv'
<1> USE DEF IInv
<1>1. Types'
  BY DEF Types
<1>2. OneAtATime'
  BY DEF OneAtATime, UnderWay
<1>3. BufferIsHome' /\ OwnIsHome' /\ FlightsWait' /\ Apart'
  BY DEF BufferIsHome, OwnIsHome, FlightsWait, Apart
<1>4. NoneLost'
  BY DEF NoneLost
<1>5. Remembered'
  BY DEF Remembered, Handled
<1>6. AheadKept'
  BY DEF AheadKept, UnderWay, Reach, InFlight
<1> QED
  BY <1>1, <1>2, <1>3, <1>4, <1>5, <1>6

LEMMA ExpireIInv == ASSUME IInv, Expire PROVE IInv'
<1>1. /\ seen' \in Seq(Events)
      /\ ToSet(seen) \subseteq ToSet(seen') \cup {Head(seen)}
      /\ Len(seen') = Len(seen) - 1 /\ Len(seen) \in Nat
  BY ElementsOfTail, HeadTailProperties DEF Expire, IInv, Types
<1>2. Len(seen') <= MaxSize
  BY <1>1, InboundAssumption DEF IInv, Types
<1> QED
  BY <1>1, <1>2, CacheStep DEF Expire

\* An event seen again is kept, and so are all the others.
LEMMA RefreshedKeeps ==
    ASSUME Types, NEW e \in Events, Contains(seen, e)
    PROVE  /\ Refreshed(e) \in Seq(Events)
           /\ Len(Refreshed(e)) <= MaxSize
           /\ ToSet(Refreshed(e)) = ToSet(seen)
<1> DEFINE i == CHOOSE j \in DOMAIN seen : seen[j] = e
<1>1. seen \in Seq(Events) /\ DOMAIN seen = 1 .. Len(seen) /\ Len(seen) <= MaxSize
  BY DEF Types
<1>2. \E j \in DOMAIN seen : seen[j] = e
  BY <1>1 DEF Contains
<1>3. i \in DOMAIN seen /\ seen[i] = e
  BY <1>2
<1>4. Refreshed(e) = Append(RemoveAt(seen, i), e)
  BY DEF Refreshed
<1> HIDE DEF i
<1>5. LET t == Append(RemoveAt(seen, i), seen[i])
      IN  t \in Seq(Events) /\ ToSet(t) = ToSet(seen) /\ Len(t) = Len(seen)
  BY <1>1, <1>3, ElementsOfMoved
<1> QED
  BY <1>1, <1>3, <1>4, <1>5

\* A new event is remembered, whatever has to go for it.
LEMMA PrunedRemembers ==
    ASSUME Types, NEW e \in Events
    PROVE  LET s == Pruned(Append(seen, e))
           IN  s \in Seq(Events) /\ Len(s) <= MaxSize /\ e \in ToSet(s)
<1> DEFINE s == Append(seen, e)
<1>0. /\ seen \in Seq(Events) /\ Len(seen) \in Nat /\ Len(seen) <= MaxSize
      /\ MaxSize \in Nat \ {0}
  BY InboundAssumption DEF Types
<1>1. /\ s \in Seq(Events) /\ ToSet(s) = ToSet(seen) \cup {e} /\ s # <<>>
      /\ Len(s) = Len(seen) + 1 /\ s[Len(seen) + 1] = e
  BY <1>0, ElementsOfAppend, AppendProperties
<1> HIDE DEF s
<1>2. CASE Len(s) > MaxSize
  <2>1. /\ Tail(s) \in Seq(Events) /\ Len(Tail(s)) = Len(s) - 1
        /\ Len(s) > 1 => s[Len(s)] \in ToSet(Tail(s))
    BY <1>1, ElementsOfTail, HeadTailProperties
  <2>2. Pruned(s) = Tail(s)
    BY <1>2 DEF Pruned
  <2>3. Len(s) > 1 /\ Len(s) - 1 <= MaxSize /\ s[Len(s)] = e
    BY <1>0, <1>1, <1>2
  <2> QED
    BY <2>1, <2>2, <2>3 DEF s
<1>3. CASE ~(Len(s) > MaxSize)
  <2>1. Pruned(s) = s /\ Len(s) <= MaxSize
    BY <1>0, <1>1, <1>3 DEF Pruned
  <2> QED
    BY <1>1, <2>1 DEF s
<1> QED
  BY <1>2, <1>3

LEMMA ReceiveIInv ==
    ASSUME IInv, NEW h \in Handlers, Receive(h)
    PROVE  IInv'
<1> USE DEF IInv
<1>0. /\ h[1] \in Events /\ Key(h) \in Keys
      /\ stage[h] = "new" /\ \A g \in Handlers : Key(g) = Key(h) => ~UnderWay(g)
      /\ UNCHANGED <<buffer, own, flights>>
      /\ forgotten' = forgotten \cup (ToSet(seen) \ ToSet(seen'))
  BY HandlerTypes DEF Receive, UnderWay
<1>1. CASE Contains(seen, h[1])
  <2>1. /\ seen' = Refreshed(h[1]) /\ UNCHANGED ahead
        /\ stage' = [stage EXCEPT ![h] = "skipped"]
    BY <1>1 DEF Receive, Goes
  <2>2. seen' \in Seq(Events) /\ Len(seen') <= MaxSize /\ ToSet(seen') = ToSet(seen)
    BY <1>0, <1>1, <2>1, RefreshedKeeps
  <2>3. Types'
    BY <1>0, <2>1, <2>2 DEF Types, Stages
  <2>4. OneAtATime'
    BY <2>1 DEF OneAtATime, UnderWay, Types
  <2>5. \A g \in Handlers : stage'[g] # stage[g] => g = h /\ stage'[g] = "skipped"
    BY <2>1 DEF Types
  <2>6. BufferIsHome' /\ OwnIsHome' /\ FlightsWait'
    BY <1>0, <2>5, BatchElements DEF BufferIsHome, OwnIsHome, FlightsWait
  <2>7. Apart' /\ NoneLost'
    BY <1>0, <2>5 DEF Apart, NoneLost
  <2>8. Remembered'
    BY <1>0, <2>1, <2>2, <2>5 DEF Remembered, Handled
  <2>9. AheadKept'
    <3>1. \A g \in Handlers : UnderWay(g)' => UnderWay(g) /\ Reach(g)' = Reach(g)
      BY <1>0, <2>5 DEF UnderWay, Reach
    <3>2. UNCHANGED InFlight
      BY <1>0 DEF InFlight
    <3> QED
      BY <1>0, <2>1, <2>5, <3>1, <3>2 DEF AheadKept, Types
  <2> QED
    BY <2>3, <2>4, <2>6, <2>7, <2>8, <2>9
<1>2. CASE ~Contains(seen, h[1])
  <2>1. /\ seen' = Pruned(Append(seen, h[1]))
        /\ stage' = [stage EXCEPT ![h] = "route"]
        /\ ahead' = [ahead EXCEPT ![h] = ToSet(buffer[Key(h)])]
    BY <1>2 DEF Receive, Goes
  <2>2. seen' \in Seq(Events) /\ Len(seen') <= MaxSize /\ h[1] \in ToSet(seen')
    BY <1>0, <2>1, PrunedRemembers
  <2>3. Types'
    BY <1>0, <2>1, <2>2, BatchElements DEF Types, Stages
  <2>4. OneAtATime'
    BY <1>0, <2>1 DEF OneAtATime, UnderWay, Types
  <2>5. \A g \in Handlers : stage'[g] # stage[g] => g = h /\ stage'[g] = "route"
    BY <2>1 DEF Types
  <2>6. BufferIsHome' /\ OwnIsHome' /\ FlightsWait'
    BY <1>0, <2>5, BatchElements DEF BufferIsHome, OwnIsHome, FlightsWait
  <2>7. Apart' /\ NoneLost'
    BY <1>0, <2>5 DEF Apart, NoneLost
  <2>8. Remembered'
    <3>1. h[1] \notin ToSet(seen)
      BY <1>2 DEF Contains, ToSet
    <3>2. \A g \in Handlers \ {h} : Handled(g)' => Handled(g)
      BY <2>5 DEF Handled
    <3> QED
      BY <1>0, <2>2, <3>1, <3>2 DEF Remembered
  <2>9. AheadKept'
    <3>1. \A g \in Handlers \ {h} :
             /\ UnderWay(g)' => UnderWay(g) /\ Reach(g)' = Reach(g)
             /\ ahead'[g] = ahead[g]
      BY <1>0, <2>1, <2>5 DEF UnderWay, Reach, Types
    <3>2. UNCHANGED InFlight
      BY <1>0 DEF InFlight
    <3>3. \A g \in ToSet(buffer[Key(h)]) : stage[g] = "buffered" /\ g \in Handlers
      BY <1>0, BatchElements DEF BufferIsHome
    <3>4. ahead'[h] = ToSet(buffer[Key(h)]) /\ Reach(h)' = ToSet(buffer[Key(h)])
      BY <1>0, <2>1 DEF Reach, Types
    <3>5. \A f \in Handlers : stage[f] \in {"buffered", "dispatched"} => stage'[f] = stage[f]
      BY <1>0, <2>5
    <3>6. \A g \in Handlers : ahead[g] \subseteq Handlers
      BY DEF Types
    <3> QED
      BY <3>1, <3>2, <3>3, <3>4, <3>5, <3>6 DEF AheadKept
  <2> QED
    BY <2>3, <2>4, <2>6, <2>7, <2>8, <2>9
<1> QED
  BY <1>1, <1>2

-----------------------------------------------------------------------------
(* The routes of a message.                                                *)

\* A handler that ends, with nothing in its hands.
LEMMA EndIInv ==
    ASSUME IInv, NEW h \in Handlers, UnderWay(h), own[h] = <<>>,
           NEW s \in {"ignored", "dispatched"}, Goes(h, s),
           ahead' = [ahead EXCEPT ![h] = {}],
           UNCHANGED <<seen, buffer, own, flights, forgotten>>
    PROVE  IInv'
<1> USE DEF IInv
<1>1. Types'
  BY DEF Types, Goes, Stages
<1>2. \A g \in Handlers : stage'[g] # stage[g] => g = h /\ stage'[g] = s
  BY DEF Goes, Types
<1>3. stage[h] \in {"route", "flushed"} /\ stage'[h] = s
  BY DEF UnderWay, Goes, Types
<1>4. OneAtATime'
  BY <1>2 DEF OneAtATime, UnderWay
<1>5. BufferIsHome' /\ OwnIsHome' /\ FlightsWait'
  BY <1>2, <1>3, BatchElements DEF BufferIsHome, OwnIsHome, FlightsWait
<1>6. Apart' /\ NoneLost'
  BY <1>2 DEF Apart, NoneLost
<1>7. Remembered'
  BY <1>2, <1>3 DEF Remembered, Handled
<1>8. AheadKept'
  <2>1. \A g \in Handlers : UnderWay(g)' =>
           UnderWay(g) /\ Reach(g)' = Reach(g) /\ ahead'[g] = ahead[g]
    BY <1>2, <1>3 DEF UnderWay, Reach, Types
  <2>2. UNCHANGED InFlight
    BY DEF InFlight
  <2>3. \A g \in Handlers : stage[g] \in {"buffered", "dispatched"} => stage'[g] = stage[g]
    BY <1>2, <1>3
  <2>4. \A g \in Handlers : ahead[g] \subseteq Handlers
    BY DEF Types
  <2> QED
    BY <2>1, <2>2, <2>3, <2>4 DEF AheadKept
<1> QED
  BY <1>1, <1>4, <1>5, <1>6, <1>7, <1>8

LEMMA EnqueueIInv ==
    ASSUME IInv, NEW h \in Handlers, Enqueue(h)
    PROVE  IInv'
<1> USE DEF IInv
<1> DEFINE k == Key(h)
           old == buffer[k]
           new == Append(old, h)
<1>1. /\ stage[h] = "route" /\ stage' = [stage EXCEPT ![h] = "buffered"]
      /\ buffer' = [buffer EXCEPT ![k] = new]
      /\ ahead' = [ahead EXCEPT ![h] = {}]
      /\ UNCHANGED <<seen, own, flights, forgotten>>
  BY DEF Enqueue, Goes
<1>2. k \in Keys /\ old \in Seq(Handlers)
  BY HandlerTypes DEF Types
<1>3. new \in Seq(Handlers) /\ ToSet(new) = ToSet(old) \cup {h}
  BY <1>2, ElementsOfAppend
<1> HIDE DEF new
<1>4. Types'
  BY <1>1, <1>2, <1>3 DEF Types, Stages
<1>5. \A g \in Handlers : stage'[g] = IF g = h THEN "buffered" ELSE stage[g]
  BY <1>1 DEF Types
<1>6. \A j \in Keys : ToSet(buffer'[j]) = IF j = k THEN ToSet(buffer[j]) \cup {h}
                                                  ELSE ToSet(buffer[j])
  BY <1>1, <1>2, <1>3 DEF Types
<1>7. \A g \in Handlers \ {h} : Key(g) = k => ~UnderWay(g)
  BY <1>1 DEF OneAtATime, UnderWay
<1>8. OneAtATime'
  BY <1>5 DEF OneAtATime, UnderWay
<1>9. BufferIsHome' /\ OwnIsHome' /\ FlightsWait'
  <2>1. BufferIsHome'
    <3> SUFFICES ASSUME NEW j \in Keys, NEW g \in ToSet(buffer'[j])
                 PROVE  Key(g) = j /\ stage'[g] = "buffered"
      BY DEF BufferIsHome
    <3>1. CASE g \in ToSet(buffer[j])
      BY <1>5, <3>1, BatchElements DEF BufferIsHome
    <3>2. CASE g = h /\ j = k
      BY <1>5, <3>2
    <3> QED
      BY <1>6, <3>1, <3>2
  <2>2. OwnIsHome'
    BY <1>1, <1>5, BatchElements DEF OwnIsHome
  <2>3. FlightsWait'
    BY <1>1, <1>5, BatchElements DEF FlightsWait
  <2> QED
    BY <2>1, <2>2, <2>3
<1>10. Apart'
  <2>1. /\ \A g \in Handlers : h \notin ToSet(own[g])
        /\ \A b \in flights : h \notin ToSet(b)
    BY <1>1 DEF OwnIsHome, FlightsWait
  <2>2. \A j \in Keys : ToSet(buffer'[j]) \subseteq ToSet(buffer[j]) \cup {h}
    BY <1>6
  <2>3. \A j \in Keys, g \in Handlers : ToSet(buffer'[j]) \cap ToSet(own[g]) = {}
    BY <2>1, <2>2 DEF Apart
  <2>4. \A j \in Keys, b \in flights : ToSet(buffer'[j]) \cap ToSet(b) = {}
    BY <2>1, <2>2 DEF Apart
  <2> QED
    BY <1>1, <2>3, <2>4 DEF Apart
<1>11. NoneLost'
  <2> SUFFICES ASSUME NEW g \in Handlers, stage'[g] = "buffered"
               PROVE  \/ g \in ToSet(buffer'[Key(g)])
                      \/ \E f \in Handlers : g \in ToSet(own[f])
                      \/ \E b \in flights : g \in ToSet(b)
    BY <1>1 DEF NoneLost
  <2>1. CASE g = h
    BY <1>2, <1>6, <2>1
  <2>2. CASE g # h
    <3>1. stage[g] = "buffered" /\ Key(g) \in Keys
      BY <1>5, <2>2, HandlerTypes
    <3> QED
      BY <1>6, <3>1 DEF NoneLost
  <2> QED
    BY <2>1, <2>2
<1>12. Remembered'
  BY <1>1, <1>5 DEF Remembered, Handled
<1>13. AheadKept'
  <2>1. \A g \in Handlers : UnderWay(g)' =>
           UnderWay(g) /\ g # h /\ Reach(g)' = Reach(g) /\ ahead'[g] = ahead[g]
    BY <1>1, <1>5, <1>6, <1>7, HandlerTypes DEF UnderWay, Reach, Types
  <2>2. UNCHANGED InFlight
    BY <1>1 DEF InFlight
  <2>3. \A g \in Handlers : stage[g] \in {"buffered", "dispatched"} => stage'[g] = stage[g]
    BY <1>1, <1>5
  <2>4. \A g \in Handlers : ahead[g] \subseteq Handlers
    BY DEF Types
  <2> QED
    BY <2>1, <2>2, <2>3, <2>4 DEF AheadKept
<1> QED
  BY <1>4, <1>8, <1>9, <1>10, <1>11, <1>12, <1>13

LEMMA FlushFirstIInv ==
    ASSUME IInv, NEW h \in Handlers, FlushFirst(h)
    PROVE  IInv'
<1> USE DEF IInv
<1> DEFINE k == Key(h)
<1>1. /\ stage[h] = "route" /\ stage' = [stage EXCEPT ![h] = "flushed"]
      /\ own' = [own EXCEPT ![h] = buffer[k]]
      /\ buffer' = [buffer EXCEPT ![k] = <<>>]
      /\ UNCHANGED <<seen, flights, ahead, forgotten>>
  BY DEF FlushFirst, Goes, Emptied
<1>2. k \in Keys /\ own[h] = <<>>
  BY <1>1, HandlerTypes DEF OwnIsHome
<1>3. Types'
  BY <1>1, <1>2, EmptySeq DEF Types, Stages
<1>4. \A g \in Handlers : stage'[g] = IF g = h THEN "flushed" ELSE stage[g]
  BY <1>1 DEF Types
<1>5. \A j \in Keys : ToSet(buffer'[j]) = IF j = k THEN {} ELSE ToSet(buffer[j])
  BY <1>1, <1>2, ElementsOfEmpty DEF Types
<1>6. \A g \in Handlers : own'[g] = IF g = h THEN buffer[k] ELSE own[g]
  BY <1>1 DEF Types
<1>7. \A g \in Handlers \ {h} : Key(g) = k => ~UnderWay(g)
  BY <1>1 DEF OneAtATime, UnderWay
<1>8. OneAtATime'
  BY <1>1, <1>4 DEF OneAtATime, UnderWay
<1>9. BufferIsHome' /\ OwnIsHome' /\ FlightsWait'
  <2>1. BufferIsHome'
    BY <1>1, <1>4, <1>5, BatchElements DEF BufferIsHome
  <2>2. OwnIsHome'
    BY <1>1, <1>2, <1>4, <1>6, BatchElements DEF OwnIsHome, BufferIsHome
  <2>3. FlightsWait'
    BY <1>1, <1>4, BatchElements DEF FlightsWait
  <2> QED
    BY <2>1, <2>2, <2>3
<1>10. Apart'
  <2>1. \A j \in Keys : j # k => ToSet(buffer[j]) \cap ToSet(buffer[k]) = {}
    BY <1>2 DEF BufferIsHome
  <2> QED
    BY <1>1, <1>2, <1>5, <1>6, <2>1 DEF Apart
<1>11. NoneLost'
  <2> SUFFICES ASSUME NEW g \in Handlers, stage'[g] = "buffered"
               PROVE  \/ g \in ToSet(buffer'[Key(g)])
                      \/ \E f \in Handlers : g \in ToSet(own'[f])
                      \/ \E b \in flights' : g \in ToSet(b)
    BY DEF NoneLost
  <2>1. stage[g] = "buffered" /\ Key(g) \in Keys
    BY <1>4, HandlerTypes
  <2>2. CASE g \in ToSet(buffer[Key(g)])
    BY <1>5, <1>6, <2>1, <2>2
  <2>3. ASSUME NEW f \in Handlers, g \in ToSet(own[f]) PROVE g \in ToSet(own'[f])
    BY <1>2, <1>6, <2>3, ElementsOfEmpty
  <2> QED
    BY <1>1, <2>1, <2>2, <2>3 DEF NoneLost
<1>12. Remembered'
  BY <1>1, <1>4 DEF Remembered, Handled
<1>13. AheadKept'
  <2>1. \A g \in Handlers : UnderWay(g)' => UnderWay(g) /\ Reach(g)' = Reach(g)
    BY <1>1, <1>2, <1>4, <1>5, <1>6, <1>7, HandlerTypes DEF UnderWay, Reach
  <2>2. UNCHANGED InFlight
    BY <1>1 DEF InFlight
  <2>3. \A g \in Handlers : stage[g] \in {"buffered", "dispatched"} => stage'[g] = stage[g]
    BY <1>1, <1>4
  <2>4. \A g \in Handlers : ahead[g] \subseteq Handlers
    BY DEF Types
  <2> QED
    BY <1>1, <2>1, <2>2, <2>3, <2>4 DEF AheadKept
<1> QED
  BY <1>3, <1>8, <1>9, <1>10, <1>11, <1>12, <1>13

-----------------------------------------------------------------------------
(* Batches that are dispatched, and batches that are taken.                *)

\* What is dispatched is in no other place.
LEMMA DispatchStep ==
    ASSUME IInv, NEW b \in Seq(Handlers), stage' = Dispatched(b),
           \A g \in ToSet(b) : stage[g] = "buffered",
           own' \in [Handlers -> Seq(Handlers)],
           \A h \in Handlers : ToSet(own'[h]) = ToSet(own[h]) \ ToSet(b),
           \A h \in Handlers : own'[h] = own[h] \/ own'[h] = <<>>,
           flights' \subseteq flights,
           \A c \in flights \ flights' : ToSet(c) \subseteq ToSet(b),
           \A c \in flights' : ToSet(c) \cap ToSet(b) = {},
           \A k \in Keys : ToSet(buffer[k]) \cap ToSet(b) = {},
           UNCHANGED <<seen, buffer, ahead, forgotten>>
    PROVE  IInv'
<1> USE DEF IInv
<1>1. \A g \in Handlers : stage'[g] = IF g \in ToSet(b) THEN "dispatched" ELSE stage[g]
  BY DEF Dispatched
<1>2. ToSet(b) \subseteq Handlers
  BY ElementsInSet
<1>3. Types'
  BY <1>1 DEF Types, Dispatched, Stages
<1>4. \A g \in Handlers : UnderWay(g)' <=> UnderWay(g)
  BY <1>1 DEF UnderWay
<1>5. OneAtATime'
  BY <1>4 DEF OneAtATime
<1>6. BufferIsHome'
  BY <1>1, BatchElements DEF BufferIsHome
<1>7. OwnIsHome'
  <2> SUFFICES ASSUME NEW h \in Handlers
               PROVE  /\ own'[h] # <<>> => stage'[h] = "flushed"
                      /\ \A g \in ToSet(own'[h]) : Key(g) = Key(h) /\ stage'[g] = "buffered"
    BY DEF OwnIsHome
  <2>1. own'[h] # <<>> => stage[h] = "flushed" /\ h \notin ToSet(b)
    BY DEF OwnIsHome
  <2>2. \A g \in ToSet(own'[h]) :
           Key(g) = Key(h) /\ stage[g] = "buffered" /\ g \notin ToSet(b) /\ g \in Handlers
    BY BatchElements DEF OwnIsHome
  <2> QED
    BY <1>1, <2>1, <2>2
<1>8. FlightsWait'
  BY <1>1, BatchElements DEF FlightsWait
<1>9. Apart'
  BY DEF Apart
<1>10. NoneLost'
  <2> SUFFICES ASSUME NEW g \in Handlers, stage'[g] = "buffered"
               PROVE  \/ g \in ToSet(buffer'[Key(g)])
                      \/ \E f \in Handlers : g \in ToSet(own'[f])
                      \/ \E c \in flights' : g \in ToSet(c)
    BY DEF NoneLost
  <2>1. stage[g] = "buffered" /\ g \notin ToSet(b)
    BY <1>1
  <2> QED
    BY <2>1 DEF NoneLost
<1>11. Remembered'
  BY <1>1 DEF Remembered, Handled
<1>12. AheadKept'
  <2> SUFFICES ASSUME NEW h \in Handlers, UnderWay(h)', NEW g \in ahead[h],
                      stage'[g] # "dispatched"
               PROVE  /\ stage'[g] = "buffered"
                      /\ g \in Reach(h)' \/ g \in InFlight'
    BY DEF AheadKept
  <2>1. UnderWay(h) /\ g \in Handlers
    BY <1>4 DEF Types
  <2>2. stage'[g] = stage[g] /\ g \notin ToSet(b)
    BY <1>1, <2>1
  <2>3. stage[g] = "buffered" /\ (g \in Reach(h) \/ g \in InFlight)
    BY <2>1, <2>2 DEF AheadKept
  <2>4. g \in InFlight => g \in InFlight'
    BY <2>2 DEF InFlight
  <2>5. g \in Reach(h) => g \in Reach(h)'
    <3>1. stage'[h] = stage[h]
      BY <1>1, <2>1 DEF UnderWay
    <3> QED
      BY <2>2, <3>1 DEF Reach
  <2> QED
    BY <2>2, <2>3, <2>4, <2>5
<1> QED
  BY <1>3, <1>5, <1>6, <1>7, <1>8, <1>9, <1>10, <1>11, <1>12

LEMMA DispatchOwnIInv ==
    ASSUME IInv, NEW h \in Handlers, DispatchOwn(h)
    PROVE  IInv'
<1> DEFINE b == own[h]
<1>1. /\ stage' = Dispatched(b) /\ own' = [own EXCEPT ![h] = <<>>]
      /\ b \in Seq(Handlers) /\ own \in [Handlers -> Seq(Handlers)]
      /\ UNCHANGED <<seen, buffer, flights, ahead, forgotten>>
  BY DEF DispatchOwn, IInv, Types
<1>2. own' \in [Handlers -> Seq(Handlers)]
  BY <1>1, EmptySeq
<1>3. \A g \in Handlers : own'[g] = IF g = h THEN <<>> ELSE own[g]
  BY <1>1
<1>4. \A g \in Handlers \ {h} : ToSet(own[g]) \cap ToSet(b) = {}
  <2> SUFFICES ASSUME NEW g \in Handlers, g # h,
                      NEW x \in ToSet(own[g]), x \in ToSet(b)
               PROVE  FALSE
    OBVIOUS
  <2>1. own[g] # <<>> /\ b # <<>>
    BY ElementsOfEmpty
  <2>2. UnderWay(g) /\ UnderWay(h)
    BY <2>1 DEF IInv, OwnIsHome, UnderWay
  <2>3. Key(x) = Key(g) /\ Key(x) = Key(h)
    BY DEF IInv, OwnIsHome
  <2> QED
    BY <2>2, <2>3 DEF IInv, OneAtATime
<1>5. \A g \in Handlers : ToSet(own'[g]) = ToSet(own[g]) \ ToSet(b)
  BY <1>3, <1>4, ElementsOfEmpty
<1>6. /\ \A g \in ToSet(b) : stage[g] = "buffered"
      /\ \A c \in flights' : ToSet(c) \cap ToSet(b) = {}
      /\ \A k \in Keys : ToSet(buffer[k]) \cap ToSet(b) = {}
  BY <1>1 DEF IInv, OwnIsHome, Apart
<1> QED
  BY <1>1, <1>2, <1>3, <1>5, <1>6, DispatchStep

LEMMA DispatchFlightIInv ==
    ASSUME IInv, NEW b \in flights, DispatchFlight(b)
    PROVE  IInv'
<1>1. /\ stage' = Dispatched(b) /\ flights' = flights \ {b}
      /\ b \in Seq(Handlers) /\ own \in [Handlers -> Seq(Handlers)]
      /\ UNCHANGED <<seen, buffer, own, ahead, forgotten>>
  BY DEF DispatchFlight, IInv, Types
<1>2. /\ \A g \in ToSet(b) : stage[g] = "buffered"
      /\ \A h \in Handlers : ToSet(own[h]) \cap ToSet(b) = {}
      /\ \A c \in flights' : ToSet(c) \cap ToSet(b) = {}
      /\ \A k \in Keys : ToSet(buffer[k]) \cap ToSet(b) = {}
  BY <1>1 DEF IInv, FlightsWait, Apart
<1>3. \A h \in Handlers : ToSet(own'[h]) = ToSet(own[h]) \ ToSet(b) /\ own'[h] = own[h]
  BY <1>1, <1>2
<1> QED
  BY <1>1, <1>2, <1>3, DispatchStep

LEMMA TakeBufferIInv ==
    ASSUME IInv, NEW k \in Keys, TakeBuffer(k),
           UNCHANGED <<stage, seen, own, ahead, forgotten>>
    PROVE  IInv'
<1> USE DEF IInv
<1>1. /\ buffer' = [buffer EXCEPT ![k] = <<>>]
      /\ flights' = IF buffer[k] = <<>> THEN flights ELSE flights \cup {buffer[k]}
  BY DEF TakeBuffer, Emptied
<1>2. Types'
  BY <1>1, EmptySeq DEF Types
<1>3. \A j \in Keys : ToSet(buffer'[j]) = IF j = k THEN {} ELSE ToSet(buffer[j])
  BY <1>1, ElementsOfEmpty DEF Types
<1>4. /\ flights \subseteq flights'
      /\ \A b \in flights' : b \in flights \/ b = buffer[k]
      /\ \A x \in ToSet(buffer[k]) : \E b \in flights' : x \in ToSet(b)
  BY <1>1, ElementsOfEmpty
<1>5. OneAtATime'
  BY DEF OneAtATime, UnderWay
<1>6. BufferIsHome' /\ OwnIsHome'
  BY <1>3 DEF BufferIsHome, OwnIsHome
<1>7. FlightsWait'
  BY <1>4 DEF FlightsWait, BufferIsHome
<1>8. Apart'
  <2>1. \A j \in Keys : j # k => ToSet(buffer[j]) \cap ToSet(buffer[k]) = {}
    BY DEF BufferIsHome
  <2> QED
    BY <1>3, <1>4, <2>1 DEF Apart
<1>9. NoneLost'
  <2> SUFFICES ASSUME NEW g \in Handlers, stage[g] = "buffered"
               PROVE  \/ g \in ToSet(buffer'[Key(g)])
                      \/ \E f \in Handlers : g \in ToSet(own[f])
                      \/ \E b \in flights' : g \in ToSet(b)
    BY DEF NoneLost
  <2>1. Key(g) \in Keys
    BY HandlerTypes
  <2> QED
    BY <1>3, <1>4, <2>1 DEF NoneLost
<1>10. Remembered'
  BY DEF Remembered, Handled
<1>11. AheadKept'
  <2> SUFFICES ASSUME NEW h \in Handlers, UnderWay(h), NEW g \in ahead[h],
                      g \in Reach(h) \/ g \in InFlight
               PROVE  g \in Reach(h)' \/ g \in InFlight'
    BY DEF AheadKept, UnderWay
  <2>1. g \in InFlight => g \in InFlight'
    BY <1>4 DEF InFlight
  <2>2. g \in ToSet(buffer[k]) => g \in InFlight'
    BY <1>4 DEF InFlight
  <2>3. Key(h) \in Keys
    BY HandlerTypes
  <2> QED
    BY <1>3, <2>1, <2>2, <2>3 DEF Reach
<1> QED
  BY <1>2, <1>5, <1>6, <1>7, <1>8, <1>9, <1>10, <1>11

-----------------------------------------------------------------------------
(* The theorems.                                                           *)

LEMMA NextIInv == IInv /\ [Next]_vars => IInv'
<1> SUFFICES ASSUME IInv, [Next]_vars PROVE IInv'
  OBVIOUS
<1>1. CASE UNCHANGED vars
  BY <1>1, CacheStep DEF vars, IInv, Types
<1>2. ASSUME NEW h \in Handlers, HandlerStep(h) PROVE IInv'
  <2>1. CASE Ignore(h)
    BY <2>1, EndIInv DEF Ignore, UnderWay, IInv, OwnIsHome
  <2>2. CASE DispatchNow(h)
    BY <2>2, EndIInv DEF DispatchNow, UnderWay
  <2> QED
    BY <1>2, <2>1, <2>2, EnqueueIInv, FlushFirstIInv, DispatchOwnIInv DEF HandlerStep
<1>3. ASSUME NEW k \in Keys, TimerStep(k) PROVE IInv'
  <2>1. CASE Fire(k)
    BY <2>1, CacheStep DEF Fire, IInv, Types
  <2>2. CASE TimerFlush(k) \/ DisconnectFlush(k)
    BY <2>2, TakeBufferIInv DEF TimerFlush, DisconnectFlush
  <2> QED
    BY <1>3, <2>1, <2>2 DEF TimerStep
<1>4. CASE Disconnect
  BY <1>4, CacheStep DEF Disconnect, IInv, Types
<1> QED
  BY <1>1, <1>2, <1>3, <1>4, DispatchFlightIInv, ReceiveIInv, ExpireIInv DEF Next, Progress

\* In every reachable state the entries that wait are in one place each, and
\* what was handled is in the cache, which is never larger than its bound.
THEOREM SpecIInv == Spec => []IInv
<1>1. IInv /\ [Next]_vars => IInv'
  BY NextIInv
<1> QED
  BY InitIInv, <1>1, PTL DEF Spec

\* No text is lost on its way through the buffers or dispatched twice, and no
\* event that is delivered again is handled again, whoever flushes and however
\* often timers are restarted.
THEOREM SpecHandledOnce == Spec => []HandledOnce
<1>1. IInv => HandledOnce
  <2> SUFFICES ASSUME IInv PROVE HandledOnce
    OBVIOUS
  <2> USE DEF IInv
  <2>1. In("buffered") = Buffered \cup InFlight \cup Owned
    <3>1. ASSUME NEW g \in In("buffered")
          PROVE  g \in Buffered \cup InFlight \cup Owned
      <4>1. g \in Handlers /\ stage[g] = "buffered" /\ Key(g) \in Keys
        BY HandlerTypes DEF In
      <4> QED
        BY <4>1 DEF NoneLost, Buffered, InFlight, Owned
    <3>2. Buffered \subseteq In("buffered")
      BY BatchElements DEF Buffered, In, BufferIsHome
    <3>3. InFlight \subseteq In("buffered")
      BY BatchElements DEF InFlight, In, FlightsWait
    <3>4. Owned \subseteq In("buffered")
      BY BatchElements DEF Owned, In, OwnIsHome
    <3> QED
      BY <3>1, <3>2, <3>3, <3>4
  <2>2. /\ Buffered \cap InFlight = {} /\ Buffered \cap Owned = {}
        /\ InFlight \cap Owned = {}
    BY DEF Apart, Buffered, InFlight, Owned
  <2>3. \A i, j \in DOMAIN Places : i # j => Places[i] \cap Places[j] = {}
    <3>1. DOMAIN Places = {1, 2, 3} /\ Places[1] = Buffered /\ Places[2] = InFlight
          /\ Places[3] = Owned
      BY DEF Places
    <3> QED
      BY <2>2, <3>1
  <2>4. \A g, h \in Handlers :
           {stage[g], stage[h]} \cap {"new", "skipped"} = {} /\ g[1] = h[1]
           => g = h \/ g[1] \in forgotten
    BY DEF Remembered, Handled
  <2> QED
    BY <2>1, <2>3, <2>4 DEF HandledOnce
<1> QED
  BY SpecIInv, <1>1, PTL

\* Media and commands come after the text their sender wrote before, but for
\* text in the hands of a timer or of Disconnect.
THEOREM SpecNoOvertaking == Spec => NoOvertaking
<1> DEFINE Waits(h) == stage[h] = "flushed" /\ stage'[h] = "dispatched"
                       => ahead[h] \cap In("buffered") \subseteq InFlight
<1>1. IInv /\ [Next]_vars => \A h \in Handlers : Waits(h)
  <2> SUFFICES ASSUME IInv, [Next]_vars, NEW h \in Handlers,
                      stage[h] = "flushed", stage'[h] = "dispatched"
               PROVE  ahead[h] \cap In("buffered") \subseteq InFlight
    OBVIOUS
  <2> USE DEF IInv
  <2>1. own[h] = <<>>
    <3>1. ASSUME NEW g \in Handlers, HandlerStep(g), own[h] # <<>>
          PROVE  FALSE
      <4>1. \A x \in ToSet(own[g]) : stage[x] = "buffered"
        BY DEF OwnIsHome
      <4>2. ~DispatchOwn(g)
        BY <4>1 DEF DispatchOwn, Dispatched
      <4>3. ~DispatchNow(g)
        BY <3>1 DEF DispatchNow, Goes, Types
      <4> QED
        BY <3>1, <4>2, <4>3 DEF HandlerStep, FlushFirst, Enqueue, Ignore, Goes, Types
    <3>2. ASSUME NEW b \in flights, DispatchFlight(b) PROVE FALSE
      BY <3>2 DEF DispatchFlight, Dispatched, FlightsWait
    <3>3. ASSUME NEW g \in Handlers, Receive(g) PROVE FALSE
      BY <3>3 DEF Receive, Goes, Types
    <3>4. ASSUME UNCHANGED stage PROVE FALSE
      BY <3>4
    <3> QED
      BY <3>1, <3>2, <3>3, <3>4
         DEF Next, Progress, TimerStep, Fire, TimerFlush, DisconnectFlush, Expire,
             Disconnect, vars
  <2>2. Reach(h) = {} /\ UnderWay(h)
    BY <2>1, ElementsOfEmpty DEF Reach, UnderWay
  <2> QED
    BY <2>2 DEF AheadKept, In
<1>2. IInv /\ [Next]_vars => [\A h \in Handlers : Waits(h)]_vars
  BY <1>1
<1> QED
  BY SpecIInv, <1>2, PTL DEF Spec, NoOvertaking
=============================================================================
