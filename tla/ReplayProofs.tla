---------------------------- MODULE ReplayProofs ----------------------------
(***************************************************************************)
(* No accepted message vanishes, for any handlers, messages, capacities,   *)
(* outages, crashes and restarts.  The hard part is the replay: a segment  *)
(* is retired only when the broker has every record of it, although an     *)
(* answer may belong to a record an earlier attempt gave up on.            *)
(***************************************************************************)
EXTENDS DeliveryProofs

\* The envelopes of q a drain waits for; none in the producer; at most one, for record r.
Syncs(q) == {i \in DOMAIN q : q[i].onAck = "sync"}
NoneHeard(c, k) == Syncs(c) = {} /\ Syncs(k) = {}
Heard(c, k, r) ==
  /\ \A i \in Syncs(c) : c[i].msg = r /\ Syncs(k) = {} /\ \A j \in Syncs(c) : j = i
  /\ \A i \in Syncs(k) : k[i].msg = r /\ Syncs(c) = {} /\ \A j \in Syncs(k) : j = i

\* Waiting for nothing is a case of waiting for one record.
LEMMA NoneIsHeard ==
  ASSUME NEW c, NEW k, NEW r, NoneHeard(c, k) PROVE Heard(c, k, r)
  BY DEF NoneHeard, Heard

\* The flusher moves an envelope from one queue to the other.
LEMMA FlusherMoves ==
  ASSUME NEW c \in Seq(Envelopes), NEW k \in Seq(Envelopes), NEW r, c # <<>>
  PROVE  /\ Heard(c, k, r) => Heard(Tail(c), Append(k, Head(c)), r)
         /\ NoneHeard(c, k) => NoneHeard(Tail(c), Append(k, Head(c)))
<1> DEFINE d == Tail(c)
           l == Append(k, Head(c))
<1>1. /\ Len(c) \in Nat \ {0} /\ Len(k) \in Nat
      /\ DOMAIN c = 1..Len(c) /\ DOMAIN k = 1..Len(k)
  OBVIOUS
<1>2. DOMAIN d = 1..Len(c) - 1 /\ \A i \in 1..Len(c) - 1 : d[i] = c[i + 1]
  BY <1>1
<1>3. /\ DOMAIN l = 1..Len(k) + 1 /\ l[Len(k) + 1] = c[1]
      /\ \A i \in 1..Len(k) : l[i] = k[i]
  BY <1>1
<1> HIDE DEF d, l
<1>4. \A i \in Syncs(d) : i \in 1..Len(c) - 1 /\ i + 1 \in Syncs(c) /\ d[i] = c[i + 1]
  BY <1>1, <1>2 DEF Syncs
<1>5. \A i \in Syncs(l) : \/ i \in Syncs(k) /\ i \in 1..Len(k) /\ l[i] = k[i]
                          \/ i = Len(k) + 1 /\ 1 \in Syncs(c) /\ l[i] = c[1]
  BY <1>1, <1>3 DEF Syncs
<1>6. ASSUME NoneHeard(c, k) PROVE NoneHeard(d, l)
  BY <1>4, <1>5, <1>6 DEF NoneHeard
<1>7. ASSUME Heard(c, k, r) PROVE Heard(d, l, r)
  <2>1. ASSUME NEW i \in Syncs(d)
        PROVE  d[i].msg = r /\ Syncs(l) = {} /\ \A j \in Syncs(d) : j = i
    <3>1. i + 1 \in Syncs(c) /\ i \in 1..Len(c) - 1 /\ d[i] = c[i + 1]
      BY <1>4, <2>1
    <3>2. Syncs(k) = {} /\ d[i].msg = r /\ \A j \in Syncs(c) : j = i + 1
      BY <1>7, <3>1 DEF Heard
    <3>3. \A j \in Syncs(d) : j = i
      BY <1>1, <1>4, <3>1, <3>2
    <3>4. 1 \notin Syncs(c)
      BY <1>1, <3>1, <3>2
    <3> QED
      BY <1>5, <3>2, <3>3, <3>4
  <2>2. ASSUME NEW i \in Syncs(l)
        PROVE  l[i].msg = r /\ Syncs(d) = {} /\ \A j \in Syncs(l) : j = i
    <3>1. CASE i \in Syncs(k) /\ i \in 1..Len(k) /\ l[i] = k[i]
      BY <1>4, <1>5, <1>7, <3>1 DEF Heard
    <3>2. CASE i = Len(k) + 1 /\ 1 \in Syncs(c) /\ l[i] = c[1]
      <4>1. Syncs(k) = {} /\ l[i].msg = r /\ \A j \in Syncs(c) : j = 1
        BY <1>7, <3>2 DEF Heard
      <4>2. Syncs(d) = {}
        BY <1>1, <1>4, <4>1
      <4> QED
        BY <1>5, <3>2, <4>1, <4>2
    <3> QED
      BY <1>5, <2>2, <3>1, <3>2
  <2> QED
    BY <2>1, <2>2 DEF Heard
<1> QED
  BY <1>6, <1>7 DEF d, l

\* A new envelope, awaited or not.
LEMMA ProduceHeard ==
  ASSUME NEW c \in Seq(Envelopes), NEW k \in Seq(Envelopes), NEW r,
         NEW m \in Msgs \cup {Probe}
  PROVE  /\ Heard(c, k, r) => Heard(Append(c, Envelope(m, "none")), k, r)
         /\ NoneHeard(c, k) => NoneHeard(Append(c, Envelope(m, "none")), k)
         /\ NoneHeard(c, k) => Heard(Append(c, Envelope(m, "sync")), k, m)
<1>1. Len(c) \in Nat /\ DOMAIN c = 1..Len(c)
  OBVIOUS
<1>2. ASSUME NEW a \in {"none", "sync"}
      PROVE  LET d == Append(c, Envelope(m, a)) IN
             /\ DOMAIN d = 1..Len(c) + 1 /\ d[Len(c) + 1].msg = m /\ d[Len(c) + 1].onAck = a
             /\ \A i \in 1..Len(c) : d[i] = c[i]
  <2>1. Envelope(m, a) \in Envelopes /\ Envelope(m, a).msg = m /\ Envelope(m, a).onAck = a
    BY EnvelopeType
  <2> QED
    BY <1>1, <2>1
<1>3. Syncs(Append(c, Envelope(m, "none"))) = Syncs(c)
      /\ \A i \in Syncs(c) : Append(c, Envelope(m, "none"))[i] = c[i]
  <2> DEFINE d == Append(c, Envelope(m, "none"))
  <2>1. /\ DOMAIN d = 1..Len(c) + 1 /\ d[Len(c) + 1].onAck = "none"
        /\ \A i \in 1..Len(c) : d[i] = c[i]
    BY <1>2
  <2> HIDE DEF d
  <2>2. Syncs(d) = Syncs(c) /\ \A i \in Syncs(c) : d[i] = c[i]
    BY <1>1, <2>1 DEF Syncs
  <2> QED
    BY <2>2 DEF d
<1>4. ASSUME NoneHeard(c, k)
      PROVE  Heard(Append(c, Envelope(m, "sync")), k, m)
  <2> DEFINE d == Append(c, Envelope(m, "sync"))
  <2>1. /\ DOMAIN d = 1..Len(c) + 1 /\ d[Len(c) + 1].msg = m
        /\ \A i \in 1..Len(c) : d[i] = c[i]
    BY <1>2
  <2> HIDE DEF d
  <2>2. \A i \in Syncs(d) : i = Len(c) + 1
    BY <1>1, <1>4, <2>1 DEF Syncs, NoneHeard
  <2>3. Heard(d, k, m)
    BY <1>4, <2>1, <2>2 DEF Heard, NoneHeard
  <2> QED
    BY <2>3 DEF d
<1> QED
  BY <1>3, <1>4 DEF Heard, NoneHeard

\* An answered envelope leaves the client.
LEMMA AnswerHeard ==
  ASSUME NEW c \in Seq(Envelopes), NEW k \in Seq(Envelopes), NEW r, NEW i \in DOMAIN k
  PROVE  /\ Heard(c, k, r) => Heard(c, RemoveAt(k, i), r)
         /\ NoneHeard(c, k) => NoneHeard(c, RemoveAt(k, i)) /\ k[i].onAck # "sync"
         /\ Heard(c, k, r) /\ k[i].onAck = "sync" => NoneHeard(c, RemoveAt(k, i)) /\ k[i].msg = r
<1> DEFINE l == RemoveAt(k, i)
<1>1. Len(k) \in Nat /\ DOMAIN k = 1..Len(k) /\ i \in 1..Len(k)
  OBVIOUS
<1>2. /\ l \in Seq(Envelopes) /\ Len(l) = Len(k) - 1
      /\ \A j \in 1..Len(k) - 1 : l[j] = IF j < i THEN k[j] ELSE k[j + 1]
  BY Removed
<1> HIDE DEF l
<1>3. DOMAIN l = 1..Len(k) - 1
  BY <1>1, <1>2
<1>4. ASSUME NEW j \in Syncs(l)
      PROVE  j \in 1..Len(k) - 1 /\ l[j].onAck = "sync"
             /\ \/ j < i /\ j \in Syncs(k) /\ l[j] = k[j]
                \/ ~(j < i) /\ j + 1 \in Syncs(k) /\ l[j] = k[j + 1]
  <2>1. j \in 1..Len(k) - 1 /\ l[j].onAck = "sync"
    BY <1>3, <1>4 DEF Syncs
  <2>2. CASE j < i
    <3>1. l[j] = k[j] /\ j \in DOMAIN k
      BY <1>1, <1>2, <2>1, <2>2
    <3> QED
      BY <2>1, <2>2, <3>1 DEF Syncs
  <2>3. CASE ~(j < i)
    <3>1. l[j] = k[j + 1] /\ j + 1 \in DOMAIN k
      BY <1>1, <1>2, <2>1, <2>3
    <3> QED
      BY <2>1, <2>3, <3>1 DEF Syncs
  <2> QED
    BY <2>2, <2>3
<1>5. ASSUME NoneHeard(c, k) PROVE NoneHeard(c, l) /\ k[i].onAck # "sync"
  BY <1>4, <1>5 DEF NoneHeard, Syncs
<1>6. ASSUME Heard(c, k, r), k[i].onAck = "sync" PROVE NoneHeard(c, l) /\ k[i].msg = r
  <2>1. i \in Syncs(k)
    BY <1>6 DEF Syncs
  <2>2. Syncs(c) = {} /\ k[i].msg = r /\ \A j \in Syncs(k) : j = i
    BY <1>6, <2>1 DEF Heard
  <2>3. Syncs(l) = {}
    <3> SUFFICES ASSUME NEW j \in Syncs(l) PROVE FALSE
      OBVIOUS
    <3>1. j \in 1..Len(k) - 1 /\ ((j < i /\ j = i) \/ (~(j < i) /\ j + 1 = i))
      BY <1>4, <2>2
    <3> QED
      BY <1>1, <3>1
  <2> QED
    BY <2>2, <2>3 DEF NoneHeard
<1>7. ASSUME Heard(c, k, r) PROVE Heard(c, l, r)
  <2>1. ASSUME NEW j \in Syncs(l)
        PROVE  l[j].msg = r /\ Syncs(c) = {} /\ \A n \in Syncs(l) : n = j
    <3> DEFINE Was(n, x) == x \in Syncs(k) /\ l[n] = k[x]
                            /\ x = IF n < i THEN n ELSE n + 1
    <3>0. ASSUME NEW n \in Syncs(l) PROVE \E x : Was(n, x)
      <4>1. CASE n < i
        <5>1. n \in Syncs(k) /\ l[n] = k[n] /\ n \in Nat
          BY <1>1, <1>4, <4>1
        <5>2. Was(n, n)
          BY <1>1, <4>1, <5>1
        <5> HIDE DEF Was
        <5> QED
          BY <5>2
      <4>2. CASE ~(n < i)
        <5>1. Was(n, n + 1)
          BY <1>4, <4>2
        <5> HIDE DEF Was
        <5> QED
          BY <5>1
      <4> QED
        BY <4>1, <4>2
    <3>1. PICK x : Was(j, x)
      BY <3>0
    <3>2. k[x].msg = r /\ Syncs(c) = {} /\ \A y \in Syncs(k) : y = x
      BY <1>7, <3>1 DEF Heard
    <3>3. ASSUME NEW n \in Syncs(l) PROVE n = j
      <4>1. PICK y : Was(n, y)
        BY <3>0
      <4>2. y = x /\ n \in 1..Len(k) - 1 /\ j \in 1..Len(k) - 1
        BY <1>4, <3>2, <4>1
      <4> QED
        BY <1>1, <3>1, <4>1, <4>2
    <3> QED
      BY <3>1, <3>2, <3>3
  <2>2. ASSUME NEW j \in Syncs(c)
        PROVE  c[j].msg = r /\ Syncs(l) = {} /\ \A n \in Syncs(c) : n = j
    <3>1. c[j].msg = r /\ Syncs(k) = {} /\ \A n \in Syncs(c) : n = j
      BY <1>7 DEF Heard
    <3>2. Syncs(l) = {}
      BY <1>4, <3>1
    <3> QED
      BY <3>1, <3>2
  <2> QED
    BY <2>1, <2>2 DEF Heard
<1> QED
  BY <1>5, <1>6, <1>7 DEF l

\* After a cut-off nobody waits.
LEMMA AbandonHeard ==
  ASSUME NEW c \in Seq(Envelopes), NEW k \in Seq(Envelopes)
  PROVE  NoneHeard(Unheard(c), Unheard(k))
<1>1. ASSUME NEW q \in Seq(Envelopes) PROVE Syncs(Unheard(q)) = {}
  <2>1. DOMAIN Unheard(q) = DOMAIN q
    BY DEF Unheard
  <2> QED
    BY <2>1, UnheardType DEF Syncs
<1> QED
  BY <1>1 DEF NoneHeard

\* In empty queues nobody waits.
LEMMA EmptyHeard == NoneHeard(<<>>, <<>>)
<1>1. DOMAIN <<>> = {}
  OBVIOUS
<1> QED
  BY <1>1 DEF NoneHeard, Syncs
-----------------------------------------------------------------------------
\* The record a drain is at, and what the producer and the callback may still say of it.
Wanted == Head(walSealed)[drain.pos]

ReplayInv ==
  /\ Heard(ch, inClient, Wanted)
  /\ ack # "none" \/ drain.waiting = FALSE => NoneHeard(ch, inClient)
  /\ drain.waiting = FALSE => ack = "none"
  /\ ack = "ok" => Wanted \in broker
  /\ drain.left > 0 => \A j \in 1..Len(Head(walSealed)) :
                         j < drain.pos => Head(walSealed)[j] \in broker

\* The types of the producer's two queues.
LEMMA Chans ==
  ASSUME TypeInv PROVE ch \in Seq(Envelopes) /\ inClient \in Seq(Envelopes)
  BY DEF TypeInv, TypeOK, ProdTypeOK, Envelopes

\* What does not touch the producer or the drain, and leaves the head of the log in place.
LEMMA ReplayFrame ==
  ASSUME TypeInv, ReplayInv, UNCHANGED <<inClient, ack, broker, drain>>,
         \/ UNCHANGED ch
         \/ \E m \in Msgs \cup {Probe} : Produce(m, "none"),
         walSealed # <<>> => Head(walSealed') = Head(walSealed)
  PROVE  ReplayInv'
<1>1. /\ drain.left > 0 => Head(walSealed') = Head(walSealed)
      /\ drain.waiting = TRUE => Head(walSealed') = Head(walSealed)
      /\ drain.waiting \in BOOLEAN
  <2>1. drain.left > 0 => drain # NoDrain
    BY NoDrainIs
  <2>2. Draining => walSealed # <<>>
    BY DrainFields
  <2>3. drain.waiting \in BOOLEAN /\ (drain.waiting = TRUE => Draining)
    BY DrainFields
  <2> QED
    BY <2>1, <2>2, <2>3 DEF Draining
<1>2. /\ Heard(ch, inClient, Wanted) => Heard(ch', inClient', Wanted)
      /\ NoneHeard(ch, inClient) => NoneHeard(ch', inClient')
  <2>1. CASE UNCHANGED ch
    BY <2>1
  <2>2. ASSUME NEW m \in Msgs \cup {Probe}, Produce(m, "none")
        PROVE  /\ Heard(ch, inClient, Wanted) => Heard(ch', inClient', Wanted)
               /\ NoneHeard(ch, inClient) => NoneHeard(ch', inClient')
    <3>1. ch' = Append(ch, Envelope(m, "none")) /\ inClient' = inClient
      BY <2>2 DEF Produce
    <3>2. PICK w : w = Wanted
      OBVIOUS
    <3>3. /\ Heard(ch, inClient, w) => Heard(Append(ch, Envelope(m, "none")), inClient, w)
          /\ NoneHeard(ch, inClient) => NoneHeard(Append(ch, Envelope(m, "none")), inClient)
      BY Chans, ProduceHeard
    <3> QED
      BY <3>1, <3>2, <3>3
  <2> QED
    BY <2>1, <2>2
<1>3. CASE drain.waiting = FALSE
  <2>1. NoneHeard(ch', inClient') /\ ack' = "none"
    BY <1>2, <1>3 DEF ReplayInv
  <2> QED
    BY <1>1, <1>3, <2>1, NoneIsHeard DEF ReplayInv
<1>4. CASE drain.waiting = TRUE
  <2>1. Wanted' = Wanted /\ Head(walSealed') = Head(walSealed)
    BY <1>1, <1>4 DEF Wanted
  <2> QED
    BY <1>2, <1>4, <2>1 DEF ReplayInv
<1> QED
  BY <1>1, <1>3, <1>4

\* A drain that waits for nothing, wherever it goes on from.
LEMMA ReplayIdle ==
  ASSUME TypeInv, NoneHeard(ch', inClient'), ack' = "none", drain'.waiting = FALSE,
         drain'.left > 0 => \A j \in 1..Len(Head(walSealed')) :
                              j < drain'.pos => Head(walSealed')[j] \in broker'
  PROVE  ReplayInv'
  BY NoneIsHeard DEF ReplayInv

\* The flusher, the client's answers and the broker keep the invariant.
LEMMA KafkaReplay == ASSUME TypeInv, ReplayInv, Kafka PROVE ReplayInv'
<1>1. UNCHANGED <<walSealed, drain>> /\ ProdNext
  BY DEF Kafka, Aside, adapterVars, wal
<1>2. Wanted' = Wanted
  BY <1>1 DEF Wanted
<1>3. PICK w : w = Wanted
  OBVIOUS
<1>4. CASE Flusher
  <2>1. ch # <<>> /\ ch' = Tail(ch) /\ inClient' = Append(inClient, Head(ch))
        /\ UNCHANGED <<ack, broker>>
    BY <1>4 DEF Flusher
  <2>2. /\ Heard(ch, inClient, w) => Heard(ch', inClient', w)
        /\ NoneHeard(ch, inClient) => NoneHeard(ch', inClient')
    BY <2>1, Chans, FlusherMoves
  <2> QED
    BY <1>1, <1>2, <1>3, <2>1, <2>2 DEF ReplayInv
<1>5. CASE BrokerAcks
  <2>1. PICK i \in DOMAIN inClient :
            /\ broker' = broker \cup ({inClient[i].msg} \ {Probe})
            /\ ack' = IF inClient[i].onAck = "sync" THEN "ok" ELSE ack
            /\ inClient' = RemoveAt(inClient, i)
    BY <1>5 DEF BrokerAcks
  <2>2. ch' = ch
    BY <1>5 DEF BrokerAcks
  <2>3. /\ Heard(ch, inClient, w) => Heard(ch', inClient', w)
        /\ NoneHeard(ch, inClient) => NoneHeard(ch', inClient') /\ inClient[i].onAck # "sync"
        /\ Heard(ch, inClient, w) /\ inClient[i].onAck = "sync"
             => NoneHeard(ch', inClient') /\ inClient[i].msg = w
    BY <2>1, <2>2, Chans, AnswerHeard
  <2>4. CASE inClient[i].onAck = "sync"
    <3>1. drain.waiting = TRUE /\ ~NoneHeard(ch, inClient)
      BY <2>3, <2>4, DrainFields DEF ReplayInv
    <3>2. w \in Msgs
      BY <1>3, <3>1, DrainFields DEF Wanted, Draining, SegmentRead
    <3>3. w \in broker' /\ ack' = "ok" /\ NoneHeard(ch', inClient') /\ Heard(ch', inClient', w)
      BY <1>3, <2>1, <2>3, <2>4, <3>2, GatewayAssumption DEF ReplayInv
    <3> QED
      BY <1>1, <1>2, <1>3, <2>1, <3>1, <3>3 DEF ReplayInv
  <2>5. CASE inClient[i].onAck # "sync"
    BY <1>1, <1>2, <1>3, <2>1, <2>3, <2>5 DEF ReplayInv
  <2> QED
    BY <2>4, <2>5
<1>6. CASE RecordFails
  <2>1. PICK i \in DOMAIN inClient :
            /\ IF inClient[i].onAck = "sync"
               THEN ack' = "err" /\ UNCHANGED expired
               ELSE expired' = expired \cup ({inClient[i].msg} \ {Probe}) /\ UNCHANGED ack
            /\ inClient' = RemoveAt(inClient, i)
    BY <1>6 DEF RecordFails
  <2>2. ch' = ch /\ broker' = broker
    BY <1>6 DEF RecordFails
  <2>3. /\ Heard(ch, inClient, w) => Heard(ch', inClient', w)
        /\ NoneHeard(ch, inClient) => NoneHeard(ch', inClient') /\ inClient[i].onAck # "sync"
        /\ Heard(ch, inClient, w) /\ inClient[i].onAck = "sync"
             => NoneHeard(ch', inClient') /\ inClient[i].msg = w
    BY <2>1, <2>2, Chans, AnswerHeard
  <2>4. CASE inClient[i].onAck = "sync"
    <3>1. drain.waiting # FALSE /\ ack' = "err" /\ NoneHeard(ch', inClient')
      BY <1>3, <2>1, <2>3, <2>4 DEF ReplayInv
    <3> QED
      BY <1>1, <1>2, <1>3, <2>2, <2>3, <3>1 DEF ReplayInv
  <2>5. CASE inClient[i].onAck # "sync"
    BY <1>1, <1>2, <1>3, <2>1, <2>2, <2>3, <2>5 DEF ReplayInv
  <2> QED
    BY <2>4, <2>5
<1>7. CASE BrokerDown \/ BrokerBack
  BY <1>1, <1>7, ReplayFrame DEF BrokerDown, BrokerBack
<1> QED
  BY <1>1, <1>4, <1>5, <1>6, <1>7 DEF ProdNext

\* So does every step of a drain.
LEMMA DrainReplay == ASSUME TypeInv, ReplayInv, Drain, Aside PROVE ReplayInv'
<1>0. /\ drain \in DrainRecords /\ drain.pos \in Nat \ {0} /\ drain.waiting \in BOOLEAN
  BY DrainFields
<1>1. CASE DrainProduce
  <2>1. /\ Draining /\ ~SegmentRead /\ drain.waiting = FALSE
        /\ Produce(Wanted, "sync") /\ drain' = [drain EXCEPT !.waiting = TRUE] /\ ack' = "none"
        /\ UNCHANGED <<inClient, broker, walSealed>>
    BY <1>1 DEF DrainProduce, Wanted, wal
  <2>2. drain'.left = drain.left /\ drain'.pos = drain.pos /\ drain'.waiting = TRUE
    BY <1>0, <2>1 DEF DrainRecords
  <2>3. Wanted \in Msgs
    BY <2>1, DrainFields DEF Wanted, Draining, SegmentRead
  <2>4. PICK w \in Msgs : w = Wanted
    BY <2>3
  <2>5. NoneHeard(ch, inClient) => Heard(Append(ch, Envelope(w, "sync")), inClient, w)
    BY Chans, ProduceHeard
  <2>6. Heard(ch', inClient', w)
    BY <2>1, <2>4, <2>5 DEF ReplayInv, Produce
  <2>7. Wanted' = Wanted
    BY <2>1, <2>2 DEF Wanted
  <2> QED
    BY <2>1, <2>2, <2>4, <2>6, <2>7 DEF ReplayInv
<1>2. CASE DrainRetry /\ NoneHeard(ch', inClient') /\ ack' = "none"
           /\ UNCHANGED <<walSealed, broker>>
  <2>1. drain'.waiting = FALSE /\ (drain'.left > 0 => drain'.pos = 1)
    <3>1. drain' = [drain EXCEPT !.pos = 1, !.attempt = drain.attempt + 1, !.waiting = FALSE]
          \/ drain' = [drain EXCEPT !.left = 0, !.waiting = FALSE]
      BY <1>2 DEF DrainRetry
    <3>2. ASSUME drain' = [drain EXCEPT !.left = 0, !.waiting = FALSE]
          PROVE  drain'.waiting = FALSE /\ ~(drain'.left > 0)
      <4>1. drain'.waiting = FALSE /\ drain'.left = 0
        BY <1>0, <3>2 DEF DrainRecords
      <4>2. ~(drain'.left > 0)
        BY <4>1
      <4> QED
        BY <4>1, <4>2
    <3>3. ASSUME drain' = [drain EXCEPT !.pos = 1, !.attempt = drain.attempt + 1,
                                        !.waiting = FALSE]
          PROVE  drain'.waiting = FALSE /\ drain'.pos = 1
      <4>1. LET e == [drain EXCEPT !.pos = 1, !.attempt = drain.attempt + 1, !.waiting = FALSE] IN
            e \in DrainRecords /\ e.left = drain.left /\ e.pos = 1 /\ e.waiting = FALSE
        BY <1>0, DrainRereads
      <4> QED
        BY <3>3, <4>1, Zenon
    <3> QED
      BY <3>1, <3>2, <3>3, Zenon
  <2>2. \A j \in 1..Len(Head(walSealed')) : ~(j < 1)
    OBVIOUS
  <2> QED
    BY <1>2, <2>1, <2>2, ReplayIdle
<1>3. CASE DrainProduceFails
  <2>1. DrainRetry /\ drain.waiting = FALSE /\ UNCHANGED <<ch, inClient, ack, broker, walSealed>>
    BY <1>3 DEF DrainProduceFails, prodVars, wal
  <2> QED
    BY <1>2, <2>1 DEF ReplayInv
<1>4. CASE DrainAnswered
  <2>1. /\ drain.waiting = TRUE /\ ack # "none" /\ ack' = "none"
        /\ UNCHANGED <<ch, inClient, broker, walSealed>>
    BY <1>0, <1>4 DEF DrainAnswered, wal
  <2>2. NoneHeard(ch', inClient')
    BY <2>1 DEF ReplayInv
  <2>3. CASE ack = "ok"
    <3>1. drain' = [drain EXCEPT !.pos = @ + 1, !.waiting = FALSE]
      BY <1>4, <2>3 DEF DrainAnswered
    <3>2. drain'.left = drain.left /\ drain'.pos = drain.pos + 1 /\ drain'.waiting = FALSE
      <4>1. LET e == [drain EXCEPT !.pos = @ + 1, !.waiting = FALSE] IN
            e \in DrainRecords /\ e.left = drain.left /\ e.pos = drain.pos + 1 /\ e.waiting = FALSE
        BY <1>0, DrainGoesOn
      <4> QED
        BY <3>1, <4>1, Zenon
    <3>3. drain.left > 0 /\ Head(walSealed) \in Seq(Msgs)
      BY <2>1, DrainFields
    <3>4. ASSUME NEW j \in 1..Len(Head(walSealed)), j < drain.pos + 1
          PROVE  Head(walSealed)[j] \in broker
      <4>1. CASE j < drain.pos
        BY <3>3, <4>1 DEF ReplayInv
      <4>2. CASE j = drain.pos
        BY <2>3, <4>2 DEF ReplayInv, Wanted
      <4> QED
        BY <1>0, <3>3, <3>4, <4>1, <4>2
    <3> QED
      BY <2>1, <2>2, <3>2, <3>4, ReplayIdle
  <2>4. CASE ack # "ok"
    BY <1>2, <1>4, <2>1, <2>2, <2>4 DEF DrainAnswered
  <2> QED
    BY <2>3, <2>4
<1>5. CASE DrainSegmentDone
  <2>1. /\ SegmentRead /\ UNCHANGED <<ch, inClient, ack, broker>>
        /\ drain' = [NoDrain EXCEPT !.by = drain.by, !.left = drain.left - 1]
    BY <1>5 DEF DrainSegmentDone, prodVars
  <2>2. drain.waiting = FALSE
    BY <1>0, <2>1, DrainFields
  <2>3. NoneHeard(ch', inClient') /\ ack' = "none"
    BY <2>1, <2>2 DEF ReplayInv
  <2>4. drain'.pos = 1 /\ drain'.waiting = FALSE
    BY <2>1 DEF NoDrain
  <2>5. \A j \in 1..Len(Head(walSealed')) : ~(j < 1)
    OBVIOUS
  <2> QED
    BY <2>3, <2>4, <2>5, ReplayIdle
<1>6. CASE DrainTimeout
  <2>1. Abandon /\ drain' = [drain EXCEPT !.left = 0, !.waiting = FALSE]
    BY <1>6 DEF DrainTimeout
  <2>2. drain'.left = 0 /\ drain'.waiting = FALSE
    BY <1>0, <2>1 DEF DrainRecords
  <2>3. NoneHeard(ch', inClient') /\ ack' = "none"
    BY <2>1, Chans, AbandonHeard DEF Abandon
  <2>4. ~(drain'.left > 0)
    BY <2>2
  <2> QED
    BY <2>2, <2>3, <2>4, ReplayIdle
<1>7. CASE DrainReturn
  <2>1. drain.left = 0 /\ drain' = NoDrain /\ UNCHANGED <<ch, inClient, ack, broker>>
    BY <1>7 DEF DrainReturn, prodVars
  <2>2. drain.waiting = FALSE
    BY <1>0, <2>1, DrainFields DEF Draining
  <2>3. NoneHeard(ch', inClient') /\ ack' = "none"
    BY <2>1, <2>2 DEF ReplayInv
  <2>4. ~(drain'.left > 0) /\ drain'.waiting = FALSE
    BY <2>1, NoDrainIs
  <2> QED
    BY <2>3, <2>4, ReplayIdle
<1> QED
  BY <1>1, <1>3, <1>4, <1>5, <1>6, <1>7 DEF Drain

\* The worker's sends are not awaited, and leave the oldest segment in place.
LEMMA WorkerReplay == ASSUME TypeInv, ReplayInv, Worker PROVE ReplayInv'
<1>1. cur \in Msgs
  BY DEF Worker, TypeInv, WorkerHolds
<1>2. CASE SendLoad \/ SendKafkaFails
  <2>1. UNCHANGED <<ch, inClient, ack, broker, drain, walSealed>>
    BY <1>2 DEF SendLoad, SendKafkaFails, prodVars, wal
  <2> QED
    BY <2>1, ReplayFrame
<1>3. ASSUME NEW r, SendKafka(cur, r) \/ SendWal(cur, r) \/ SendWalFails(r) PROVE ReplayInv'
  <2>1. UNCHANGED <<inClient, ack, broker, drain>>
    BY <1>3 DEF SendKafka, SendWal, SendWalFails, prodVars
  <2>2. UNCHANGED ch \/ Produce(cur, "none")
    BY <1>3 DEF SendKafka, SendWal, SendWalFails, prodVars
  <2>3. walSealed # <<>> => Head(walSealed') = Head(walSealed)
    <3>1. CASE WalWrite(cur)
      BY <1>1, <3>1, WriteKept
    <3>2. CASE UNCHANGED walSealed
      BY <3>2
    <3> QED
      BY <1>3, <3>1, <3>2 DEF SendKafka, SendWal, SendWalFails, wal
  <2> QED
    BY <1>1, <2>1, <2>2, <2>3, ReplayFrame
<1> QED
  BY <1>2, <1>3 DEF Worker

\* A drain starts when none is running: nothing is expected from the producer.
LEMMA DrainBegins ==
  ASSUME TypeInv, ReplayInv, drain = NoDrain, UNCHANGED <<ch, inClient, ack, broker, walSealed>>,
         NEW b \in {"monitor", "close"}, drain' = NoDrain \/ drain' = DrainOf(b)
  PROVE  ReplayInv'
<1>1. NoneHeard(ch', inClient') /\ ack' = "none"
  BY NoDrainIs DEF ReplayInv
<1>2. drain'.pos = 1 /\ drain'.waiting = FALSE
  <2>1. DrainOf(b).pos = 1 /\ DrainOf(b).waiting = FALSE
    <3>1. Len(walSealed) \in Nat
      BY DEF TypeInv, TypeOK, AdapterTypeOK
    <3>2. LET d == [NoDrain EXCEPT !.by = b, !.left = Len(walSealed)] IN
          d \in DrainRecords /\ d.left = Len(walSealed) /\ d.pos = 1 /\ d.waiting = FALSE
      <4>1. b \in {"none", "monitor", "close"}
        OBVIOUS
      <4> QED
        BY <3>1, <4>1, DrainStarts, ZenonT(40)
    <3> QED
      BY <3>2, Zenon DEF DrainOf
  <2> QED
    BY <2>1, NoDrainIs
<1>3. \A j \in 1..Len(Head(walSealed')) : ~(j < 1)
  OBVIOUS
<1> QED
  BY <1>1, <1>2, <1>3, ReplayIdle

\* So do the probes; a drain of the monitor starts afresh.
LEMMA MonitorReplay == ASSUME TypeInv, ReplayInv, Monitor PROVE ReplayInv'
<1>1. CASE MonitorProbe
  BY <1>1, ReplayFrame DEF MonitorProbe, wal
<1>2. CASE MonitorDrain
  BY <1>2, DrainBegins DEF MonitorDrain, prodVars, wal
<1>3. CASE MonitorExit
  BY <1>3, ReplayFrame DEF MonitorExit, prodVars, wal
<1> QED
  BY <1>1, <1>2, <1>3 DEF Monitor

\* The last drain starts afresh; closing the log and the producer comes after it.
LEMMA ShutdownReplay == ASSUME TypeInv, ShutdownInv, ReplayInv, Shutdown PROVE ReplayInv'
<1>1. CASE CloseBegin \/ CloseReturn
  BY <1>1, ReplayFrame DEF CloseBegin, CloseReturn, prodVars, wal
<1>2. CASE CloseDrain
  <2>1. drain = NoDrain
    BY <1>2 DEF CloseDrain, TypeInv, DrainOK
  <2> QED
    BY <1>2, <2>1, DrainBegins DEF CloseDrain, prodVars, wal
<1>3. CASE CloseWal
  <2>1. WalSeal /\ UNCHANGED <<ch, inClient, ack, broker, drain>>
    BY <1>3 DEF CloseWal
  <2> QED
    BY <2>1, SealKept, ReplayFrame
<1>4. CASE close = "closingKafka" /\ CloseTimeout /\ UNCHANGED adapterVars
  <2>1. drain' = NoDrain /\ drain = NoDrain
    BY <1>4 DEF ShutdownInv, DrainsOver, adapterVars
  <2>2. ack' = "none"
    BY <1>4, <2>1, NoDrainIs DEF CloseTimeout, ReplayInv
  <2>3. NoneHeard(ch', inClient')
    BY <1>4, EmptyHeard DEF CloseTimeout
  <2>4. ~(drain'.left > 0) /\ drain'.waiting = FALSE
    BY <2>1, NoDrainIs
  <2> QED
    BY <2>2, <2>3, <2>4, ReplayIdle
<1> QED
  BY <1>1, <1>2, <1>3, <1>4 DEF Shutdown, Close

\* At first nothing is drained.
LEMMA InitReplay == Init => ReplayInv
<1> SUFFICES ASSUME Init PROVE ReplayInv
  OBVIOUS
<1>1. ch = <<>> /\ inClient = <<>> /\ ack = "none" /\ drain = NoDrain
  BY DEF Init, ProdInit, AdapterInit, AdapterStart
<1>2. NoneHeard(ch, inClient)
  BY <1>1, EmptyHeard
<1>3. ~(drain.left > 0) /\ drain.waiting = FALSE
  BY <1>1, NoDrainIs
<1> QED
  BY <1>1, <1>2, <1>3, NoneIsHeard DEF ReplayInv

\* A new process drains nothing and its producer is empty.
LEMMA RestartReplay == ASSUME TypeInv, ReplayInv, Restart PROVE ReplayInv'
<1>1. ch' = <<>> /\ inClient' = <<>> /\ ack' = "none" /\ drain' = NoDrain
  BY DEF Restart
<1>2. NoneHeard(ch', inClient')
  BY <1>1, EmptyHeard
<1>3. ~(drain'.left > 0) /\ drain'.waiting = FALSE
  BY <1>1, NoDrainIs
<1> QED
  BY <1>1, <1>2, <1>3, ReplayIdle

\* While a drain waits its record is the only one the producer may answer for, the
\* answer is kept until it is read, and the records before it are with the broker.
THEOREM ReplayIsExact == Spec => []ReplayInv
<1>1. ASSUME TypeInv, ShutdownInv, ReplayInv, [Next]_vars PROVE ReplayInv'
  <2>1. CASE Pipe \/ Exited \/ UNCHANGED vars
    BY <1>1, <2>1, ReplayFrame DEF Pipe, Exited, vars, prodVars, adapterVars, wal
  <2>2. CASE Adapter
    <3>1. CASE WalCleanup
      BY <1>1, <3>1, ReplayFrame DEF WalCleanup, prodVars
    <3> QED
      BY <1>1, <2>2, <3>1, MonitorReplay, DrainReplay DEF Adapter
  <2> QED
    BY <1>1, <2>1, <2>2, KafkaReplay, WorkerReplay, ShutdownReplay, RestartReplay DEF Next
<1> QED
  BY <1>1, InitReplay, TypeInvariant, ShutdownInvariant, PTL DEF Spec
-----------------------------------------------------------------------------
\* What a sequence holds, and what the WAL and the producer hold.
LEMMA ElementsAre ==
  ASSUME NEW S, NEW q \in Seq(S), NEW e \in S
  PROVE  /\ Elements(Append(q, e)) = Elements(q) \cup {e}
         /\ q # <<>> => Elements(q) = Elements(Tail(q)) \cup {Head(q)} /\ Head(q) \in S
         /\ Elements(q) \subseteq S
         /\ \A i \in 1..Len(q) : q[i] \in Elements(q)
<1>1. Len(q) \in Nat /\ DOMAIN q = 1..Len(q)
  OBVIOUS
<1>2. Elements(Append(q, e)) = Elements(q) \cup {e}
  <2> DEFINE a == Append(q, e)
  <2>1. DOMAIN a = 1..Len(q) + 1 /\ a[Len(q) + 1] = e /\ \A i \in 1..Len(q) : a[i] = q[i]
    BY <1>1
  <2> HIDE DEF a
  <2>2. Elements(a) = Elements(q) \cup {e}
    BY <1>1, <2>1 DEF Elements
  <2> QED
    BY <2>2 DEF a
<1>3. ASSUME q # <<>> PROVE Elements(q) = Elements(Tail(q)) \cup {Head(q)} /\ Head(q) \in S
  <2> DEFINE t == Tail(q)
  <2>1. /\ Len(q) \in Nat \ {0} /\ DOMAIN t = 1..Len(q) - 1 /\ Head(q) = q[1]
        /\ \A i \in 1..Len(q) - 1 : t[i] = q[i + 1]
    BY <1>3
  <2> HIDE DEF t
  <2>2. \A i \in 1..Len(q) : i = 1 \/ (i - 1 \in 1..Len(q) - 1 /\ q[i] = t[i - 1])
    BY <2>1
  <2>3. Elements(q) \subseteq Elements(t) \cup {Head(q)}
    BY <1>1, <2>1, <2>2 DEF Elements
  <2>4. Elements(t) \subseteq Elements(q) /\ Head(q) \in Elements(q)
    BY <1>1, <2>1, SMTT(30) DEF Elements
  <2>5. Head(q) \in S
    BY <1>3
  <2> QED
    BY <2>3, <2>4, <2>5 DEF t
<1>4. Elements(q) \subseteq S /\ \A i \in 1..Len(q) : q[i] \in Elements(q)
  BY <1>1 DEF Elements
<1> QED
  BY <1>2, <1>3, <1>4

\* The types of the log.
LEMMA WalType == ASSUME TypeInv PROVE walSealed \in Seq(Seq(Msgs)) /\ walActive \in Seq(Msgs)
  BY DEF TypeInv, TypeOK, AdapterTypeOK

\* Once sealed, the log is its sealed segments.
LEMMA SealedInWal ==
  ASSUME TypeInv, WalSeal
  PROVE  UNION {Elements(s) : s \in Elements(walSealed')} = InWal
<1>1. CASE walActive = <<>>
  <2>1. walSealed' = walSealed /\ Elements(walActive) = {}
    BY <1>1 DEF WalSeal, Elements
  <2> QED
    BY <2>1 DEF InWal
<1>2. CASE walActive # <<>>
  <2>1. Elements(walSealed') = Elements(walSealed) \cup {walActive}
    BY <1>2, WalType, ElementsAre DEF WalSeal
  <2> QED
    BY <2>1 DEF InWal
<1> QED
  BY <1>1, <1>2

\* Sealing loses nothing.
LEMMA SealWal == ASSUME TypeInv, WalSeal, walActive' = <<>> PROVE InWal' = InWal
<1>1. Elements(walActive') = {}
  BY DEF Elements
<1> QED
  BY <1>1, SealedInWal DEF InWal

\* A write adds its message.
LEMMA WriteWal ==
  ASSUME TypeInv, NEW m \in Msgs, WalWrite(m) PROVE InWal' = InWal \cup {m}
<1>1. CASE WalSeal /\ walActive' = <<m>>
  <2>1. Elements(walActive') = {m}
    BY <1>1 DEF Elements
  <2> QED
    BY <1>1, <2>1, SealedInWal DEF InWal
<1>2. CASE walActive' = Append(walActive, m) /\ UNCHANGED walSealed
  <2>1. Elements(walActive') = Elements(walActive) \cup {m}
    BY <1>2, WalType, ElementsAre
  <2> QED
    BY <1>2, <2>1 DEF InWal
<1> QED
  BY <1>1, <1>2 DEF WalWrite

\* A segment marked done takes away its own records at most.
LEMMA RetireWal ==
  ASSUME TypeInv, walSealed # <<>>, walSealed' = Tail(walSealed), UNCHANGED walActive
  PROVE  InWal = InWal' \cup Elements(Head(walSealed))
<1>1. Elements(walSealed) = Elements(walSealed') \cup {Head(walSealed)}
  <2>1. <<>> \in Seq(Msgs)
    OBVIOUS
  <2> QED
    BY <2>1, WalType, ElementsAre
<1> QED
  BY <1>1 DEF InWal

\* What a queue of envelopes carries after an append, a receive, a removal, a cut-off.
LEMMA MessagesAre ==
  ASSUME NEW q \in Seq(Envelopes)
  PROVE  /\ \A e \in Envelopes : Messages(Append(q, e)) = Messages(q) \cup ({e.msg} \ {Probe})
         /\ q # <<>> => Messages(q) = Messages(Tail(q)) \cup ({Head(q).msg} \ {Probe})
         /\ \A i \in DOMAIN q :
              Messages(q) \subseteq Messages(RemoveAt(q, i)) \cup ({q[i].msg} \ {Probe})
         /\ Messages(Unheard(q)) = Messages(q)
<1>1. Len(q) \in Nat /\ DOMAIN q = 1..Len(q)
  OBVIOUS
<1>2. ASSUME NEW e \in Envelopes
      PROVE  Messages(Append(q, e)) = Messages(q) \cup ({e.msg} \ {Probe})
  <2> DEFINE a == Append(q, e)
  <2>1. DOMAIN a = 1..Len(q) + 1 /\ a[Len(q) + 1] = e /\ \A i \in 1..Len(q) : a[i] = q[i]
    BY <1>1
  <2> HIDE DEF a
  <2>2. Messages(a) = Messages(q) \cup ({e.msg} \ {Probe})
    BY <1>1, <2>1 DEF Messages
  <2> QED
    BY <2>2 DEF a
<1>3. ASSUME q # <<>>
      PROVE  Messages(q) = Messages(Tail(q)) \cup ({Head(q).msg} \ {Probe})
  <2> DEFINE t == Tail(q)
  <2>1. /\ Len(q) \in Nat \ {0} /\ DOMAIN t = 1..Len(q) - 1 /\ Head(q) = q[1]
        /\ \A i \in 1..Len(q) - 1 : t[i] = q[i + 1]
    BY <1>3
  <2> HIDE DEF t
  <2>2. \A i \in 1..Len(q) : i = 1 \/ (i - 1 \in 1..Len(q) - 1 /\ q[i] = t[i - 1])
    BY <2>1
  <2>3. Messages(q) \subseteq Messages(t) \cup ({Head(q).msg} \ {Probe})
    BY <1>1, <2>1, <2>2, SMTT(30) DEF Messages
  <2>4. Messages(t) \subseteq Messages(q) /\ {Head(q).msg} \ {Probe} \subseteq Messages(q)
    BY <1>1, <2>1, SMTT(30) DEF Messages
  <2> QED
    BY <2>3, <2>4 DEF t
<1>4. ASSUME NEW i \in DOMAIN q
      PROVE  Messages(q) \subseteq Messages(RemoveAt(q, i)) \cup ({q[i].msg} \ {Probe})
  <2> DEFINE l == RemoveAt(q, i)
  <2>1. /\ l \in Seq(Envelopes) /\ Len(l) = Len(q) - 1
        /\ \A j \in 1..Len(q) - 1 : l[j] = IF j < i THEN q[j] ELSE q[j + 1]
    BY Removed
  <2> HIDE DEF l
  <2>2. DOMAIN l = 1..Len(q) - 1
    BY <1>1, <2>1
  <2>3. ASSUME NEW j \in 1..Len(q), j # i PROVE \E n \in DOMAIN l : l[n] = q[j]
    <3>1. CASE j < i
      <4>1. j \in DOMAIN l /\ l[j] = q[j]
        BY <1>1, <2>1, <2>2, <3>1
      <4> QED
        BY <4>1
    <3>2. CASE ~(j < i)
      <4>1. j - 1 \in DOMAIN l /\ ~(j - 1 < i) /\ (j - 1) + 1 = j
        BY <1>1, <2>2, <2>3, <3>2
      <4>2. l[j - 1] = q[j]
        BY <2>1, <2>2, <4>1
      <4> QED
        BY <4>1, <4>2
    <3> QED
      BY <3>1, <3>2
  <2>4. Messages(q) \subseteq Messages(l) \cup ({q[i].msg} \ {Probe})
    BY <1>1, <2>3 DEF Messages
  <2> QED
    BY <2>4 DEF l
<1>5. Messages(Unheard(q)) = Messages(q)
  <2>1. DOMAIN Unheard(q) = DOMAIN q
    BY DEF Unheard
  <2> QED
    BY <2>1, UnheardType DEF Messages
<1> QED
  BY <1>2, <1>3, <1>4, <1>5
-----------------------------------------------------------------------------
\* Where an accepted message may be.
Dropped == {m \in Msgs : fate[m] # "none"}
Kept == InMemory \cup InWal \cup broker \cup expired \cup Dropped

\* A record a drain waits for is still in the log.
LEMMA WantedInWal ==
  ASSUME TypeInv, drain.waiting = TRUE PROVE Wanted \in InWal
<1>1. /\ drain.pos \in 1..Len(Head(walSealed)) /\ walSealed # <<>>
      /\ Head(walSealed) \in Seq(Msgs) /\ walSealed \in Seq(Seq(Msgs))
  BY DrainFields DEF SegmentRead, Draining
<1>2. <<>> \in Seq(Msgs)
  OBVIOUS
<1>3. Head(walSealed) \in Elements(walSealed)
  BY <1>1, <1>2, ElementsAre
<1>4. Wanted \in Elements(Head(walSealed))
  BY <1>1 DEF Wanted, Elements
<1> QED
  BY <1>3, <1>4 DEF InWal

\* When a segment is marked done the broker has all of it.
LEMMA RetiredIsDelivered ==
  ASSUME TypeInv, ReplayInv, DrainSegmentDone
  PROVE  /\ Elements(Head(walSealed)) \subseteq broker
         /\ InWal = InWal' \cup Elements(Head(walSealed))
<1>1. /\ SegmentRead /\ walSealed' = Tail(walSealed) /\ UNCHANGED walActive
  BY DEF DrainSegmentDone
<1>2. /\ Draining /\ drain.pos > Len(Head(walSealed)) /\ drain.left > 0
      /\ walSealed # <<>> /\ Head(walSealed) \in Seq(Msgs) /\ drain.pos \in Nat
  BY <1>1, DrainFields DEF SegmentRead
<1>3. \A j \in 1..Len(Head(walSealed)) : j < drain.pos
  <2>1. Len(Head(walSealed)) \in Nat
    BY <1>2
  <2> QED
    BY <1>2, <2>1
<1>4. Elements(Head(walSealed)) \subseteq broker
  <2>1. DOMAIN Head(walSealed) = 1..Len(Head(walSealed))
    BY <1>2
  <2> QED
    BY <1>2, <1>3, <2>1 DEF ReplayInv, Elements
<1> QED
  BY <1>1, <1>2, <1>4, RetireWal

\* A record on its way through the producer ends at the broker, expired, or still in the log.
LEMMA KafkaKeeps == ASSUME TypeInv, ReplayInv, Kafka PROVE Kept \subseteq Kept'
<1>1. /\ UNCHANGED <<walSealed, walActive, drain, queue, cur, fate>> /\ ProdNext
  BY DEF Kafka, Aside, adapterVars, wal, pipeVars
<1>2. InWal' = InWal /\ Dropped' = Dropped /\ Elements(queue') = Elements(queue) /\ cur' = cur
  BY <1>1 DEF InWal, Dropped
<1>3. CASE Flusher
  <2>1. ch # <<>> /\ ch' = Tail(ch) /\ inClient' = Append(inClient, Head(ch))
        /\ UNCHANGED <<broker, expired>>
    BY <1>3 DEF Flusher
  <2>2. Head(ch) \in Envelopes
    BY <2>1, Chans
  <2>3. Messages(ch) \cup Messages(inClient) = Messages(ch') \cup Messages(inClient')
    <3>1. Messages(ch) = Messages(Tail(ch)) \cup ({Head(ch).msg} \ {Probe})
      BY <2>1, Chans, MessagesAre
    <3>2. Messages(Append(inClient, Head(ch))) = Messages(inClient) \cup ({Head(ch).msg} \ {Probe})
      BY <2>2, Chans, MessagesAre
    <3> QED
      BY <2>1, <3>1, <3>2
  <2> QED
    BY <1>2, <2>1, <2>3 DEF Kept, InMemory
<1>4. CASE BrokerAcks
  <2>1. PICK i \in DOMAIN inClient : /\ broker' = broker \cup ({inClient[i].msg} \ {Probe})
                                     /\ inClient' = RemoveAt(inClient, i)
    BY <1>4 DEF BrokerAcks
  <2>2. Messages(inClient) \subseteq Messages(inClient') \cup ({inClient[i].msg} \ {Probe})
    BY <2>1, Chans, MessagesAre
  <2>3. UNCHANGED <<ch, expired>>
    BY <1>4 DEF BrokerAcks
  <2> QED
    BY <1>2, <2>1, <2>2, <2>3 DEF Kept, InMemory
<1>5. CASE RecordFails
  <2>1. PICK i \in DOMAIN inClient :
            /\ IF inClient[i].onAck = "sync"
               THEN ack' = "err" /\ UNCHANGED expired
               ELSE expired' = expired \cup ({inClient[i].msg} \ {Probe}) /\ UNCHANGED ack
            /\ inClient' = RemoveAt(inClient, i)
    BY <1>5 DEF RecordFails
  <2>2. Messages(inClient) \subseteq Messages(inClient') \cup ({inClient[i].msg} \ {Probe})
    BY <2>1, Chans, MessagesAre
  <2>3. UNCHANGED <<ch, broker>>
    BY <1>5 DEF RecordFails
  <2>4. CASE inClient[i].onAck = "sync"
    <3>1. PICK w : w = Wanted
      OBVIOUS
    <3>2. /\ NoneHeard(ch, inClient) => inClient[i].onAck # "sync"
          /\ Heard(ch, inClient, w) => inClient[i].msg = w
      BY <2>1, <2>4, Chans, AnswerHeard, ZenonT(40)
    <3>3. drain.waiting = TRUE /\ inClient[i].msg = Wanted
      BY <2>4, <3>1, <3>2, DrainFields DEF ReplayInv
    <3>4. inClient[i].msg \in InWal
      BY <3>3, WantedInWal
    <3> QED
      BY <1>2, <2>1, <2>2, <2>3, <2>4, <3>4 DEF Kept, InMemory
  <2>5. CASE inClient[i].onAck # "sync"
    BY <1>2, <2>1, <2>2, <2>3, <2>5 DEF Kept, InMemory
  <2> QED
    BY <2>4, <2>5
<1>6. CASE BrokerDown \/ BrokerBack
  BY <1>2, <1>6 DEF BrokerDown, BrokerBack, Kept, InMemory
<1> QED
  BY <1>1, <1>3, <1>4, <1>5, <1>6 DEF ProdNext

\* A drain takes from the log only what the broker has.
LEMMA DrainKeeps == ASSUME TypeInv, ReplayInv, Drain, Aside PROVE Kept \subseteq Kept'
<1>1. UNCHANGED <<queue, cur, fate>>
  BY DEF Aside, pipeVars
<1>2. Dropped' = Dropped /\ Elements(queue') = Elements(queue) /\ cur' = cur
  BY <1>1 DEF Dropped
<1>3. CASE DrainProduce
  <2>1. /\ Draining /\ ~SegmentRead /\ Produce(Wanted, "sync")
        /\ UNCHANGED <<inClient, broker, expired, walSealed, walActive>>
    BY <1>3 DEF DrainProduce, Wanted, wal
  <2>2. PICK w \in Msgs : w = Wanted
    BY <2>1, DrainFields DEF Wanted, Draining, SegmentRead
  <2>3. Envelope(w, "sync") \in Envelopes /\ ch' = Append(ch, Envelope(w, "sync"))
    BY <2>1, <2>2, EnvelopeType DEF Produce
  <2>4. Messages(ch) \subseteq Messages(ch')
    BY <2>3, Chans, MessagesAre
  <2> QED
    BY <1>2, <2>1, <2>4 DEF Kept, InMemory, InWal
<1>4. CASE DrainProduceFails \/ DrainReturn
  BY <1>2, <1>4 DEF DrainProduceFails, DrainReturn, prodVars, wal, Kept, InMemory, InWal
<1>5. CASE DrainAnswered
  BY <1>2, <1>5 DEF DrainAnswered, wal, Kept, InMemory, InWal
<1>6. CASE DrainSegmentDone
  <2>1. UNCHANGED <<ch, inClient, broker, expired>>
    BY <1>6 DEF DrainSegmentDone, prodVars
  <2>2. InWal \subseteq InWal' \cup broker
    BY <1>6, RetiredIsDelivered
  <2> QED
    BY <1>2, <2>1, <2>2 DEF Kept, InMemory
<1>7. CASE DrainTimeout
  <2>1. /\ ch' = Unheard(ch) /\ inClient' = Unheard(inClient)
        /\ UNCHANGED <<broker, expired, walSealed, walActive>>
    BY <1>7 DEF DrainTimeout, Abandon, wal
  <2>2. Messages(ch') = Messages(ch) /\ Messages(inClient') = Messages(inClient)
    BY <2>1, Chans, MessagesAre
  <2> QED
    BY <1>2, <2>1, <2>2 DEF Kept, InMemory, InWal
<1> QED
  BY <1>3, <1>4, <1>5, <1>6, <1>7 DEF Drain

\* What the worker holds goes to the producer, to the WAL, or is dropped with its cause.
LEMMA WorkerKeeps == ASSUME TypeInv, Worker PROVE Kept \subseteq Kept'
<1>1. worker = "sending" /\ cur \in Msgs
  BY DEF Worker, TypeInv, WorkerHolds
<1>2. CASE (SendLoad \/ SendKafkaFails) /\ UNCHANGED <<pipeVars, fate>>
  BY <1>2 DEF SendLoad, SendKafkaFails, pipeVars, prodVars, wal, Kept, InMemory, InWal, Dropped
<1>3. ASSUME NEW r \in SendResults,
             SendKafka(cur, r) \/ SendWal(cur, r) \/ SendWalFails(r),
             WorkerReturn(r),
             fate' = IF r = "ok" THEN fate ELSE [fate EXCEPT ![cur] = r]
      PROVE  Kept \subseteq Kept'
  <2>1. queue' = queue /\ cur' = Nothing
    BY <1>3 DEF WorkerReturn
  <2>2. UNCHANGED <<inClient, broker, expired>>
    BY <1>3 DEF SendKafka, SendWal, SendWalFails, prodVars
  <2>3. Dropped \subseteq Dropped' /\ (r # "ok" => cur \in Dropped')
    <3>1. fate \in [Msgs -> {"none", "backpressure", "closed", "error", "crash"}]
      BY DEF TypeInv, TypeOK
    <3> QED
      BY <1>1, <1>3, <3>1 DEF SendResults, Dropped
  <2>4. Messages(ch) \subseteq Messages(ch') /\ InWal \subseteq InWal'
        /\ (r = "ok" => cur \in Messages(ch') \cup InWal')
    <3>1. CASE SendKafka(cur, r)
      <4>1. InWal' = InWal
        BY <3>1 DEF SendKafka, wal, InWal
      <4>2. CASE r = "ok"
        <5>1. ch' = Append(ch, Envelope(cur, "none"))
          BY <3>1, <4>2 DEF SendKafka, Produce
        <5>2. Envelope(cur, "none") \in Envelopes /\ Envelope(cur, "none").msg = cur
          BY <1>1, EnvelopeType
        <5>3. Messages(ch') = Messages(ch) \cup ({cur} \ {Probe})
          BY <5>1, <5>2, Chans, MessagesAre
        <5> QED
          BY <1>1, <4>1, <5>3, GatewayAssumption
      <4>3. CASE r # "ok"
        <5>1. ch' = ch
          BY <3>1, <4>3 DEF SendKafka
        <5> QED
          BY <4>1, <4>3, <5>1
      <4> QED
        BY <4>2, <4>3
    <3>2. CASE SendWal(cur, r)
      <4>1. ch' = ch
        BY <3>2 DEF SendWal, prodVars
      <4>2. CASE r = "ok"
        <5>1. WalWrite(cur)
          BY <3>2, <4>2 DEF SendWal, WalError
        <5> QED
          BY <1>1, <4>1, <5>1, WriteWal
      <4>3. CASE r # "ok"
        <5>1. UNCHANGED wal
          BY <3>2, <4>3 DEF SendWal
        <5> QED
          BY <4>1, <4>3, <5>1 DEF wal, InWal
      <4> QED
        BY <4>2, <4>3
    <3>3. CASE SendWalFails(r)
      BY <3>3 DEF SendWalFails, prodVars, wal, InWal
    <3> QED
      BY <1>3, <3>1, <3>2, <3>3
  <2> QED
    BY <2>1, <2>2, <2>3, <2>4 DEF Kept, InMemory
<1> QED
  BY <1>2, <1>3 DEF Worker

\* The sink's own goroutines lose nothing.
LEMMA AdapterKeeps == ASSUME TypeInv, ReplayInv, Adapter PROVE Kept \subseteq Kept'
<1>1. Aside /\ UNCHANGED <<queue, cur, fate>>
  BY DEF Adapter, Aside, pipeVars
<1>2. CASE MonitorProbe
  <2>1. /\ ch' = Append(ch, Envelope(Probe, "none"))
        /\ UNCHANGED <<inClient, broker, expired, walSealed, walActive>>
    BY <1>2 DEF MonitorProbe, Produce, wal
  <2>2. Envelope(Probe, "none") \in Envelopes
    BY EnvelopeType
  <2>3. Messages(ch) \subseteq Messages(ch')
    BY <2>1, <2>2, Chans, MessagesAre
  <2> QED
    BY <1>1, <2>1, <2>3 DEF Kept, InMemory, InWal, Dropped
<1>3. CASE MonitorDrain \/ MonitorExit \/ WalCleanup
  BY <1>1, <1>3
  DEF MonitorDrain, MonitorExit, WalCleanup, prodVars, wal, Kept, InMemory, InWal, Dropped
<1>4. CASE Drain
  BY <1>1, <1>4, DrainKeeps
<1> QED
  BY <1>2, <1>3, <1>4 DEF Adapter, Monitor

\* Nor does the shutdown: what its time limit cuts off has expired.
LEMMA ShutdownKeeps == ASSUME TypeInv, Shutdown PROVE Kept \subseteq Kept'
<1>1. UNCHANGED <<queue, cur, fate>>
  BY DEF Shutdown, Aside, pipeVars
<1>2. CASE CloseBegin \/ CloseDrain \/ CloseReturn
  BY <1>1, <1>2
  DEF CloseBegin, CloseDrain, CloseReturn, prodVars, wal, Kept, InMemory, InWal, Dropped
<1>3. CASE CloseWal
  <2>1. InWal' = InWal /\ UNCHANGED <<ch, inClient, broker, expired>>
    BY <1>3, SealWal DEF CloseWal
  <2> QED
    BY <1>1, <2>1 DEF Kept, InMemory, Dropped
<1>4. CASE close = "closingKafka" /\ CloseTimeout /\ UNCHANGED adapterVars
  <2>1. InWal' = InWal
    BY <1>4 DEF adapterVars, wal, InWal
  <2>2. expired' = expired \cup Messages(ch) \cup Messages(inClient) /\ broker' = broker
    BY <1>4 DEF CloseTimeout
  <2> QED
    BY <1>1, <2>1, <2>2 DEF Kept, InMemory, Dropped
<1> QED
  BY <1>2, <1>3, <1>4 DEF Shutdown, Close

\* What a crash takes from memory is marked, unless the WAL or the broker has it.
LEMMA RestartKeeps == ASSUME TypeInv, Restart PROVE Kept \subseteq Kept'
<1>1. InWal' = InWal /\ UNCHANGED <<broker, expired>>
  BY SealWal DEF Restart
<1>2. InMemory \subseteq Msgs
  <2>1. queue \in Seq(Msgs) /\ cur \in Msgs \cup {Nothing}
    BY DEF TypeInv, TypeOK, PipeTypeOK
  <2>2. Elements(queue) \subseteq Msgs
    BY <2>1 DEF Elements
  <2> QED
    BY <2>1, <2>2, Chans, MessagesType DEF InMemory
<1>3. fate' = [m \in Msgs |->
               IF m \in InMemory \ (InWal \cup broker) THEN "crash" ELSE fate[m]]
  BY DEF Restart
<1>4. Dropped \subseteq Dropped'
  BY <1>3 DEF Dropped
<1>5. InMemory \subseteq InWal \cup broker \cup Dropped'
  BY <1>2, <1>3 DEF Dropped
<1> QED
  BY <1>1, <1>4, <1>5 DEF Kept

\* An accepted message is in the queue, and then in the hands of the worker.
LEMMA PipeKeeps ==
  ASSUME TypeInv, ShutdownInv, Pipe, Accepted \subseteq Kept PROVE Accepted' \subseteq Kept'
<1>1. UNCHANGED <<ch, inClient, broker, expired, walActive, walSealed, fate>> /\ PipeEnv
  BY DEF Pipe, prodVars, adapterVars, wal
<1>2. InWal' = InWal /\ Dropped' = Dropped
  BY <1>1 DEF InWal, Dropped
<1>3. queue \in Seq(Msgs) /\ accepted \in Seq(Msgs)
  BY DEF TypeInv, TypeOK, PipeTypeOK
<1>4. ASSUME NEW h \in Handlers, SubmitSend(h) PROVE Accepted' \subseteq Kept'
  <2>1. CASE queue' = Append(queue, hand[h]) /\ accepted' = Append(accepted, hand[h])
    <3>1. hand[h] \in Msgs
      BY <1>4 DEF SubmitSend, TypeInv, TypeOK, PipeTypeOK
    <3>2. Elements(queue') = Elements(queue) \cup {hand[h]}
          /\ Elements(accepted') = Elements(accepted) \cup {hand[h]}
      BY <1>3, <2>1, <3>1, ElementsAre
    <3>3. cur' = cur
      BY <1>4 DEF SubmitSend
    <3> QED
      BY <1>1, <1>2, <3>2, <3>3 DEF Accepted, Kept, InMemory
  <2>2. CASE UNCHANGED <<queue, accepted>>
    BY <1>1, <1>2, <1>4, <2>2 DEF SubmitSend, Accepted, Kept, InMemory
  <2> QED
    BY <1>4, <2>1, <2>2 DEF SubmitSend
<1>5. CASE WorkerTake
  <2>1. queue # <<>> /\ cur' = Head(queue) /\ queue' = Tail(queue) /\ accepted' = accepted
        /\ worker = "idle"
    BY <1>5 DEF WorkerTake
  <2>2. Elements(queue) = Elements(queue') \cup {Head(queue)} /\ Head(queue) \in Msgs
    <3>1. PICK m \in Msgs : m = Head(queue)
      BY <1>3, <2>1
    <3> QED
      BY <1>3, <2>1, <3>1, ElementsAre
  <2>3. Head(queue) # Nothing /\ cur = Nothing
    BY <2>1, <2>2, PipelineAssumption DEF ShutdownInv, QueueDrained
  <2> QED
    BY <1>1, <1>2, <2>1, <2>2, <2>3 DEF Accepted, Kept, InMemory
<1>6. ASSUME UNCHANGED <<queue, cur, accepted>> PROVE Accepted' \subseteq Kept'
  BY <1>1, <1>2, <1>6 DEF Accepted, Kept, InMemory
<1> QED
  BY <1>1, <1>4, <1>5, <1>6 DEF PipeEnv, SubmitCheck, StopBegin, StopClose, StopReturn, WorkerEnd

\* Every accepted message is in memory on its way, in the WAL, at the broker, or dropped
\* for a cause the code reports; no handover loses one (pipeline.go:86-134,
\* sink.go:126-377).
THEOREM NothingVanishes == Spec => []Conservation
<1>1. (Conservation <=> Accepted \subseteq Kept) /\ (Conservation' <=> Accepted' \subseteq Kept')
  BY DEF Conservation, Kept, Dropped
<1>2. Init => Conservation
  BY DEF Init, PipeInit, Conservation, Accepted, Elements
<1>3. ASSUME TypeInv, ShutdownInv, ReplayInv, Conservation, [Next]_vars PROVE Conservation'
  <2>0. SUFFICES Accepted' \subseteq Kept'
    BY <1>1
  <2>1. CASE Pipe
    BY <1>1, <1>3, <2>1, PipeKeeps
  <2>2. ASSUME UNCHANGED accepted, Kept \subseteq Kept' PROVE Accepted' \subseteq Kept'
    BY <1>1, <1>3, <2>2 DEF Accepted
  <2>3. CASE Worker
    <3>1. UNCHANGED accepted
      BY <2>3 DEF Worker, WorkerReturn, pipeVars
    <3> QED
      BY <1>3, <2>2, <2>3, <3>1, WorkerKeeps
  <2>4. CASE Kafka \/ Adapter \/ Shutdown
    <3>1. UNCHANGED accepted
      BY <2>4 DEF Kafka, Adapter, Shutdown, Aside, pipeVars
    <3> QED
      BY <1>3, <2>2, <2>4, <3>1, KafkaKeeps, AdapterKeeps, ShutdownKeeps
  <2>5. CASE Restart
    <3>1. UNCHANGED accepted
      BY <2>5 DEF Restart
    <3> QED
      BY <1>3, <2>2, <2>5, <3>1, RestartKeeps
  <2>6. CASE Exited \/ UNCHANGED vars
    BY <1>1, <1>3, <2>6
    DEF Exited, vars, pipeVars, prodVars, adapterVars, wal, Accepted, Kept, InMemory, InWal, Dropped
  <2> QED
    BY <1>3, <2>1, <2>3, <2>4, <2>5, <2>6 DEF Next
<1> QED
  BY <1>2, <1>3, TypeInvariant, ShutdownInvariant, ReplayIsExact, PTL DEF Spec

\* Without an outage, a crash or a failed WAL write, and until the producer is closed,
\* no accepted message that the broker would take is lost, whatever the handlers, the
\* drains, refused neighbours and the shutdown interleave (sink.go:191-216).
THEOREM HealthyLosesNothing == Spec => []NoLossWhileHealthy
<1>1. TypeInv /\ ShutdownInv /\ BlameOK /\ Conservation => NoLossWhileHealthy
  <2> SUFFICES ASSUME TypeInv, ShutdownInv, BlameOK, Conservation,
                      outages = 0, restarts = 0, walErrors = 0, ~prodClosed,
                      NEW m \in Accepted \ Refused
               PROVE  m \in InMemory \cup InWal \cup broker
                              \cup {n \in Msgs : fate[n] = "backpressure"}
    BY DEF NoLossWhileHealthy
  <2>1. m \notin expired
    BY DEF BlameOK
  <2>2. CASE m \in Msgs /\ fate[m] # "none"
    <3>1. fate[m] \in {"none", "backpressure", "error", "crash"}
      BY <2>2 DEF ShutdownInv, FateIsReported
    <3> QED
      BY <2>2, <3>1 DEF BlameOK
  <2> QED
    BY <2>1, <2>2 DEF Conservation
<1> QED
  BY <1>1, LossHasCause, NothingVanishes, TypeInvariant, ShutdownInvariant, PTL
-----------------------------------------------------------------------------
\* No message is accepted twice, and the WAL is handed each one at most once.
Holds(h) == hand[h] # Nothing
OnceInv ==
  /\ \A i, j \in 1..Len(accepted) : accepted[i] = accepted[j] => i = j
  /\ \A h \in Handlers : Holds(h) => \A i \in 1..Len(accepted) : accepted[i] # hand[h]
  /\ \A g, h \in Handlers : Holds(g) /\ hand[g] = hand[h] => g = h
  /\ worker = "sending" => taken > 0 /\ cur = accepted[taken]
  /\ \A m \in spilled : \E i \in 1..taken :
       accepted[i] = m /\ (worker = "sending" => i < taken)

\* The queue's head is the next message in the order of acceptance.
LEMMA QueueFacts ==
  ASSUME TypeInv, QueueIsSuffix
  PROVE  /\ accepted \in Seq(Msgs) /\ Len(accepted) \in Nat /\ taken \in Nat
         /\ taken <= Len(accepted) /\ DOMAIN accepted = 1..Len(accepted)
         /\ queue # <<>> => Head(queue) = accepted[taken + 1] /\ taken < Len(accepted)
<1>1. queue \in Seq(Msgs) /\ accepted \in Seq(Msgs) /\ taken \in Nat
  BY DEF TypeInv, TypeOK, PipeTypeOK
<1>2. Len(queue) \in Nat /\ Len(accepted) \in Nat /\ taken + Len(queue) = Len(accepted)
  BY <1>1 DEF QueueIsSuffix
<1>3. ASSUME queue # <<>> PROVE Head(queue) = accepted[taken + 1] /\ taken < Len(accepted)
  <2>1. Head(queue) = queue[1] /\ 1 \in 1..Len(queue)
    BY <1>1, <1>3
  <2>2. queue[1] = accepted[taken + 1]
    BY <2>1 DEF QueueIsSuffix
  <2> QED
    BY <1>1, <1>2, <2>1, <2>2
<1> QED
  BY <1>1, <1>2, <1>3

\* A message in hand or accepted is not submitted again.
LEMMA PipeOnce == ASSUME TypeInv, QueueIsSuffix, OnceInv, Pipe PROVE OnceInv'
<1>0. /\ accepted \in Seq(Msgs) /\ Len(accepted) \in Nat /\ taken \in Nat
      /\ taken <= Len(accepted) /\ DOMAIN accepted = 1..Len(accepted)
      /\ hand \in [Handlers -> Msgs \cup {Nothing}]
  BY QueueFacts DEF TypeInv, TypeOK, PipeTypeOK
<1>1. UNCHANGED spilled /\ PipeEnv
  BY DEF Pipe, adapterVars, wal
<1>2. ASSUME NEW h \in Handlers, NEW m \in Msgs, SubmitCheck(h, m) PROVE OnceInv'
  <2>1. /\ hand' = [hand EXCEPT ![h] = m] /\ UNCHANGED <<accepted, taken, worker, cur>>
        /\ \A i \in 1..Len(accepted) : accepted[i] # m
        /\ \A g \in Handlers : hand[g] # m
    BY <1>0, <1>2 DEF SubmitCheck, Submittable
  <2>2. \A g \in Handlers : hand'[g] = IF g = h THEN m ELSE hand[g]
    BY <1>0, <2>1
  <2> QED
    BY <1>1, <2>1, <2>2 DEF OnceInv, Holds
<1>3. ASSUME NEW h \in Handlers, SubmitSend(h) PROVE OnceInv'
  <2>1. /\ Holds(h) /\ hand' = [hand EXCEPT ![h] = Nothing] /\ UNCHANGED <<taken, worker, cur>>
        /\ accepted' = accepted \/ accepted' = Append(accepted, hand[h])
    BY <1>3 DEF SubmitSend, Holds
  <2>2. \A g \in Handlers : hand'[g] = IF g = h THEN Nothing ELSE hand[g]
    BY <1>0, <2>1
  <2>3. CASE accepted' = accepted
    BY <1>1, <2>1, <2>2, <2>3 DEF OnceInv, Holds
  <2>4. CASE accepted' = Append(accepted, hand[h])
    <3>1. /\ Len(accepted') = Len(accepted) + 1 /\ accepted'[Len(accepted) + 1] = hand[h]
          /\ \A i \in 1..Len(accepted) : accepted'[i] = accepted[i]
      BY <1>0, <2>1, <2>4 DEF Holds
    <3>2. \A i \in 1..Len(accepted) : accepted[i] # hand[h]
      BY <2>1 DEF OnceInv
    <3>3. \A i, j \in 1..Len(accepted') : accepted'[i] = accepted'[j] => i = j
      <4>1. \A i \in 1..Len(accepted') : i \in 1..Len(accepted) \/ i = Len(accepted) + 1
        BY <1>0, <3>1
      <4> QED
        BY <3>1, <3>2, <4>1 DEF OnceInv
    <3>4. \A g \in Handlers : Holds(g)' => \A i \in 1..Len(accepted') : accepted'[i] # hand'[g]
      <4>1. \A i \in 1..Len(accepted') : i \in 1..Len(accepted) \/ i = Len(accepted) + 1
        BY <1>0, <3>1
      <4>2. ASSUME NEW g \in Handlers, Holds(g)' 
            PROVE  g # h /\ hand'[g] = hand[g] /\ Holds(g) /\ hand[g] # hand[h]
        BY <2>1, <2>2, <4>2 DEF Holds, OnceInv
      <4> QED
        BY <3>1, <4>1, <4>2 DEF OnceInv
    <3>5. \A g, k \in Handlers : Holds(g)' /\ hand'[g] = hand'[k] => g = k
      BY <2>2 DEF Holds, OnceInv
    <3>6. worker' = "sending" => taken' > 0 /\ cur' = accepted'[taken']
      BY <1>0, <2>1, <3>1 DEF OnceInv
    <3>7. \A m \in spilled' : \E i \in 1..taken' :
            accepted'[i] = m /\ (worker' = "sending" => i < taken')
      <4>1. \A i \in 1..taken : accepted'[i] = accepted[i]
        BY <1>0, <3>1
      <4> QED
        BY <1>1, <2>1, <4>1 DEF OnceInv
    <3> QED
      BY <3>3, <3>4, <3>5, <3>6, <3>7 DEF OnceInv
  <2> QED
    BY <2>1, <2>3, <2>4
<1>4. CASE WorkerTake
  <2>1. /\ worker = "idle" /\ worker' = "sending" /\ taken' = taken + 1
        /\ cur' = accepted[taken + 1] /\ UNCHANGED <<accepted, hand>>
    BY <1>4, QueueFacts DEF WorkerTake
  <2>2. \A m \in spilled' : \E i \in 1..taken' :
            accepted'[i] = m /\ (worker' = "sending" => i < taken')
    <3>1. \A m \in spilled : \E i \in 1..taken : accepted[i] = m
      BY DEF OnceInv
    <3>2. \A i \in 1..taken : i \in 1..taken' /\ i < taken'
      BY <1>0, <2>1
    <3> QED
      BY <1>1, <2>1, <3>1, <3>2
  <2> QED
    BY <1>0, <2>1, <2>2 DEF OnceInv, Holds
<1>5. CASE StopBegin \/ StopClose \/ StopReturn \/ WorkerEnd
  BY <1>1, <1>5 DEF StopBegin, StopClose, StopReturn, WorkerEnd, OnceInv, Holds
<1> QED
  BY <1>1, <1>2, <1>3, <1>4, <1>5 DEF PipeEnv

\* The WAL is handed the message taken last.
LEMMA WorkerOnce == ASSUME TypeInv, QueueIsSuffix, OnceInv, Worker PROVE OnceInv'
<1>0. taken \in Nat /\ taken <= Len(accepted) /\ Len(accepted) \in Nat /\ worker = "sending"
  BY QueueFacts DEF Worker
<1>1. CASE (SendLoad \/ SendKafkaFails) /\ UNCHANGED <<pipeVars, fate>>
  BY <1>1 DEF SendLoad, SendKafkaFails, pipeVars, wal, OnceInv, Holds
<1>2. ASSUME NEW r, SendKafka(cur, r) \/ SendWal(cur, r) \/ SendWalFails(r), WorkerReturn(r)
      PROVE  OnceInv'
  <2>1. UNCHANGED <<hand, accepted, taken>> /\ worker' # "sending"
    BY <1>2 DEF WorkerReturn
  <2>2. spilled' \subseteq spilled \cup {cur}
    BY <1>2 DEF SendKafka, SendWal, SendWalFails, WalWrite, wal
  <2>3. taken \in 1..taken /\ cur = accepted[taken]
    BY <1>0 DEF OnceInv
  <2> QED
    BY <2>1, <2>2, <2>3 DEF OnceInv, Holds
<1> QED
  BY <1>1, <1>2 DEF Worker

\* A new process has taken everything accepted before it.
LEMMA RestartOnce == ASSUME TypeInv, QueueIsSuffix, OnceInv, Restart PROVE OnceInv'
<1>1. /\ taken' = Len(accepted) /\ worker' = "idle" /\ UNCHANGED <<accepted, spilled>>
      /\ \A h \in Handlers : hand'[h] = Nothing
  BY DEF Restart
<1>2. taken \in Nat /\ taken <= Len(accepted) /\ Len(accepted) \in Nat
  BY QueueFacts
<1>3. \A i \in 1..taken : i \in 1..Len(accepted)
  BY <1>2
<1> QED
  BY <1>1, <1>3 DEF OnceInv, Holds

\* Each accepted message has one place in the order of acceptance, the worker sends the
\* one it took last, and what the WAL was handed was taken before.
THEOREM HandedOnce == Spec => []OnceInv
<1>1. Init => OnceInv
  BY DEF Init, PipeInit, AdapterInit, OnceInv, Holds
<1>2. ASSUME TypeInv, QueueIsSuffix, OnceInv, [Next]_vars PROVE OnceInv'
  <2>1. ASSUME UNCHANGED <<pipeVars, spilled>> PROVE OnceInv'
    BY <1>2, <2>1 DEF pipeVars, OnceInv, Holds
  <2>2. CASE Kafka \/ Adapter \/ Shutdown \/ Exited \/ UNCHANGED vars
    <3>1. UNCHANGED pipeVars
      BY <2>2 DEF Kafka, Adapter, Shutdown, Aside, Exited, vars
    <3>2. UNCHANGED spilled
      BY <2>2 DEF Kafka, Adapter, Monitor, MonitorProbe, MonitorDrain, MonitorExit, Drain,
        DrainProduce, DrainProduceFails, DrainAnswered, DrainSegmentDone, DrainTimeout,
        DrainReturn, WalCleanup, Shutdown, CloseBegin, Close, CloseDrain, CloseWal, CloseReturn,
        Exited, vars, adapterVars, wal
    <3> QED
      BY <2>1, <3>1, <3>2
  <2> QED
    BY <1>2, <2>2, PipeOnce, WorkerOnce, RestartOnce DEF Next
<1> QED
  BY <1>1, <1>2, TypeInvariant, QueueKept, PTL DEF Spec

\* So the WAL has not acknowledged what the worker is sending.
LEMMA NotYetSpilled ==
  ASSUME TypeInv, QueueIsSuffix, OnceInv, worker = "sending" PROVE cur \notin spilled
<1>1. taken \in 1..Len(accepted) /\ cur = accepted[taken] /\ taken \in Nat
  BY QueueFacts DEF OnceInv
<1>2. ASSUME cur \in spilled PROVE FALSE
  <2>1. PICK i \in 1..taken : accepted[i] = cur /\ i < taken
    BY <1>2 DEF OnceInv
  <2>2. i \in 1..Len(accepted)
    BY <1>1, <2>1
  <2> QED
    BY <1>1, <2>1, <2>2 DEF OnceInv
<1> QED
  BY <1>2
-----------------------------------------------------------------------------
\* One step of the gateway is one step of the abstract log, or none.
LEMMA LogStep ==
  ASSUME TypeInv, QueueIsSuffix, OnceInv, ReplayInv, [Next]_vars
  PROVE  [Log!Next]_(Log!vars)
<1>1. ASSUME UNCHANGED <<spilled, broker>>, InWal' = InWal PROVE UNCHANGED Log!vars
  BY <1>1 DEF Log!vars
<1>2. ASSUME UNCHANGED <<spilled, broker, walActive, walSealed>> PROVE UNCHANGED Log!vars
  BY <1>1, <1>2 DEF InWal
<1>3. CASE Pipe \/ Exited \/ UNCHANGED vars
  BY <1>2, <1>3 DEF Pipe, Exited, vars, prodVars, adapterVars, wal
<1>4. CASE Worker
  <2>1. worker = "sending" /\ cur \in Msgs
    BY <1>4 DEF Worker, TypeInv, WorkerHolds
  <2>2. UNCHANGED broker
    BY <1>4 DEF Worker, SendLoad, SendKafkaFails, SendKafka, SendWal, SendWalFails, prodVars
  <2>3. CASE WalWrite(cur)
    <3>1. spilled' = spilled \cup {cur} /\ InWal' = InWal \cup {cur} /\ cur \notin spilled
      BY <2>1, <2>3, WriteWal, NotYetSpilled DEF WalWrite
    <3>2. Log!Accept(cur)
      BY <2>2, <3>1 DEF Log!Accept
    <3> QED
      BY <2>1, <3>2 DEF Log!Next
  <2>4. CASE UNCHANGED wal
    BY <1>2, <2>2, <2>4 DEF wal
  <2> QED
    BY <1>4, <2>3, <2>4 DEF Worker, SendLoad, SendKafkaFails, SendKafka, SendWal, SendWalFails
<1>5. CASE Kafka
  <2>1. UNCHANGED <<spilled, walActive, walSealed>> /\ InWal' = InWal
    BY <1>5 DEF Kafka, adapterVars, wal, InWal
  <2>2. CASE BrokerAcks
    <3>1. PICK i \in DOMAIN inClient : broker' = broker \cup ({inClient[i].msg} \ {Probe})
      BY <2>2 DEF BrokerAcks
    <3>2. CASE inClient[i].msg = Probe
      BY <1>2, <2>1, <3>1, <3>2
    <3>3. CASE inClient[i].msg # Probe
      <4>1. inClient[i].msg \in Msgs
        BY <3>3, Chans, EnvelopeIs
      <4>2. Log!Deliver(inClient[i].msg)
        BY <2>1, <3>1, <3>3 DEF Log!Deliver
      <4> QED
        BY <4>1, <4>2 DEF Log!Next
    <3> QED
      BY <3>2, <3>3
  <2>3. CASE ~BrokerAcks
    <3>1. UNCHANGED broker
      BY <1>5, <2>3 DEF Kafka, ProdNext, Flusher, RecordFails, BrokerDown, BrokerBack
    <3> QED
      BY <1>2, <2>1, <3>1
  <2> QED
    BY <2>2, <2>3
<1>6. CASE Adapter
  <2>1. CASE DrainSegmentDone
    <3>1. UNCHANGED <<spilled, broker>>
      BY <2>1 DEF DrainSegmentDone, prodVars
    <3>2. InWal = InWal' \cup Elements(Head(walSealed)) /\ Elements(Head(walSealed)) \subseteq broker
      BY <2>1, RetiredIsDelivered
    <3>3. PICK S : S = InWal \ InWal'
      OBVIOUS
    <3>4. S \in SUBSET InWal /\ Log!Retire(S)
      BY <3>1, <3>2, <3>3 DEF Log!Retire
    <3> QED
      BY <3>4 DEF Log!Next
  <2>2. CASE ~DrainSegmentDone
    <3>1. UNCHANGED <<spilled, broker, walActive, walSealed>>
      BY <1>6, <2>2 DEF Adapter, Monitor, MonitorProbe, MonitorDrain, MonitorExit, Drain,
        DrainProduce, DrainProduceFails, DrainAnswered, DrainTimeout, DrainReturn, WalCleanup,
        prodVars, wal
    <3> QED
      BY <1>2, <3>1
  <2> QED
    BY <2>1, <2>2
<1>7. CASE Shutdown
  <2>1. UNCHANGED <<spilled, broker>>
    BY <1>7 DEF Shutdown, CloseBegin, Close, CloseDrain, CloseWal, CloseReturn, CloseTimeout,
      prodVars, adapterVars, wal
  <2>2. InWal' = InWal
    <3>1. CASE CloseWal
      BY <3>1, SealWal DEF CloseWal
    <3>2. CASE ~CloseWal
      BY <1>7, <3>2 DEF Shutdown, CloseBegin, Close, CloseDrain, CloseReturn, adapterVars, wal, InWal
    <3> QED
      BY <3>1, <3>2
  <2> QED
    BY <1>1, <2>1, <2>2
<1>8. CASE Restart
  BY <1>1, <1>8, SealWal DEF Restart
<1> QED
  BY <1>3, <1>4, <1>5, <1>6, <1>7, <1>8 DEF Next

\* Sink and drain together keep what the WAL acknowledged until the broker has it, across
\* crashes, outages and drains cut short: they implement the abstract log.
THEOREM GatewayImplementsLog == Spec => ImplementsLog
<1>1. Init => Log!Init
  <2> SUFFICES ASSUME Init PROVE Log!Init
    OBVIOUS
  <2>1. spilled = {} /\ broker = {} /\ walActive = <<>> /\ walSealed = <<>>
    BY DEF Init, ProdInit, AdapterInit
  <2>2. InWal = {}
    BY <2>1 DEF InWal, Elements
  <2> QED
    BY <2>1, <2>2 DEF Log!Init
<1> QED
  BY <1>1, LogStep, TypeInvariant, QueueKept, HandedOnce, ReplayIsExact, PTL
  DEF Spec, ImplementsLog, Log!Spec
=============================================================================
