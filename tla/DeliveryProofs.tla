--------------------------- MODULE DeliveryProofs ---------------------------
(***************************************************************************)
(* The data path for any handlers, messages and capacities: a shutdown     *)
(* goes through its phases one by one, every variable keeps its type, the  *)
(* queue is what was accepted and not yet taken, and a loss is always put  *)
(* down to an outage, a crash or a failed WAL write.                       *)
(***************************************************************************)
EXTENDS Gateway, SinkPipelineProofs

\* The order of the deferred calls in main.go, as the state shows it: what a phase of
\* the shutdown relies on has been established by the phases before it.
FateIsReported == fate \in [Msgs -> {"none", "backpressure", "error", "crash"}]

PipeStoppedFirst ==
  /\ close # "no" => stop = "returned"
  /\ stop = "returned" => worker = "exited"

SinkClosedByClose ==
  /\ prodClosed \/ walClosed => close \in {"closingKafka", "closed"}
  /\ close \in {"closingKafka", "closed"} => prodClosed /\ walClosed

QueueDrained ==
  /\ worker = "exited" => queue = <<>> /\ chClosed
  /\ worker # "sending" => cur = Nothing

DrainsOver ==
  /\ close \in {"draining", "closingKafka", "closed"} => monitor = "exited"
  /\ close \in {"closingKafka", "closed"} => drain = NoDrain /\ walActive = <<>>
  /\ close = "closed" => Flushed

ShutdownInv ==
  /\ FateIsReported
  /\ PipeStoppedFirst
  /\ SinkClosedByClose
  /\ QueueDrained
  /\ DrainsOver

\* A fresh process has not begun to shut down.
LEMMA InitShutdown == Init => ShutdownInv
  BY DEF Init, PipeInit, ProdInit, AdapterInit, AdapterStart, ShutdownInv, FateIsReported,
         PipeStoppedFirst, SinkClosedByClose, QueueDrained, DrainsOver

\* Handlers, Stop and the worker's receive touch the queue only.
LEMMA PipeShutdown == ASSUME ShutdownInv, Pipe PROVE ShutdownInv'
<1> USE DEF ShutdownInv, FateIsReported, PipeStoppedFirst, SinkClosedByClose, QueueDrained,
            DrainsOver, Flushed
<1>1. UNCHANGED <<prodVars, adapterVars, restarts, fate>>
  BY DEF Pipe
<1>2. UNCHANGED <<fate, prodClosed, ch, inClient, walClosed, close, monitor, drain, walActive>>
  BY <1>1 DEF prodVars, adapterVars, wal
<1>3. ASSUME NEW h \in Handlers, NEW m \in Msgs, SubmitCheck(h, m) PROVE ShutdownInv'
  BY <1>2, <1>3 DEF SubmitCheck
<1>4. ASSUME NEW h \in Handlers, SubmitSend(h) PROVE ShutdownInv'
  BY <1>2, <1>4 DEF SubmitSend
<1>5. ASSUME StopBegin \/ StopClose \/ StopReturn PROVE ShutdownInv'
  BY <1>2, <1>5 DEF StopBegin, StopClose, StopReturn
<1>6. ASSUME WorkerTake \/ WorkerEnd PROVE ShutdownInv'
  BY <1>2, <1>6 DEF WorkerTake, WorkerEnd
<1> QED
  BY <1>3, <1>4, <1>5, <1>6 DEF Pipe, PipeEnv

\* While the worker is in Send the shutdown has not reached the sink.
LEMMA WorkerShutdown == ASSUME ShutdownInv, Worker PROVE ShutdownInv'
<1> USE DEF ShutdownInv, FateIsReported, PipeStoppedFirst, SinkClosedByClose, QueueDrained,
            DrainsOver
<1>1. /\ worker = "sending" /\ close = "no" /\ ~prodClosed /\ ~walClosed
      /\ stop # "returned"
  BY DEF Worker
<1>2. CASE (SendLoad \/ SendKafkaFails) /\ UNCHANGED <<pipeVars, fate>>
  <2>1. UNCHANGED <<fate, prodClosed, walClosed, close, stop, worker, queue, chClosed, cur>>
    BY <1>2 DEF SendLoad, SendKafkaFails, pipeVars, prodVars
  <2> QED
    BY <1>1, <2>1
<1>3. ASSUME NEW r \in SendResults,
             SendKafka(cur, r) \/ SendWal(cur, r) \/ SendWalFails(r),
             WorkerReturn(r),
             fate' = IF r = "ok" THEN fate ELSE [fate EXCEPT ![cur] = r]
      PROVE  ShutdownInv'
  <2>1. UNCHANGED <<prodClosed, walClosed, close>>
    BY <1>3 DEF SendKafka, SendWal, SendWalFails, prodVars
  <2>2. r \in {"ok", "backpressure", "error"}
    BY <1>1, <1>3 DEF SendKafka, SendWal, SendWalFails, WalError
  <2>3. fate' \in [Msgs -> {"none", "backpressure", "error", "crash"}]
    BY <1>3, <2>2
  <2>4. worker' = "idle" /\ cur' = Nothing /\ stop' = stop
    BY <1>3, <2>2 DEF WorkerReturn
  <2> QED
    BY <1>1, <2>1, <2>3, <2>4
<1> QED
  BY <1>2, <1>3 DEF Worker

\* The producer's flusher, the client and the broker.
LEMMA KafkaShutdown == ASSUME ShutdownInv, Kafka PROVE ShutdownInv'
<1> USE DEF ShutdownInv, FateIsReported, PipeStoppedFirst, SinkClosedByClose, QueueDrained,
            DrainsOver
<1>1. UNCHANGED <<fate, walClosed, close, monitor, drain, walActive, stop, worker, queue,
                  chClosed, cur>>
  BY DEF Kafka, Aside, adapterVars, wal, pipeVars
<1>2. prodClosed' = prodClosed
  BY DEF Kafka, ProdNext, Flusher, BrokerAcks, RecordFails, BrokerDown, BrokerBack
<1>3. ASSUME Flushed PROVE Flushed'
  <2>1. ch = <<>> /\ inClient = <<>> /\ DOMAIN <<>> = {}
    BY <1>3 DEF Flushed
  <2>2. ~Flusher /\ ~BrokerAcks /\ ~RecordFails
    BY <2>1 DEF Flusher, BrokerAcks, RecordFails
  <2>3. UNCHANGED <<ch, inClient>>
    BY <2>2 DEF Kafka, ProdNext, BrokerDown, BrokerBack
  <2> QED
    BY <1>2, <1>3, <2>3 DEF Flushed
<1> QED
  BY <1>1, <1>2, <1>3

\* The monitor and the drains are over once the producer is being closed.
LEMMA AdapterShutdown == ASSUME ShutdownInv, Adapter PROVE ShutdownInv'
<1> USE DEF ShutdownInv, FateIsReported, PipeStoppedFirst, SinkClosedByClose, QueueDrained,
            DrainsOver
<1>1. UNCHANGED <<fate, stop, worker, queue, chClosed, cur>>
  BY DEF Adapter, Aside, pipeVars
<1>2. UNCHANGED <<prodClosed, walClosed, close>>
  BY DEF Adapter, Monitor, MonitorProbe, MonitorDrain, MonitorExit, Drain, DrainProduce,
         DrainProduceFails, DrainAnswered, DrainSegmentDone, DrainTimeout, DrainReturn,
         WalCleanup, prodVars
<1>3. UNCHANGED walActive
  BY DEF Adapter, Monitor, MonitorProbe, MonitorDrain, MonitorExit, Drain, DrainProduce,
         DrainProduceFails, DrainAnswered, DrainSegmentDone, DrainTimeout, DrainReturn,
         WalCleanup, wal
<1>4. monitor = "exited" => monitor' = "exited"
  BY DEF Adapter, Monitor, MonitorProbe, MonitorDrain, MonitorExit, Drain, DrainProduce,
         DrainProduceFails, DrainAnswered, DrainSegmentDone, DrainTimeout, DrainReturn,
         WalCleanup
<1>5. ASSUME close \in {"closingKafka", "closed"}
      PROVE  UNCHANGED <<ch, inClient>> /\ drain' = NoDrain
  <2>1. monitor = "exited" /\ drain = NoDrain /\ NoDrain.waiting = FALSE
    BY <1>5 DEF NoDrain
  <2> QED
    BY <1>5, <2>1 DEF Adapter, Monitor, MonitorProbe, MonitorDrain, MonitorExit, Drain,
         DrainProduce, DrainProduceFails, DrainAnswered, DrainSegmentDone, DrainTimeout,
         DrainReturn, Draining, SegmentRead, WalCleanup, prodVars
<1> QED
  BY <1>1, <1>2, <1>3, <1>4, <1>5 DEF Flushed

\* Each phase of the shutdown waits for the one before.
LEMMA ShutdownShutdown == ASSUME ShutdownInv, Shutdown PROVE ShutdownInv'
<1> USE DEF ShutdownInv, FateIsReported, PipeStoppedFirst, SinkClosedByClose, QueueDrained,
            DrainsOver
<1>1. UNCHANGED <<fate, stop, worker, queue, chClosed, cur>>
  BY DEF Shutdown, Aside, pipeVars
<1>2. CASE stop = "returned" /\ CloseBegin
  BY <1>1, <1>2 DEF CloseBegin, prodVars, wal
<1>3. CASE CloseDrain
  BY <1>1, <1>3 DEF CloseDrain, prodVars, wal
<1>4. CASE CloseWal
  BY <1>1, <1>4 DEF CloseWal, CloseProducer
<1>5. CASE CloseReturn
  BY <1>1, <1>5 DEF CloseReturn, prodVars, wal, Flushed
<1>6. CASE close = "closingKafka" /\ CloseTimeout /\ UNCHANGED adapterVars
  BY <1>1, <1>6 DEF CloseTimeout, adapterVars, wal
<1> QED
  BY <1>2, <1>3, <1>4, <1>5, <1>6 DEF Shutdown, Close

\* A new process starts from the first phase.
LEMMA RestartShutdown == ASSUME ShutdownInv, Restart PROVE ShutdownInv'
<1>1. fate' \in [Msgs -> {"none", "backpressure", "error", "crash"}]
  BY DEF Restart, ShutdownInv, FateIsReported
<1> QED
  BY <1>1 DEF Restart, ShutdownInv, FateIsReported, PipeStoppedFirst, SinkClosedByClose,
              QueueDrained, DrainsOver

\* The phases of main's deferred calls never overlap: the strengthening both theorems
\* below rest on.
THEOREM ShutdownInvariant == Spec => []ShutdownInv
<1>1. ShutdownInv /\ UNCHANGED vars => ShutdownInv'
  BY DEF vars, pipeVars, prodVars, adapterVars, wal, ShutdownInv, FateIsReported,
         PipeStoppedFirst, SinkClosedByClose, QueueDrained, DrainsOver, Flushed
<1>2. ShutdownInv /\ [Next]_vars => ShutdownInv'
  BY <1>1, PipeShutdown, WorkerShutdown, KafkaShutdown, AdapterShutdown, ShutdownShutdown,
     RestartShutdown DEF Next, Exited
<1> QED
  BY <1>2, InitShutdown, PTL DEF Spec

\* The worker never meets a closed sink: whatever is queued when a stop begins is still
\* handed to an open sink (pipeline.go:109-113, main.go's deferred order).
THEOREM WorkerNeverMeetsClosedSink == Spec => []SinkOutlivesPipeline
<1>1. ShutdownInv => SinkOutlivesPipeline
  BY DEF ShutdownInv, FateIsReported, PipeStoppedFirst, SinkClosedByClose, QueueDrained,
         SinkOutlivesPipeline
<1> QED
  BY <1>1, ShutdownInvariant, PTL

\* A completed shutdown leaves no accepted message in memory: queue, worker, channel
\* and client are empty, and the active segment is sealed (sink.go:294-300).
THEOREM ShutdownIsComplete == Spec => []ShutdownLeavesNothing
<1>1. ShutdownInv => ShutdownLeavesNothing
  <2> SUFFICES ASSUME ShutdownInv, close = "closed" 
               PROVE  InMemory = {} /\ walActive = <<>> /\ worker = "exited"
    BY DEF ShutdownLeavesNothing
  <2>1. worker = "exited" /\ queue = <<>> /\ cur = Nothing /\ walActive = <<>>
        /\ ch = <<>> /\ inClient = <<>>
    BY DEF ShutdownInv, PipeStoppedFirst, QueueDrained, DrainsOver, Flushed
  <2> QED
    BY <2>1 DEF InMemory, Elements, Messages
<1> QED
  BY <1>1, ShutdownInvariant, PTL
-----------------------------------------------------------------------------
\* Taking the record at one place out of a sequence.
LEMMA Removed ==
  ASSUME NEW S, NEW s \in Seq(S), NEW i \in DOMAIN s
  PROVE  /\ RemoveAt(s, i) \in Seq(S)
         /\ Len(RemoveAt(s, i)) = Len(s) - 1
         /\ \A j \in 1..Len(s) - 1 : RemoveAt(s, i)[j] = IF j < i THEN s[j] ELSE s[j + 1]
<1>1. DOMAIN s = 1..Len(s) /\ Len(s) \in Nat /\ i \in 1..Len(s)
  OBVIOUS
<1> DEFINE a == SubSeq(s, 1, i - 1)
           b == SubSeq(s, i + 1, Len(s))
<1>2. /\ a \in Seq(S) /\ Len(a) = i - 1
      /\ \A j \in 1..i - 1 : a[j] = s[j]
  <2>1. CASE i = 1
    BY <1>1, <2>1, SubSeqProperties
  <2>2. CASE i # 1
    BY <1>1, <2>2, SubSeqProperties
  <2> QED
    BY <2>1, <2>2
<1>3. /\ b \in Seq(S) /\ Len(b) = Len(s) - i
      /\ \A j \in 1..Len(s) - i : b[j] = s[j + i]
  BY <1>1, SubSeqProperties
<1> HIDE DEF a, b
<1>4. /\ a \o b \in Seq(S) /\ Len(a \o b) = Len(a) + Len(b)
      /\ \A j \in 1..Len(a) + Len(b) : (a \o b)[j] = IF j <= Len(a) THEN a[j] ELSE b[j - Len(a)]
  BY <1>2, <1>3, ConcatProperties
<1>5. RemoveAt(s, i) = a \o b
  BY DEF RemoveAt, a, b
<1> DEFINE c == a \o b
<1>6. ASSUME NEW j \in 1..Len(s) - 1 PROVE c[j] = IF j < i THEN s[j] ELSE s[j + 1]
  <2>1. c[j] = IF j <= Len(a) THEN a[j] ELSE b[j - Len(a)]
    BY <1>1, <1>2, <1>3, <1>4, SMTT(30)
  <2> HIDE DEF c
  <2>2. CASE j < i
    <3>1. j \in 1..i - 1
      BY <1>1, <2>2
    <3> QED
      BY <1>1, <1>2, <2>1, <2>2, <3>1
  <2>3. CASE ~(j < i)
    <3>1. j - Len(a) \in 1..Len(s) - i /\ ~(j <= Len(a)) /\ (j - Len(a)) + i = j + 1
      BY <1>1, <1>2, <2>3
    <3> QED
      BY <1>3, <2>1, <2>3, <3>1
  <2> QED
    BY <2>2, <2>3
<1>7. Len(a \o b) = Len(s) - 1
  BY <1>1, <1>2, <1>3, <1>4
<1> QED
  BY <1>4, <1>5, <1>6, <1>7
-----------------------------------------------------------------------------
Envelopes == [msg : Msgs \cup {Probe}, onAck : {"none", "sync"}]

\* Which counts are possible in which state; Send has read Normal while it is with Kafka.
CountersOK ==
  /\ send = "kafka" => state = "Normal"
  /\ state = "Normal" => failCount < FailThreshold
  /\ state = "Degraded" => successCount < RecoverThreshold

\* A drain is within its snapshot, waits only for a record, and has an owner.
DrainOK ==
  /\ drain.left <= Len(walSealed)
  /\ drain.pos > 0
  /\ drain.waiting => drain.left > 0 /\ drain.pos <= Len(Head(walSealed))
  /\ drain # NoDrain => monitor = "loop" \/ close = "draining"

WorkerHolds == worker = "sending" => cur \in Msgs

TypeInv == TypeOK /\ CountersOK /\ DrainOK /\ WorkerHolds

\* Facts the leaves share.
LEMMA EnvelopeIs ==
  \A e \in Envelopes : e.msg \in Msgs \cup {Probe} /\ e.onAck \in {"none", "sync"}
  BY DEF Envelopes

\* What a queue of envelopes carries, the probe aside, is messages.
LEMMA MessagesType ==
  ASSUME NEW q \in Seq(Envelopes) PROVE Messages(q) \subseteq Msgs
<1>1. \A i \in DOMAIN q : q[i] \in Envelopes
  OBVIOUS
<1> QED
  BY <1>1, EnvelopeIs DEF Messages

\* Abandoning a queue keeps its envelopes, with nobody waiting for them.
LEMMA UnheardType ==
  ASSUME NEW q \in Seq(Envelopes)
  PROVE  /\ Unheard(q) \in Seq(Envelopes) /\ Len(Unheard(q)) = Len(q)
         /\ \A i \in DOMAIN q : Unheard(q)[i].msg = q[i].msg /\ Unheard(q)[i].onAck = "none"
<1>1. \A i \in DOMAIN q : q[i] \in Envelopes
  OBVIOUS
<1>2. \A e \in Envelopes : /\ [e EXCEPT !.onAck = "none"] \in Envelopes
                           /\ [e EXCEPT !.onAck = "none"].msg = e.msg
                           /\ [e EXCEPT !.onAck = "none"].onAck = "none"
  BY DEF Envelopes
<1>3. DOMAIN q = 1..Len(q) /\ Len(q) \in Nat
  OBVIOUS
<1>4. Unheard(q) = [i \in 1..Len(q) |-> [q[i] EXCEPT !.onAck = "none"]]
  BY <1>3 DEF Unheard
<1>5. \A i \in 1..Len(q) : Unheard(q)[i] = [q[i] EXCEPT !.onAck = "none"]
  BY <1>4
<1>6. \A i \in 1..Len(q) : Unheard(q)[i] \in Envelopes
  BY <1>1, <1>2, <1>3, <1>5
<1>7. Unheard(q) \in Seq(Envelopes) /\ Len(Unheard(q)) = Len(q)
  <2> DEFINE u(i) == [q[i] EXCEPT !.onAck = "none"]
  <2>1. Unheard(q) = [i \in 1..Len(q) |-> u(i)] /\ \A i \in 1..Len(q) : u(i) \in Envelopes
    BY <1>1, <1>2, <1>3, <1>4
  <2> HIDE DEF u
  <2> QED
    BY <1>3, <2>1
<1>8. \A i \in DOMAIN q : Unheard(q)[i].msg = q[i].msg /\ Unheard(q)[i].onAck = "none"
  <2> SUFFICES ASSUME NEW i \in 1..Len(q)
               PROVE  Unheard(q)[i].msg = q[i].msg /\ Unheard(q)[i].onAck = "none"
    BY <1>3
  <2>1. q[i] \in Envelopes /\ Unheard(q)[i] = [q[i] EXCEPT !.onAck = "none"]
    BY <1>1, <1>3, <1>5
  <2> QED
    BY <1>2, <2>1
<1> QED
  BY <1>7, <1>8

\* An envelope has the fields it is made of.
LEMMA EnvelopeType ==
  ASSUME NEW m \in Msgs \cup {Probe}, NEW a \in {"none", "sync"}
  PROVE  Envelope(m, a) \in Envelopes /\ Envelope(m, a).msg = m /\ Envelope(m, a).onAck = a
  BY DEF Envelope, Envelopes

\* The record of no drain, field by field.
LEMMA NoDrainIs ==
  /\ NoDrain.by = "none" /\ NoDrain.left = 0 /\ NoDrain.pos = 1 /\ NoDrain.attempt = 0
  /\ NoDrain.waiting = FALSE
  BY DEF NoDrain

\* Init.
LEMMA InitTyped == Init => TypeInv
<1> SUFFICES ASSUME Init PROVE TypeInv
  OBVIOUS
<1>1. PipeTypeOK
  <2>1. <<>> \in Seq(Msgs)
    OBVIOUS
  <2> QED
    BY <2>1 DEF Init, PipeInit, PipeTypeOK
<1>2. ProdTypeOK(Msgs)
  <2>1. <<>> \in Seq(Envelopes) /\ Len(<<>>) = 0
    OBVIOUS
  <2>2. ch \in Seq(Envelopes) /\ inClient \in Seq(Envelopes) /\ Len(ch) = 0 /\ Len(inClient) = 0
    BY <2>1 DEF Init, ProdInit
  <2>3. outages \in 0..MaxOutages /\ broker \in SUBSET Msgs /\ expired \in SUBSET Msgs
    BY ProducerAssumption DEF Init, ProdInit
  <2>4. prodClosed \in BOOLEAN /\ ack \in {"none", "ok", "err"} /\ brokerUp \in BOOLEAN
    BY DEF Init, ProdInit
  <2> QED
    BY <2>2, <2>3, <2>4, ProducerAssumption DEF ProdTypeOK, Envelopes
<1>3. AdapterTypeOK(Msgs)
  <2>1. <<>> \in Seq(Msgs) /\ <<>> \in Seq(Seq(Msgs))
    OBVIOUS
  <2>2. NoDrain \in [by : {"none", "monitor", "close"}, left : Nat, pos : Nat, attempt : Nat,
                waiting : BOOLEAN]
    BY DEF NoDrain
  <2>3. /\ mode \in {"adapter", "walOnly"} /\ state \in {"Normal", "Degraded"}
        /\ drainSig \in BOOLEAN /\ send \in {"load", "kafka", "wal"}
        /\ walClosed \in BOOLEAN /\ monitor \in {"loop", "exited"} /\ drain = NoDrain
        /\ close \in {"no", "stopping", "draining", "closingKafka", "closed"}
        /\ walActive = <<>> /\ walSealed = <<>>
    BY DEF Init, AdapterInit, AdapterStart
  <2>4. /\ failCount \in 0..FailThreshold /\ successCount \in 0..RecoverThreshold
        /\ walDone \in Nat /\ timeouts \in 0..MaxTimeouts /\ walErrors \in 0..MaxWalErrors
        /\ spilled \in SUBSET Msgs
    BY AdapterAssumption DEF Init, AdapterInit, AdapterStart
  <2> QED
    BY <2>1, <2>2, <2>3, <2>4 DEF AdapterTypeOK
<1>4. CountersOK /\ DrainOK /\ WorkerHolds
  BY NoDrainIs, AdapterAssumption
  DEF Init, PipeInit, AdapterInit, AdapterStart, CountersOK, DrainOK, WorkerHolds
<1> QED
  BY <1>1, <1>2, <1>3, <1>4, GatewayAssumption DEF TypeInv, TypeOK, Init

\* Handlers, Stop and the worker's receive.
LEMMA PipeKept == ASSUME TypeInv, Pipe PROVE TypeInv'
<1>1. UNCHANGED <<prodVars, adapterVars, restarts, fate>> /\ PipeEnv
  BY DEF Pipe
<1>2. PipeTypeOK'
  BY <1>1, PipeTypeKept DEF PipeNext, TypeInv, TypeOK
<1>3. WorkerHolds'
  <2>1. ASSUME WorkerTake PROVE WorkerHolds'
    BY <2>1 DEF WorkerTake, WorkerHolds, TypeInv, TypeOK, PipeTypeOK
  <2> QED
    BY <1>1, <2>1 DEF PipeEnv, SubmitCheck, SubmitSend, StopBegin, StopClose, StopReturn,
                      WorkerEnd, WorkerHolds, TypeInv
<1> QED
  BY <1>1, <1>2, <1>3
  DEF TypeInv, TypeOK, ProdTypeOK, AdapterTypeOK, CountersOK, DrainOK, prodVars, adapterVars,
      counters, wal

\* The producer's flusher, the client and the broker.
LEMMA KafkaKept == ASSUME TypeInv, Kafka PROVE TypeInv'
<1>1. UNCHANGED <<pipeVars, adapterVars, restarts, fate>> /\ ProdNext
  BY DEF Kafka, Aside
<1>2. ch \in Seq(Envelopes) /\ inClient \in Seq(Envelopes)
  BY DEF TypeInv, TypeOK, ProdTypeOK, Envelopes
<1>3. ProdTypeOK(Msgs)'
  <2>1. CASE Flusher
    <3>1. Head(ch) \in Envelopes /\ Tail(ch) \in Seq(Envelopes) /\ Len(Tail(ch)) <= Len(ch)
      BY <1>2, <2>1 DEF Flusher
    <3>2. Append(inClient, Head(ch)) \in Seq(Envelopes)
          /\ Len(Append(inClient, Head(ch))) <= ClientCap
      BY <1>2, <2>1, <3>1, ProducerAssumption DEF Flusher
    <3> QED
      BY <1>2, <2>1, <3>1, <3>2, ProducerAssumption DEF Flusher, TypeInv, TypeOK, ProdTypeOK, Envelopes
  <2>2. CASE BrokerAcks
    <3>1. PICK i \in DOMAIN inClient :
            /\ broker' = broker \cup ({inClient[i].msg} \ {Probe})
            /\ ack' = IF inClient[i].onAck = "sync" THEN "ok" ELSE ack
            /\ inClient' = RemoveAt(inClient, i)
      BY <2>2 DEF BrokerAcks
    <3>2. inClient' \in Seq(Envelopes) /\ Len(inClient') <= Len(inClient)
      BY <1>2, <3>1, Removed
    <3>3. {inClient[i].msg} \ {Probe} \subseteq Msgs
      BY <1>2, EnvelopeIs
    <3> QED
      BY <1>2, <2>2, <3>1, <3>2, <3>3, ProducerAssumption
      DEF BrokerAcks, TypeInv, TypeOK, ProdTypeOK, Envelopes
  <2>3. CASE RecordFails
    <3>1. PICK i \in DOMAIN inClient :
            /\ IF inClient[i].onAck = "sync"
               THEN ack' = "err" /\ UNCHANGED expired
               ELSE expired' = expired \cup ({inClient[i].msg} \ {Probe}) /\ UNCHANGED ack
            /\ inClient' = RemoveAt(inClient, i)
      BY <2>3 DEF RecordFails
    <3>2. inClient' \in Seq(Envelopes) /\ Len(inClient') <= Len(inClient)
      BY <1>2, <3>1, Removed
    <3>3. {inClient[i].msg} \ {Probe} \subseteq Msgs
      BY <1>2, EnvelopeIs
    <3> QED
      BY <1>2, <2>3, <3>1, <3>2, <3>3, ProducerAssumption
      DEF RecordFails, TypeInv, TypeOK, ProdTypeOK, Envelopes
  <2>4. CASE BrokerDown \/ BrokerBack
    <3>1. outages \in 0..MaxOutages
      BY DEF TypeInv, TypeOK, ProdTypeOK
    <3>2. brokerUp' \in BOOLEAN
      BY <2>4 DEF BrokerDown, BrokerBack
    <3>4. outages' = outages \/ (outages < MaxOutages /\ outages' = outages + 1)
      BY <2>4 DEF BrokerDown, BrokerBack
    <3>5. outages' \in 0..MaxOutages
      BY <3>1, <3>4, ProducerAssumption
    <3>3. UNCHANGED <<ch, prodClosed, inClient, ack, broker, expired>>
      BY <2>4 DEF BrokerDown, BrokerBack
    <3> QED
      BY <3>2, <3>3, <3>5 DEF TypeInv, TypeOK, ProdTypeOK
  <2> QED
    BY <1>1, <2>1, <2>2, <2>3, <2>4 DEF ProdNext
<1> QED
  BY <1>1, <1>3
  DEF TypeInv, TypeOK, PipeTypeOK, AdapterTypeOK, CountersOK, DrainOK, WorkerHolds, pipeVars,
      adapterVars, counters, wal

\* The worker in Send.
LEMMA ProduceKept ==
  ASSUME TypeInv, NEW m \in Msgs \cup {Probe}, NEW a \in {"none", "sync"}, Produce(m, a)
  PROVE  /\ ch' \in Seq(Envelopes) /\ Len(ch') <= ChanCap
         /\ Len(ch') = Len(ch) + 1 /\ ch'[Len(ch) + 1] = Envelope(m, a)
         /\ \A i \in 1..Len(ch) : ch'[i] = ch[i]
<1>1. ch \in Seq(Envelopes) /\ Envelope(m, a) \in Envelopes
  BY EnvelopeType DEF TypeInv, TypeOK, ProdTypeOK, Envelopes
<1>2. Len(ch) < ChanCap /\ ch' = Append(ch, Envelope(m, a))
  BY DEF Produce, CanProduce
<1> QED
  BY <1>1, <1>2, ProducerAssumption

\* A failed send while Normal: the counters stay within the thresholds (sink.go:266-275).
LEMMA RecordFailureKept ==
  ASSUME TypeInv, RecordFailure, state = "Normal"
  PROVE  /\ failCount' \in 0..FailThreshold /\ successCount' \in 0..RecoverThreshold
         /\ state' \in {"Normal", "Degraded"} /\ drainSig' = drainSig
         /\ state' = "Normal" => failCount' < FailThreshold
         /\ state' = "Degraded" => successCount' < RecoverThreshold
<1>1. /\ failCount \in 0..FailThreshold /\ failCount < FailThreshold
      /\ FailThreshold \in Nat \ {0} /\ RecoverThreshold \in Nat \ {0}
  BY AdapterAssumption DEF TypeInv, TypeOK, AdapterTypeOK, CountersOK
<1> QED
  BY <1>1 DEF RecordFailure

\* A successful probe while Degraded, likewise.
LEMMA RecordSuccessKept ==
  ASSUME TypeInv, RecordSuccess, state = "Degraded"
  PROVE  /\ failCount' \in 0..FailThreshold /\ successCount' \in 0..RecoverThreshold
         /\ state' \in {"Normal", "Degraded"} /\ drainSig' \in BOOLEAN
         /\ state' = "Normal" => failCount' < FailThreshold
         /\ state' = "Degraded" => successCount' < RecoverThreshold
<1>1. /\ successCount \in 0..RecoverThreshold /\ successCount < RecoverThreshold
      /\ FailThreshold \in Nat \ {0} /\ RecoverThreshold \in Nat \ {0}
  BY AdapterAssumption DEF TypeInv, TypeOK, AdapterTypeOK, CountersOK
<1>2. drainSig' \in BOOLEAN
  BY DEF TypeInv, TypeOK, AdapterTypeOK, RecordSuccess
<1> QED
  BY <1>1, <1>2 DEF RecordSuccess

\* Sealing appends, so the drain's snapshot stays in place.
LEMMA SealKept ==
  ASSUME TypeInv, WalSeal
  PROVE  /\ walSealed' \in Seq(Seq(Msgs)) /\ Len(walSealed) <= Len(walSealed')
         /\ \A i \in 1..Len(walSealed) : walSealed'[i] = walSealed[i]
         /\ walSealed # <<>> => Head(walSealed') = Head(walSealed)
<1>1. walSealed \in Seq(Seq(Msgs)) /\ walActive \in Seq(Msgs)
  BY DEF TypeInv, TypeOK, AdapterTypeOK
<1>2. CASE walSealed' = walSealed
  BY <1>1, <1>2
<1>3. CASE walSealed' = Append(walSealed, walActive)
  BY <1>1, <1>3
<1> QED
  BY <1>2, <1>3 DEF WalSeal

\* Writing keeps the types of the log and its oldest segment.
LEMMA WriteKept ==
  ASSUME TypeInv, NEW m \in Msgs, WalWrite(m)
  PROVE  /\ walSealed' \in Seq(Seq(Msgs)) /\ Len(walSealed) <= Len(walSealed')
         /\ walSealed # <<>> => Head(walSealed') = Head(walSealed)
         /\ walActive' \in Seq(Msgs) /\ walDone' \in Nat /\ spilled' \in SUBSET Msgs
<1>1. /\ walSealed \in Seq(Seq(Msgs)) /\ walActive \in Seq(Msgs) /\ walDone \in Nat
      /\ spilled \in SUBSET Msgs
  BY DEF TypeInv, TypeOK, AdapterTypeOK
<1>2. walActive' \in Seq(Msgs) /\ walDone' \in Nat /\ spilled' \in SUBSET Msgs
  <2>1. walActive' = <<m>> \/ walActive' = Append(walActive, m)
    BY DEF WalWrite
  <2>2. <<m>> \in Seq(Msgs) /\ Append(walActive, m) \in Seq(Msgs)
    BY <1>1
  <2>3. walDone' = walDone /\ spilled' = spilled \cup {m}
    BY DEF WalWrite
  <2> QED
    BY <1>1, <2>1, <2>2, <2>3
<1>3. CASE WalSeal
  BY <1>2, <1>3, SealKept
<1>4. CASE UNCHANGED walSealed
  BY <1>1, <1>2, <1>4
<1> QED
  BY <1>3, <1>4 DEF WalWrite

\* A log that only grows at its end leaves a running drain where it is.
LEMMA DrainStays ==
  ASSUME TypeInv, UNCHANGED <<drain, monitor, close>>,
         walSealed' \in Seq(Seq(Msgs)), Len(walSealed) <= Len(walSealed'),
         walSealed # <<>> => Head(walSealed') = Head(walSealed)
  PROVE  DrainOK'
<1>1. /\ walSealed \in Seq(Seq(Msgs)) /\ drain.left \in Nat
      /\ DrainOK
  BY DEF TypeInv, TypeOK, AdapterTypeOK
<1>2. drain.left <= Len(walSealed')
  BY <1>1 DEF DrainOK
<1>3. drain.waiting => drain.pos <= Len(Head(walSealed'))
  BY <1>1 DEF DrainOK
<1> QED
  BY <1>1, <1>2, <1>3 DEF DrainOK

\* Every way the worker's Send goes on or ends keeps the types.
LEMMA WorkerKept == ASSUME TypeInv, Worker PROVE TypeInv'
<1>1. worker = "sending" /\ cur \in Msgs /\ UNCHANGED restarts
  BY DEF Worker, TypeInv, WorkerHolds
<1>2. CASE SendLoad /\ UNCHANGED <<pipeVars, fate>>
  <2>1. send' \in {"load", "kafka", "wal"} /\ (send' = "kafka" => state = "Normal")
    BY <1>2 DEF SendLoad
  <2>2. UNCHANGED <<prodVars, mode, counters, wal, walClosed, drain, monitor, close,
                    timeouts, walErrors>>
    BY <1>2 DEF SendLoad
  <2> QED
    BY <1>1, <1>2, <2>1, <2>2
    DEF TypeInv, TypeOK, PipeTypeOK, ProdTypeOK, AdapterTypeOK, CountersOK, DrainOK,
        WorkerHolds, pipeVars, prodVars, counters, wal
<1>3. CASE SendKafkaFails /\ UNCHANGED <<pipeVars, fate>>
  <2>1. RecordFailure /\ state = "Normal" /\ send' = "wal"
    BY <1>3 DEF SendKafkaFails, TypeInv, CountersOK
  <2>2. /\ failCount' \in 0..FailThreshold /\ successCount' \in 0..RecoverThreshold
        /\ state' \in {"Normal", "Degraded"} /\ drainSig' = drainSig
        /\ state' = "Normal" => failCount' < FailThreshold
        /\ state' = "Degraded" => successCount' < RecoverThreshold
    BY <2>1, RecordFailureKept
  <2>3. UNCHANGED <<prodVars, mode, wal, walClosed, drain, monitor, close, timeouts, walErrors>>
    BY <1>3 DEF SendKafkaFails
  <2> QED
    BY <1>1, <1>3, <2>1, <2>2, <2>3, SMTT(30)
    DEF TypeInv, TypeOK, PipeTypeOK, ProdTypeOK, AdapterTypeOK, CountersOK, DrainOK,
        WorkerHolds, pipeVars, prodVars, wal
<1>4. ASSUME NEW r \in SendResults, WorkerReturn(r),
             fate' = IF r = "ok" THEN fate ELSE [fate EXCEPT ![cur] = r],
             SendKafka(cur, r) \/ SendWal(cur, r) \/ SendWalFails(r)
      PROVE  TypeInv'
  <2>1. PipeTypeOK' /\ worker' # "sending"
    BY <1>4, PipeTypeKept DEF PipeNext, TypeInv, TypeOK, WorkerReturn
  <2>2. fate' \in [Msgs -> {"none", "backpressure", "closed", "error", "crash"}]
    BY <1>1, <1>4 DEF TypeInv, TypeOK, SendResults
  <2>3. CASE SendKafka(cur, r)
    <3>1. UNCHANGED <<prodClosed, inClient, ack, brokerUp, outages, broker, expired, mode, counters,
                      wal, walClosed, drain, monitor, close, timeouts, walErrors>>
          /\ send' = "load"
      BY <2>3 DEF SendKafka
    <3>2. ch' \in Seq(Envelopes) /\ Len(ch') <= ChanCap
      <4>1. CASE Produce(cur, "none")
        BY <1>1, <4>1, ProduceKept
      <4>2. CASE UNCHANGED ch
        BY <4>2 DEF TypeInv, TypeOK, ProdTypeOK, Envelopes
      <4> QED
        BY <2>3, <4>1, <4>2 DEF SendKafka
    <3>3. ProdTypeOK(Msgs)'
      BY <3>1, <3>2 DEF TypeInv, TypeOK, ProdTypeOK, Envelopes
    <3> QED
      BY <1>1, <2>1, <2>2, <3>1, <3>3
      DEF TypeInv, TypeOK, AdapterTypeOK, CountersOK, DrainOK, WorkerHolds, counters, wal
  <2>4. CASE SendWal(cur, r)
    <3>1. UNCHANGED <<prodVars, mode, counters, walClosed, drain, monitor, close, timeouts,
                      walErrors>>
          /\ send' = "load"
      BY <2>4 DEF SendWal
    <3>2. CASE UNCHANGED wal
      BY <1>1, <2>1, <2>2, <3>1, <3>2
      DEF TypeInv, TypeOK, ProdTypeOK, AdapterTypeOK, CountersOK, DrainOK, WorkerHolds,
          prodVars, counters, wal
    <3>3. CASE WalWrite(cur)
      <4>1. /\ walSealed' \in Seq(Seq(Msgs)) /\ Len(walSealed) <= Len(walSealed')
            /\ walSealed # <<>> => Head(walSealed') = Head(walSealed)
            /\ walActive' \in Seq(Msgs) /\ walDone' \in Nat /\ spilled' \in SUBSET Msgs
        BY <1>1, <3>3, WriteKept
      <4>2. DrainOK'
        BY <3>1, <4>1, DrainStays
      <4> QED
        BY <1>1, <2>1, <2>2, <3>1, <4>1, <4>2, SMTT(30)
        DEF TypeInv, TypeOK, ProdTypeOK, AdapterTypeOK, CountersOK, WorkerHolds,
            prodVars, counters
    <3> QED
      BY <2>4, <3>2, <3>3 DEF SendWal
  <2>5. CASE SendWalFails(r)
    <3>1. UNCHANGED <<prodVars, mode, counters, wal, walClosed, drain, monitor, close, timeouts>>
          /\ send' = "load" /\ walErrors < MaxWalErrors /\ walErrors' = walErrors + 1
      BY <2>5 DEF SendWalFails
    <3>2. walErrors' \in 0..MaxWalErrors
      <4>1. walErrors \in 0..MaxWalErrors
        BY DEF TypeInv, TypeOK, AdapterTypeOK
      <4> QED
        BY <3>1, <4>1, AdapterAssumption
    <3> QED
      BY <1>1, <2>1, <2>2, <3>1, <3>2
      DEF TypeInv, TypeOK, ProdTypeOK, AdapterTypeOK, CountersOK, DrainOK, WorkerHolds,
          prodVars, counters, wal
  <2> QED
    BY <1>4, <2>3, <2>4, <2>5
<1> QED
  BY <1>2, <1>3, <1>4 DEF Worker

\* The records of drains.
DrainRecords ==
  [by : {"none", "monitor", "close"}, left : Nat, pos : Nat, attempt : Nat, waiting : BOOLEAN]

\* A drain that starts.
LEMMA DrainStarts ==
  ASSUME NEW b \in {"none", "monitor", "close"}, NEW n \in Nat
  PROVE  LET d == [NoDrain EXCEPT !.by = b, !.left = n] IN
         d \in DrainRecords /\ d.left = n /\ d.pos = 1 /\ d.waiting = FALSE
  BY DEF DrainRecords, NoDrain

\* A drain that reads its segment again.
LEMMA DrainRereads ==
  ASSUME NEW d \in DrainRecords
  PROVE  LET e == [d EXCEPT !.pos = 1, !.attempt = d.attempt + 1, !.waiting = FALSE] IN
         e \in DrainRecords /\ e.left = d.left /\ e.pos = 1 /\ e.waiting = FALSE
<1>1. ASSUME NEW a \in Nat
      PROVE  LET e == [d EXCEPT !.pos = 1, !.attempt = a, !.waiting = FALSE] IN
             e \in DrainRecords /\ e.left = d.left /\ e.pos = 1 /\ e.waiting = FALSE
  BY DEF DrainRecords
<1>2. PICK a \in Nat : a = d.attempt + 1
  <2>1. d.attempt \in Nat
    BY DEF DrainRecords
  <2> QED
    BY <2>1
<1> QED
  BY <1>1, <1>2

\* A drain that gives up.
LEMMA DrainStops ==
  ASSUME NEW d \in DrainRecords
  PROVE  LET e == [d EXCEPT !.left = 0, !.waiting = FALSE] IN
         e \in DrainRecords /\ e.left = 0 /\ e.pos = d.pos /\ e.waiting = FALSE
  BY DEF DrainRecords

\* A drain that waits for its record.
LEMMA DrainWaits ==
  ASSUME NEW d \in DrainRecords
  PROVE  LET e == [d EXCEPT !.waiting = TRUE] IN
         e \in DrainRecords /\ e.left = d.left /\ e.pos = d.pos
  BY DEF DrainRecords

\* A drain that goes on to the next record.
LEMMA DrainGoesOn ==
  ASSUME NEW d \in DrainRecords
  PROVE  LET e == [d EXCEPT !.pos = @ + 1, !.waiting = FALSE] IN
         e \in DrainRecords /\ e.left = d.left /\ e.pos = d.pos + 1 /\ e.waiting = FALSE
<1>1. ASSUME NEW n \in Nat
      PROVE  LET e == [d EXCEPT !.pos = n, !.waiting = FALSE] IN
             e \in DrainRecords /\ e.left = d.left /\ e.pos = n /\ e.waiting = FALSE
  BY DEF DrainRecords
<1>2. PICK n \in Nat : n = d.pos + 1
  <2>1. d.pos \in Nat
    BY DEF DrainRecords
  <2> QED
    BY <2>1
<1> QED
  BY <1>1, <1>2

\* The monitor.
LEMMA MonitorKept == ASSUME TypeInv, Monitor, Aside PROVE TypeInv'
<1>1. UNCHANGED <<pipeVars, restarts, fate>>
  BY DEF Aside
<1>2. CASE MonitorProbe
  <2>1. RecordSuccess /\ state = "Degraded" /\ send # "kafka"
    BY <1>2 DEF MonitorProbe, TypeInv, CountersOK
  <2>2. /\ failCount' \in 0..FailThreshold /\ successCount' \in 0..RecoverThreshold
        /\ state' \in {"Normal", "Degraded"} /\ drainSig' \in BOOLEAN
        /\ state' = "Normal" => failCount' < FailThreshold
        /\ state' = "Degraded" => successCount' < RecoverThreshold
    BY <2>1, RecordSuccessKept
  <2>3. UNCHANGED <<prodClosed, inClient, ack, brokerUp, outages, broker, expired, mode, send, wal,
                    walClosed, drain, monitor, close, timeouts, walErrors>>
    BY <1>2 DEF MonitorProbe
  <2>4. ch' \in Seq(Envelopes) /\ Len(ch') <= ChanCap
    BY <1>2, ProduceKept DEF MonitorProbe
  <2>5. ProdTypeOK(Msgs)'
    BY <2>3, <2>4 DEF TypeInv, TypeOK, ProdTypeOK, Envelopes
  <2> QED
    BY <1>1, <2>1, <2>2, <2>3, <2>5
    DEF TypeInv, TypeOK, PipeTypeOK, AdapterTypeOK, CountersOK, DrainOK, WorkerHolds, pipeVars, wal
<1>3. CASE MonitorDrain
  <2>1. UNCHANGED <<prodVars, mode, state, failCount, successCount, send, wal, walClosed,
                    monitor, close, timeouts, walErrors>>
        /\ drainSig' = FALSE /\ monitor = "loop"
        /\ (drain' = NoDrain \/ drain' = DrainOf("monitor"))
    BY <1>3 DEF MonitorDrain
  <2>2. drain' \in [by : {"none", "monitor", "close"}, left : Nat, pos : Nat, attempt : Nat,
                    waiting : BOOLEAN]
        /\ drain'.left <= Len(walSealed) /\ drain'.pos > 0 /\ drain'.waiting = FALSE
    <3>1. Len(walSealed) \in Nat
      BY DEF TypeInv, TypeOK, AdapterTypeOK
    <3>2. CASE drain' = NoDrain
      BY <3>1, <3>2, NoDrainIs DEF NoDrain
    <3>3. CASE drain' = DrainOf("monitor")
      <4>1. drain' = [NoDrain EXCEPT !.by = "monitor", !.left = Len(walSealed)]
        BY <3>3 DEF DrainOf
      <4>2. LET d == [NoDrain EXCEPT !.by = "monitor", !.left = Len(walSealed)] IN
            d \in DrainRecords /\ d.left = Len(walSealed) /\ d.pos = 1 /\ d.waiting = FALSE
        BY <3>1, DrainStarts
      <4> HIDE DEF DrainRecords
      <4> QED
        BY <3>1, <4>1, <4>2 DEF DrainRecords
    <3> QED
      BY <2>1, <3>2, <3>3
  <2>3. DrainOK'
    BY <2>1, <2>2 DEF DrainOK, wal
  <2>4. AdapterTypeOK(Msgs)'
    <3>1. drainSig' \in BOOLEAN
      BY <2>1
    <3>2. UNCHANGED <<mode, state, failCount, successCount, send, walActive, walSealed, walDone,
                      walClosed, monitor, close, timeouts, walErrors, spilled>>
      BY <2>1 DEF wal
    <3> QED
      BY <2>2, <3>1, <3>2 DEF TypeInv, TypeOK, AdapterTypeOK
  <2>5. PipeTypeOK' /\ ProdTypeOK(Msgs)' /\ CountersOK' /\ WorkerHolds'
    BY <1>1, <2>1
    DEF TypeInv, TypeOK, PipeTypeOK, ProdTypeOK, CountersOK, WorkerHolds, pipeVars, prodVars
  <2> QED
    BY <1>1, <2>3, <2>4, <2>5 DEF TypeInv, TypeOK
<1>4. CASE MonitorExit
  BY <1>1, <1>4
  DEF MonitorExit, TypeInv, TypeOK, PipeTypeOK, ProdTypeOK, AdapterTypeOK, CountersOK, DrainOK,
      WorkerHolds, pipeVars, prodVars, counters, wal
<1> QED
  BY <1>2, <1>3, <1>4 DEF Monitor

\* What is not the drain's stays as it is.
NotTheDrains ==
  UNCHANGED <<mode, counters, send, walClosed, monitor, close, walErrors, pipeVars, restarts, fate>>

\* A drain that has not moved on in the log keeps to its snapshot.
LEMMA DrainMoves ==
  ASSUME TypeInv, NotTheDrains, UNCHANGED <<wal, timeouts>>, ProdTypeOK(Msgs)',
         drain # NoDrain,
         drain' \in DrainRecords, drain'.left <= drain.left, drain'.pos > 0,
         drain'.waiting => drain'.left > 0 /\ drain'.pos <= Len(Head(walSealed))
  PROVE  TypeInv'
<1>1. drain'.left <= Len(walSealed)
  <2>1. drain.left <= Len(walSealed) /\ drain.left \in Nat /\ walSealed \in Seq(Seq(Msgs))
    BY DEF TypeInv, TypeOK, AdapterTypeOK, DrainOK
  <2> QED
    BY <2>1 DEF DrainRecords
<1>2. DrainOK'
  BY <1>1 DEF NotTheDrains, TypeInv, DrainOK, wal
<1> QED
  BY <1>2
  DEF NotTheDrains, TypeInv, TypeOK, PipeTypeOK, AdapterTypeOK, CountersOK, WorkerHolds,
      pipeVars, counters, wal, DrainRecords

\* What the invariant says of a drain, and of the segment it is at.
LEMMA DrainFields ==
  ASSUME TypeInv
  PROVE  /\ drain \in DrainRecords
         /\ drain.left \in Nat /\ drain.pos \in Nat \ {0} /\ drain.attempt \in Nat
         /\ drain.waiting \in BOOLEAN
         /\ walSealed \in Seq(Seq(Msgs))
         /\ Draining => /\ walSealed # <<>> /\ Head(walSealed) \in Seq(Msgs)
                        /\ drain # NoDrain /\ drain.left > 0
         /\ drain.waiting => Draining /\ ~SegmentRead
<1>1. drain \in DrainRecords /\ walSealed \in Seq(Seq(Msgs)) /\ DrainOK
  BY DEF TypeInv, TypeOK, AdapterTypeOK, DrainRecords
<1>2. /\ drain.left \in Nat /\ drain.pos \in Nat \ {0} /\ drain.attempt \in Nat
      /\ drain.waiting \in BOOLEAN
  BY <1>1 DEF DrainRecords, DrainOK
<1>3. drain.left > 0 => walSealed # <<>> /\ Head(walSealed) \in Seq(Msgs)
  BY <1>1, <1>2 DEF DrainOK
<1>4. drain.left > 0 => drain # NoDrain
  BY NoDrainIs
<1>5. drain.waiting => ~(drain.pos > Len(Head(walSealed)))
  BY <1>1, <1>2, <1>3 DEF DrainOK
<1>6. drain.waiting => drain.left > 0
  BY <1>1 DEF DrainOK
<1> QED
  BY <1>1, <1>2, <1>3, <1>4, <1>5, <1>6 DEF Draining, SegmentRead

\* A retry is still within the snapshot.
LEMMA RetryKept ==
  ASSUME TypeInv, DrainRetry
  PROVE  drain' \in DrainRecords /\ drain'.left <= drain.left /\ drain'.pos > 0 /\ drain'.waiting = FALSE
<1>1. /\ drain.left \in Nat /\ drain.pos \in Nat \ {0} /\ drain.attempt \in Nat
      /\ drain \in DrainRecords
  BY DrainFields
<1>2. CASE drain' = [drain EXCEPT !.pos = 1, !.attempt = drain.attempt + 1, !.waiting = FALSE]
  <2>1. LET e == [drain EXCEPT !.pos = 1, !.attempt = drain.attempt + 1, !.waiting = FALSE] IN
        e \in DrainRecords /\ e.left = drain.left /\ e.pos = 1 /\ e.waiting = FALSE
    BY <1>1, DrainRereads
  <2>2. /\ drain' \in DrainRecords /\ drain'.left = drain.left /\ drain'.pos = 1
        /\ drain'.waiting = FALSE
    BY <1>2, <2>1, Zenon
  <2>3. drain'.left <= drain.left /\ drain'.pos > 0
    BY <1>1, <2>2
  <2> QED
    BY <2>2, <2>3, Zenon
<1>3. CASE drain' = [drain EXCEPT !.left = 0, !.waiting = FALSE]
  <2>1. LET e == [drain EXCEPT !.left = 0, !.waiting = FALSE] IN
        e \in DrainRecords /\ e.left = 0 /\ e.pos = drain.pos /\ e.waiting = FALSE
    BY <1>1, DrainStops
  <2>2. /\ drain' \in DrainRecords /\ drain'.left = 0 /\ drain'.pos = drain.pos
        /\ drain'.waiting = FALSE
    BY <1>3, <2>1, Zenon
  <2> QED
    BY <1>1, <2>2
<1> QED
  BY <1>2, <1>3 DEF DrainRetry

\* Every step of a drain keeps the types.
LEMMA DrainKept == ASSUME TypeInv, Drain, Aside PROVE TypeInv'
<1>0. UNCHANGED <<pipeVars, restarts, fate>>
  BY DEF Aside
<1>1. CASE DrainProduce
  <2>1. NotTheDrains /\ UNCHANGED <<wal, timeouts>>
    BY <1>0, <1>1 DEF DrainProduce, NotTheDrains
  <2>2. /\ Draining /\ ~SegmentRead /\ drain' = [drain EXCEPT !.waiting = TRUE]
        /\ Produce(Head(walSealed)[drain.pos], "sync")
        /\ ack' = "none" /\ UNCHANGED <<prodClosed, inClient, brokerUp, outages, broker, expired>>
    BY <1>1 DEF DrainProduce
  <2>3. drain.pos <= Len(Head(walSealed)) /\ Head(walSealed)[drain.pos] \in Msgs
    <3>1. drain.pos \in Nat \ {0} /\ Head(walSealed) \in Seq(Msgs)
      BY <2>2, DrainFields
    <3> QED
      BY <2>2, <3>1 DEF SegmentRead
  <2>4. ch' \in Seq(Envelopes) /\ Len(ch') <= ChanCap
    BY <2>2, <2>3, ProduceKept
  <2>5. ProdTypeOK(Msgs)'
    BY <2>2, <2>4 DEF TypeInv, TypeOK, ProdTypeOK, Envelopes
  <2>6. /\ drain' \in DrainRecords /\ drain'.left = drain.left /\ drain'.pos = drain.pos
    BY <2>2, DrainFields, DrainWaits
  <2>7. drain'.left <= drain.left /\ drain'.pos > 0 /\ drain'.left > 0 /\ drain # NoDrain
    BY <2>2, <2>6, DrainFields
  <2> QED
    BY <2>1, <2>3, <2>5, <2>6, <2>7, DrainMoves
<1>2. CASE DrainProduceFails
  <2>1. NotTheDrains /\ UNCHANGED <<wal, timeouts, prodVars>> /\ DrainRetry /\ Draining
    BY <1>0, <1>2 DEF DrainProduceFails, NotTheDrains
  <2>2. ProdTypeOK(Msgs)'
    BY <2>1 DEF prodVars, TypeInv, TypeOK, ProdTypeOK
  <2> QED
    BY <2>1, <2>2, RetryKept, DrainMoves, DrainFields
<1>3. CASE DrainAnswered
  <2>1. /\ NotTheDrains /\ UNCHANGED <<wal, timeouts>> /\ drain.waiting
        /\ UNCHANGED <<ch, prodClosed, inClient, brokerUp, outages, broker, expired>>
        /\ ack' = "none"
        /\ DrainRetry \/ drain' = [drain EXCEPT !.pos = @ + 1, !.waiting = FALSE]
    BY <1>0, <1>3 DEF DrainAnswered, NotTheDrains
  <2>2. ProdTypeOK(Msgs)'
    BY <2>1 DEF TypeInv, TypeOK, ProdTypeOK
  <2>3. drain # NoDrain
    BY <2>1, NoDrainIs
  <2>4. CASE DrainRetry
    BY <2>1, <2>2, <2>3, <2>4, RetryKept, DrainMoves
  <2>5. CASE drain' = [drain EXCEPT !.pos = @ + 1, !.waiting = FALSE]
    <3>1. /\ drain' \in DrainRecords /\ drain'.left = drain.left /\ drain'.pos = drain.pos + 1
          /\ drain'.waiting = FALSE
      BY <2>5, DrainFields, DrainGoesOn
    <3>2. drain'.left <= drain.left /\ drain'.pos > 0
      BY <3>1, DrainFields
    <3> QED
      BY <2>1, <2>2, <2>3, <3>1, <3>2, DrainMoves
  <2> QED
    BY <2>1, <2>4, <2>5
<1>4. CASE DrainSegmentDone
  <2>1. /\ NotTheDrains /\ UNCHANGED <<prodVars, timeouts, walActive, spilled>>
        /\ SegmentRead /\ Draining
        /\ walSealed' = Tail(walSealed)
        /\ walDone' = walDone + Len(Head(walSealed))
        /\ drain' = [NoDrain EXCEPT !.by = drain.by, !.left = drain.left - 1]
    BY <1>0, <1>4 DEF DrainSegmentDone, NotTheDrains, SegmentRead
  <2>2. /\ drain.left \in Nat /\ drain.left > 0 /\ drain.left <= Len(walSealed)
        /\ walSealed \in Seq(Seq(Msgs)) /\ walSealed # <<>> /\ Head(walSealed) \in Seq(Msgs)
        /\ drain.by \in {"none", "monitor", "close"} /\ drain # NoDrain
    BY <2>1, DrainFields DEF TypeInv, DrainOK, DrainRecords
  <2>3. walSealed' \in Seq(Seq(Msgs)) /\ walDone' \in Nat /\ Len(walSealed') = Len(walSealed) - 1
    BY <2>1, <2>2, SMTT(30) DEF TypeInv, TypeOK, AdapterTypeOK
  <2>4. drain.left - 1 \in Nat
    BY <2>2
  <2>5. /\ drain' \in DrainRecords /\ drain'.left = drain.left - 1 /\ drain'.pos = 1
        /\ drain'.waiting = FALSE
    BY <2>1, <2>2, <2>4, DrainStarts, ZenonT(40)
  <2>6. DrainOK'
    <3>1. drain'.left <= Len(walSealed') /\ drain'.pos > 0
      BY <2>2, <2>3, <2>5
    <3>2. monitor' = "loop" \/ close' = "draining"
      BY <2>1, <2>2 DEF TypeInv, DrainOK, NotTheDrains
    <3> QED
      BY <2>5, <3>1, <3>2 DEF DrainOK
  <2>7. AdapterTypeOK(Msgs)'
    BY <2>1, <2>3, <2>5 DEF NotTheDrains, counters, TypeInv, TypeOK, AdapterTypeOK, DrainRecords
  <2> QED
    BY <2>1, <2>6, <2>7
    DEF NotTheDrains, TypeInv, TypeOK, PipeTypeOK, ProdTypeOK, CountersOK, WorkerHolds,
        pipeVars, prodVars, counters
<1>5. CASE DrainTimeout
  <2>1. /\ NotTheDrains /\ UNCHANGED <<wal, prodClosed, brokerUp, outages, broker, expired>>
        /\ Draining /\ timeouts < MaxTimeouts /\ timeouts' = timeouts + 1
        /\ drain' = [drain EXCEPT !.left = 0, !.waiting = FALSE]
        /\ ch' = Unheard(ch) /\ inClient' = Unheard(inClient) /\ ack' = "none"
    BY <1>0, <1>5 DEF DrainTimeout, NotTheDrains, Abandon
  <2>2. ProdTypeOK(Msgs)'
    <3>1. ch \in Seq(Envelopes) /\ inClient \in Seq(Envelopes)
      BY DEF TypeInv, TypeOK, ProdTypeOK, Envelopes
    <3>2. /\ ch' \in Seq(Envelopes) /\ Len(ch') = Len(ch)
          /\ inClient' \in Seq(Envelopes) /\ Len(inClient') = Len(inClient)
      BY <2>1, <3>1, UnheardType
    <3> QED
      BY <2>1, <3>2 DEF TypeInv, TypeOK, ProdTypeOK, Envelopes
  <2>3. /\ drain' \in DrainRecords /\ drain'.left = 0 /\ drain'.pos = drain.pos
        /\ drain'.waiting = FALSE
    BY <2>1, DrainFields, DrainStops
  <2>4. timeouts' \in 0..MaxTimeouts
    <3>1. timeouts \in 0..MaxTimeouts
      BY DEF TypeInv, TypeOK, AdapterTypeOK
    <3> QED
      BY <2>1, <3>1, AdapterAssumption
  <2>5. DrainOK'
    <3>1. drain'.left <= Len(walSealed') /\ drain'.pos > 0
      BY <2>1, <2>3, DrainFields DEF wal
    <3>2. monitor' = "loop" \/ close' = "draining"
      BY <2>1, DrainFields DEF TypeInv, DrainOK, NotTheDrains
    <3> QED
      BY <2>3, <3>1, <3>2 DEF DrainOK
  <2>6. AdapterTypeOK(Msgs)'
    BY <2>1, <2>3, <2>4 DEF NotTheDrains, counters, wal, TypeInv, TypeOK, AdapterTypeOK, DrainRecords
  <2> QED
    BY <2>1, <2>2, <2>5, <2>6
    DEF NotTheDrains, TypeInv, TypeOK, PipeTypeOK, CountersOK, WorkerHolds, pipeVars, counters
<1>6. CASE DrainReturn
  <2>1. NotTheDrains /\ UNCHANGED <<wal, timeouts, prodVars>> /\ drain' = NoDrain /\ drain # NoDrain
    BY <1>0, <1>6 DEF DrainReturn, NotTheDrains
  <2>2. ProdTypeOK(Msgs)'
    BY <2>1 DEF prodVars, TypeInv, TypeOK, ProdTypeOK
  <2>3. NoDrain \in DrainRecords
    BY DEF NoDrain, DrainRecords
  <2>4. drain'.left = 0 /\ drain'.pos = 1 /\ drain'.waiting = FALSE
    BY <2>1, NoDrainIs
  <2>5. drain'.left <= drain.left /\ drain'.pos > 0
    BY <2>4, DrainFields
  <2> QED
    BY <2>1, <2>2, <2>3, <2>4, <2>5, DrainMoves
<1> QED
  BY <1>1, <1>2, <1>3, <1>4, <1>5, <1>6 DEF Drain

\* Deleting done segments keeps the types.
LEMMA CleanupKept == ASSUME TypeInv, WalCleanup, Aside PROVE TypeInv'
<1>1. walDone' \in Nat
  BY DEF WalCleanup, TypeInv, TypeOK, AdapterTypeOK
<1> QED
  BY <1>1
  DEF WalCleanup, Aside, TypeInv, TypeOK, PipeTypeOK, ProdTypeOK, AdapterTypeOK, CountersOK,
      DrainOK, WorkerHolds, pipeVars, prodVars, counters

\* So do the sink's own goroutines.
LEMMA AdapterKept == ASSUME TypeInv, Adapter PROVE TypeInv'
  BY MonitorKept, DrainKept, CleanupKept DEF Adapter

\* The phases of the shutdown.
LEMMA ShutdownKept == ASSUME TypeInv, Shutdown PROVE TypeInv'
<1>0. UNCHANGED <<pipeVars, restarts, fate>>
  BY DEF Shutdown, Aside
<1>1. ASSUME \/ CloseBegin
             \/ CloseReturn
      PROVE  TypeInv'
  <2>1. /\ UNCHANGED <<prodVars, mode, counters, send, wal, walClosed, drain, monitor, timeouts,
                       walErrors>>
        /\ close' \in {"stopping", "closed"} /\ close # "draining"
    BY <1>1 DEF CloseBegin, CloseReturn
  <2> QED
    BY <1>0, <2>1
    DEF TypeInv, TypeOK, PipeTypeOK, ProdTypeOK, AdapterTypeOK, CountersOK, DrainOK, WorkerHolds,
        pipeVars, prodVars, counters, wal
<1>2. CASE CloseDrain
  <2>1. /\ UNCHANGED <<prodVars, mode, counters, send, wal, walClosed, monitor, timeouts, walErrors>>
        /\ close' = "draining"
        /\ drain' = NoDrain \/ drain' = DrainOf("close")
    BY <1>2 DEF CloseDrain
  <2>2. /\ drain' \in DrainRecords /\ drain'.left <= Len(walSealed) /\ drain'.pos > 0
        /\ drain'.waiting = FALSE
    <3>1. Len(walSealed) \in Nat
      BY DEF TypeInv, TypeOK, AdapterTypeOK
    <3>2. CASE drain' = NoDrain
      <4>1. NoDrain \in DrainRecords
        BY DEF NoDrain, DrainRecords
      <4> QED
        BY <3>1, <3>2, <4>1, NoDrainIs
    <3>3. CASE drain' = DrainOf("close")
      <4>1. /\ drain' \in DrainRecords /\ drain'.left = Len(walSealed) /\ drain'.pos = 1
            /\ drain'.waiting = FALSE
        BY <3>1, <3>3, DrainStarts DEF DrainOf
      <4> QED
        BY <3>1, <4>1
    <3> QED
      BY <2>1, <3>2, <3>3
  <2>3. DrainOK'
    BY <2>1, <2>2 DEF DrainOK, wal
  <2>4. AdapterTypeOK(Msgs)'
    BY <2>1, <2>2 DEF TypeInv, TypeOK, AdapterTypeOK, counters, wal, DrainRecords
  <2> QED
    BY <1>0, <2>1, <2>3, <2>4
    DEF TypeInv, TypeOK, PipeTypeOK, ProdTypeOK, CountersOK, WorkerHolds, pipeVars, prodVars, counters
<1>3. CASE CloseWal
  <2>1. /\ UNCHANGED <<ch, inClient, ack, brokerUp, outages, broker, expired, mode, counters, send,
                       walDone, spilled, drain, monitor, timeouts, walErrors>>
        /\ walClosed' = TRUE /\ WalSeal /\ walActive' = <<>> /\ close' = "closingKafka"
        /\ prodClosed' = TRUE /\ drain = NoDrain
    BY <1>3 DEF CloseWal, CloseProducer
  <2>2. walSealed' \in Seq(Seq(Msgs)) /\ Len(walSealed) <= Len(walSealed')
    BY <2>1, SealKept
  <2>3. DrainOK'
    <3>1. drain' = NoDrain
      BY <2>1
    <3>2. Len(walSealed') \in Nat
      BY <2>2
    <3> QED
      BY <3>1, <3>2, NoDrainIs DEF DrainOK
  <2>4. <<>> \in Seq(Msgs)
    OBVIOUS
  <2>5. AdapterTypeOK(Msgs)'
    BY <2>1, <2>2, <2>4 DEF TypeInv, TypeOK, AdapterTypeOK, counters
  <2> QED
    BY <1>0, <2>1, <2>3, <2>5
    DEF TypeInv, TypeOK, PipeTypeOK, ProdTypeOK, CountersOK, WorkerHolds, pipeVars, counters
<1>4. CASE CloseTimeout /\ UNCHANGED adapterVars
  <2>1. ch \in Seq(Envelopes) /\ inClient \in Seq(Envelopes)
    BY DEF TypeInv, TypeOK, ProdTypeOK, Envelopes
  <2>2. expired' \in SUBSET Msgs
    <3>1. expired' = expired \cup Messages(ch) \cup Messages(inClient)
      BY <1>4 DEF CloseTimeout
    <3>2. Messages(ch) \subseteq Msgs /\ Messages(inClient) \subseteq Msgs
      BY <2>1, MessagesType
    <3> QED
      BY <3>1, <3>2 DEF TypeInv, TypeOK, ProdTypeOK
  <2>3. <<>> \in Seq(Envelopes) /\ Len(<<>>) = 0
    OBVIOUS
  <2>4. ProdTypeOK(Msgs)'
    BY <1>4, <2>2, <2>3, ProducerAssumption
    DEF CloseTimeout, TypeInv, TypeOK, ProdTypeOK, Envelopes
  <2> QED
    BY <1>0, <1>4, <2>4
    DEF TypeInv, TypeOK, PipeTypeOK, AdapterTypeOK, CountersOK, DrainOK, WorkerHolds, pipeVars,
        adapterVars, counters, wal
<1> QED
  BY <1>1, <1>2, <1>3, <1>4 DEF Shutdown, Close

\* The next process.
LEMMA RestartKept == ASSUME TypeInv, Restart PROVE TypeInv'
<1>1. PipeTypeOK'
  <2>1. <<>> \in Seq(Msgs)
    OBVIOUS
  <2>2. accepted \in Seq(Msgs) /\ Len(accepted) \in Nat
    BY DEF TypeInv, TypeOK, PipeTypeOK
  <2> QED
    BY <2>1, <2>2 DEF Restart, PipeTypeOK
<1>2. ProdTypeOK(Msgs)'
  <2>1. <<>> \in Seq(Envelopes) /\ Len(<<>>) = 0
    OBVIOUS
  <2>2. /\ ch' \in Seq(Envelopes) /\ inClient' \in Seq(Envelopes)
        /\ Len(ch') <= ChanCap /\ Len(inClient') <= ClientCap
    <3>1. ch' = <<>> /\ inClient' = <<>>
      BY DEF Restart
    <3> QED
      BY <2>1, <3>1, ProducerAssumption
  <2>3. prodClosed' \in BOOLEAN /\ ack' \in {"none", "ok", "err"} /\ brokerUp' \in BOOLEAN
    BY DEF Restart, TypeInv, TypeOK, ProdTypeOK
  <2>4. outages' \in 0..MaxOutages /\ broker' \in SUBSET Msgs /\ expired' \in SUBSET Msgs
    BY DEF Restart, TypeInv, TypeOK, ProdTypeOK
  <2> QED
    BY <2>2, <2>3, <2>4 DEF ProdTypeOK, Envelopes
<1>3. walSealed' \in Seq(Seq(Msgs)) /\ Len(walSealed') \in Nat
  BY SealKept DEF Restart
<1>4. AdapterTypeOK(Msgs)'
  <2>1. /\ mode' \in {"adapter", "walOnly"} /\ state' \in {"Normal", "Degraded"}
        /\ drainSig' \in BOOLEAN /\ send' \in {"load", "kafka", "wal"}
        /\ walClosed' \in BOOLEAN /\ monitor' \in {"loop", "exited"} /\ drain' = NoDrain
        /\ close' \in {"no", "stopping", "draining", "closingKafka", "closed"}
    BY DEF Restart
  <2>2. failCount' \in 0..FailThreshold /\ successCount' \in 0..RecoverThreshold
    BY AdapterAssumption DEF Restart
  <2>3. /\ walDone' \in Nat /\ timeouts' \in 0..MaxTimeouts /\ walErrors' \in 0..MaxWalErrors
        /\ spilled' \in SUBSET Msgs
    BY DEF Restart, TypeInv, TypeOK, AdapterTypeOK
  <2>4. walActive' \in Seq(Msgs)
    <3>1. <<>> \in Seq(Msgs)
      OBVIOUS
    <3> QED
      BY <3>1 DEF Restart
  <2>5. drain' \in DrainRecords
    BY <2>1 DEF NoDrain, DrainRecords
  <2> QED
    BY <1>3, <2>1, <2>2, <2>3, <2>4, <2>5 DEF AdapterTypeOK, DrainRecords
<1>5. CountersOK'
  BY AdapterAssumption DEF Restart, CountersOK
<1>6. DrainOK'
  <2>1. drain' = NoDrain
    BY DEF Restart
  <2> QED
    BY <1>3, <2>1, NoDrainIs DEF DrainOK
<1>7. WorkerHolds'
  BY DEF Restart, WorkerHolds
<1>8. restarts' \in 0..MaxRestarts
  <2>1. restarts \in 0..MaxRestarts /\ restarts < MaxRestarts /\ restarts' = restarts + 1
    BY DEF Restart, TypeInv, TypeOK
  <2> QED
    BY <2>1, GatewayAssumption
<1>9. fate' \in [Msgs -> {"none", "backpressure", "closed", "error", "crash"}]
  BY DEF Restart, TypeInv, TypeOK
<1> QED
  BY <1>1, <1>2, <1>4, <1>5, <1>6, <1>7, <1>8, <1>9 DEF TypeInv, TypeOK

\* The type invariant of the data path, with what it rests on: Send and the monitor
\* keep out of each other's counters, a drain stays within its snapshot of the log.
THEOREM TypeInvariant == Spec => []TypeInv
<1>1. ASSUME TypeInv, UNCHANGED vars PROVE TypeInv'
  BY <1>1
  DEF vars, TypeInv, TypeOK, PipeTypeOK, ProdTypeOK, AdapterTypeOK, CountersOK, DrainOK,
      WorkerHolds, pipeVars, prodVars, adapterVars, counters, wal
<1>2. TypeInv /\ [Next]_vars => TypeInv'
  BY <1>1, PipeKept, WorkerKept, KafkaKept, AdapterKept, ShutdownKept, RestartKept
  DEF Next, Exited
<1> QED
  BY <1>2, InitTyped, PTL DEF Spec

\* Every variable of the data path keeps its type, for any handlers, messages and capacities.
THEOREM GatewayTyped == Spec => []TypeOK
<1>1. TypeInv => TypeOK
  BY DEF TypeInv
<1> QED
  BY <1>1, TypeInvariant, PTL
-----------------------------------------------------------------------------
\* Every step of the gateway is one of its queue, or a restart.
LEMMA PipeStep == ASSUME [Next]_vars PROVE [PipeNext]_pipeVars \/ Restart
  BY DEF Next, Pipe, Worker, PipeNext, Kafka, Adapter, Shutdown, Aside, Exited, vars

\* The queue between the handlers and the sink loses, duplicates and reorders nothing,
\* across stops, crashes and restarts (pipeline.go:86-134).
THEOREM QueueKept == Spec => []QueueIsSuffix
<1>1. Init => QueueIsSuffix
  BY PipelineAssumption DEF Init, PipeInit, QueueIsSuffix
<1>2. ASSUME TypeInv, QueueIsSuffix, [Next]_vars PROVE QueueIsSuffix'
  <2>1. CASE [PipeNext]_pipeVars
    BY <1>2, <2>1, QueueSuffixKept DEF TypeInv, TypeOK
  <2>2. CASE Restart
    <3>1. queue' = <<>> /\ taken' = Len(accepted) /\ accepted' = accepted
      BY <2>2 DEF Restart
    <3>2. Len(accepted) \in Nat /\ QueueCap \in Nat
      BY <1>2, PipelineAssumption DEF TypeInv, TypeOK, PipeTypeOK
    <3> QED
      BY <3>1, <3>2 DEF QueueIsSuffix
  <2> QED
    BY <1>2, <2>1, <2>2, PipeStep
<1> QED
  BY <1>1, <1>2, TypeInvariant, PTL DEF Spec

\* What the shutdown closes the sink over is final: once Stop has returned nothing is
\* accepted in that process, even from a handler that had passed the check of stopCh
\* before (pipeline.go:86-113, main.go's deferred order).
THEOREM NothingAcceptedAfterStop == Spec => NothingAfterStop
<1>1. ShutdownInv => (stop = "returned" => chClosed)
  BY DEF ShutdownInv, PipeStoppedFirst, QueueDrained
<1>2. ShutdownInv /\ [Next]_vars => [stop = "returned" => accepted' = accepted]_pipeVars
  <2> SUFFICES ASSUME ShutdownInv, [Next]_vars, stop = "returned"
               PROVE  accepted' = accepted
    BY DEF pipeVars
  <2>1. CASE [PipeNext]_pipeVars
    BY <1>1, <2>1 DEF PipeNext, PipeEnv, SubmitCheck, SubmitSend, StopBegin, StopClose,
                      StopReturn, WorkerTake, WorkerEnd, WorkerReturn, pipeVars
  <2>2. CASE Restart
    BY <2>2 DEF Restart
  <2> QED
    BY <2>1, <2>2, PipeStep
<1> QED
  BY <1>2, ShutdownInvariant, PTL DEF Spec, NothingAfterStop
-----------------------------------------------------------------------------
\* What a loss is put down to: a record the broker refuses, a broker that was down, a
\* process that ended, a WAL that could not be written.  Only a restart runs the WAL alone.
BlameOK ==
  /\ outages = 0 => brokerUp = TRUE
  /\ outages = 0 /\ restarts = 0 /\ ~prodClosed => expired \subseteq Refused
  /\ restarts = 0 => mode = "adapter" /\ \A m \in Msgs : fate[m] # "crash"
  /\ walErrors = 0 /\ restarts = 0 => \A m \in Msgs : fate[m] # "error"

BlameTyped ==
  /\ outages \in Nat /\ walErrors \in Nat /\ restarts \in Nat
  /\ fate \in [Msgs -> {"none", "backpressure", "closed", "error", "crash"}]
  /\ prodClosed \in BOOLEAN

\* A record fails in the client because it is refused, or the broker was down.
LEMMA KafkaBlame == ASSUME BlameTyped, BlameOK, Kafka PROVE BlameOK'
<1>1. UNCHANGED <<adapterVars, restarts, fate>>
  BY DEF Kafka, Aside
<1>2. UNCHANGED <<mode, walErrors, restarts, fate>>
  BY <1>1 DEF adapterVars
<1>3. prodClosed' = prodClosed
  BY DEF Kafka, ProdNext, Flusher, BrokerAcks, RecordFails, BrokerDown, BrokerBack
<1>4. CASE BrokerDown
  <2>1. outages' # 0
    BY <1>4 DEF BrokerDown, BlameTyped
  <2> QED
    BY <1>2, <2>1 DEF BlameOK
<1>5. CASE RecordFails
  <2>1. UNCHANGED <<outages, brokerUp>>
    BY <1>5 DEF RecordFails
  <2>2. ASSUME outages = 0, expired \subseteq Refused PROVE expired' \subseteq Refused
    <3>1. brokerUp = TRUE
      BY <2>2 DEF BlameOK
    <3> QED
      BY <1>5, <2>2, <3>1 DEF RecordFails
  <2> QED
    BY <1>2, <1>3, <2>1, <2>2 DEF BlameOK
<1>6. CASE Flusher \/ BrokerAcks \/ BrokerBack
  <2>1. UNCHANGED <<outages, expired>> /\ (brokerUp => brokerUp')
    BY <1>6 DEF Flusher, BrokerAcks, BrokerBack
  <2>2. outages = 0 => brokerUp' = TRUE
    BY <1>6, <2>1 DEF Flusher, BrokerAcks, BrokerBack, BlameOK
  <2> QED
    BY <1>2, <1>3, <2>1, <2>2 DEF BlameOK
<1> QED
  BY <1>4, <1>5, <1>6 DEF Kafka, ProdNext

\* The worker drops a message for the reason Send gives, and the adapter gives "error"
\* for a failed write only.
LEMMA WorkerBlame == ASSUME BlameTyped, BlameOK, Worker PROVE BlameOK'
<1>1. UNCHANGED <<restarts, mode, outages, brokerUp, prodClosed, expired>>
  BY DEF Worker, SendLoad, SendKafkaFails, SendKafka, SendWal, SendWalFails, prodVars
<1>2. CASE (SendLoad \/ SendKafkaFails) /\ UNCHANGED <<pipeVars, fate>>
  BY <1>1, <1>2 DEF SendLoad, SendKafkaFails, BlameOK
<1>3. ASSUME NEW r \in SendResults,
             SendKafka(cur, r) \/ SendWal(cur, r) \/ SendWalFails(r),
             fate' = IF r = "ok" THEN fate ELSE [fate EXCEPT ![cur] = r]
      PROVE  BlameOK'
  <2>1. \A m \in Msgs : fate'[m] = fate[m] \/ fate'[m] = r
    BY <1>3 DEF BlameTyped
  <2>2. r # "crash"
    BY DEF SendResults
  <2>3. CASE SendWalFails(r)
    <3>1. walErrors' # 0
      BY <2>3 DEF SendWalFails, BlameTyped
    <3> QED
      BY <1>1, <2>1, <2>2, <3>1 DEF BlameOK
  <2>4. CASE SendKafka(cur, r) \/ SendWal(cur, r)
    <3>1. walErrors' = walErrors
      BY <2>4 DEF SendKafka, SendWal
    <3>2. mode = "adapter" => r # "error"
      BY <2>4 DEF SendKafka, SendWal, WalError
    <3> QED
      BY <1>1, <2>1, <2>2, <3>1, <3>2 DEF BlameOK
  <2> QED
    BY <1>3, <2>3, <2>4
<1> QED
  BY <1>2, <1>3 DEF Worker

\* No step loses a message while the broker is up, the process runs and the WAL writes.
LEMMA BlameKept == ASSUME BlameTyped, BlameOK, [Next]_vars PROVE BlameOK'
<1>1. CASE Restart
  <2>1. restarts' # 0 /\ UNCHANGED <<outages, brokerUp>>
    BY <1>1 DEF Restart, BlameTyped
  <2> QED
    BY <2>1 DEF BlameOK
<1>2. CASE Adapter
  BY <1>2 DEF Adapter, Monitor, MonitorProbe, MonitorDrain, MonitorExit, Drain, DrainProduce,
    DrainProduceFails, DrainAnswered, DrainSegmentDone, DrainTimeout, DrainReturn, WalCleanup,
    Aside, prodVars, BlameOK
<1>3. CASE Shutdown
  <2>1. UNCHANGED <<restarts, fate>>
    BY <1>3 DEF Shutdown, Aside
  <2>2. CASE CloseTimeout /\ UNCHANGED adapterVars
    BY <2>1, <2>2 DEF CloseTimeout, adapterVars, BlameOK
  <2>3. CASE CloseWal
    BY <2>1, <2>3 DEF CloseWal, CloseProducer, BlameOK
  <2>4. CASE CloseBegin \/ CloseDrain \/ CloseReturn
    BY <2>1, <2>4 DEF CloseBegin, CloseDrain, CloseReturn, prodVars, BlameOK
  <2> QED
    BY <1>3, <2>2, <2>3, <2>4 DEF Shutdown, Close
<1>4. CASE Pipe \/ Exited \/ UNCHANGED vars
  BY <1>4 DEF Pipe, Exited, vars, prodVars, adapterVars, BlameOK
<1> QED
  BY <1>1, <1>2, <1>3, <1>4, KafkaBlame, WorkerBlame DEF Next

\* Whatever is lost has one of those causes.
THEOREM LossHasCause == Spec => []BlameOK
<1>1. Init => BlameOK
  BY DEF Init, ProdInit, AdapterInit, AdapterStart, BlameOK
<1>2. TypeInv => BlameTyped
  BY GatewayAssumption, ProducerAssumption, AdapterAssumption
  DEF TypeInv, TypeOK, ProdTypeOK, AdapterTypeOK, BlameTyped
<1> QED
  BY <1>1, <1>2, BlameKept, TypeInvariant, PTL DEF Spec
=============================================================================
