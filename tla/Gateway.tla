------------------------------ MODULE Gateway ------------------------------
(***************************************************************************)
(* The data path of one gateway process, as cmd/prom-gw/main.go puts it    *)
(* together: handlers submit to the sink pipeline, its worker calls        *)
(* AdapterSink.Send, the producer delivers, the monitor drains the WAL.    *)
(* The shutdown is main's deferred calls: the pipeline is stopped, and     *)
(* only then the sink closed.  The process may die in any state and the    *)
(* next one starts on the same WAL directory.                              *)
(***************************************************************************)
EXTENDS SinkPipeline, AdapterSink

CONSTANT MaxRestarts   \* bound: processes started after the first

ASSUME GatewayAssumption ==
  MaxRestarts \in Nat /\ Probe \notin Msgs \cup {Nothing}

VARIABLES
  restarts,
  fate   \* history: why an accepted message was dropped, "none" if it was not

vars == <<pipeVars, prodVars, adapterVars, restarts, fate>>

Init ==
  /\ PipeInit
  /\ ProdInit
  /\ AdapterInit
  /\ restarts = 0
  /\ fate = [m \in Msgs |-> "none"]
-----------------------------------------------------------------------------
\* The handlers, Stop, and the worker's receive.
Pipe == PipeEnv /\ UNCHANGED <<prodVars, adapterVars, restarts, fate>>

\* The worker's Send: a step inside it, or its answer.  Whatever the error, the
\* message is not sent again.
Worker ==
  /\ worker = "sending"
  /\ \/ /\ SendLoad \/ SendKafkaFails
        /\ UNCHANGED <<pipeVars, fate>>
     \/ \E r \in SendResults :
          /\ SendKafka(cur, r) \/ SendWal(cur, r) \/ SendWalFails(r)
          /\ WorkerReturn(r)
          /\ fate' = IF r = "ok" THEN fate ELSE [fate EXCEPT ![cur] = r]
  /\ UNCHANGED restarts

Aside == UNCHANGED <<pipeVars, restarts, fate>>

\* The goroutines of the sink, the client and the broker.
Kafka == ProdNext /\ UNCHANGED adapterVars /\ Aside
Adapter == (Monitor \/ Drain \/ WalCleanup) /\ Aside

\* Mutant: the sink is closed before the pipeline has stopped.
ShutdownSinkFirst ==
  /\ CloseBegin \/ Close \/ (close = "closingKafka" /\ CloseTimeout /\ UNCHANGED adapterVars)
  /\ Aside

\* main's deferred calls once pipe.Stop() has returned.
Shutdown ==
  /\ \/ stop = "returned" /\ CloseBegin
     \/ Close
     \/ close = "closingKafka" /\ CloseTimeout /\ UNCHANGED adapterVars
  /\ Aside
-----------------------------------------------------------------------------
Elements(q) == {q[i] : i \in DOMAIN q}
InWal == Elements(walActive) \cup UNION {Elements(s) : s \in Elements(walSealed)}
InMemory ==
  Elements(queue) \cup ({cur} \ {Nothing}) \cup Messages(ch) \cup Messages(inClient)
Accepted == Elements(accepted)

\* The process ends, by a crash or after its shutdown, and the next one starts:
\* memory is gone, wal.New seals the segment it finds unsealed, nothing is replayed,
\* and the sink is the WAL alone if Kafka does not answer the first ping.
Restart ==
  /\ restarts < MaxRestarts
  /\ restarts' = restarts + 1
  /\ fate' = [m \in Msgs |->
               IF m \in InMemory \ (InWal \cup broker) THEN "crash" ELSE fate[m]]
  /\ queue' = <<>>
  /\ stopCh' = FALSE
  /\ chClosed' = FALSE
  /\ hand' = [h \in Handlers |-> Nothing]
  /\ worker' = "idle"
  /\ cur' = Nothing
  /\ stop' = "no"
  /\ taken' = Len(accepted)
  /\ ch' = <<>>
  /\ prodClosed' = FALSE
  /\ inClient' = <<>>
  /\ ack' = "none"
  /\ mode' = IF brokerUp THEN "adapter" ELSE "walOnly"
  /\ state' = "Normal"
  /\ failCount' = 0
  /\ successCount' = 0
  /\ drainSig' = FALSE
  /\ send' = "load"
  /\ walClosed' = FALSE
  /\ drain' = NoDrain
  /\ monitor' = IF brokerUp THEN "loop" ELSE "exited"
  /\ close' = "no"
  /\ WalSeal
  /\ walActive' = <<>>
  /\ UNCHANGED <<accepted, brokerUp, outages, broker, expired, walDone, timeouts,
                 walErrors, spilled>>

\* The process has shut down and is not started again.
Exited == close = "closed" /\ UNCHANGED vars

Next == Pipe \/ Worker \/ Kafka \/ Adapter \/ Shutdown \/ Restart \/ Exited

Spec == Init /\ [][Next]_vars

\* Each goroutine keeps running, a ticker keeps ticking and the client answers every
\* record within its delivery timeout.  Nothing is assumed of the handlers, of the
\* broker, of the retention cleanup or of whoever asks for a shutdown.
Client == (BrokerAcks \/ RecordFails) /\ UNCHANGED adapterVars /\ Aside
Fairness ==
  /\ WF_vars((WorkerTake \/ WorkerEnd) /\ UNCHANGED <<prodVars, adapterVars, restarts, fate>>)
  /\ WF_vars(Worker)
  /\ WF_vars(Flusher /\ UNCHANGED adapterVars /\ Aside)
  /\ WF_vars(Client)
  /\ WF_vars((Monitor \/ Drain) /\ Aside)
  /\ WF_vars((StopClose \/ StopReturn) /\ UNCHANGED <<prodVars, adapterVars, restarts, fate>>)
  /\ WF_vars(Shutdown)
FairSpec == Spec /\ Fairness
-----------------------------------------------------------------------------
TypeOK ==
  /\ PipeTypeOK
  /\ ProdTypeOK(Msgs)
  /\ AdapterTypeOK(Msgs)
  /\ restarts \in 0..MaxRestarts
  /\ fate \in [Msgs -> {"none", "backpressure", "closed", "error", "crash"}]

\* Every message Submit accepted is somewhere: in memory on its way, in the WAL, at
\* the broker, or dropped for a cause the code reports.  No handover between queue,
\* worker, producer, drain and shutdown loses one silently.
Conservation ==
  Accepted \subseteq
    InMemory \cup InWal \cup broker \cup expired \cup {m \in Msgs : fate[m] # "none"}

\* The worker never meets a closed sink, so a stop drains the whole queue: WAL and
\* producer are closed only once the worker has left with the queue empty (main's
\* deferred order, pipeline.go:109-113).
SinkOutlivesPipeline ==
  /\ \A m \in Msgs : fate[m] # "closed"
  /\ walClosed \/ prodClosed => worker = "exited" /\ queue = <<>>

\* A completed shutdown leaves nothing behind in memory: what was accepted has reached
\* the broker or the WAL, or has failed for a reported cause (sink.go:294-300).
ShutdownLeavesNothing ==
  close = "closed" => InMemory = {} /\ walActive = <<>> /\ worker = "exited"

\* As long as the broker has stayed up, no process has died, no WAL write has failed
\* and the producer is not being closed, an accepted message the broker would take is
\* on its way, in the WAL or delivered, or both channel and WAL were full for it.  Slow
\* clients, cut-off drains and refused neighbours in a segment lose nothing.
NoLossWhileHealthy ==
  outages = 0 /\ restarts = 0 /\ walErrors = 0 /\ ~prodClosed =>
    Accepted \ Refused \subseteq
      InMemory \cup InWal \cup broker \cup {m \in Msgs : fate[m] = "backpressure"}

\* The WAL behind the sink keeps a message until the broker has acknowledged it: sink
\* and drain together implement the abstract log, whose handler is the broker.
Log == INSTANCE DurableLog WITH
         Records <- Msgs, acked <- spilled, stored <- InWal, delivered <- broker
ImplementsLog == Log!Spec

\* Every accepted message is taken by the worker, whatever state Kafka and the WAL
\* are in: the sink may refuse, but never blocks the queue for good.
AcceptedIsTaken ==
  \A n \in 1..Cardinality(Msgs) : Len(accepted) >= n ~> taken >= n

\* Once the broker is back for good the adapter does not stay degraded: the monitor's
\* probes succeed in a row, whatever drains and sends run between (sink.go:321-324).
DegradedEnds ==
  <>[]brokerUp => (state = "Degraded" ~> state = "Normal" \/ close # "no")

\* A shutdown that has begun completes, with the broker up or down
\* (sink.go:120-122: Close is not blocked for good).
ShutdownCompletes == stop = "close" ~> close = "closed"

\* What went to the WAL reaches the broker once it is back for good: "the local WAL
\* buffers, and catches up after recovery" (the design document, line 1197).
CatchesUp ==
  \A m \in Msgs : m \in InWal ~> m \in broker \/ ~brokerUp \/ close # "no"

\* While the process runs, an accepted message is retried from memory or the WAL when
\* the broker is down (the design document, line 1165; sink.go:193).
OutageIsRetried == close = "no" => expired = {}
=============================================================================
