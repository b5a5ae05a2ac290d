---------------------------- MODULE AdapterSink ----------------------------
(***************************************************************************)
(* internal/sink/sink.go: AdapterSink sends to Kafka while Normal and to   *)
(* the WAL while Degraded.  The sink pipeline's worker is the only caller  *)
(* of Send; a monitor goroutine probes Kafka and drains the WAL after a    *)
(* recovery; Close stops the monitor, drains once more, closes the WAL and *)
(* then the producer.                                                      *)
(*                                                                         *)
(* The WAL is seen from here as segments of acknowledged records (Wal is   *)
(* its own module): an active one, the sealed ones oldest first, and those *)
(* marked done and not yet deleted, which still count against MaxBytes.    *)
(* When Kafka does not answer at start main.go runs the WAL sink alone,    *)
(* for the life of the process.                                            *)
(***************************************************************************)
EXTENDS KafkaProducer

CONSTANTS
  FailThreshold,     \* AdapterConfig.FailThreshold
  RecoverThreshold,  \* AdapterConfig.RecoverSuccessThreshold
  ReplayAttempts,    \* wal Config.MaxReplayFailures
  SegRecords,        \* records that fit in one segment
  WalCap,            \* records that fit under wal Config.MaxBytes
  MaxTimeouts,       \* bound: drains cut off by DrainTimeout
  MaxWalErrors       \* bound: WAL writes failing on I/O

ASSUME AdapterAssumption ==
  /\ {FailThreshold, RecoverThreshold, ReplayAttempts, SegRecords, WalCap} \subseteq Nat \ {0}
  /\ {MaxTimeouts, MaxWalErrors} \subseteq Nat

VARIABLES
  mode,          \* what main.go built: "adapter" or "walOnly"
  state,         \* AdapterSink.state: "Normal" or "Degraded"
  failCount, successCount,
  drainSig,      \* drainCh holds a signal
  send,          \* where the worker is in Send: "load", "kafka", "wal"
  walActive,     \* records of the active segment
  walSealed,     \* records of each sealed segment, oldest first
  walDone,       \* how many records the done segments still hold on disk
  walClosed,
  drain,         \* the running drainWAL, or NoDrain
  monitor,       \* "loop" or "exited"
  close,         \* Close: "no", "stopping", "draining", "closingKafka", "closed"
  timeouts, walErrors,
  spilled        \* history: messages the WAL has acknowledged

wal == <<walActive, walSealed, walDone, spilled>>
counters == <<state, failCount, successCount, drainSig>>
adapterVars == <<mode, counters, send, wal, walClosed, drain, monitor, close, timeouts, walErrors>>

\* drainWAL: on whose behalf, segments of the snapshot still to replay, the record
\* in hand, the attempt at this segment, and whether it waits for an ack.
NoDrain == [by |-> "none", left |-> 0, pos |-> 1, attempt |-> 0, waiting |-> FALSE]
DrainOf(who) == [NoDrain EXCEPT !.by = who, !.left = Len(walSealed)]

AdapterStart(m) ==
  /\ mode = m
  /\ state = "Normal"
  /\ failCount = 0
  /\ successCount = 0
  /\ drainSig = FALSE
  /\ send = "load"
  /\ walClosed = FALSE
  /\ drain = NoDrain
  /\ monitor = IF m = "adapter" THEN "loop" ELSE "exited"
  /\ close = "no"

AdapterInit ==
  /\ AdapterStart("adapter")
  /\ walActive = <<>>
  /\ walSealed = <<>>
  /\ walDone = 0
  /\ timeouts = 0
  /\ walErrors = 0
  /\ spilled = {}
-----------------------------------------------------------------------------
\* The WAL, as Send uses it.
WalRecords == Len(walActive) + FoldLeft(LAMBDA n, s : n + Len(s), 0, walSealed) + walDone
WalFull == WalRecords >= WalCap

\* Mutant: the active segment is dropped instead of sealed.
WalSealDrops == UNCHANGED walSealed

WalSeal == walSealed' = IF walActive = <<>> THEN walSealed ELSE Append(walSealed, walActive)

WalWrite(m) ==
  /\ spilled' = spilled \cup {m}
  /\ IF Len(walActive) >= SegRecords
     THEN WalSeal /\ walActive' = <<m>>
     ELSE walActive' = Append(walActive, m) /\ UNCHANGED walSealed
  /\ UNCHANGED walDone

\* wal.cleanup: some of the done segments are old enough to delete.
WalCleanup ==
  /\ ~walClosed
  /\ \E n \in 0..(walDone - 1) : walDone' = n
  /\ UNCHANGED <<walActive, walSealed, spilled, prodVars, mode, counters, send,
                 walClosed, drain, monitor, close, timeouts, walErrors>>
-----------------------------------------------------------------------------
\* Mutant: more than FailThreshold failures are needed.
RecordFailureLate ==
  /\ failCount' = failCount + 1
  /\ successCount' = 0
  /\ state' = IF failCount' > FailThreshold THEN "Degraded" ELSE state
  /\ UNCHANGED drainSig

\* recordFailure: the CAS is on Normal, and only Send's caller leaves Normal.
RecordFailure ==
  /\ failCount' = failCount + 1
  /\ successCount' = 0
  /\ state' = IF failCount' >= FailThreshold THEN "Degraded" ELSE state
  /\ UNCHANGED drainSig

\* Mutant: the wrong counter is reset.
RecordSuccessResets ==
  /\ successCount' = 0
  /\ UNCHANGED <<failCount, state, drainSig>>

\* recordSuccess: on the last success back to Normal, with a drain signalled.
RecordSuccess ==
  /\ successCount' = successCount + 1
  /\ failCount' = 0
  /\ IF successCount' >= RecoverThreshold
     THEN state' = "Normal" /\ drainSig' = TRUE
     ELSE UNCHANGED <<state, drainSig>>

\* Send reads the state once and acts on what it has read.
SendLoad ==
  /\ send = "load"
  /\ send' = IF mode = "adapter" /\ state = "Normal" THEN "kafka" ELSE "wal"
  /\ UNCHANGED <<prodVars, mode, counters, wal, walClosed, drain, monitor, close,
                 timeouts, walErrors>>

\* sendToKafka answers: on the channel, or the producer is closed.
SendKafka(m, result) ==
  /\ send = "kafka"
  /\ IF prodClosed
     THEN result = "closed" /\ UNCHANGED ch
     ELSE result = "ok" /\ Produce(m, "none")
  /\ send' = "load"
  /\ UNCHANGED <<prodClosed, inClient, ack, brokerUp, outages, broker, expired>>
  /\ UNCHANGED <<mode, counters, wal, walClosed, drain, monitor, close, timeouts, walErrors>>

\* sendToKafka's BlockTimeout: count the failure, this message goes to the WAL.
SendKafkaFails ==
  /\ send = "kafka"
  /\ ProduceFull
  /\ RecordFailure
  /\ send' = "wal"
  /\ UNCHANGED <<prodVars, mode, wal, walClosed, drain, monitor, close, timeouts, walErrors>>

\* sendToWAL translates the WAL's errors; the WAL sink alone returns them as they
\* are, which to the worker is an error like any other.
WalError(translated) == IF mode = "adapter" THEN translated ELSE "error"
SendWal(m, result) ==
  /\ send = "wal"
  /\ CASE walClosed -> result = WalError("closed") /\ UNCHANGED wal
       [] ~walClosed /\ WalFull -> result = WalError("backpressure") /\ UNCHANGED wal
       [] OTHER -> result = "ok" /\ WalWrite(m)
  /\ send' = "load"
  /\ UNCHANGED <<prodVars, mode, counters, walClosed, drain, monitor, close, timeouts, walErrors>>

SendWalFails(result) ==
  /\ send = "wal"
  /\ ~walClosed
  /\ ~WalFull
  /\ walErrors < MaxWalErrors
  /\ result = "error"
  /\ walErrors' = walErrors + 1
  /\ send' = "load"
  /\ UNCHANGED <<prodVars, mode, counters, wal, walClosed, drain, monitor, close, timeouts>>
-----------------------------------------------------------------------------
\* monitorLoop's tick while Degraded: a probe counts as a success once it is on the
\* producer's channel.
MonitorProbe ==
  /\ monitor = "loop"
  /\ drain = NoDrain
  /\ state = "Degraded"
  /\ Produce(Probe, "none")
  /\ RecordSuccess
  /\ UNCHANGED <<prodClosed, inClient, ack, brokerUp, outages, broker, expired>>
  /\ UNCHANGED <<mode, send, wal, walClosed, drain, monitor, close, timeouts, walErrors>>

MonitorDrain ==
  /\ monitor = "loop"
  /\ drain = NoDrain
  /\ drainSig
  /\ drainSig' = FALSE
  /\ drain' = IF walSealed = <<>> THEN NoDrain ELSE DrainOf("monitor")
  /\ UNCHANGED <<prodVars, mode, state, failCount, successCount, send, wal, walClosed,
                 monitor, close, timeouts, walErrors>>

MonitorExit ==
  /\ monitor = "loop"
  /\ drain = NoDrain
  /\ close # "no"
  /\ monitor' = "exited"
  /\ UNCHANGED <<prodVars, mode, counters, send, wal, walClosed, drain, close, timeouts, walErrors>>
-----------------------------------------------------------------------------
Draining == drain # NoDrain /\ drain.left > 0
SegmentRead == Draining /\ drain.pos > Len(Head(walSealed))

\* Mutant: the attempts are not counted.
DrainRetryForever == drain' = [drain EXCEPT !.pos = 1, !.waiting = FALSE]

\* Replay gives up on the segment, or reads it again from its first record.
DrainRetry ==
  drain' = IF drain.attempt + 1 < ReplayAttempts
           THEN [drain EXCEPT !.pos = 1, !.attempt = @ + 1, !.waiting = FALSE]
           ELSE [drain EXCEPT !.left = 0, !.waiting = FALSE]

\* The replay handler, sendToKafkaSync: produce, then wait for the ack.
DrainProduce ==
  /\ Draining /\ ~SegmentRead /\ ~drain.waiting
  /\ Produce(Head(walSealed)[drain.pos], "sync")
  /\ drain' = [drain EXCEPT !.waiting = TRUE]
  /\ ack' = "none"
  /\ UNCHANGED <<prodClosed, inClient, brokerUp, outages, broker, expired>>
  /\ UNCHANGED <<mode, counters, send, wal, walClosed, monitor, close, timeouts, walErrors>>

DrainProduceFails ==
  /\ Draining /\ ~SegmentRead /\ ~drain.waiting
  /\ ProduceFull
  /\ DrainRetry
  /\ UNCHANGED <<prodVars, mode, counters, send, wal, walClosed, monitor, close, timeouts, walErrors>>

\* Mutant: any answer counts as an acknowledgement.
DrainAnsweredAny ==
  /\ drain.waiting
  /\ ack # "none"
  /\ drain' = [drain EXCEPT !.pos = @ + 1, !.waiting = FALSE]
  /\ ack' = "none"
  /\ UNCHANGED <<ch, prodClosed, inClient, brokerUp, outages, broker, expired>>
  /\ UNCHANGED <<mode, counters, send, wal, walClosed, monitor, close, timeouts, walErrors>>

DrainAnswered ==
  /\ drain.waiting
  /\ ack # "none"
  /\ IF ack = "ok"
     THEN drain' = [drain EXCEPT !.pos = @ + 1, !.waiting = FALSE]
     ELSE DrainRetry
  /\ ack' = "none"
  /\ UNCHANGED <<ch, prodClosed, inClient, brokerUp, outages, broker, expired>>
  /\ UNCHANGED <<mode, counters, send, wal, walClosed, monitor, close, timeouts, walErrors>>

\* The whole segment is acknowledged: mark it done, go on to the next.
DrainSegmentDone ==
  /\ SegmentRead
  /\ walSealed' = Tail(walSealed)
  /\ walDone' = walDone + Len(Head(walSealed))
  /\ drain' = [NoDrain EXCEPT !.by = drain.by, !.left = drain.left - 1]
  /\ UNCHANGED <<prodVars, mode, counters, send, walActive, spilled, walClosed, monitor,
                 close, timeouts, walErrors>>

\* Mutant: the segment a drain is cut off in counts as replayed.
DrainTimeoutSkips ==
  /\ Draining /\ ~SegmentRead
  /\ timeouts < MaxTimeouts
  /\ timeouts' = timeouts + 1
  /\ walSealed' = Tail(walSealed)
  /\ walDone' = walDone + Len(Head(walSealed))
  /\ drain' = [drain EXCEPT !.left = 0, !.waiting = FALSE]
  /\ Abandon
  /\ UNCHANGED <<prodClosed, brokerUp, outages, broker, expired>>
  /\ UNCHANGED <<mode, counters, send, walActive, spilled, walClosed, monitor, close, walErrors>>

\* DrainTimeout: the context ends, and with it the wait.
DrainTimeout ==
  /\ Draining /\ ~SegmentRead
  /\ timeouts < MaxTimeouts
  /\ timeouts' = timeouts + 1
  /\ drain' = [drain EXCEPT !.left = 0, !.waiting = FALSE]
  /\ Abandon
  /\ UNCHANGED <<prodClosed, brokerUp, outages, broker, expired>>
  /\ UNCHANGED <<mode, counters, send, wal, walClosed, monitor, close, walErrors>>

\* drainWAL returns, whether it drained everything or logged "drain incomplete".
DrainReturn ==
  /\ drain # NoDrain
  /\ drain.left = 0
  /\ drain' = NoDrain
  /\ UNCHANGED <<prodVars, mode, counters, send, wal, walClosed, monitor, close, timeouts, walErrors>>

Drain == \/ DrainProduce \/ DrainProduceFails \/ DrainAnswered
         \/ DrainSegmentDone \/ DrainTimeout \/ DrainReturn
-----------------------------------------------------------------------------
\* Close: close(done); the WAL sink alone has no monitor to stop.
CloseBegin ==
  /\ close = "no"
  /\ close' = "stopping"
  /\ UNCHANGED <<prodVars, mode, counters, send, wal, walClosed, drain, monitor, timeouts, walErrors>>

\* wg.Wait(), then the last drain.
CloseDrain ==
  /\ close = "stopping"
  /\ monitor = "exited"
  /\ close' = "draining"
  /\ drain' = IF mode = "walOnly" \/ walSealed = <<>> THEN NoDrain ELSE DrainOf("close")
  /\ UNCHANGED <<prodVars, mode, counters, send, wal, walClosed, monitor, timeouts, walErrors>>

\* walSink.Close seals the active segment; then kafka.Close.
CloseWal ==
  /\ close = "draining"
  /\ drain = NoDrain
  /\ walClosed' = TRUE
  /\ WalSeal
  /\ walActive' = <<>>
  /\ close' = "closingKafka"
  /\ CloseProducer
  /\ UNCHANGED <<ch, inClient, ack, brokerUp, outages, broker, expired>>
  /\ UNCHANGED <<mode, counters, send, walDone, spilled, drain, monitor, timeouts, walErrors>>

\* Mutant: Close returns without waiting for the flusher.
CloseReturnEarly ==
  /\ close = "closingKafka"
  /\ close' = "closed"
  /\ UNCHANGED <<prodVars, mode, counters, send, wal, walClosed, drain, monitor, timeouts, walErrors>>

CloseReturn ==
  /\ close = "closingKafka"
  /\ Flushed
  /\ close' = "closed"
  /\ UNCHANGED <<prodVars, mode, counters, send, wal, walClosed, drain, monitor, timeouts, walErrors>>

Close == CloseDrain \/ CloseWal \/ CloseReturn
Monitor == MonitorProbe \/ MonitorDrain \/ MonitorExit
-----------------------------------------------------------------------------
AdapterTypeOK(M) ==
  /\ mode \in {"adapter", "walOnly"}
  /\ state \in {"Normal", "Degraded"}
  /\ failCount \in 0..FailThreshold
  /\ successCount \in 0..RecoverThreshold
  /\ drainSig \in BOOLEAN
  /\ send \in {"load", "kafka", "wal"}
  /\ walActive \in Seq(M)
  /\ walSealed \in Seq(Seq(M))
  /\ walDone \in Nat
  /\ walClosed \in BOOLEAN
  /\ drain \in [by : {"none", "monitor", "close"}, left : Nat, pos : Nat, attempt : Nat,
                waiting : BOOLEAN]
  /\ monitor \in {"loop", "exited"}
  /\ close \in {"no", "stopping", "draining", "closingKafka", "closed"}
  /\ timeouts \in 0..MaxTimeouts
  /\ walErrors \in 0..MaxWalErrors
  /\ spilled \in SUBSET M
=============================================================================
