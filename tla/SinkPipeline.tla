---------------------------- MODULE SinkPipeline ----------------------------
(***************************************************************************)
(* The bounded queue between the HTTP handlers and the sink                *)
(* (internal/sink/pipeline.go): any number of handlers call Submit, one    *)
(* worker goroutine takes messages in order and calls Sink.Send, and Stop  *)
(* closes the queue and waits for the worker.                              *)
(*                                                                         *)
(* Submit reads stopCh and sends on the channel in two steps, as Stop      *)
(* closes the two in two steps: a handler between its two steps can find   *)
(* the channel closed, and a send on a closed channel panics (the HTTP     *)
(* middleware recovers it and the client gets a 500).                      *)
(***************************************************************************)
EXTENDS Naturals, Sequences, FiniteSets

CONSTANTS
  Handlers,   \* goroutines that call Submit
  Msgs,       \* the messages they submit
  QueueCap,   \* PipelineConfig.BufferSize
  Nothing     \* no message

ASSUME PipelineAssumption == QueueCap \in Nat \ {0} /\ Nothing \notin Msgs

VARIABLES
  queue,     \* Pipeline.ch
  stopCh,    \* stopCh is closed
  chClosed,  \* ch is closed
  hand,      \* handler -> the message it is about to send on ch, or Nothing
  worker,    \* "idle", "sending" or "exited"
  cur,       \* the message the worker has taken
  stop,      \* Stop: "no", "close", "wait", "returned"
  accepted,  \* history: the messages Submit accepted, in the order of acceptance
  taken      \* history: how many of them the worker has taken

pipeVars == <<queue, stopCh, chClosed, hand, worker, cur, stop, accepted, taken>>

PipeInit ==
  /\ queue = <<>>
  /\ stopCh = FALSE
  /\ chClosed = FALSE
  /\ hand = [h \in Handlers |-> Nothing]
  /\ worker = "idle"
  /\ cur = Nothing
  /\ stop = "no"
  /\ accepted = <<>>
  /\ taken = 0

\* A message nobody submits or has had accepted (a refused one may come back).
Submittable(m) ==
  /\ \A i \in DOMAIN accepted : accepted[i] # m
  /\ \A h \in Handlers : hand[h] # m

\* Submit's first select: not stopped, so go on to the send.
SubmitCheck(h, m) ==
  /\ hand[h] = Nothing
  /\ Submittable(m)
  /\ ~stopCh
  /\ hand' = [hand EXCEPT ![h] = m]
  /\ UNCHANGED <<queue, stopCh, chClosed, worker, cur, stop, accepted, taken>>

\* Mutant: a closed channel still accepts.
SubmitSendUnchecked(h) ==
  /\ hand[h] # Nothing
  /\ IF Len(queue) < QueueCap
     THEN queue' = Append(queue, hand[h]) /\ accepted' = Append(accepted, hand[h])
     ELSE UNCHANGED <<queue, accepted>>
  /\ hand' = [hand EXCEPT ![h] = Nothing]
  /\ UNCHANGED <<stopCh, chClosed, worker, cur, stop, taken>>

\* Its second select: enqueue; ErrBackpressure when full; panic when closed.
SubmitSend(h) ==
  /\ hand[h] # Nothing
  /\ IF ~chClosed /\ Len(queue) < QueueCap
     THEN /\ queue' = Append(queue, hand[h])
          /\ accepted' = Append(accepted, hand[h])
     ELSE UNCHANGED <<queue, accepted>>
  /\ hand' = [hand EXCEPT ![h] = Nothing]
  /\ UNCHANGED <<stopCh, chClosed, worker, cur, stop, taken>>

\* Stop: close(stopCh), close(ch), wg.Wait(); a second call returns at once.
StopBegin ==
  /\ stop = "no"
  /\ stopCh' = TRUE
  /\ stop' = "close"
  /\ UNCHANGED <<queue, chClosed, hand, worker, cur, accepted, taken>>

StopClose ==
  /\ stop = "close"
  /\ chClosed' = TRUE
  /\ stop' = "wait"
  /\ UNCHANGED <<queue, stopCh, hand, worker, cur, accepted, taken>>

StopReturn ==
  /\ stop = "wait"
  /\ worker = "exited"
  /\ stop' = "returned"
  /\ UNCHANGED <<queue, stopCh, chClosed, hand, worker, cur, accepted, taken>>

\* Mutant: the newest message is taken first.
WorkerTakeNewest ==
  /\ worker = "idle"
  /\ queue # <<>>
  /\ cur' = queue[Len(queue)]
  /\ queue' = SubSeq(queue, 1, Len(queue) - 1)
  /\ taken' = taken + 1
  /\ worker' = "sending"
  /\ UNCHANGED <<stopCh, chClosed, hand, stop, accepted>>

\* The worker's receive: the next message, or the end of a closed empty channel.
WorkerTake ==
  /\ worker = "idle"
  /\ queue # <<>>
  /\ cur' = Head(queue)
  /\ queue' = Tail(queue)
  /\ taken' = taken + 1
  /\ worker' = "sending"
  /\ UNCHANGED <<stopCh, chClosed, hand, stop, accepted>>

\* Mutant: the worker leaves on the stop signal, not at the end of the queue.
WorkerEndEarly ==
  /\ worker = "idle"
  /\ chClosed
  /\ worker' = "exited"
  /\ UNCHANGED <<queue, stopCh, chClosed, hand, cur, stop, accepted, taken>>

WorkerEnd ==
  /\ worker = "idle"
  /\ queue = <<>>
  /\ chClosed
  /\ worker' = "exited"
  /\ UNCHANGED <<queue, stopCh, chClosed, hand, cur, stop, accepted, taken>>

\* Send has returned: the loop goes on whatever the error, except that a closed
\* sink ends the worker with the rest of the queue unread.
WorkerReturn(result) ==
  /\ worker = "sending"
  /\ cur' = Nothing
  /\ worker' = IF result = "closed" THEN "exited" ELSE "idle"
  /\ UNCHANGED <<queue, stopCh, chClosed, hand, stop, accepted, taken>>

PipeEnv ==
  \/ \E h \in Handlers : (\E m \in Msgs : SubmitCheck(h, m)) \/ SubmitSend(h)
  \/ StopBegin \/ StopClose \/ StopReturn
  \/ WorkerTake \/ WorkerEnd

\* What the sink answers (AdapterSink.Send's results).
SendResults == {"ok", "backpressure", "closed", "error"}
PipeNext == PipeEnv \/ \E r \in SendResults : WorkerReturn(r)
PipeSpec == PipeInit /\ [][PipeNext]_pipeVars
-----------------------------------------------------------------------------
PipeTypeOK ==
  /\ queue \in Seq(Msgs)
  /\ stopCh \in BOOLEAN
  /\ chClosed \in BOOLEAN
  /\ hand \in [Handlers -> Msgs \cup {Nothing}]
  /\ worker \in {"idle", "sending", "exited"}
  /\ cur \in Msgs \cup {Nothing}
  /\ stop \in {"no", "close", "wait", "returned"}
  /\ accepted \in Seq(Msgs)
  /\ taken \in Nat

\* The queue holds exactly the accepted messages not yet taken, in the order of
\* their acceptance and never more than QueueCap: nothing is lost, duplicated or
\* overtaken between Submit's nil and Send, whatever Stop interleaves with.
QueueIsSuffix ==
  /\ Len(queue) <= QueueCap
  /\ taken + Len(queue) = Len(accepted)
  /\ \A i \in 1..Len(queue) : queue[i] = accepted[taken + i]

\* Once Stop has returned no message is accepted any more: what the sink is closed
\* over afterwards is final (main.go's deferred order relies on it).
NothingAfterStop == [][stop = "returned" => accepted' = accepted]_pipeVars
=============================================================================
