------------------------- MODULE SinkPipelineProofs -------------------------
(***************************************************************************)
(* The queue between the handlers and the sink loses, duplicates and       *)
(* reorders nothing, for any number of handlers and any capacity, and is   *)
(* final once Stop has returned.                                           *)
(***************************************************************************)
EXTENDS SinkPipeline, SequenceTheorems, TLAPS

\* Every step keeps the types.
LEMMA PipeTypeKept == ASSUME PipeTypeOK, [PipeNext]_pipeVars PROVE PipeTypeOK'
<1>1. ASSUME NEW h \in Handlers, NEW m \in Msgs, SubmitCheck(h, m) PROVE PipeTypeOK'
  BY <1>1 DEF SubmitCheck, PipeTypeOK
<1>2. ASSUME NEW h \in Handlers, SubmitSend(h) PROVE PipeTypeOK'
  <2>1. hand[h] \in Msgs
    BY <1>2 DEF SubmitSend, PipeTypeOK
  <2>2. Append(queue, hand[h]) \in Seq(Msgs) /\ Append(accepted, hand[h]) \in Seq(Msgs)
    BY <2>1, AppendProperties DEF PipeTypeOK
  <2> QED
    BY <1>2, <2>2 DEF SubmitSend, PipeTypeOK
<1>3. ASSUME StopBegin \/ StopClose \/ StopReturn PROVE PipeTypeOK'
  BY <1>3 DEF StopBegin, StopClose, StopReturn, PipeTypeOK
<1>4. ASSUME WorkerTake PROVE PipeTypeOK'
  BY <1>4 DEF WorkerTake, PipeTypeOK
<1>5. ASSUME WorkerEnd PROVE PipeTypeOK'
  BY <1>5 DEF WorkerEnd, PipeTypeOK
<1>6. ASSUME NEW r \in SendResults, WorkerReturn(r) PROVE PipeTypeOK'
  BY <1>6 DEF WorkerReturn, PipeTypeOK
<1>7. ASSUME UNCHANGED pipeVars PROVE PipeTypeOK'
  BY <1>7 DEF pipeVars, PipeTypeOK
<1> QED
  BY <1>1, <1>2, <1>3, <1>4, <1>5, <1>6, <1>7 DEF PipeNext, PipeEnv

\* The pipeline's variables keep their types: a submission only ever enqueues the
\* message its handler holds, the worker only holds what was enqueued.
THEOREM PipeTyped == PipeSpec => []PipeTypeOK
<1>1. PipeInit => PipeTypeOK
  <2>1. <<>> \in Seq(Msgs)
    BY EmptySeq
  <2>2. PipeInit => queue \in Seq(Msgs) /\ accepted \in Seq(Msgs)
    BY <2>1 DEF PipeInit
  <2>3. PipeInit => hand \in [Handlers -> Msgs \cup {Nothing}] /\ taken \in Nat
    BY DEF PipeInit
  <2>4. PipeInit => /\ stopCh \in BOOLEAN /\ chClosed \in BOOLEAN
                    /\ worker \in {"idle", "sending", "exited"}
                    /\ cur \in Msgs \cup {Nothing}
                    /\ stop \in {"no", "close", "wait", "returned"}
    BY DEF PipeInit
  <2> QED
    BY <2>2, <2>3, <2>4 DEF PipeTypeOK
<1> QED
  BY <1>1, PipeTypeKept, PTL DEF PipeSpec

\* Every step keeps the queue what was accepted and not taken.
LEMMA QueueSuffixKept ==
  ASSUME PipeTypeOK, QueueIsSuffix, [PipeNext]_pipeVars PROVE QueueIsSuffix'
<1>1. ASSUME UNCHANGED <<queue, accepted, taken>> PROVE QueueIsSuffix'
  BY <1>1 DEF QueueIsSuffix
<1>2. ASSUME NEW h \in Handlers, SubmitSend(h) PROVE QueueIsSuffix'
  <2>1. CASE ~chClosed /\ Len(queue) < QueueCap
    <3>1. queue' = Append(queue, hand[h]) /\ accepted' = Append(accepted, hand[h])
          /\ taken' = taken
      BY <1>2, <2>1 DEF SubmitSend
    <3>2. Len(queue') = Len(queue) + 1 /\ Len(accepted') = Len(accepted) + 1
      BY <3>1 DEF PipeTypeOK
    <3>3. ASSUME NEW i \in 1..Len(queue') PROVE queue'[i] = accepted'[taken + i]
      <4>1. CASE i <= Len(queue)
        BY <3>1, <3>2, <4>1 DEF PipeTypeOK, QueueIsSuffix
      <4>2. CASE i = Len(queue) + 1
        BY <3>1, <3>2, <4>2 DEF PipeTypeOK, QueueIsSuffix
      <4> QED
        BY <3>2, <4>1, <4>2 DEF PipeTypeOK
    <3> QED
      BY <2>1, <3>1, <3>2, <3>3, PipelineAssumption DEF PipeTypeOK, QueueIsSuffix
  <2>2. CASE ~(~chClosed /\ Len(queue) < QueueCap)
    BY <1>1, <1>2, <2>2 DEF SubmitSend
  <2> QED
    BY <2>1, <2>2
<1>3. ASSUME WorkerTake PROVE QueueIsSuffix'
  <2>1. queue' = Tail(queue) /\ Len(queue) > 0 /\ taken' = taken + 1 /\ accepted' = accepted
    BY <1>3 DEF WorkerTake, PipeTypeOK
  <2>2. Len(queue') = Len(queue) - 1
    BY <2>1 DEF PipeTypeOK
  <2>3. ASSUME NEW i \in 1..Len(queue') PROVE queue'[i] = accepted'[taken' + i]
    <3>1. queue'[i] = queue[i + 1] /\ i + 1 \in 1..Len(queue)
      BY <2>1, <2>2 DEF PipeTypeOK
    <3> QED
      BY <2>1, <3>1 DEF PipeTypeOK, QueueIsSuffix
  <2>4. Len(queue') <= QueueCap /\ taken' + Len(queue') = Len(accepted')
    <3>1. Len(queue) \in Nat /\ Len(accepted) \in Nat /\ QueueCap \in Nat /\ taken \in Nat
      BY LenProperties, PipelineAssumption DEF PipeTypeOK
    <3>2. Len(queue) <= QueueCap /\ taken + Len(queue) = Len(accepted)
      BY DEF QueueIsSuffix
    <3>3. Len(accepted') = Len(accepted) /\ taken' = taken + 1
      BY <2>1
    <3>4. Len(queue') <= QueueCap
      BY <2>2, <3>1, <3>2
    <3>5. taken' + Len(queue') = Len(accepted')
      BY <2>2, <3>1, <3>2, <3>3
    <3> QED
      BY <3>4, <3>5
  <2> QED
    BY <2>1, <2>3, <2>4 DEF QueueIsSuffix
<1>4. ASSUME \/ \E h \in Handlers, m \in Msgs : SubmitCheck(h, m)
             \/ StopBegin \/ StopClose \/ StopReturn \/ WorkerEnd
             \/ \E r \in SendResults : WorkerReturn(r)
             \/ UNCHANGED pipeVars
      PROVE  QueueIsSuffix'
  BY <1>1, <1>4 DEF SubmitCheck, StopBegin, StopClose, StopReturn, WorkerEnd, WorkerReturn,
                    pipeVars
<1> QED
  BY <1>2, <1>3, <1>4 DEF PipeNext, PipeEnv

\* The queue is the tail of what Submit accepted, in order and within the capacity.
\* Inductive as it stands, given the types.
THEOREM QueueSuffix == PipeSpec => []QueueIsSuffix
<1>1. PipeInit => QueueIsSuffix
  BY PipelineAssumption DEF PipeInit, QueueIsSuffix
<1> QED
  BY <1>1, QueueSuffixKept, PipeTyped, PTL DEF PipeSpec

\* Once Stop waits for the worker the channel is closed.
StopClosesChannel == stop \in {"wait", "returned"} => chClosed

\* Stop closes the channel before it waits.
LEMMA StopClosesChannelInv == PipeSpec => []StopClosesChannel
<1>1. PipeInit => StopClosesChannel
  BY DEF PipeInit, StopClosesChannel
<1>2. StopClosesChannel /\ [PipeNext]_pipeVars => StopClosesChannel'
  BY DEF StopClosesChannel, PipeNext, PipeEnv, SubmitCheck, SubmitSend, StopBegin, StopClose,
         StopReturn, WorkerTake, WorkerEnd, WorkerReturn, pipeVars
<1> QED
  BY <1>1, <1>2, PTL DEF PipeSpec

\* After Stop has returned no submission is accepted, even by a handler that had
\* passed the check of stopCh before.
THEOREM FinalAfterStop == PipeSpec => NothingAfterStop
<1>1. StopClosesChannel /\ [PipeNext]_pipeVars
      => [stop = "returned" => accepted' = accepted]_pipeVars
  BY DEF StopClosesChannel, PipeNext, PipeEnv, SubmitCheck, SubmitSend, StopBegin, StopClose,
         StopReturn, WorkerTake, WorkerEnd, WorkerReturn, pipeVars
<1> QED
  BY <1>1, StopClosesChannelInv, PTL DEF PipeSpec, NothingAfterStop
=============================================================================
