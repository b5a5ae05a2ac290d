------------------------------- MODULE Ingest -------------------------------
(***************************************************************************)
(* A request from the receiver through the parser (internal/parser) and    *)
(* the stages of its rule set (internal/ruleengine/pipeline.go, Process)   *)
(* to the sink and the answer, many at a time, beside SIGHUPs and swaps of *)
(* the rule set.  A client that is not answered with 200 sends the same    *)
(* body again: a request with that body, any time later.                   *)
(*                                                                         *)
(* Of the stages only the two that share state between requests are here;  *)
(* RuleBuffers has the way a batch takes through the others.  The sink     *)
(* takes a message or refuses it (Gateway).  What is sent is the whole     *)
(* body, whatever the stages left of its samples.                          *)
(***************************************************************************)
EXTENDS Receiver, StatefulStages

CONSTANTS
  Unnamed,     \* a time series without labels or without a __name__
  StageLists   \* lists of stages a rule set can have, each at most once

\* Parse: a time series without a name or a point is skipped, and of its points only
\* the first is taken.
Parsed(batch) ==
  LET taken == SelectSeq(batch, LAMBDA t : t.series # Unnamed /\ t.points # <<>>) IN
  [i \in DOMAIN taken |-> [series |-> taken[i].series, value |-> taken[i].points[1].value,
                           ts |-> taken[i].points[1].ts]]

ASSUME IngestAssumption ==
  /\ Unnamed \notin Series
  /\ \A batch \in Batches : Parsed(batch) \in Seq(Sample)
  /\ StageLists \subseteq Seq({"deadvalue", "downsample"})
  /\ \A list \in StageLists : \A i, j \in DOMAIN list : list[i] = list[j] => i = j

VARIABLES
  stages,    \* the stages of the rule set, the same in all its generations
  gen,       \* the generation new requests load
  sent,      \* bodies the sink has accepted
  refused    \* history: bodies answered with 503

vars == <<recvVars, stageVars, stages, gen, sent, refused>>

Init ==
  /\ ReceiverInit
  /\ StagesInit
  /\ stages \in StageLists
  /\ gen = 1
  /\ sent = {}
  /\ refused = {}
-----------------------------------------------------------------------------
\* Mutant: a stage is entered with no sample left.
AdvanceEmpty(r) ==
  IF r.in # <<>> THEN r
  ELSE LET out == r.out \o r.pass
           next == [r EXCEPT !.stage = @ + 1, !.in = out, !.out = <<>>, !.pass = <<>>]
       IN IF r.stage < Len(stages) THEN next ELSE [next EXCEPT !.at = "dispatch"]

\* Where a request goes on: at the next stage once it has been through all of in, with
\* what downsample passes on behind what it emits; then to the sink.  A stage without
\* samples does nothing.
Advance(r) ==
  IF r.in # <<>> THEN r
  ELSE LET out == r.out \o r.pass
           next == [r EXCEPT !.stage = @ + 1, !.in = out, !.out = <<>>, !.pass = <<>>]
       IN IF r.stage < Len(stages) /\ out # <<>> THEN next
          ELSE [next EXCEPT !.at = "dispatch"]

\* The limiter lets the request pass and the body can be decoded: the rule set is loaded
\* once for the batch.
Allowed(h) ==
  LET r == request[h] IN
  /\ At(h, "allow")
  /\ request' = [request EXCEPT ![h] =
       Advance([at |-> "stages", batch |-> r.batch, business |-> r.business, gen |-> gen,
                stage |-> 0, in |-> <<>>, out |-> Parsed(r.batch), pass |-> <<>>])]
  /\ UNCHANGED <<tokens, limits, limiters, hup, reloads, received, accepted, raced,
                 stageVars, stages, gen, sent, refused>>

\* One sample in the stage the request is at.
StageSample(h) ==
  LET r == request[h] s == Head(r.in) rest == [r EXCEPT !.in = Tail(@)] IN
  /\ At(h, "stages")
  /\ \/ /\ stages[r.stage] = "deadvalue"
        /\ s.series \in DeadScope
        /\ Checked(r.gen, s)
        /\ request' = [request EXCEPT ![h] =
             Advance(IF Dead(lru[r.gen], s) THEN rest ELSE [rest EXCEPT !.out = Append(@, s)])]
        /\ UNCHANGED sampleVars
     \/ /\ stages[r.stage] = "deadvalue"
        /\ s.series \notin DeadScope
        /\ request' = [request EXCEPT ![h] = Advance([rest EXCEPT !.out = Append(@, s)])]
        /\ UNCHANGED stageVars
     \/ /\ stages[r.stage] = "downsample"
        /\ s.series \in Scope
        /\ Ingested(r.gen, s)
        /\ request' = [request EXCEPT ![h] = Advance([rest EXCEPT !.out = @ \o Emits(r.gen, s)])]
        /\ UNCHANGED deadVars
     \/ /\ stages[r.stage] = "downsample"
        /\ s.series \notin Scope
        /\ request' = [request EXCEPT ![h] = Advance([rest EXCEPT !.pass = Append(@, s)])]
        /\ UNCHANGED stageVars
  /\ UNCHANGED <<tokens, limits, limiters, hup, reloads, received, accepted, raced,
                 stages, gen, sent, refused>>

\* Mutant: an error of the sink is counted and the loop goes on.
DispatchGoesOn(h) ==
  LET r == request[h] IN
  /\ At(h, "dispatch")
  /\ \/ r.in = <<>> /\ Answer(h, 200) /\ UNCHANGED <<sent, refused>>
     \/ /\ r.in # <<>>
        /\ request' = [request EXCEPT ![h].in = Tail(@)]
        /\ sent' \in {sent, sent \cup {r.batch}}
        /\ UNCHANGED <<accepted, refused>>
  /\ UNCHANGED <<tokens, limits, limiters, hup, reloads, received, raced, stageVars, stages, gen>>

\* Process's last loop: one message for each sample left, each with the whole body.  The
\* first the sink refuses ends it with 503; a batch with no sample left is a success.
Dispatch(h) ==
  LET r == request[h] IN
  /\ At(h, "dispatch")
  /\ \/ r.in = <<>> /\ Answer(h, 200) /\ UNCHANGED <<sent, refused>>
     \/ /\ r.in # <<>>
        /\ sent' = sent \cup {r.batch}
        /\ request' = [request EXCEPT ![h].in = Tail(@)]
        /\ UNCHANGED <<accepted, refused>>
     \/ /\ r.in # <<>>
        /\ Answer(h, 503)
        /\ refused' = refused \cup {r.batch}
        /\ UNCHANGED sent
  /\ UNCHANGED <<tokens, limits, limiters, hup, reloads, received, raced, stageVars, stages, gen>>

\* Another rule set is installed: one compiled anew, whose stages start empty, or by a
\* rollback or a reload one the history has, as it was left (service.go:205-217).
Swap ==
  /\ gen' \in Gens \ {gen}
  /\ UNCHANGED <<recvVars, stageVars, stages, sent, refused>>

Receiving(h) == ReceiverStep(h) /\ UNCHANGED <<stageVars, stages, gen, sent, refused>>
Reload == Sighup /\ UNCHANGED <<stageVars, stages, gen, sent, refused>>

\* No request and no signal: the gateway waits.
Idle == hup.at = "signal" /\ (\A h \in Handlers : At(h, "none")) /\ UNCHANGED vars

Next ==
  \/ \E h \in Handlers : Receiving(h) \/ Allowed(h) \/ StageSample(h) \/ Dispatch(h)
  \/ Reload
  \/ Swap
  \/ Idle

Spec == Init /\ [][Next]_vars
-----------------------------------------------------------------------------
\* A request in the pipeline has a sample for the stage it is at.
PipelineOK(r) ==
  /\ r \in [at : {"stages", "dispatch"}, batch : Batches, business : Businesses, gen : Gens,
            stage : 1..Len(stages) + 1, in : Seq(Sample), out : Seq(Sample), pass : Seq(Sample)]
  /\ r.at = "stages" => r.stage \in DOMAIN stages /\ r.in # <<>>

RequestsOK ==
  /\ DOMAIN request = Handlers
  /\ \A h \in Handlers : request[h] = NoRequest \/ RequestOK(request[h]) \/ PipelineOK(request[h])

TypeOK ==
  /\ ReceiverTypeOK
  /\ RequestsOK
  /\ StagesTypeOK
  /\ stages \in StageLists
  /\ gen \in Gens
  /\ sent \subseteq Batches /\ refused \subseteq Batches

Repeats(s, t) ==
  /\ s.series = t.series /\ s.value = t.value
  /\ s = t \/ Window = 0 \/ s.ts - t.ts <= Window

\* The bodies that hold a sample or an earlier one it repeats.
Holding(s) == {batch \in Batches : \E i \in DOMAIN Parsed(batch) : Repeats(s, Parsed(batch)[i])}

Running == {request[h].batch : h \in {x \in Handlers : request[x].at \in {"stages", "dispatch"}}}

\* Of a body answered with 200 each sample was sent or repeats one that was or is on its
\* way, or one of a body the sink refused: but for what was refused once, nothing a client
\* was told is done is missing downstream, for all the drops, evictions and swaps.
OnlyRefusedMissing ==
  "downsample" \notin ToSet(stages) =>
    \A batch \in accepted \ sent : \A i \in DOMAIN Parsed(batch) :
      Holding(Parsed(batch)[i]) \cap (sent \cup Running \cup refused) # {}

\* The design document's at-least-once (docs/superpowers/specs/2026-07-28-prometheus-
\* multidc-remotewrite-gateway-design.md:1192): what is answered with 200 is delivered, a
\* body sent again after a 503 included, unless it repeats what is delivered or on its way.
AcceptedIsSent ==
  "downsample" \notin ToSet(stages) =>
    \A batch \in accepted \ sent : \A i \in DOMAIN Parsed(batch) :
      Holding(Parsed(batch)[i]) \cap (sent \cup Running) # {}
=============================================================================
