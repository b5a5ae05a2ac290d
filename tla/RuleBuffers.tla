---------------------------- MODULE RuleBuffers ----------------------------
(***************************************************************************)
(* One batch through the stages of a rule set                              *)
(* (internal/ruleengine/pipeline.go, Process and runStage): two buffers    *)
(* allocated once take turns as a stage's input (cur) and output (dst),    *)
(* then every sample left is handed to the sink pipeline.                  *)
(*                                                                         *)
(* A slice is a buffer and a length.  A stage either writes its output     *)
(* over dst, returns its input, allocates a slice of its own (downsample), *)
(* or panics half way, which runStage turns into its input.  A sample is   *)
(* its number in the batch and the last stage that rewrote it; which       *)
(* samples a stage keeps is up to the stage.  The label arrays that copies *)
(* of a sample share are not modelled, nor is a stage returning an error:  *)
(* none of the six does.                                                   *)
(***************************************************************************)
EXTENDS Naturals, Sequences, FiniteSets, SequencesExt, SortedSets

CONSTANTS
  BatchSize,   \* samples in the batch: the router passes on no empty one
  MaxStages,   \* bound: stages of the rule set
  MaxAggs      \* bound: aggregations of a downsample stage

ASSUME BuffersAssumption ==
  BatchSize \in Nat \ {0} /\ MaxStages \in Nat /\ MaxAggs \in Nat \ {0}

VARIABLES
  mem,        \* what the arrays behind buf1, buf2 and a stage's own slice hold
  cur, dst,   \* the input slice; the buffer the next output goes to
  stage,      \* stages run so far
  phase,      \* "stages", "dispatch", "ok" or "error"
  sent,       \* samples the sink pipeline has accepted
  expected,   \* history: what the stages let through, had each its own buffers
  shortened   \* history: a stage has returned fewer samples than it was given

vars == <<mem, cur, dst, stage, phase, sent, expected, shortened>>

Buffers == {"buf1", "buf2", "own"}
Slice(b, n) == [buf |-> b, len |-> n]
Contents(s) == SubSeq(mem[s.buf], 1, s.len)

Init ==
  LET batch == [i \in 1..BatchSize |-> [id |-> i, by |-> 0]] IN
  /\ mem = [b \in Buffers |-> IF b = "buf1" THEN batch ELSE <<>>]
  /\ cur = Slice("buf1", BatchSize)
  /\ dst = "buf2"
  /\ stage = 0
  /\ phase = "stages"
  /\ sent = <<>>
  /\ expected = batch
  /\ shortened = FALSE
-----------------------------------------------------------------------------
\* Appending out to dst[:0]: over the array while it fits, else into a new one.
Overwrite(array, out) == out \o SubSeq(array, Len(out) + 1, Len(array))
AppendTo(b, out) ==
  IF Len(out) <= BatchSize THEN [mem EXCEPT ![b] = Overwrite(@, out)]
  ELSE [mem EXCEPT ![b] = SubSeq(out, 1, BatchSize), !["own"] = out]
Appended(b, out) == Slice(IF Len(out) <= BatchSize THEN b ELSE "own", Len(out))

\* Process's own append of a returned input is one append: what does not fit goes to the
\* new array at once.
MoveTo(m, b, out) ==
  IF Len(out) <= BatchSize THEN [m EXCEPT ![b] = Overwrite(@, out)] ELSE [m EXCEPT !["own"] = out]

\* Mutants of the swap: the length of the output is forgotten; the buffers do not
\* change sides.
TakeOutputWhole(out) ==
  /\ cur' = IF out.len > 0 THEN Slice(out.buf, BatchSize) ELSE Slice("buf2", 0)
  /\ dst' = IF out.len > 0 /\ out.buf = "buf1" THEN "buf2" ELSE "buf1"

TakeOutputSameSide(out) ==
  /\ cur' = IF out.len > 0 THEN out ELSE Slice("buf2", 0)
  /\ UNCHANGED dst

\* The end of Process's loop: an output in buf1 makes cur the variable buf1, whose
\* length is still that of the batch; else the output itself is the next input.
TakeOutput(out) ==
  IF out.len > 0 /\ out.buf = "buf1"
  THEN cur' = Slice("buf1", BatchSize) /\ dst' = "buf2"
  ELSE /\ cur' = IF out.len > 0 THEN out ELSE Slice("buf2", 0)
       /\ dst' = "buf1"

NextStage ==
  /\ phase = "stages"
  /\ stage < MaxStages
  /\ stage' = stage + 1
  /\ UNCHANGED <<phase, sent>>

Shorter(out) == shortened' = (shortened \/ Len(out) < cur.len)

\* sample, deadvalue, route, enrich, relabel: the kept samples in their order, rewritten
\* or not.
Through(s, rewrites) == IF rewrites THEN [s EXCEPT !.by = stage + 1] ELSE s
Kept(q, K, rewrites) ==
  LET at == Sorted({i \in DOMAIN q : q[i].id \in K})
  IN [j \in DOMAIN at |-> Through(q[at[j]], rewrites)]

WriteOut(K, rewrites) ==
  /\ NextStage
  /\ LET out == Kept(Contents(cur), K, rewrites) IN
     /\ mem' = AppendTo(dst, out)
     /\ TakeOutput(Appended(dst, out))
     /\ Shorter(out)
  /\ expected' = Kept(expected, K, rewrites)

\* An empty relabel or enrich, or a sample stage of rate 1, returns its input, which
\* Process moves to dst.
PassThrough ==
  /\ NextStage
  /\ LET out == Contents(cur) IN
     /\ mem' = MoveTo(mem, dst, out)
     /\ TakeOutput(Appended(dst, out))
     /\ Shorter(out)
  /\ UNCHANGED expected

\* downsample: the buckets that samples of E have closed, one sample for each
\* aggregation, then the samples of P outside its scope; the rest is absorbed.
Aggregated(q, E, P, aggs) ==
  LET closed == Kept(q, E, TRUE)
  IN [j \in 1..(Len(closed) * aggs) |-> closed[(j + aggs - 1) \div aggs]] \o Kept(q, P, FALSE)

Downsample(E, P, aggs) ==
  /\ NextStage
  /\ LET out == Aggregated(Contents(cur), E, P, aggs) IN
     /\ mem' = [mem EXCEPT !["own"] = out]
     /\ TakeOutput(Slice("own", Len(out)))
     /\ Shorter(out)
  /\ expected' = Aggregated(expected, E, P, aggs)

\* Mutant: the recovery keeps what the stage had written.
PanicKeepsOutput(K, n) ==
  /\ NextStage
  /\ LET out == Kept(SubSeq(Contents(cur), 1, n), K, TRUE) IN
     /\ mem' = AppendTo(dst, out)
     /\ TakeOutput(Appended(dst, out))
  /\ UNCHANGED <<expected, shortened>>

\* A stage panics after n samples: dst is partly overwritten, runStage returns the
\* input, and Process moves it.
Panic(K, n) ==
  /\ NextStage
  /\ LET written == Kept(SubSeq(Contents(cur), 1, n), K, TRUE)
         dirty == [mem EXCEPT ![dst] =
                     Overwrite(@, SubSeq(written, 1, Min({BatchSize, Len(written)})))]
         out == SubSeq(dirty[cur.buf], 1, cur.len)
     IN
     /\ mem' = MoveTo(dirty, dst, out)
     /\ TakeOutput(Appended(dst, out))
     /\ Shorter(out)
  /\ UNCHANGED expected
-----------------------------------------------------------------------------
\* After the last stage (a rule set has as many as it likes).
StagesDone ==
  /\ phase = "stages"
  /\ phase' = IF cur.len = 0 THEN "ok" ELSE "dispatch"
  /\ UNCHANGED <<mem, cur, dst, stage, sent, expected, shortened>>

\* One sample to the sink pipeline, which takes it or not; the first refusal ends the
\* batch with an error, and the samples before it are sent.
Dispatch ==
  /\ phase = "dispatch"
  /\ \/ /\ sent' = Append(sent, Contents(cur)[Len(sent) + 1])
        /\ phase' = IF Len(sent') = cur.len THEN "ok" ELSE phase
     \/ phase' = "error" /\ UNCHANGED sent
  /\ UNCHANGED <<mem, cur, dst, stage, expected, shortened>>

Returned == phase \in {"ok", "error"} /\ UNCHANGED vars

Next ==
  \/ \E K \in SUBSET (1..BatchSize) :
       \/ \E rewrites \in BOOLEAN : WriteOut(K, rewrites)
       \/ \E P \in SUBSET ((1..BatchSize) \ K), aggs \in 1..MaxAggs : Downsample(K, P, aggs)
       \/ \E n \in 0..cur.len : Panic(K, n)
  \/ PassThrough
  \/ StagesDone \/ Dispatch \/ Returned

Spec == Init /\ [][Next]_vars
-----------------------------------------------------------------------------
Sample == [id : 1..BatchSize, by : 0..MaxStages]

TypeOK ==
  /\ mem \in [Buffers -> Seq(Sample)]
  /\ cur.buf \in Buffers
  /\ cur.len \in 0..Len(mem[cur.buf])
  /\ dst \in {"buf1", "buf2"}
  /\ stage \in 0..MaxStages
  /\ phase \in {"stages", "dispatch", "ok", "error"}
  /\ sent \in Seq(Sample)
  /\ expected \in Seq(Sample)
  /\ shortened \in BOOLEAN

\* Whatever the stages do, panics included, a batch that is answered with success has
\* sent every sample its stages let through: no buffer is overwritten while it is still
\* to be read (pipeline.go:131-133).
NothingLost == phase = "ok" => ToSet(expected) \subseteq ToSet(sent)

\* As long as no stage has dropped a sample the shared buffers cannot be told from
\* buffers of each stage's own, order and duplicates included.
ExactUnlessShortened == phase = "ok" /\ ~shortened => sent = expected

\* The promise of the reuse (pipeline.go:131-133, "no later stage reads polluted data"):
\* what is sent is what the stages let through, one after the other.
StagesCompose == phase = "ok" => sent = expected
=============================================================================
