-------------------------- MODULE RuleBuffersProofs --------------------------
(***************************************************************************)
(* The two shared buffers for any batch, any number of stages and of       *)
(* aggregations, panics included: a batch answered with success has sent   *)
(* every sample the stages let through, and exactly those unless a stage   *)
(* has dropped one.                                                        *)
(***************************************************************************)
EXTENDS RuleBuffers, DataLemmas, SequenceTheorems

\* The arrays: those of the two buffers keep their capacity, and buf1 is full.
MemOK(m) ==
  /\ m \in [Buffers -> Seq(Sample)]
  /\ Len(m["buf1"]) = BatchSize /\ Len(m["buf2"]) <= BatchSize

\* A slice of m whose samples are those of out.
Holds(m, w, out) ==
  /\ w \in [buf : Buffers, len : Nat] /\ w.len = Len(out) /\ Len(out) <= Len(m[w.buf])
  /\ \A i \in 1..Len(out) : m[w.buf][i] = out[i]

SlicesOK ==
  /\ MemOK(mem)
  /\ cur \in [buf : Buffers, len : Nat] /\ cur.len <= Len(mem[cur.buf])
  /\ dst \in {"buf1", "buf2"} /\ dst # cur.buf

\* What has been sent are the first samples of the last input.
SentOK ==
  /\ sent \in Seq(Sample) /\ Len(sent) <= cur.len
  /\ \A i \in 1..Len(sent) : sent[i] = mem[cur.buf][i]
  /\ phase = "stages" => sent = <<>>
  /\ phase = "dispatch" => Len(sent) < cur.len
  /\ phase = "ok" => Len(sent) = cur.len

\* What buffers of each stage's own would hold is in the last input, and is all of it
\* as long as no stage has dropped a sample.
ExpectedOK ==
  /\ expected \in Seq(Sample) /\ shortened \in BOOLEAN
  /\ ToSet(expected) \subseteq ToSet(Contents(cur))
  /\ ~shortened => cur.len >= BatchSize /\ Contents(cur) = expected

BufferInv ==
  /\ SlicesOK /\ SentOK /\ ExpectedOK
  /\ stage \in 0..MaxStages /\ phase \in {"stages", "dispatch", "ok", "error"}
-----------------------------------------------------------------------------
\* The samples of a slice.
LEMMA ContentsAre ==
  ASSUME SlicesOK
  PROVE  /\ Contents(cur) \in Seq(Sample) /\ Len(Contents(cur)) = cur.len
         /\ \A i \in 1..cur.len : Contents(cur)[i] = mem[cur.buf][i]
<1>1. PICK a : a = mem[cur.buf]
  OBVIOUS
<1>2. PICK n : n = cur.len
  OBVIOUS
<1>3. a \in Seq(Sample) /\ n \in Nat /\ n <= Len(a)
  BY <1>1, <1>2 DEF SlicesOK, MemOK
<1>4. \A i \in 1..n : a[i] \in Sample
  BY <1>3, ElementOfSeq
<1>5. /\ SubSeq(a, 1, n) \in Seq(Sample)
      /\ Len(SubSeq(a, 1, n)) = IF 1 <= n THEN n - 1 + 1 ELSE 0
      /\ \A i \in 1..(n - 1 + 1) : SubSeq(a, 1, n)[i] = a[1 + i - 1]
  BY <1>3, <1>4, SubSeqProperties
<1>6. n - 1 + 1 = n /\ (~(1 <= n) => n = 0) /\ \A i \in 1..n : 1 + i - 1 = i
  BY <1>3
<1>7. Len(SubSeq(a, 1, n)) = n /\ \A i \in 1..n : SubSeq(a, 1, n)[i] = a[i]
  BY <1>5, <1>6
<1> QED
  BY <1>1, <1>2, <1>5, <1>7 DEF Contents

\* The first samples of a sequence.
LEMMA FirstOf ==
  ASSUME NEW s \in Seq(Sample), NEW n \in Nat, n <= Len(s)
  PROVE  /\ SubSeq(s, 1, n) \in Seq(Sample) /\ Len(SubSeq(s, 1, n)) = n
         /\ \A i \in 1..n : SubSeq(s, 1, n)[i] = s[i]
<1>1. \A i \in 1..n : s[i] \in Sample
  BY ElementOfSeq
<1>2. /\ SubSeq(s, 1, n) \in Seq(Sample)
      /\ Len(SubSeq(s, 1, n)) = IF 1 <= n THEN n - 1 + 1 ELSE 0
      /\ \A i \in 1..(n - 1 + 1) : SubSeq(s, 1, n)[i] = s[1 + i - 1]
  BY <1>1, SubSeqProperties
<1>3. n - 1 + 1 = n /\ (~(1 <= n) => n = 0) /\ \A i \in 1..n : 1 + i - 1 = i
  OBVIOUS
<1> QED
  BY <1>2, <1>3

\* Writing over an array: it begins with the output, and grows only with it.
LEMMA OverwriteIs ==
  ASSUME NEW array \in Seq(Sample), NEW out \in Seq(Sample)
  PROVE  /\ Overwrite(array, out) \in Seq(Sample)
         /\ Len(Overwrite(array, out)) = IF Len(out) <= Len(array) THEN Len(array) ELSE Len(out)
         /\ \A i \in 1..Len(out) : Overwrite(array, out)[i] = out[i]
<1>1. PICK n, k : n = Len(array) /\ k = Len(out)
  OBVIOUS
<1>2. n \in Nat /\ k \in Nat
  BY <1>1
<1>3. PICK rest : rest = SubSeq(array, k + 1, n)
  OBVIOUS
<1>4. \A i \in (k + 1)..n : array[i] \in Sample
  BY <1>1, <1>2, ElementOfSeq
<1>5. rest \in Seq(Sample) /\ Len(rest) = IF k + 1 <= n THEN n - (k + 1) + 1 ELSE 0
  BY <1>2, <1>3, <1>4, SubSeqProperties
<1>6. /\ out \o rest \in Seq(Sample) /\ Len(out \o rest) = k + Len(rest)
      /\ \A i \in 1..(k + Len(rest)) : (out \o rest)[i] = IF i <= k THEN out[i] ELSE rest[i - k]
  BY <1>1, <1>5, ConcatProperties
<1>7. k + Len(rest) = (IF k <= n THEN n ELSE k) /\ \A i \in 1..k : i <= k /\ i \in 1..(k + Len(rest))
  BY <1>2, <1>5
<1> QED
  BY <1>1, <1>3, <1>6, <1>7 DEF Overwrite

\* A returned input, moved to the other buffer or to an array of its own.
LEMMA MoveHolds ==
  ASSUME NEW m, MemOK(m), NEW b \in {"buf1", "buf2"}, NEW out \in Seq(Sample)
  PROVE  MemOK(MoveTo(m, b, out)) /\ Holds(MoveTo(m, b, out), Appended(b, out), out)
<1>1. PICK k : k = Len(out)
  OBVIOUS
<1>2. k \in Nat /\ BatchSize \in Nat
  BY <1>1, BuffersAssumption
<1>3. CASE k <= BatchSize
  <2>1. PICK a : a = Overwrite(m[b], out)
    OBVIOUS
  <2>2. m[b] \in Seq(Sample) /\ Len(m[b]) \in Nat /\ Len(m[b]) <= BatchSize
        /\ (b = "buf1" => Len(m[b]) = BatchSize)
    BY <1>2 DEF MemOK, Buffers
  <2>3. /\ a \in Seq(Sample) /\ Len(a) = (IF k <= Len(m[b]) THEN Len(m[b]) ELSE k)
        /\ \A i \in 1..k : a[i] = out[i]
    BY <1>1, <2>1, <2>2, OverwriteIs
  <2>4. Len(a) <= BatchSize /\ k <= Len(a) /\ (b = "buf1" => Len(a) = BatchSize)
    BY <1>2, <1>3, <2>2, <2>3
  <2>5. MoveTo(m, b, out) = [m EXCEPT ![b] = a] /\ Appended(b, out) = [buf |-> b, len |-> k]
    BY <1>1, <1>3, <2>1 DEF MoveTo, Appended, Slice
  <2>6. MemOK([m EXCEPT ![b] = a])
    BY <2>3, <2>4 DEF MemOK, Buffers
  <2>7. [m EXCEPT ![b] = a][b] = a
    BY DEF MemOK, Buffers
  <2>8. Holds([m EXCEPT ![b] = a], [buf |-> b, len |-> k], out)
    BY <1>1, <1>2, <2>3, <2>4, <2>7 DEF Holds, Buffers
  <2> QED
    BY <2>5, <2>6, <2>8
<1>4. CASE ~(k <= BatchSize)
  <2>1. MoveTo(m, b, out) = [m EXCEPT !["own"] = out] /\ Appended(b, out) = [buf |-> "own", len |-> k]
    BY <1>1, <1>4 DEF MoveTo, Appended, Slice
  <2>2. MemOK([m EXCEPT !["own"] = out]) /\ [m EXCEPT !["own"] = out]["own"] = out
    BY DEF MemOK, Buffers
  <2>3. Holds([m EXCEPT !["own"] = out], [buf |-> "own", len |-> k], out)
    BY <1>1, <1>2, <2>2 DEF Holds, Buffers
  <2> QED
    BY <2>1, <2>2, <2>3
<1> QED
  BY <1>3, <1>4

\* A stage's output, sample by sample: what does not fit leaves the buffer written.
LEMMA AppendHolds ==
  ASSUME MemOK(mem), NEW b \in {"buf1", "buf2"}, NEW out \in Seq(Sample)
  PROVE  MemOK(AppendTo(b, out)) /\ Holds(AppendTo(b, out), Appended(b, out), out)
<1>1. CASE Len(out) <= BatchSize
  BY <1>1, MoveHolds DEF AppendTo, MoveTo
<1>2. CASE ~(Len(out) <= BatchSize)
  <2>1. PICK k : k = Len(out)
    OBVIOUS
  <2>2. BatchSize \in Nat /\ k \in Nat /\ BatchSize <= k
    BY <1>2, <2>1, BuffersAssumption
  <2>3. PICK a : a = SubSeq(out, 1, BatchSize)
    OBVIOUS
  <2>4. a \in Seq(Sample) /\ Len(a) = BatchSize
    BY <2>1, <2>2, <2>3, FirstOf
  <2>5. PICK m : m = [mem EXCEPT ![b] = a]
    OBVIOUS
  <2>6. MemOK(m)
    BY <2>2, <2>4, <2>5 DEF MemOK, Buffers
  <2>7. AppendTo(b, out) = MoveTo(m, b, out)
    BY <1>2, <2>3, <2>5 DEF AppendTo, MoveTo
  <2> QED
    BY <2>6, <2>7, MoveHolds
<1> QED
  BY <1>1, <1>2
-----------------------------------------------------------------------------
\* The samples a stage keeps, as they leave it.
LEMMA KeptAre ==
  ASSUME stage \in Nat, stage + 1 <= MaxStages,
         NEW q \in Seq(Sample), NEW K, NEW rewrites \in BOOLEAN
  PROVE  /\ Kept(q, K, rewrites) \in Seq(Sample)
         /\ \A e : e \in ToSet(Kept(q, K, rewrites)) <=>
                     \E s \in ToSet(q) : s.id \in K /\ e = Through(s, rewrites)
<1> DEFINE places == {i \in DOMAIN q : q[i].id \in K}
<1>1. PICK at : at = Sorted(places)
  OBVIOUS
<1>2. DOMAIN q = 1..Len(q) /\ Len(q) \in Nat
  OBVIOUS
<1>3. places \in SUBSET Nat /\ IsFiniteSet(places)
  <2>1. IsFiniteSet(1..Len(q)) /\ places \in SUBSET (1..Len(q))
    BY <1>2, FS_Interval
  <2>2. \A i \in 1..Len(q) : i \in Nat
    BY <1>2
  <2> HIDE DEF places
  <2> QED
    BY <2>1, <2>2, FS_Subset
<1>4. PICK c : c = Cardinality(places)
  OBVIOUS
<1>5. /\ at \in Seq(places) /\ Len(at) = c
      /\ \A n \in places : \E i \in 1..c : at[i] = n
  <2> HIDE DEF places
  <2> QED
    BY <1>1, <1>3, <1>4, SortedIs
<1>6. DOMAIN at = 1..c /\ c \in Nat /\ \A j \in 1..c : at[j] \in places
  <2> HIDE DEF places
  <2> QED
    BY <1>5, ElementOfSeq
<1>7. \A s \in Sample : Through(s, rewrites) \in Sample
  <2>1. stage + 1 \in 0..MaxStages
    BY BuffersAssumption
  <2> QED
    BY <2>1 DEF Through, Sample
<1>8. Kept(q, K, rewrites) = [j \in 1..c |-> Through(q[at[j]], rewrites)]
  BY <1>1, <1>6 DEF Kept
<1>9. \A j \in 1..c : q[at[j]] \in Sample /\ q[at[j]].id \in K /\ at[j] \in DOMAIN q
  BY <1>2, <1>6, ElementOfSeq
<1>10. Kept(q, K, rewrites) \in Seq(Sample)
  BY <1>6, <1>7, <1>8, <1>9
<1>11. ASSUME NEW e
       PROVE  e \in ToSet(Kept(q, K, rewrites)) <=>
                \E s \in ToSet(q) : s.id \in K /\ e = Through(s, rewrites)
  <2>1. ASSUME e \in ToSet(Kept(q, K, rewrites))
        PROVE  \E s \in ToSet(q) : s.id \in K /\ e = Through(s, rewrites)
    <3>1. PICK j \in 1..c : e = Through(q[at[j]], rewrites)
      BY <1>8, <2>1 DEF ToSet
    <3>2. q[at[j]] \in ToSet(q)
      BY <1>9 DEF ToSet
    <3> QED
      BY <1>9, <3>1, <3>2
  <2>2. ASSUME NEW s \in ToSet(q), s.id \in K, e = Through(s, rewrites)
        PROVE  e \in ToSet(Kept(q, K, rewrites))
    <3>1. PICK i \in DOMAIN q : s = q[i]
      BY DEF ToSet
    <3>2. i \in places
      BY <2>2, <3>1
    <3>3. PICK j \in 1..c : at[j] = i
      <4> HIDE DEF places
      <4> QED
        BY <1>5, <3>2
    <3>4. Kept(q, K, rewrites)[j] = e /\ j \in DOMAIN Kept(q, K, rewrites)
      BY <1>8, <2>2, <3>1, <3>3
    <3> QED
      BY <3>4 DEF ToSet
  <2> QED
    BY <2>1, <2>2
<1> QED
  BY <1>10, <1>11

\* What a downsample stage returns: the samples that closed a bucket, rewritten, and the
\* ones outside its scope.
LEMMA AggregatedAre ==
  ASSUME stage \in Nat, stage + 1 <= MaxStages,
         NEW q \in Seq(Sample), NEW E, NEW P, NEW aggs \in Nat \ {0}
  PROVE  /\ Aggregated(q, E, P, aggs) \in Seq(Sample)
         /\ ToSet(Aggregated(q, E, P, aggs)) = ToSet(Kept(q, E, TRUE)) \cup ToSet(Kept(q, P, FALSE))
<1>1. PICK closed, passed : closed = Kept(q, E, TRUE) /\ passed = Kept(q, P, FALSE)
  OBVIOUS
<1>2. closed \in Seq(Sample) /\ passed \in Seq(Sample)
  BY <1>1, KeptAre
<1>3. PICK n : n = Len(closed)
  OBVIOUS
<1>4. n \in Nat /\ DOMAIN closed = 1..n
  BY <1>2, <1>3
<1>5. PICK len : len = n * aggs
  OBVIOUS
<1>6. len \in Nat
  BY <1>4, <1>5
<1>7. \A j \in 1..len : (j + aggs - 1) \div aggs \in 1..n
  BY <1>4, <1>5, DivRange
<1>8. \A i \in 1..n : \E j \in 1..len : (j + aggs - 1) \div aggs = i
  BY <1>4, <1>5, DivExact
<1>9. PICK f : f = [j \in 1..len |-> (j + aggs - 1) \div aggs]
  OBVIOUS
<1>10. /\ \A j \in 1..len : f[j] \in 1..n
       /\ \A i \in 1..n : \E j \in 1..len : f[j] = i
  BY <1>7, <1>8, <1>9
<1>11. PICK many : many = [j \in 1..len |-> closed[(j + aggs - 1) \div aggs]]
  OBVIOUS
<1>12. many = [j \in 1..len |-> closed[f[j]]]
  BY <1>9, <1>11
<1>13. many \in Seq(Sample) /\ Len(many) = len
  BY <1>2, <1>4, <1>6, <1>10, <1>12
<1>14. ToSet(many) = ToSet(closed)
  BY <1>4, <1>10, <1>12 DEF ToSet
<1>15. Aggregated(q, E, P, aggs) = many \o passed
  BY <1>1, <1>3, <1>5, <1>11 DEF Aggregated
<1>16. many \o passed \in Seq(Sample) /\ ToSet(many \o passed) = ToSet(many) \cup ToSet(passed)
  <2>1. PICK k : k = Len(passed)
    OBVIOUS
  <2>2. k \in Nat /\ DOMAIN passed = 1..k /\ DOMAIN many = 1..len
    BY <1>2, <1>12, <2>1
  <2>3. PICK both : both = many \o passed
    OBVIOUS
  <2>4. /\ both \in Seq(Sample) /\ Len(both) = len + k
        /\ \A i \in 1..(len + k) : both[i] = IF i <= len THEN many[i] ELSE passed[i - len]
    BY <1>2, <1>13, <2>1, <2>3, ConcatProperties
  <2>5. DOMAIN both = 1..(len + k)
    BY <2>4
  <2>6. ASSUME NEW e \in ToSet(both) PROVE e \in ToSet(many) \cup ToSet(passed)
    <3>1. PICK i \in 1..(len + k) : e = both[i]
      BY <2>5 DEF ToSet
    <3>2. i <= len => i \in 1..len
      OBVIOUS
    <3>3. ~(i <= len) => i - len \in 1..k
      BY <1>6, <2>2
    <3> QED
      BY <2>2, <2>4, <3>1, <3>2, <3>3 DEF ToSet
  <2>7. ASSUME NEW e \in ToSet(many) PROVE e \in ToSet(both)
    <3>1. PICK i \in 1..len : e = many[i]
      BY <2>2 DEF ToSet
    <3>2. i \in 1..(len + k) /\ i <= len
      BY <1>6, <2>2
    <3> QED
      BY <2>4, <2>5, <3>1, <3>2 DEF ToSet
  <2>8. ASSUME NEW e \in ToSet(passed) PROVE e \in ToSet(both)
    <3>1. PICK i \in 1..k : e = passed[i]
      BY <2>2 DEF ToSet
    <3>2. PICK j : j = i + len
      OBVIOUS
    <3>3. j \in 1..(len + k) /\ ~(j <= len) /\ j - len = i
      BY <1>6, <2>2, <3>2
    <3> QED
      BY <2>4, <2>5, <3>1, <3>3 DEF ToSet
  <2> QED
    BY <2>3, <2>4, <2>6, <2>7, <2>8
<1> QED
  BY <1>1, <1>14, <1>15, <1>16
-----------------------------------------------------------------------------
\* A stage whose output is out, in the slice w of the arrays m, beside buffers of its
\* own in which its output is e.
LEMMA StageStep ==
  ASSUME BufferInv, NextStage,
         NEW m, NEW w, NEW out \in Seq(Sample), NEW e \in Seq(Sample),
         MemOK(m), Holds(m, w, out), mem' = m, TakeOutput(w), Shorter(out),
         expected' = e, ToSet(e) \subseteq ToSet(out), Contents(cur) = expected => out = e
  PROVE  BufferInv'
<1>1. PICK k : k = Len(out)
  OBVIOUS
<1>2. k \in Nat /\ DOMAIN out = 1..k /\ BatchSize \in Nat \ {0}
  BY <1>1, BuffersAssumption
<1>3. PICK c : c = cur'
  OBVIOUS
<1>4. /\ w \in [buf : Buffers, len : Nat] /\ w.len = k /\ k <= Len(m[w.buf])
      /\ \A i \in 1..k : m[w.buf][i] = out[i]
  BY <1>1 DEF Holds
\* The next input begins with the output, and is no longer unless it has grown back.
<1>5. /\ c \in [buf : Buffers, len : Nat] /\ c.len <= Len(m[c.buf])
      /\ dst' \in {"buf1", "buf2"} /\ dst' # c.buf
      /\ k <= c.len /\ (k >= BatchSize => c.len = k)
      /\ \A i \in 1..k : m[c.buf][i] = out[i]
  <2>1. CASE k > 0 /\ w.buf = "buf1"
    <3>1. c = [buf |-> "buf1", len |-> BatchSize] /\ dst' = "buf2"
      BY <1>3, <1>4, <2>1 DEF TakeOutput, Slice
    <3>2. Len(m["buf1"]) = BatchSize
      BY DEF MemOK
    <3>3. k <= BatchSize /\ (k >= BatchSize => BatchSize = k)
      BY <1>2, <1>4, <2>1, <3>2
    <3> QED
      BY <1>2, <1>4, <2>1, <3>1, <3>2, <3>3 DEF Buffers
  <2>2. CASE k > 0 /\ w.buf # "buf1"
    <3>1. c = w /\ dst' = "buf1"
      BY <1>3, <1>4, <2>2 DEF TakeOutput
    <3> QED
      BY <1>2, <1>4, <2>2, <3>1
  <2>3. CASE ~(k > 0)
    <3>1. c = [buf |-> "buf2", len |-> 0] /\ dst' = "buf1" /\ k = 0
      BY <1>2, <1>3, <1>4, <2>3 DEF TakeOutput, Slice
    <3>2. Len(m["buf2"]) \in Nat
      BY DEF MemOK, Buffers
    <3> QED
      BY <1>2, <3>1, <3>2 DEF Buffers
  <2> QED
    BY <2>1, <2>2, <2>3
<1>6. SlicesOK'
  BY <1>3, <1>5 DEF SlicesOK
<1>7. PICK q : q = Contents(cur)'
  OBVIOUS
<1>8. q = SubSeq(m[c.buf], 1, c.len)
  BY <1>3, <1>7 DEF Contents
<1>9. /\ q \in Seq(Sample) /\ Len(q) = c.len
      /\ \A i \in 1..c.len : q[i] = m[c.buf][i]
  <2>1. m[c.buf] \in Seq(Sample) /\ c.len \in Nat /\ c.len <= Len(m[c.buf])
    BY <1>5 DEF MemOK
  <2> QED
    BY <1>8, <2>1, FirstOf
<1>10. \A i \in 1..k : i \in 1..c.len /\ q[i] = out[i]
  <2>1. \A i \in 1..k : i \in 1..c.len
    BY <1>2, <1>5
  <2> QED
    BY <1>5, <1>9, <2>1
<1>11. ToSet(e) \subseteq ToSet(q)
  <2>1. DOMAIN q = 1..c.len
    BY <1>9
  <2>2. ToSet(out) \subseteq ToSet(q)
    BY <1>2, <1>10, <2>1 DEF ToSet
  <2> QED
    BY <2>2
<1>12. ASSUME ~shortened' PROVE c.len >= BatchSize /\ q = e
  <2>1. ~shortened /\ ~(k < cur.len)
    BY <1>1, <1>12 DEF Shorter
  <2>2. cur.len >= BatchSize /\ Contents(cur) = expected /\ cur.len \in Nat
    BY <2>1 DEF BufferInv, ExpectedOK, SlicesOK
  <2>3. c.len = k /\ k >= BatchSize
    BY <1>2, <1>5, <2>1, <2>2
  <2>4. q = out
    BY <1>1, <1>2, <1>9, <1>10, <2>3, SeqEqual
  <2> QED
    BY <2>2, <2>3, <2>4
<1>13. shortened' \in BOOLEAN
  BY DEF Shorter
<1>14. ExpectedOK'
  BY <1>3, <1>7, <1>11, <1>12, <1>13 DEF ExpectedOK
<1>15. SentOK'
  <2>1. phase = "stages" /\ phase' = phase /\ sent' = sent /\ sent = <<>>
    BY DEF NextStage, BufferInv, SentOK
  <2>2. Len(sent') = 0 /\ sent' \in Seq(Sample) /\ 1..0 = {}
    BY <2>1
  <2>3. 0 <= c.len
    BY <1>5
  <2> QED
    BY <1>3, <2>1, <2>2, <2>3 DEF SentOK
<1>16. stage' \in 0..MaxStages /\ phase' \in {"stages", "dispatch", "ok", "error"}
  BY BuffersAssumption DEF NextStage, BufferInv
<1> QED
  BY <1>6, <1>14, <1>15, <1>16 DEF BufferInv

\* The stage that runs now has a number.
LEMMA StageNumber == ASSUME BufferInv, NextStage PROVE stage \in Nat /\ stage + 1 <= MaxStages
BY BuffersAssumption DEF BufferInv, NextStage

\* A stage that filters or rewrites.
LEMMA WriteOutKept ==
  ASSUME BufferInv, NEW K, NEW rewrites \in BOOLEAN, WriteOut(K, rewrites)
  PROVE  BufferInv'
<1>1. NextStage /\ stage \in Nat /\ stage + 1 <= MaxStages
  BY StageNumber DEF WriteOut
<1>2. PICK q, out : q = Contents(cur) /\ out = Kept(q, K, rewrites)
  OBVIOUS
<1>3. PICK e : e = Kept(expected, K, rewrites)
  OBVIOUS
<1>4. q \in Seq(Sample) /\ expected \in Seq(Sample) /\ ToSet(expected) \subseteq ToSet(q)
  BY <1>2, ContentsAre DEF BufferInv, ExpectedOK
<1>5. /\ out \in Seq(Sample) /\ e \in Seq(Sample)
      /\ ToSet(e) \subseteq ToSet(out)
  <2>1. \A x : x \in ToSet(e) <=> \E s \in ToSet(expected) : s.id \in K /\ x = Through(s, rewrites)
    BY <1>1, <1>3, <1>4, KeptAre
  <2>2. \A x : x \in ToSet(out) <=> \E s \in ToSet(q) : s.id \in K /\ x = Through(s, rewrites)
    BY <1>1, <1>2, <1>4, KeptAre
  <2>3. out \in Seq(Sample) /\ e \in Seq(Sample)
    BY <1>1, <1>2, <1>3, <1>4, KeptAre
  <2> QED
    BY <1>4, <2>1, <2>2, <2>3
<1>6. PICK m, w : m = AppendTo(dst, out) /\ w = Appended(dst, out)
  OBVIOUS
<1>7. MemOK(m) /\ Holds(m, w, out)
  BY <1>5, <1>6, AppendHolds DEF BufferInv, SlicesOK
<1>8. mem' = m /\ TakeOutput(w) /\ Shorter(out) /\ expected' = e
  BY <1>2, <1>3, <1>6 DEF WriteOut
<1> QED
  BY <1>1, <1>2, <1>3, <1>5, <1>7, <1>8, StageStep

\* A stage that returns its input.
LEMMA PassThroughKept ==
  ASSUME BufferInv, PassThrough
  PROVE  BufferInv'
<1>1. NextStage
  BY DEF PassThrough
<1>2. PICK out : out = Contents(cur)
  OBVIOUS
<1>3. out \in Seq(Sample) /\ expected \in Seq(Sample) /\ ToSet(expected) \subseteq ToSet(out)
  BY <1>2, ContentsAre DEF BufferInv, ExpectedOK
<1>4. PICK m, w : m = MoveTo(mem, dst, out) /\ w = Appended(dst, out)
  OBVIOUS
<1>5. MemOK(m) /\ Holds(m, w, out)
  BY <1>3, <1>4, MoveHolds DEF BufferInv, SlicesOK
<1>6. mem' = m /\ TakeOutput(w) /\ Shorter(out) /\ expected' = expected
  BY <1>2, <1>4 DEF PassThrough
<1> QED
  BY <1>1, <1>2, <1>3, <1>5, <1>6, StageStep

\* A downsample stage, with a slice of its own.
LEMMA DownsampleKept ==
  ASSUME BufferInv, NEW E, NEW P, NEW aggs \in Nat \ {0}, Downsample(E, P, aggs)
  PROVE  BufferInv'
<1>1. NextStage /\ stage \in Nat /\ stage + 1 <= MaxStages
  BY StageNumber DEF Downsample
<1>2. PICK q, out : q = Contents(cur) /\ out = Aggregated(q, E, P, aggs)
  OBVIOUS
<1>3. PICK e : e = Aggregated(expected, E, P, aggs)
  OBVIOUS
<1>4. q \in Seq(Sample) /\ expected \in Seq(Sample) /\ ToSet(expected) \subseteq ToSet(q)
  BY <1>2, ContentsAre DEF BufferInv, ExpectedOK
<1>5. out \in Seq(Sample) /\ e \in Seq(Sample)
  BY <1>1, <1>2, <1>3, <1>4, AggregatedAre
<1>6. ASSUME NEW K, NEW rewrites \in BOOLEAN
      PROVE  ToSet(Kept(expected, K, rewrites)) \subseteq ToSet(Kept(q, K, rewrites))
  <2>1. \A x : x \in ToSet(Kept(expected, K, rewrites)) <=>
          \E s \in ToSet(expected) : s.id \in K /\ x = Through(s, rewrites)
    BY <1>1, <1>4, KeptAre
  <2>2. \A x : x \in ToSet(Kept(q, K, rewrites)) <=>
          \E s \in ToSet(q) : s.id \in K /\ x = Through(s, rewrites)
    BY <1>1, <1>4, KeptAre
  <2> QED
    BY <1>4, <2>1, <2>2
<1>7. ToSet(e) \subseteq ToSet(out)
  <2>1. /\ ToSet(e) = ToSet(Kept(expected, E, TRUE)) \cup ToSet(Kept(expected, P, FALSE))
        /\ ToSet(out) = ToSet(Kept(q, E, TRUE)) \cup ToSet(Kept(q, P, FALSE))
    BY <1>1, <1>2, <1>3, <1>4, AggregatedAre
  <2>2. /\ ToSet(Kept(expected, E, TRUE)) \subseteq ToSet(Kept(q, E, TRUE))
        /\ ToSet(Kept(expected, P, FALSE)) \subseteq ToSet(Kept(q, P, FALSE))
    BY <1>6
  <2> QED
    BY <2>1, <2>2
<1>8. PICK m, w : m = [mem EXCEPT !["own"] = out] /\ w = Slice("own", Len(out))
  OBVIOUS
<1>9. MemOK(m) /\ Holds(m, w, out)
  <2>1. MemOK(mem) /\ Len(out) \in Nat
    BY <1>5 DEF BufferInv, SlicesOK
  <2>2. MemOK(m) /\ m["own"] = out
    BY <1>5, <1>8, <2>1 DEF MemOK, Buffers
  <2> QED
    BY <1>8, <2>1, <2>2 DEF Holds, Slice, Buffers
<1>10. mem' = m /\ TakeOutput(w) /\ Shorter(out) /\ expected' = e
  BY <1>2, <1>3, <1>8 DEF Downsample
<1> QED
  BY <1>1, <1>2, <1>3, <1>5, <1>7, <1>9, <1>10, StageStep

\* A stage that panics: what it had written is in the other buffer than its input.
LEMMA PanicKept ==
  ASSUME BufferInv, NEW K, NEW n \in 0..cur.len, Panic(K, n)
  PROVE  BufferInv'
<1>1. NextStage /\ stage \in Nat /\ stage + 1 <= MaxStages
  BY StageNumber DEF Panic
<1>2. PICK q : q = Contents(cur)
  OBVIOUS
<1>3. /\ q \in Seq(Sample) /\ Len(q) = cur.len /\ cur.len \in Nat
      /\ expected \in Seq(Sample) /\ ToSet(expected) \subseteq ToSet(q)
  BY <1>2, ContentsAre DEF BufferInv, ExpectedOK, SlicesOK
<1>4. PICK written : written = Kept(SubSeq(q, 1, n), K, TRUE)
  OBVIOUS
<1>5. written \in Seq(Sample)
  <2>1. n \in Nat /\ n <= Len(q)
    BY <1>3
  <2>2. SubSeq(q, 1, n) \in Seq(Sample)
    BY <1>3, <2>1, FirstOf
  <2> QED
    BY <1>1, <1>4, <2>2, KeptAre
<1>6. PICK k : k = Min({BatchSize, Len(written)})
  OBVIOUS
<1>7. k \in Nat /\ k <= Len(written) /\ k <= BatchSize
  BY <1>5, <1>6, BuffersAssumption, MinOfTwo
<1>8. PICK head : head = SubSeq(written, 1, k)
  OBVIOUS
<1>9. head \in Seq(Sample) /\ Len(head) = k
  BY <1>5, <1>7, <1>8, FirstOf
<1>10. PICK a : a = Overwrite(mem[dst], head)
  OBVIOUS
<1>11. PICK dirty : dirty = [mem EXCEPT ![dst] = a]
  OBVIOUS
<1>12. MemOK(mem) /\ dst \in {"buf1", "buf2"} /\ dst # cur.buf /\ cur.buf \in Buffers
  BY DEF BufferInv, SlicesOK
<1>13. MemOK(dirty)
  <2>1. mem[dst] \in Seq(Sample) /\ Len(mem[dst]) \in Nat /\ Len(mem[dst]) <= BatchSize
        /\ (dst = "buf1" => Len(mem[dst]) = BatchSize)
    BY <1>12, BuffersAssumption DEF MemOK, Buffers
  <2>2. a \in Seq(Sample) /\ Len(a) = IF k <= Len(mem[dst]) THEN Len(mem[dst]) ELSE k
    BY <1>9, <1>10, <2>1, OverwriteIs
  <2>3. Len(a) <= BatchSize /\ (dst = "buf1" => Len(a) = BatchSize)
    BY <1>7, <2>1, <2>2
  <2> QED
    BY <1>11, <1>12, <2>2, <2>3 DEF MemOK, Buffers
<1>14. dirty[cur.buf] = mem[cur.buf]
  BY <1>11, <1>12 DEF MemOK
<1>15. PICK m, w : m = MoveTo(dirty, dst, q) /\ w = Appended(dst, q)
  OBVIOUS
<1>16. MemOK(m) /\ Holds(m, w, q)
  BY <1>3, <1>12, <1>13, <1>15, MoveHolds
<1>17. SubSeq(dirty[cur.buf], 1, cur.len) = q
  BY <1>2, <1>14 DEF Contents
<1>18. mem' = m /\ TakeOutput(w) /\ Shorter(q) /\ expected' = expected
  BY <1>2, <1>4, <1>6, <1>8, <1>10, <1>11, <1>15, <1>17 DEF Panic
<1> QED
  BY <1>1, <1>2, <1>3, <1>16, <1>18, StageStep
-----------------------------------------------------------------------------
\* The batch is in buf1, whole.
LEMMA BufferInit == Init => BufferInv
<1> SUFFICES ASSUME Init PROVE BufferInv
  OBVIOUS
<1>1. BatchSize \in Nat \ {0} /\ MaxStages \in Nat
  BY BuffersAssumption
<1>2. PICK batch : batch = [i \in 1..BatchSize |-> [id |-> i, by |-> 0]]
  OBVIOUS
<1>3. batch \in Seq(Sample) /\ Len(batch) = BatchSize
  <2>1. \A i \in 1..BatchSize : [id |-> i, by |-> 0] \in Sample
    BY <1>1 DEF Sample
  <2> QED
    BY <1>1, <1>2, <2>1
<1>4. /\ mem = [b \in Buffers |-> IF b = "buf1" THEN batch ELSE <<>>]
      /\ cur = [buf |-> "buf1", len |-> BatchSize] /\ dst = "buf2"
      /\ stage = 0 /\ phase = "stages" /\ sent = <<>> /\ expected = batch /\ shortened = FALSE
  BY <1>2 DEF Init, Slice
<1>5. mem["buf1"] = batch /\ mem["buf2"] = <<>> /\ mem \in [Buffers -> Seq(Sample)]
  BY <1>3, <1>4 DEF Buffers
<1>6. SlicesOK
  BY <1>1, <1>3, <1>4, <1>5 DEF SlicesOK, MemOK, Buffers
<1>7. Contents(cur) = batch
  <2>1. /\ Contents(cur) \in Seq(Sample) /\ Len(Contents(cur)) = BatchSize
        /\ \A i \in 1..BatchSize : Contents(cur)[i] = batch[i]
    BY <1>4, <1>5, <1>6, ContentsAre
  <2> QED
    BY <1>3, <2>1, SeqEqual
<1>8. ExpectedOK
  <2>1. cur.len = BatchSize /\ BatchSize >= BatchSize
    BY <1>1, <1>4
  <2>2. expected \in Seq(Sample) /\ Contents(cur) = expected /\ shortened \in BOOLEAN
    BY <1>3, <1>4, <1>7
  <2> QED
    BY <2>1, <2>2 DEF ExpectedOK
<1>9. SentOK
  <2>1. sent \in Seq(Sample) /\ Len(sent) = 0 /\ 1..0 = {}
    BY <1>4
  <2> QED
    BY <1>1, <1>4, <2>1 DEF SentOK
<1>10. stage \in 0..MaxStages
  BY <1>1, <1>4
<1> QED
  BY <1>4, <1>6, <1>8, <1>9, <1>10 DEF BufferInv

\* The dispatch sends the last input from its first sample on.
LEMMA DispatchKept ==
  ASSUME BufferInv, Dispatch
  PROVE  BufferInv'
<1>1. UNCHANGED <<mem, cur, dst, stage, expected, shortened>> /\ phase = "dispatch"
  BY DEF Dispatch
<1>2. SlicesOK' /\ ExpectedOK'
  BY <1>1 DEF BufferInv, SlicesOK, ExpectedOK, MemOK, Contents
<1>3. CASE phase' = "error" /\ UNCHANGED sent
  BY <1>1, <1>2, <1>3 DEF BufferInv, SentOK
<1>4. CASE /\ sent' = Append(sent, Contents(cur)[Len(sent) + 1])
           /\ phase' = IF Len(sent') = cur.len THEN "ok" ELSE phase
  <2>1. PICK n : n = Len(sent)
    OBVIOUS
  <2>2. n \in Nat /\ n < cur.len /\ cur.len \in Nat /\ sent \in Seq(Sample)
        /\ \A i \in 1..n : sent[i] = mem[cur.buf][i]
    BY <1>1, <2>1 DEF BufferInv, SentOK, SlicesOK
  <2>3. PICK x : x = Contents(cur)[n + 1]
    OBVIOUS
  <2>4. x = mem[cur.buf][n + 1] /\ x \in Sample
    <3>1. n + 1 \in 1..cur.len
      BY <2>2
    <3>2. /\ Contents(cur) \in Seq(Sample) /\ Len(Contents(cur)) = cur.len
          /\ Contents(cur)[n + 1] = mem[cur.buf][n + 1]
      BY <3>1, ContentsAre DEF BufferInv
    <3> QED
      BY <2>3, <3>1, <3>2, ElementOfSeq
  <2>5. sent' = Append(sent, x)
    BY <1>4, <2>1, <2>3
  <2>6. /\ sent' \in Seq(Sample) /\ Len(sent') = n + 1
        /\ \A i \in 1..(n + 1) : sent'[i] = mem[cur.buf][i]
    <3>1. /\ Append(sent, x) \in Seq(Sample) /\ Len(Append(sent, x)) = n + 1
          /\ \A i \in 1..n : Append(sent, x)[i] = sent[i]
          /\ Append(sent, x)[n + 1] = x
      BY <2>1, <2>2, <2>4, AppendProperties
    <3>2. \A i \in 1..(n + 1) : i \in 1..n \/ i = n + 1
      BY <2>2
    <3> QED
      BY <2>2, <2>4, <2>5, <3>1, <3>2
  <2>7. Len(sent') <= cur.len /\ (Len(sent') # cur.len => Len(sent') < cur.len)
    BY <2>2, <2>6
  <2>8. SentOK'
    BY <1>1, <1>4, <2>6, <2>7 DEF SentOK
  <2> QED
    BY <1>1, <1>2, <1>4, <2>8 DEF BufferInv
<1> QED
  BY <1>3, <1>4 DEF Dispatch

\* The dispatch begins with nothing sent; an empty input is answered at once.
LEMMA StagesDoneKept ==
  ASSUME BufferInv, StagesDone
  PROVE  BufferInv'
<1>1. /\ UNCHANGED <<mem, cur, dst, stage, sent, expected, shortened>> /\ phase = "stages"
      /\ phase' = IF cur.len = 0 THEN "ok" ELSE "dispatch"
  BY DEF StagesDone
<1>2. SlicesOK' /\ ExpectedOK'
  BY <1>1 DEF BufferInv, SlicesOK, ExpectedOK, MemOK, Contents
<1>3. sent = <<>> /\ Len(sent) = 0 /\ cur.len \in Nat
  BY <1>1 DEF BufferInv, SentOK, SlicesOK
<1>4. SentOK'
  BY <1>1, <1>3 DEF BufferInv, SentOK
<1> QED
  BY <1>1, <1>2, <1>4 DEF BufferInv

\* The buffers' invariant.
LEMMA BuffersInvariant == Spec => []BufferInv
<1>1. ASSUME BufferInv, Next PROVE BufferInv'
  <2>1. \A aggs \in 1..MaxAggs : aggs \in Nat \ {0}
    BY BuffersAssumption
  <2>2. ASSUME NEW K \in SUBSET (1..BatchSize),
               \/ \E rewrites \in BOOLEAN : WriteOut(K, rewrites)
               \/ \E P \in SUBSET ((1..BatchSize) \ K), aggs \in 1..MaxAggs : Downsample(K, P, aggs)
               \/ \E n \in 0..cur.len : Panic(K, n)
        PROVE  BufferInv'
    BY <1>1, <2>1, <2>2, WriteOutKept, DownsampleKept, PanicKept
  <2>3. CASE Returned
    BY <1>1, <2>3 DEF Returned, vars, BufferInv, SlicesOK, SentOK, ExpectedOK, MemOK, Contents
  <2> QED
    BY <1>1, <2>2, <2>3, PassThroughKept, StagesDoneKept, DispatchKept DEF Next
<1>2. ASSUME BufferInv, UNCHANGED vars PROVE BufferInv'
  BY <1>2 DEF vars, BufferInv, SlicesOK, SentOK, ExpectedOK, MemOK, Contents
<1>3. BufferInv /\ [Next]_vars => BufferInv'
  BY <1>1, <1>2
<1> QED
  BY <1>3, BufferInit, PTL DEF Spec

\* The buffers, slices and what is sent keep their types; an input is never longer than
\* the array it lies in.
THEOREM TypeCorrect == Spec => []TypeOK
<1>1. BufferInv => TypeOK
  <2> SUFFICES ASSUME BufferInv PROVE TypeOK
    OBVIOUS
  <2>1. /\ mem \in [Buffers -> Seq(Sample)] /\ cur.buf \in Buffers /\ cur.len \in Nat
        /\ cur.len <= Len(mem[cur.buf])
    BY DEF BufferInv, SlicesOK, MemOK
  <2>2. Len(mem[cur.buf]) \in Nat
    BY <2>1
  <2>3. cur.len \in 0..Len(mem[cur.buf])
    BY <2>1, <2>2
  <2> QED
    BY <2>1, <2>3 DEF BufferInv, SlicesOK, SentOK, ExpectedOK, TypeOK
<1> QED
  BY <1>1, BuffersInvariant, PTL

\* When a batch is answered with success, what is sent is the last stage's input.
LEMMA SentAll ==
  ASSUME BufferInv, phase = "ok"
  PROVE  sent = Contents(cur)
<1>1. PICK q : q = Contents(cur)
  OBVIOUS
<1>2. q \in Seq(Sample) /\ Len(q) = cur.len /\ \A i \in 1..cur.len : q[i] = mem[cur.buf][i]
  BY <1>1, ContentsAre DEF BufferInv
<1>3. sent \in Seq(Sample) /\ Len(sent) = cur.len /\ \A i \in 1..cur.len : sent[i] = mem[cur.buf][i]
  BY DEF BufferInv, SentOK
<1> QED
  BY <1>1, <1>2, <1>3, SeqEqual

\* Whatever the stages do, a batch answered with success has sent every sample they let
\* through: no buffer is overwritten while it is still to be read, for any batch, stages
\* and panics (pipeline.go:131-133).
THEOREM NothingOverwritten == Spec => []NothingLost
<1>1. BufferInv => NothingLost
  BY SentAll DEF BufferInv, ExpectedOK, NothingLost
<1> QED
  BY <1>1, BuffersInvariant, PTL

\* Until a stage drops a sample the two buffers cannot be told from buffers of each
\* stage's own: order, duplicates and a downsample stage's growth included.
THEOREM ExactWhileWhole == Spec => []ExactUnlessShortened
<1>1. BufferInv => ExactUnlessShortened
  BY SentAll DEF BufferInv, ExpectedOK, ExactUnlessShortened
<1> QED
  BY <1>1, BuffersInvariant, PTL
=============================================================================
