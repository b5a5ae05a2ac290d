---------------------------- MODULE IngestProofs ----------------------------
(***************************************************************************)
(* What requests, reloads and swaps keep true of the state they share,     *)
(* for any number of handlers, bodies, series and reloads: the limiters    *)
(* are those of the token file in force, the deadvalue stage's LRU holds   *)
(* what was last let through, and an answer 200 is kept.                   *)
(***************************************************************************)
EXTENDS Ingest, DataLemmas, SequenceTheorems, TLAPS

\* The lists of the deadvalue stage stay lists of what was put in.
LEMMA ToFrontType ==
  ASSUME NEW S, NEW l \in Seq(S), NEW n \in DOMAIN l
  PROVE  ToFront(l, n) \in Seq(S) /\ Len(ToFront(l, n)) = Len(l)
<1>1. \A i \in 1..Len(l) : i # 1 => i - 1 \in 1..Len(l) /\ l[i - 1] \in S
  OBVIOUS
<1>2. ToFront(l, n) \in [1..Len(l) -> S]
  BY <1>1 DEF ToFront
<1> QED
  BY <1>2

\* A list pushed to keeps its type and its bound.
LEMMA PushedType ==
  ASSUME NEW S, NEW l \in Seq(S), NEW x \in S, NEW cap \in Nat \ {0}
  PROVE  /\ Pushed(l, x, cap) \in Seq(S)
         /\ Len(Pushed(l, x, cap)) = IF Len(l) < cap THEN Len(l) + 1 ELSE cap
<1> DEFINE n == IF Len(l) < cap THEN Len(l) + 1 ELSE cap
<1>1. n \in Nat /\ \A i \in 1..n : i # 1 => i - 1 \in 1..Len(l) /\ l[i - 1] \in S
  OBVIOUS
<1>2. Pushed(l, x, cap) = [i \in 1..n |-> IF i = 1 THEN x ELSE l[i - 1]]
  BY DEF Pushed
<1> HIDE DEF n
<1>3. Pushed(l, x, cap) \in [1..n -> S]
  BY <1>1, <1>2
<1>4. Pushed(l, x, cap) \in Seq(S) /\ Len(Pushed(l, x, cap)) = n
  BY <1>1, <1>3
<1> QED
  BY <1>4 DEF n

\* The place of a series in a list is a place that holds it.
LEMMA PlaceHolds ==
  ASSUME NEW l, NEW k, Known(l, k)
  PROVE  Place(l, k) \in DOMAIN l /\ l[Place(l, k)].series = k
  BY DEF Known, Place

\* A list one entry of which is used keeps its type.
LEMMA UsedType ==
  ASSUME NEW S, NEW l \in Seq(S), NEW e \in S
  PROVE  Used(l, e) \in Seq(S)
<1>1. CASE Known(l, e.series)
  <2>1. Place(l, e.series) \in DOMAIN l
    BY <1>1, PlaceHolds
  <2> DEFINE q == ToFront(l, Place(l, e.series))
  <2>2. q \in Seq(S)
    BY <2>1, ToFrontType
  <2> HIDE DEF q
  <2>3. q \in [1..Len(q) -> S] /\ Len(q) \in Nat
    BY <2>2
  <2>4. [q EXCEPT ![1] = e] \in [1..Len(q) -> S]
    BY <2>3
  <2>5. [q EXCEPT ![1] = e] \in Seq(S)
    BY <2>3, <2>4
  <2> QED
    BY <1>1, <2>5 DEF Used, q
<1>2. CASE ~Known(l, e.series)
  BY <1>2, PushedType, StagesAssumption DEF Used
<1> QED
  BY <1>1, <1>2

\* So does the order in which series were last seen.
LEMMA SeenType ==
  ASSUME NEW S, NEW q \in Seq(S), NEW k \in S
  PROVE  Seen(q, k) \in Seq(S)
<1>1. CASE k \in ToSet(q)
  <2>1. (CHOOSE i \in DOMAIN q : q[i] = k) \in DOMAIN q
    BY <1>1 DEF ToSet
  <2> QED
    BY <1>1, <2>1, ToFrontType DEF Seen
<1>2. CASE k \notin ToSet(q)
  BY <1>2, PushedType DEF Seen
<1> QED
  BY <1>1, <1>2

\* The critical section of the deadvalue stage.
LEMMA CheckedType ==
  ASSUME StagesTypeOK, NEW g \in Gens, NEW s \in Sample, Checked(g, s), UNCHANGED sampleVars
  PROVE  StagesTypeOK'
<1>1. s.series \in Series
  BY DEF Sample
<1>2. (IF Dead(lru[g], s) THEN Entry(lru[g], s.series) ELSE s) \in Sample
  BY PlaceHolds DEF Dead, Entry, StagesTypeOK
<1>3. lru' \in [Gens -> Seq(Sample)]
  <2> DEFINE e == IF Dead(lru[g], s) THEN Entry(lru[g], s.series) ELSE s
  <2>1. lru' = [lru EXCEPT ![g] = Used(lru[g], e)]
    BY DEF Checked
  <2>2. Used(lru[g], e) \in Seq(Sample)
    BY <1>2, UsedType DEF StagesTypeOK
  <2> HIDE DEF e
  <2> QED
    BY <2>1, <2>2 DEF StagesTypeOK
<1>4. recency' \in [Gens -> Seq(Series)]
  BY <1>1, SeenType DEF Checked, StagesTypeOK
<1>5. kept' \in [Gens -> [Series -> Sample \cup {NoSample}]]
  <2>1. kept[g] \in [Series -> Sample \cup {NoSample}]
    BY DEF StagesTypeOK
  <2>2. [kept[g] EXCEPT ![s.series] = s] \in [Series -> Sample \cup {NoSample}]
    BY <2>1
  <2> QED
    BY <2>2 DEF Checked, StagesTypeOK
<1> QED
  BY <1>3, <1>4, <1>5 DEF StagesTypeOK, sampleVars

\* The numbers and NaN, which a value is one of.
Number == Int \cup {NaN}

\* A quotient is a whole number.
LEMMA QuotientType ==
  ASSUME NEW a \in Int, NEW n \in Nat \ {0} PROVE Quotient(a, n) \in Int
<1>1. a \div n \in Int /\ (-a) \div n \in Int
  OBVIOUS
<1> QED
  BY <1>1 DEF Quotient

\* Whole seconds of a timestamp, and the bucket they fall in.
LEMMA BucketStartType ==
  ASSUME NEW s \in Sample PROVE Seconds(s) \in Int /\ BucketStart(s) \in Int
<1>1. s.ts \in Int /\ Second \in Nat \ {0} /\ Interval \in Nat
  BY StagesAssumption DEF Sample
<1>2. Seconds(s) \in Int
  BY <1>1, QuotientType DEF Seconds
<1> DEFINE q == Quotient(Seconds(s), Interval)
<1>3. Interval # 0 => q \in Int
  BY <1>1, <1>2, QuotientType
<1> HIDE DEF q
<1>4. Interval # 0 => q * Interval \in Int
  BY <1>1, <1>3
<1> QED
  BY <1>2, <1>4 DEF BucketStart, q

\* The sum with a NaN is NaN.
LEMMA PlusType == ASSUME NEW x \in Number, NEW y \in Number PROVE Plus(x, y) \in Number
  BY DEF Plus, Number

\* A bucket, empty or not, takes any value.
LEMMA AddType ==
  ASSUME NEW b, NEW s \in Sample,
         b \in [series : Series, start : Int, sum : Number, count : Nat, max : Number,
                min : Number, values : Seq(Number), members : Seq(Sample)]
  PROVE  Add(b, s) \in Bucket
<1>1. s.value \in Number
  BY DEF Sample, Number
<1>2. b.count + 1 \in Nat \ {0} /\ Plus(b.sum, s.value) \in Number
  BY <1>1, PlusType
<1>3. Append(b.values, s.value) \in Seq(Number) /\ Append(b.members, s) \in Seq(Sample)
  BY <1>1
<1>4. Bucket = [series : Series, start : Int, sum : Number, count : Nat \ {0}, max : Number,
                min : Number, values : Seq(Number), members : Seq(Sample)]
  BY DEF Bucket, Number
<1> DEFINE top == IF b.count = 0 \/ Above(s.value, b.max) THEN s.value ELSE b.max
           low == IF b.count = 0 \/ Above(b.min, s.value) THEN s.value ELSE b.min
           values == IF Len(b.values) < PCap THEN Append(b.values, s.value) ELSE b.values
<1>5. Add(b, s) = [b EXCEPT !.sum = Plus(b.sum, s.value), !.count = b.count + 1, !.max = top,
                            !.min = low, !.values = values, !.members = Append(b.members, s)]
  BY DEF Add
<1>6. top \in Number /\ low \in Number /\ values \in Seq(Number)
  BY <1>1, <1>3
<1> HIDE DEF top, low, values
<1> QED
  BY <1>2, <1>3, <1>4, <1>5, <1>6

\* A bucket opened for a sample is one.
LEMMA NewBucketType ==
  ASSUME NEW s \in Sample PROVE NewBucket(s) \in Bucket
<1> DEFINE b == [series |-> s.series, start |-> BucketStart(s), sum |-> 0, count |-> 0,
                 max |-> 0, min |-> 0, values |-> <<>>, members |-> <<>>]
<1>1. b \in [series : Series, start : Int, sum : Number, count : Nat, max : Number,
             min : Number, values : Seq(Number), members : Seq(Sample)]
  BY BucketStartType DEF Sample, Number
<1> HIDE DEF b
<1>2. Add(b, s) \in Bucket
  BY <1>1, AddType
<1> QED
  BY <1>2 DEF NewBucket, b

\* What a closed bucket emits are samples.
LEMMA EmissionType ==
  ASSUME NEW b \in Bucket PROVE Emission(b) \in Seq(Sample)
<1>1. Aggs \in Seq({"sum", "count", "max", "min"}) /\ Interval \in Nat /\ NaN \notin Int
  BY StagesAssumption
<1>2. /\ b.series \in Series /\ b.start + Interval \in Int
      /\ {b.sum, b.count, b.max, b.min} \subseteq Number
  BY <1>1 DEF Bucket, Number
<1>3. ASSUME NEW i \in DOMAIN Aggs PROVE AggregateValue(b, Aggs[i]) \in Number
  BY <1>1, <1>2 DEF AggregateValue
<1>4. ASSUME NEW v \in Number
      PROVE  [series |-> b.series, value |-> v, ts |-> b.start + Interval] \in Sample
  BY <1>1, <1>2 DEF Sample, Number
<1>5. \A i \in 1..Len(Aggs) :
        [series |-> b.series, value |-> AggregateValue(b, Aggs[i]), ts |-> b.start + Interval]
          \in Sample
  BY <1>1, <1>3, <1>4
<1>6. DOMAIN Aggs = 1..Len(Aggs) /\ Len(Aggs) \in Nat
  BY <1>1
<1>7. Emission(b) \in [1..Len(Aggs) -> Sample]
  BY <1>5, <1>6 DEF Emission
<1> QED
  BY <1>6, <1>7

\* What a closed bucket emits are samples.
LEMMA EmitsType ==
  ASSUME StagesTypeOK, NEW g \in Gens, NEW s \in Sample
  PROVE  Emits(g, s) \in Seq(Sample)
<1>1. CASE Closes(g, s)
  <2>1. open[g][s.series] \in Bucket
    BY <1>1 DEF Closes, StagesTypeOK, Sample
  <2> QED
    BY <1>1, <2>1, EmissionType DEF Emits
<1> QED
  BY <1>1 DEF Emits

\* The critical section of the downsample stage.
LEMMA IngestedType ==
  ASSUME StagesTypeOK, NEW g \in Gens, NEW s \in Sample, s.series \in Scope, Ingested(g, s),
         UNCHANGED deadVars
  PROVE  StagesTypeOK'
<1> DEFINE k == s.series
           b == open[g][k]
<1>1. k \in Series /\ s.ts \in Int
  BY DEF Sample
<1>2. b \in Bucket \cup {NoBucket}
  BY <1>1 DEF StagesTypeOK
<1>3. b # NoBucket => Add(b, s) \in Bucket
  <2>1. Bucket \subseteq [series : Series, start : Int, sum : Number, count : Nat, max : Number,
                          min : Number, values : Seq(Number), members : Seq(Sample)]
    BY DEF Bucket, Number
  <2> QED
    BY <1>2, <2>1, AddType
<1>4. NewBucket(s) \in Bucket
  BY NewBucketType
<1>5. open' \in [Gens -> [Series -> Bucket \cup {NoBucket}]]
  <2> DEFINE c == IF b = NoBucket \/ Closes(g, s) THEN NewBucket(s) ELSE Add(b, s)
  <2>1. c \in Bucket
    BY <1>3, <1>4
  <2>2. open' = IF Full(g, s) THEN open ELSE [open EXCEPT ![g][k] = c]
    BY DEF Ingested
  <2>3. open[g] \in [Series -> Bucket \cup {NoBucket}]
    BY DEF StagesTypeOK
  <2> HIDE DEF c, k
  <2>4. [open[g] EXCEPT ![k] = c] \in [Series -> Bucket \cup {NoBucket}]
    BY <2>1, <2>3
  <2> QED
    BY <2>2, <2>4 DEF StagesTypeOK
<1>6. emitted' \in [Gens -> [Series -> SUBSET Int]]
  <2>1. CASE Closes(g, s)
    <3>1. b.start \in Int
      BY <1>2, <2>1 DEF Closes, Bucket
    <3>2. emitted[g] \in [Series -> SUBSET Int]
      BY DEF StagesTypeOK
    <3>3. emitted' = [emitted EXCEPT ![g][k] = @ \cup {b.start}]
      BY <2>1 DEF Ingested
    <3> HIDE DEF b, k
    <3>4. [emitted[g] EXCEPT ![k] = @ \cup {b.start}] \in [Series -> SUBSET Int]
      BY <3>1, <3>2
    <3> QED
      BY <3>3, <3>4 DEF StagesTypeOK
  <2> QED
    BY <2>1 DEF Ingested, StagesTypeOK
<1>7. newest' \in [Gens -> [Series -> Int]]
  <2>1. newest[g] \in [Series -> Int] /\ [newest[g] EXCEPT ![k] = s.ts] \in [Series -> Int]
    BY <1>1 DEF StagesTypeOK
  <2> QED
    BY <2>1 DEF Ingested, StagesTypeOK
<1>8. late' \in [Gens -> SUBSET Series]
  BY <1>1 DEF Ingested, StagesTypeOK
<1> QED
  BY <1>5, <1>6, <1>7, <1>8 DEF StagesTypeOK, deadVars

\* Going on to the next stage, or to the sink.
LEMMA AdvanceType ==
  ASSUME stages \in Seq({"deadvalue", "downsample"}),
         NEW r \in [at : {"stages"}, batch : Batches, business : Businesses, gen : Gens,
                    stage : 0..Len(stages), in : Seq(Sample), out : Seq(Sample),
                    pass : Seq(Sample)],
         r.in # <<>> => r.stage # 0
  PROVE  PipelineOK(Advance(r))
<1>1. CASE r.in # <<>>
  BY <1>1 DEF Advance, PipelineOK
<1>2. CASE r.in = <<>>
  <2> DEFINE out == r.out \o r.pass
             next == [r EXCEPT !.stage = @ + 1, !.in = out, !.out = <<>>, !.pass = <<>>]
             last == [next EXCEPT !.at = "dispatch"]
  <2>1. out \in Seq(Sample) /\ <<>> \in Seq(Sample)
    OBVIOUS
  <2>2. Advance(r) = IF r.stage < Len(stages) /\ out # <<>> THEN next ELSE last
    BY <1>2 DEF Advance
  <2>3. r.stage \in Nat /\ r.stage + 1 \in 1..Len(stages) + 1
    OBVIOUS
  <2> HIDE DEF out
  <2>4. next \in [at : {"stages"}, batch : Batches, business : Businesses, gen : Gens,
                  stage : 1..Len(stages) + 1, in : Seq(Sample), out : Seq(Sample),
                  pass : Seq(Sample)]
    BY <2>1, <2>3
  <2>5. next.stage = r.stage + 1 /\ next.in = out
    OBVIOUS
  <2> HIDE DEF next
  <2>6. last \in [at : {"dispatch"}, batch : Batches, business : Businesses, gen : Gens,
                  stage : 1..Len(stages) + 1, in : Seq(Sample), out : Seq(Sample),
                  pass : Seq(Sample)]
    BY <2>4
  <2> HIDE DEF last
  <2>7. PipelineOK(last)
    BY <2>6 DEF PipelineOK
  <2>8. r.stage < Len(stages) /\ out # <<>> => PipelineOK(next)
    BY <2>3, <2>4, <2>5 DEF PipelineOK
  <2> QED
    BY <2>2, <2>7, <2>8
<1> QED
  BY <1>1, <1>2

\* The limits of a valid file: each business named in it has the rate of one of its
\* tokens.
LEMMA LimitsType ==
  ASSUME NEW file \in Files, Valid(file)
  PROVE  /\ DOMAIN BusinessLimits(file) \subseteq Businesses
         /\ \A b \in DOMAIN BusinessLimits(file) : BusinessLimits(file)[b] \in Rates \ {NoLimiter}
<1>1. \A t \in DOMAIN file : /\ t \in Nat
                             /\ file[t].business \in Businesses
                             /\ file[t].rate \in Nat \ {0}
  <2> SUFFICES ASSUME NEW t \in DOMAIN file
               PROVE  t \in Nat /\ file[t].business \in Businesses /\ file[t].rate \in Nat \ {0}
    OBVIOUS
  <2>1. t \in Tokens /\ file[t].business \in Businesses \cup {Nobody} /\ file[t].rate \in Nat
    BY ReceiverAssumption
  <2>2. file[t].business # Nobody /\ file[t].rate > 0
    BY DEF Valid
  <2> QED
    BY <2>1, <2>2, ReceiverAssumption
<1>2. DOMAIN BusinessLimits(file) = {file[t].business : t \in DOMAIN file}
  BY DEF BusinessLimits
<1>3. ASSUME NEW b \in DOMAIN BusinessLimits(file)
      PROVE  BusinessLimits(file)[b] \in Rates \ {NoLimiter}
  <2> DEFINE S == {t \in DOMAIN file : file[t].business = b}
  <2>1. S \in SUBSET Nat /\ S # {}
    BY <1>1, <1>2
  <2>2. Min(S) \in S
    BY <2>1, MinInSet
  <2>3. BusinessLimits(file)[b] = file[Min(S)].rate
    BY <1>2 DEF BusinessLimits
  <2> HIDE DEF S
  <2>4. Min(S) \in DOMAIN file
    BY <2>2 DEF S
  <2> QED
    BY <1>1, <2>3, <2>4 DEF Rates, NoLimiter
<1> QED
  BY <1>1, <1>2, <1>3

\* The initial state is typed.
LEMMA InitType == Init => TypeOK
<1> SUFFICES ASSUME Init PROVE TypeOK
  OBVIOUS
<1>1. ReceiverTypeOK
  <2>1. FirstFile \in Files /\ MaxReloads \in Nat /\ MaxRequests \in Nat
    BY ReceiverAssumption
  <2>2. limiters \in [Businesses -> Rates \cup {NoLimiter}]
    BY DEF Init, ReceiverInit
  <2>3. /\ DOMAIN limits \subseteq Businesses
        /\ \A b \in DOMAIN limits : limits[b] \in Rates \ {NoLimiter}
    BY <2>1, LimitsType DEF Init, ReceiverInit
  <2> QED
    BY <2>1, <2>2, <2>3 DEF Init, ReceiverInit, ReceiverTypeOK, Waiting
<1>2. StagesTypeOK
  BY DEF Init, StagesInit, StagesTypeOK
<1>3. RequestsOK
  BY DEF Init, ReceiverInit, RequestsOK
<1>4. gen \in Gens
  BY StagesAssumption DEF Init, Gens
<1> QED
  BY <1>1, <1>2, <1>3, <1>4 DEF Init, TypeOK

\* One request changes, into one that is typed.
LEMMA OneRequest ==
  ASSUME RequestsOK, NEW h \in Handlers, NEW r, request' = [request EXCEPT ![h] = r],
         r = NoRequest \/ RequestOK(r) \/ PipelineOK(r), UNCHANGED <<reloads, gen, stages>>
  PROVE  RequestsOK'
<1>1. \A x \in Handlers : request'[x] = IF x = h THEN r ELSE request[x]
  BY DEF RequestsOK
<1>2. ASSUME NEW x, RequestOK(x) PROVE RequestOK(x)'
  BY <1>2 DEF RequestOK
<1>3. ASSUME NEW x, PipelineOK(x) PROVE PipelineOK(x)'
  BY <1>3 DEF PipelineOK
<1>4. DOMAIN request' = Handlers
  BY DEF RequestsOK
<1> QED
  BY <1>1, <1>2, <1>3, <1>4 DEF RequestsOK

\* The request a handler is at: before the limiter has let it pass RequestOK holds.
LEMMA AtReceiver ==
  ASSUME RequestsOK, NEW h \in Handlers, request[h].at \in {"cache", "read", "store", "allow"}
  PROVE  RequestOK(request[h])
  BY DEF RequestsOK, PipelineOK, NoRequest

\* The fields of a request that is in the pipeline.
LEMMA AtPipeline ==
  ASSUME RequestsOK, NEW h \in Handlers, request[h].at \in {"stages", "dispatch"}
  PROVE  PipelineOK(request[h])
  BY DEF RequestsOK, RequestOK, NoRequest

\* The rate a business gets.
LEMMA RateType ==
  ASSUME ReceiverTypeOK, NEW b PROVE RateOf(limits, b) \in Rates \ {NoLimiter}
  BY ReceiverAssumption DEF ReceiverTypeOK, RateOf, Rates, NoLimiter

\* Every step of the receiver keeps the types.
LEMMA ReceivingType ==
  ASSUME TypeOK, NEW h \in Handlers, Receiving(h) PROVE TypeOK'
<1> USE DEF TypeOK
<1>1. /\ UNCHANGED <<stageVars, stages, gen, sent, refused>>
      /\ StagesTypeOK'
  BY DEF Receiving, stageVars, deadVars, sampleVars, StagesTypeOK
<1>2. ASSUME NEW t \in Tokens, NEW batch \in Batches, Receive(h, t, batch) PROVE TypeOK'
  <2> DEFINE r == [at |-> "cache", batch |-> batch, business |-> tokens[t].business]
  <2>1. tokens[t].business \in Businesses
    BY <1>2, ReceiverAssumption DEF Receive, ReceiverTypeOK, Valid
  <2>2. RequestOK(r)
    BY <2>1 DEF RequestOK
  <2>3. request' = [request EXCEPT ![h] = r] /\ UNCHANGED <<reloads, gen, stages>>
    BY <1>1, <1>2 DEF Receive
  <2> HIDE DEF r
  <2>4. RequestsOK'
    BY <2>2, <2>3, OneRequest
  <2>5. received' \in 0..MaxRequests
    BY <1>2, ReceiverAssumption DEF Receive, ReceiverTypeOK
  <2>6. ReceiverTypeOK'
    BY <1>2, <2>5 DEF Receive, ReceiverTypeOK
  <2> QED
    BY <1>1, <2>4, <2>6
<1>3. CASE TurnAway
  <2>1. RequestsOK'
    BY <1>1, <1>3 DEF TurnAway, RequestsOK, RequestOK, PipelineOK
  <2>2. received' \in 0..MaxRequests
    BY <1>3, ReceiverAssumption DEF TurnAway, ReceiverTypeOK
  <2>3. ReceiverTypeOK'
    BY <1>3, <2>2 DEF TurnAway, ReceiverTypeOK
  <2> QED
    BY <1>1, <2>1, <2>3
<1>4. CASE LookUp(h)
  <2> DEFINE place == IF limiters[request[h].business] = NoLimiter THEN "read" ELSE "allow"
             r == [request[h] EXCEPT !.at = place]
  <2>1. request' = [request EXCEPT ![h] = r] /\ UNCHANGED <<reloads, gen, stages>>
    BY <1>1, <1>4 DEF LookUp
  <2>2. RequestOK(request[h])
    BY <1>4, AtReceiver DEF LookUp, At
  <2>3. r.at = place /\ r.batch = request[h].batch /\ r.business = request[h].business
    BY <1>4 DEF LookUp, At
  <2> HIDE DEF r
  <2>4. RequestOK(r)
    BY <2>2, <2>3 DEF RequestOK
  <2>5. RequestsOK'
    BY <2>1, <2>4, OneRequest
  <2>6. ReceiverTypeOK'
    BY <1>4 DEF LookUp, ReceiverTypeOK
  <2> QED
    BY <1>1, <2>5, <2>6
<1>5. CASE ReadLimits(h)
  <2> DEFINE r == [at |-> "store", batch |-> request[h].batch, business |-> request[h].business,
                   rate |-> RateOf(limits, request[h].business), reload |-> reloads]
  <2>1. request' = [request EXCEPT ![h] = r] /\ UNCHANGED <<reloads, gen, stages>>
    BY <1>1, <1>5 DEF ReadLimits
  <2>2. RequestOK(request[h])
    BY <1>5, AtReceiver DEF ReadLimits, At
  <2>3. reloads \in 0..reloads
    BY ReceiverAssumption DEF ReceiverTypeOK
  <2>4. RequestOK(r)
    BY <2>2, <2>3, RateType DEF RequestOK
  <2> HIDE DEF r
  <2>5. RequestsOK'
    BY <2>1, <2>4, OneRequest
  <2>6. ReceiverTypeOK'
    BY <1>5 DEF ReadLimits, ReceiverTypeOK
  <2> QED
    BY <1>1, <2>5, <2>6
<1>6. CASE StoreLimiter(h)
  <2> DEFINE r == [at |-> "allow", batch |-> request[h].batch, business |-> request[h].business]
  <2>1. request' = [request EXCEPT ![h] = r] /\ UNCHANGED <<reloads, gen, stages>>
    BY <1>1, <1>6 DEF StoreLimiter
  <2>2. RequestOK(request[h]) /\ At(h, "store")
    BY <1>6, AtReceiver DEF StoreLimiter, At
  <2>3. RequestOK(r)
    BY <2>2 DEF RequestOK
  <2> HIDE DEF r
  <2>4. RequestsOK'
    BY <2>1, <2>3, OneRequest
  <2>5. request[h].business \in Businesses /\ request[h].rate \in Rates
    BY <2>2 DEF RequestOK, At
  <2>6. ReceiverTypeOK'
    BY <1>6, <2>5 DEF StoreLimiter, ReceiverTypeOK
  <2> QED
    BY <1>1, <2>4, <2>6
<1>7. CASE Refuse(h)
  <2>1. /\ request' = [request EXCEPT ![h] = NoRequest] /\ accepted' = accepted
        /\ UNCHANGED <<tokens, limits, limiters, hup, reloads, received, raced>>
    BY <1>7 DEF Refuse, Answer
  <2>2. RequestsOK'
    BY <1>1, <2>1, OneRequest
  <2>3. ReceiverTypeOK'
    BY <2>1 DEF ReceiverTypeOK
  <2> QED
    BY <1>1, <2>2, <2>3
<1> QED
  BY <1>2, <1>3, <1>4, <1>5, <1>6, <1>7 DEF Receiving, ReceiverStep

\* Every step of a reload keeps the types.
LEMMA ReloadType == ASSUME TypeOK, Reload PROVE TypeOK'
<1> USE DEF TypeOK
<1>1. /\ UNCHANGED <<stageVars, stages, gen, sent, refused>>
      /\ StagesTypeOK'
  BY DEF Reload, stageVars, deadVars, sampleVars, StagesTypeOK
<1>2. request' = request /\ reloads' \in 0..MaxReloads /\ reloads <= reloads'
  <2>1. reloads \in 0..MaxReloads /\ MaxReloads \in Nat
    BY ReceiverAssumption DEF ReceiverTypeOK
  <2>2. CASE StoreLimits
    BY <2>1, <2>2 DEF StoreLimits, ReceiverTypeOK
  <2>3. ASSUME NEW file \in Files, ReloadTokens(file)
        PROVE  request' = request /\ reloads' = reloads
    BY <2>3 DEF ReloadTokens
  <2>4. ASSUME NEW b \in Businesses, DeleteLimiter(b)
        PROVE  request' = request /\ reloads' = reloads
    BY <2>4 DEF DeleteLimiter
  <2>5. CASE Reloaded
    BY <2>1, <2>5 DEF Reloaded
  <2> QED
    BY <2>1, <2>2, <2>3, <2>4, <2>5 DEF Reload, Sighup
<1>3. RequestsOK'
  <2>1. ASSUME NEW x, RequestOK(x) PROVE RequestOK(x)'
    BY <1>2, <2>1 DEF RequestOK, ReceiverTypeOK
  <2>2. ASSUME NEW x, PipelineOK(x) PROVE PipelineOK(x)'
    BY <1>1, <2>2 DEF PipelineOK
  <2> QED
    BY <1>2, <2>1, <2>2 DEF RequestsOK
<1>4. ReceiverTypeOK'
  <2>1. ASSUME NEW file \in Files, ReloadTokens(file) PROVE ReceiverTypeOK'
    BY <2>1 DEF ReloadTokens, ReceiverTypeOK, Valid
  <2>2. CASE StoreLimits
    <3>1. /\ DOMAIN limits' \subseteq Businesses
          /\ \A b \in DOMAIN limits' : limits'[b] \in Rates \ {NoLimiter}
      BY <2>2, LimitsType DEF StoreLimits, ReceiverTypeOK
    <3> QED
      BY <1>2, <2>2, <3>1 DEF StoreLimits, ReceiverTypeOK, Valid
  <2>3. ASSUME NEW b \in Businesses, DeleteLimiter(b) PROVE ReceiverTypeOK'
    <3>1. limiters' \in [Businesses -> Rates \cup {NoLimiter}]
      BY <2>3 DEF DeleteLimiter, ReceiverTypeOK
    <3>2. hup' \in [at : {"signal", "push", "clear"}, must : SUBSET Businesses,
                    may : SUBSET Businesses]
      BY <2>3 DEF DeleteLimiter, ReceiverTypeOK
    <3> QED
      BY <2>3, <3>1, <3>2 DEF DeleteLimiter, ReceiverTypeOK, Valid
  <2>4. CASE Reloaded
    BY <2>4 DEF Reloaded, ReceiverTypeOK, Waiting, Valid
  <2> QED
    BY <2>1, <2>2, <2>3, <2>4 DEF Reload, Sighup
<1> QED
  BY <1>1, <1>3, <1>4

\* Every step of a request in the pipeline keeps the types.
LEMMA PipelineType ==
  ASSUME TypeOK, NEW h \in Handlers, Allowed(h) \/ StageSample(h) \/ Dispatch(h)
  PROVE  TypeOK'
<1> USE DEF TypeOK
<1> DEFINE q == request[h]
<1>1. /\ UNCHANGED <<tokens, limits, limiters, hup, reloads, received, raced, stages, gen>>
      /\ accepted' \subseteq Batches => ReceiverTypeOK'
  <2>1. UNCHANGED <<tokens, limits, limiters, hup, reloads, received, raced, stages, gen>>
    BY DEF Allowed, StageSample, Dispatch
  <2> QED
    BY <2>1 DEF ReceiverTypeOK, Valid
<1>2. stages \in Seq({"deadvalue", "downsample"})
  BY IngestAssumption
<1>3. CASE Allowed(h)
  <2> DEFINE r == [at |-> "stages", batch |-> q.batch, business |-> q.business, gen |-> gen,
                   stage |-> 0, in |-> <<>>, out |-> Parsed(q.batch), pass |-> <<>>]
  <2>1. RequestOK(q)
    BY <1>3, AtReceiver DEF Allowed, At
  <2>2. Parsed(q.batch) \in Seq(Sample)
    BY <2>1, IngestAssumption DEF RequestOK
  <2>3. gen \in Gens /\ 0 \in 0..Len(stages)
    BY <1>2
  <2>4. r \in [at : {"stages"}, batch : Batches, business : Businesses, gen : Gens,
               stage : 0..Len(stages), in : Seq(Sample), out : Seq(Sample), pass : Seq(Sample)]
    BY <2>1, <2>2, <2>3 DEF RequestOK
  <2>5. r.in # <<>> => r.stage # 0
    OBVIOUS
  <2>6. request' = [request EXCEPT ![h] = Advance(r)]
    BY <1>3 DEF Allowed
  <2> HIDE DEF r
  <2>7. PipelineOK(Advance(r))
    BY <1>2, <2>4, <2>5, AdvanceType
  <2>8. RequestsOK'
    BY <1>1, <2>6, <2>7, OneRequest
  <2>9. UNCHANGED <<accepted, sent, refused>> /\ UNCHANGED stageVars
    BY <1>3 DEF Allowed
  <2>10. StagesTypeOK'
    BY <2>9 DEF stageVars, deadVars, sampleVars, StagesTypeOK
  <2>11. ReceiverTypeOK'
    BY <1>1, <2>9 DEF ReceiverTypeOK
  <2> QED
    BY <1>1, <2>8, <2>9, <2>10, <2>11
<1>4. CASE StageSample(h)
  <2> DEFINE s == Head(q.in)
             rest == [q EXCEPT !.in = Tail(@)]
             Requests == [at : {"stages"}, batch : Batches, business : Businesses, gen : Gens,
                          stage : 0..Len(stages), in : Seq(Sample), out : Seq(Sample),
                          pass : Seq(Sample)]
  <2>1. PipelineOK(q) /\ q.at = "stages"
    BY <1>4, AtPipeline DEF StageSample, At
  <2>2. q \in Requests /\ q.in # <<>> /\ q.stage # 0
    BY <1>2, <2>1 DEF PipelineOK
  <2>3. s \in Sample /\ Tail(q.in) \in Seq(Sample)
    BY <2>2
  <2>4. rest \in Requests /\ rest.stage # 0
    BY <2>2, <2>3
  <2>5. q.gen \in Gens
    BY <2>2
  <2> HIDE DEF s, rest
  <2>6. UNCHANGED <<accepted, sent, refused>>
    BY <1>4 DEF StageSample
  <2>7. \E r \in Requests : request' = [request EXCEPT ![h] = Advance(r)] /\ r.stage # 0
    <3>1. Append(rest.out, s) \in Seq(Sample) /\ Append(rest.pass, s) \in Seq(Sample)
      BY <2>3, <2>4
    <3>2. Emits(q.gen, s) \in Seq(Sample)
      BY <2>3, <2>5, EmitsType
    <3>3. rest.out \o Emits(q.gen, s) \in Seq(Sample)
      BY <2>4, <3>2
    <3>4. /\ [rest EXCEPT !.out = Append(@, s)] \in Requests
          /\ [rest EXCEPT !.out = Append(@, s)].stage # 0
      BY <2>4, <3>1
    <3>5. /\ [rest EXCEPT !.out = @ \o Emits(q.gen, s)] \in Requests
          /\ [rest EXCEPT !.out = @ \o Emits(q.gen, s)].stage # 0
      BY <2>4, <3>3
    <3>6. /\ [rest EXCEPT !.pass = Append(@, s)] \in Requests
          /\ [rest EXCEPT !.pass = Append(@, s)].stage # 0
      BY <2>4, <3>1
    <3>7. \/ request' = [request EXCEPT ![h] =
               Advance(IF Dead(lru[q.gen], s) THEN rest ELSE [rest EXCEPT !.out = Append(@, s)])]
          \/ request' = [request EXCEPT ![h] = Advance([rest EXCEPT !.out = Append(@, s)])]
          \/ request' = [request EXCEPT ![h] = Advance([rest EXCEPT !.out = @ \o Emits(q.gen, s)])]
          \/ request' = [request EXCEPT ![h] = Advance([rest EXCEPT !.pass = Append(@, s)])]
      BY <1>4 DEF StageSample, s, rest
    <3> HIDE DEF Requests
    <3> QED
      BY <2>4, <3>4, <3>5, <3>6, <3>7
  <2>8. RequestsOK'
    <3>1. PICK r \in Requests : request' = [request EXCEPT ![h] = Advance(r)] /\ r.stage # 0
      BY <2>7
    <3>2. PipelineOK(Advance(r))
      BY <1>2, <3>1, AdvanceType
    <3> QED
      BY <1>1, <3>1, <3>2, OneRequest
  <2>9. StagesTypeOK'
    <3>1. CASE Checked(q.gen, s) /\ UNCHANGED sampleVars
      BY <2>3, <2>5, <3>1, CheckedType
    <3>2. CASE s.series \in Scope /\ Ingested(q.gen, s) /\ UNCHANGED deadVars
      BY <2>3, <2>5, <3>2, IngestedType
    <3>3. CASE UNCHANGED stageVars
      BY <3>3 DEF stageVars, deadVars, sampleVars, StagesTypeOK
    <3> QED
      BY <1>4, <3>1, <3>2, <3>3 DEF StageSample, s
  <2>10. ReceiverTypeOK'
    BY <1>1, <2>6 DEF ReceiverTypeOK
  <2> QED
    BY <1>1, <2>6, <2>8, <2>9, <2>10
<1>5. CASE Dispatch(h)
  <2>1. PipelineOK(q) /\ q.at = "dispatch"
    BY <1>5, AtPipeline DEF Dispatch, At
  <2>2. q.batch \in Batches
    BY <2>1 DEF PipelineOK
  <2>3. accepted' \subseteq Batches /\ sent' \subseteq Batches /\ refused' \subseteq Batches
    BY <1>5, <2>2 DEF Dispatch, Answer, ReceiverTypeOK
  <2>4. StagesTypeOK'
    BY <1>5 DEF Dispatch, stageVars, deadVars, sampleVars, StagesTypeOK
  <2>5. q.in # <<>> => PipelineOK([q EXCEPT !.in = Tail(@)])
    <3>1. q.in # <<>> => Tail(q.in) \in Seq(Sample)
      BY <2>1 DEF PipelineOK
    <3> QED
      BY <2>1, <3>1 DEF PipelineOK
  <2>6. \/ request' = [request EXCEPT ![h] = NoRequest]
        \/ q.in # <<>> /\ request' = [request EXCEPT ![h] = [q EXCEPT !.in = Tail(@)]]
    BY <1>5 DEF Dispatch, Answer
  <2>7. RequestsOK'
    BY <1>1, <2>5, <2>6, OneRequest
  <2> QED
    BY <1>1, <2>3, <2>4, <2>7
<1> QED
  BY <1>3, <1>4, <1>5

\* Another generation is installed; the stages of none change.
LEMMA SwapType == ASSUME TypeOK, Swap PROVE TypeOK'
<1> USE DEF TypeOK
<1>1. gen' \in Gens
  BY DEF Swap
<1>2. UNCHANGED <<recvVars, stageVars, stages, sent, refused>>
  BY DEF Swap
<1>3. RequestsOK'
  <2>1. ASSUME NEW x, RequestOK(x) PROVE RequestOK(x)'
    BY <1>2, <2>1 DEF RequestOK, recvVars
  <2>2. ASSUME NEW x, PipelineOK(x) PROVE PipelineOK(x)'
    BY <1>2, <2>2 DEF PipelineOK
  <2> QED
    BY <1>2, <2>1, <2>2 DEF RequestsOK, recvVars
<1>4. ReceiverTypeOK' /\ StagesTypeOK'
  BY <1>2 DEF recvVars, stageVars, deadVars, sampleVars, ReceiverTypeOK, StagesTypeOK, Valid
<1> QED
  BY <1>1, <1>2, <1>3, <1>4

\* Every state is typed, whatever requests, reloads and swaps come.
THEOREM TypeCorrect == Spec => []TypeOK
<1>1. TypeOK /\ UNCHANGED vars => TypeOK'
  BY DEF vars, recvVars, stageVars, deadVars, sampleVars, TypeOK, ReceiverTypeOK, RequestsOK,
         RequestOK, PipelineOK, StagesTypeOK, Valid
<1>2. TypeOK /\ [Next]_vars => TypeOK'
  BY <1>1, ReceivingType, ReloadType, PipelineType, SwapType DEF Next, Idle
<1> QED
  BY <1>2, InitType, PTL DEF Spec

\* A request about to store a limiter has read the limits of some reload; if none has
\* come since, they are the ones in force.
StoreIsCurrent ==
  \A h \in Handlers :
    At(h, "store") =>
      /\ request[h].reload \in 0..reloads
      /\ request[h].reload = reloads => request[h].rate = RateOf(limits, request[h].business)

\* A limiter of old limits is one the running reload has still to delete.
StaleIsListed ==
  \A b \in Businesses \ raced :
    \/ limiters[b] \in {NoLimiter, RateOf(limits, b)}
    \/ hup.at = "clear" /\ b \in hup.must

LimiterInv ==
  /\ DOMAIN request = Handlers
  /\ DOMAIN limiters = Businesses
  /\ reloads \in Nat
  /\ hup \in [at : {"signal", "push", "clear"}, must : SUBSET Businesses, may : SUBSET Businesses]
  /\ StoreIsCurrent
  /\ StaleIsListed

\* At first no limiter is cached.
LEMMA InitLimiter == Init => LimiterInv
  BY DEF Init, ReceiverInit, LimiterInv, Waiting, NoRequest, StoreIsCurrent, StaleIsListed, At

\* A request that does not come to the point of storing a limiter disturbs nothing.
LEMMA RequestElsewhere ==
  ASSUME LimiterInv, NEW h \in Handlers, NEW r, request' = [request EXCEPT ![h] = r],
         r.at # "store", UNCHANGED <<limits, limiters, hup, reloads, raced>>
  PROVE  LimiterInv'
<1>1. \A x \in Handlers : request'[x] = IF x = h THEN r ELSE request[x]
  BY DEF LimiterInv
<1>2. StoreIsCurrent'
  BY <1>1 DEF LimiterInv, StoreIsCurrent, At, RateOf
<1>3. StaleIsListed'
  BY DEF LimiterInv, StaleIsListed, RateOf
<1> QED
  BY <1>2, <1>3 DEF LimiterInv

\* The steps of the middleware.
LEMMA ReceivingLimiter ==
  ASSUME LimiterInv, NEW h \in Handlers, ReceiverStep(h) PROVE LimiterInv'
<1>1. ASSUME NEW t \in Tokens, NEW batch \in Batches, Receive(h, t, batch) PROVE LimiterInv'
  <2> DEFINE r == [at |-> "cache", batch |-> batch, business |-> tokens[t].business]
  <2>1. request' = [request EXCEPT ![h] = r] /\ UNCHANGED <<limits, limiters, hup, reloads, raced>>
    BY <1>1 DEF Receive
  <2>2. r.at # "store"
    OBVIOUS
  <2> HIDE DEF r
  <2> QED
    BY <2>1, <2>2, RequestElsewhere
<1>2. CASE TurnAway
  BY <1>2 DEF TurnAway, LimiterInv, StoreIsCurrent, StaleIsListed, At, RateOf
<1>3. CASE LookUp(h)
  <2> DEFINE place == IF limiters[request[h].business] = NoLimiter THEN "read" ELSE "allow"
             r == [request[h] EXCEPT !.at = place]
  <2>1. request' = [request EXCEPT ![h] = r] /\ UNCHANGED <<limits, limiters, hup, reloads, raced>>
    BY <1>3 DEF LookUp
  <2>2. r.at # "store"
    BY <1>3 DEF LookUp, At
  <2> HIDE DEF r
  <2> QED
    BY <2>1, <2>2, RequestElsewhere
<1>4. CASE ReadLimits(h)
  <2> DEFINE r == [at |-> "store", batch |-> request[h].batch, business |-> request[h].business,
                   rate |-> RateOf(limits, request[h].business), reload |-> reloads]
  <2>1. /\ request' = [request EXCEPT ![h] = r]
        /\ UNCHANGED <<limits, limiters, hup, reloads, raced>>
    BY <1>4 DEF ReadLimits
  <2>2. \A x \in Handlers : request'[x] = IF x = h THEN r ELSE request[x]
    BY <2>1 DEF LimiterInv
  <2>3. StoreIsCurrent'
    BY <2>1, <2>2 DEF LimiterInv, StoreIsCurrent, At, RateOf
  <2> QED
    BY <2>1, <2>3 DEF LimiterInv, StaleIsListed, RateOf
<1>5. CASE StoreLimiter(h)
  <2> DEFINE b == request[h].business
             r == [at |-> "allow", batch |-> request[h].batch, business |-> b]
  <2>1. /\ At(h, "store")
        /\ limiters' = [limiters EXCEPT ![b] = IF @ = NoLimiter THEN request[h].rate ELSE @]
        /\ raced' = IF limiters[b] = NoLimiter /\ request[h].reload # reloads
                    THEN raced \cup {b} ELSE raced
        /\ request' = [request EXCEPT ![h] = r]
        /\ UNCHANGED <<limits, hup, reloads>>
    BY <1>5 DEF StoreLimiter
  <2>2. \A x \in Handlers : request'[x] = IF x = h THEN r ELSE request[x]
    BY <2>1 DEF LimiterInv
  <2>3. StoreIsCurrent'
    BY <2>1, <2>2 DEF LimiterInv, StoreIsCurrent, At, RateOf
  <2>4. request[h].reload = reloads => request[h].rate = RateOf(limits, b)
    BY <2>1 DEF LimiterInv, StoreIsCurrent
  <2> HIDE DEF b
  <2>5. \A c \in Businesses : limiters'[c] =
          IF c = b /\ limiters[c] = NoLimiter THEN request[h].rate ELSE limiters[c]
    BY <2>1 DEF LimiterInv
  <2>6. StaleIsListed'
    BY <2>1, <2>4, <2>5 DEF LimiterInv, StaleIsListed, RateOf
  <2> QED
    BY <2>1, <2>3, <2>6 DEF LimiterInv
<1>6. CASE Refuse(h)
  <2>1. /\ request' = [request EXCEPT ![h] = NoRequest]
        /\ UNCHANGED <<limits, limiters, hup, reloads, raced>>
    BY <1>6 DEF Refuse, Answer
  <2>2. NoRequest.at # "store"
    BY DEF NoRequest
  <2> QED
    BY <2>1, <2>2, RequestElsewhere
<1> QED
  BY <1>1, <1>2, <1>3, <1>4, <1>5, <1>6 DEF ReceiverStep

\* The SIGHUP branch.
LEMMA SighupLimiter == ASSUME LimiterInv, Sighup PROVE LimiterInv'
<1>1. ASSUME NEW file \in Files, ReloadTokens(file) PROVE LimiterInv'
  BY <1>1 DEF ReloadTokens, LimiterInv, StoreIsCurrent, StaleIsListed, At, RateOf
<1>2. CASE StoreLimits
  <2>1. StoreIsCurrent'
    BY <1>2 DEF StoreLimits, LimiterInv, StoreIsCurrent, At
  <2>2. StaleIsListed'
    BY <1>2 DEF StoreLimits, LimiterInv, StaleIsListed
  <2>3. hup' \in [at : {"signal", "push", "clear"}, must : SUBSET Businesses,
                  may : SUBSET Businesses]
    BY <1>2 DEF StoreLimits
  <2> QED
    BY <1>2, <2>1, <2>2, <2>3 DEF StoreLimits, LimiterInv
<1>3. ASSUME NEW b \in Businesses, DeleteLimiter(b) PROVE LimiterInv'
  <2>1. \A c \in Businesses : limiters'[c] = IF c = b THEN NoLimiter ELSE limiters[c]
    BY <1>3 DEF DeleteLimiter, LimiterInv
  <2>2. hup' = [hup EXCEPT !.may = hup.may \ {b}, !.must = hup.must \ {b}]
    BY <1>3 DEF DeleteLimiter
  <2>3. hup'.at = hup.at /\ hup'.must = hup.must \ {b}
    BY <2>2 DEF LimiterInv
  <2>4. StaleIsListed'
    BY <1>3, <2>1, <2>3 DEF DeleteLimiter, LimiterInv, StaleIsListed, RateOf
  <2>5. StoreIsCurrent'
    BY <1>3 DEF DeleteLimiter, LimiterInv, StoreIsCurrent, At, RateOf
  <2> QED
    BY <1>3, <2>2, <2>4, <2>5 DEF DeleteLimiter, LimiterInv
<1>4. CASE Reloaded
  BY <1>4 DEF Reloaded, Waiting, LimiterInv, StoreIsCurrent, StaleIsListed, At, RateOf
<1> QED
  BY <1>1, <1>2, <1>3, <1>4 DEF Sighup

\* Where Advance puts a request, it is past the receiver.
LEMMA AdvancePlace ==
  ASSUME NEW r, r.at = "stages" PROVE Advance(r).at \in {"stages", "dispatch"}
  BY DEF Advance

\* The rule pipeline touches a request that is past the receiver, and nothing else here.
LEMMA PipelineLimiter ==
  ASSUME LimiterInv, NEW h \in Handlers, Allowed(h) \/ StageSample(h) \/ Dispatch(h)
  PROVE  LimiterInv'
<1>1. UNCHANGED <<limits, limiters, hup, reloads, raced>>
  BY DEF Allowed, StageSample, Dispatch
<1>2. CASE Allowed(h)
  <2> DEFINE r == [at |-> "stages", batch |-> request[h].batch,
                   business |-> request[h].business, gen |-> gen, stage |-> 0, in |-> <<>>,
                   out |-> Parsed(request[h].batch), pass |-> <<>>]
  <2>1. request' = [request EXCEPT ![h] = Advance(r)]
    BY <1>2 DEF Allowed
  <2>2. Advance(r).at # "store"
    BY AdvancePlace
  <2> HIDE DEF r
  <2> QED
    BY <1>1, <2>1, <2>2, RequestElsewhere
<1>3. CASE StageSample(h)
  <2>1. PICK r : request' = [request EXCEPT ![h] = Advance(r)] /\ r.at = "stages"
    <3> DEFINE s == Head(request[h].in)
               rest == [request[h] EXCEPT !.in = Tail(@)]
    <3>1. rest.at = "stages"
      BY <1>3 DEF StageSample, At
    <3>2. \/ request' = [request EXCEPT ![h] =
               Advance(IF Dead(lru[request[h].gen], s) THEN rest
                       ELSE [rest EXCEPT !.out = Append(@, s)])]
          \/ request' = [request EXCEPT ![h] = Advance([rest EXCEPT !.out = Append(@, s)])]
          \/ request' = [request EXCEPT ![h] =
               Advance([rest EXCEPT !.out = @ \o Emits(request[h].gen, s)])]
          \/ request' = [request EXCEPT ![h] = Advance([rest EXCEPT !.pass = Append(@, s)])]
      BY <1>3 DEF StageSample
    <3>3. /\ [rest EXCEPT !.out = Append(@, s)].at = "stages"
          /\ [rest EXCEPT !.out = @ \o Emits(request[h].gen, s)].at = "stages"
          /\ [rest EXCEPT !.pass = Append(@, s)].at = "stages"
      BY <3>1
    <3> HIDE DEF rest, s
    <3> QED
      BY <3>1, <3>2, <3>3
  <2>2. Advance(r).at # "store"
    BY <2>1, AdvancePlace
  <2> QED
    BY <1>1, <2>1, <2>2, RequestElsewhere
<1>4. CASE Dispatch(h)
  <2>1. PICK r : request' = [request EXCEPT ![h] = r] /\ r.at # "store"
    <3>1. NoRequest.at # "store" /\ [request[h] EXCEPT !.in = Tail(@)].at # "store"
      BY <1>4 DEF Dispatch, At, NoRequest
    <3>2. \/ request' = [request EXCEPT ![h] = NoRequest]
          \/ request' = [request EXCEPT ![h] = [request[h] EXCEPT !.in = Tail(@)]]
      BY <1>4 DEF Dispatch, Answer
    <3> QED
      BY <3>1, <3>2
  <2> QED
    BY <1>1, <2>1, RequestElsewhere
<1> QED
  BY <1>2, <1>3, <1>4

\* The strengthening holds in every state.
THEOREM LimiterInvariant == Spec => []LimiterInv
<1>1. LimiterInv /\ UNCHANGED recvVars => LimiterInv'
  BY DEF recvVars, LimiterInv, StoreIsCurrent, StaleIsListed, At, RateOf
<1>2. LimiterInv /\ [Next]_vars => LimiterInv'
  <2> SUFFICES ASSUME LimiterInv, [Next]_vars PROVE LimiterInv'
    OBVIOUS
  <2>1. CASE UNCHANGED vars \/ Swap \/ Idle
    BY <1>1, <2>1 DEF vars, Swap, Idle
  <2>2. ASSUME NEW h \in Handlers, Receiving(h) PROVE LimiterInv'
    BY <2>2, ReceivingLimiter DEF Receiving
  <2>3. CASE Reload
    BY <2>3, SighupLimiter DEF Reload
  <2> QED
    BY <2>1, <2>2, <2>3, PipelineLimiter DEF Next
<1> QED
  BY <1>2, InitLimiter, PTL DEF Spec

\* After a reload every cached limiter has the rate of the new file, unless a request
\* stored one it had computed before, whatever requests are on their way meanwhile
\* (business_rl.go:32-66).
THEOREM ReloadTakesEffect == Spec => []LimiterCurrent
<1>1. LimiterInv => LimiterCurrent
  BY DEF LimiterInv, StaleIsListed, LimiterCurrent
<1> QED
  BY <1>1, LimiterInvariant, PTL
-----------------------------------------------------------------------------
\* A list without repetition.
Distinct(q) == \A i, j \in DOMAIN q : q[i] = q[j] => i = j

\* Every series seen has a sample let through, its own.
Remembers(q, f) == \A i \in DOMAIN q : f[q[i]] \in Sample /\ f[q[i]].series = q[i]

Shown(q) == IF Len(q) < LruCap THEN Len(q) ELSE LruCap
Mirrors(l, q, f) == l = [i \in 1..Shown(q) |-> f[q[i]]]

\* The place of a series in a list without repetition.
SeenAt(q, k) == CHOOSE i \in DOMAIN q : q[i] = k

\* A series seen has a place in the history.
LEMMA SeenAtPlace ==
  ASSUME NEW q \in Seq(Series), NEW k \in ToSet(q)
  PROVE  SeenAt(q, k) \in 1..Len(q) /\ q[SeenAt(q, k)] = k
  BY DEF ToSet, SeenAt

\* What the history does to the list of series.
LEMMA SeenShape ==
  ASSUME NEW q \in Seq(Series), NEW k \in Series
  PROVE  /\ k \in ToSet(q) =>
              Seen(q, k) = [i \in 1..Len(q) |-> IF i = 1 THEN q[SeenAt(q, k)]
                                                ELSE IF i <= SeenAt(q, k) THEN q[i - 1] ELSE q[i]]
         /\ k \notin ToSet(q) =>
              Seen(q, k) = [i \in 1..Len(q) + 1 |-> IF i = 1 THEN k ELSE q[i - 1]]
<1>1. DOMAIN q = 1..Len(q) /\ Len(q) \in Nat /\ Len(q) < Len(q) + 1
  OBVIOUS
<1> QED
  BY <1>1 DEF Seen, SeenAt, ToFront, Pushed

\* Seeing a sample keeps the history free of duplicates, with a sample of each series.
LEMMA SeenKeepsList ==
  ASSUME NEW q \in Seq(Series), NEW k \in Series, Distinct(q),
         NEW f \in [Series -> Sample \cup {NoSample}], Remembers(q, f),
         NEW e \in Sample, e.series = k
  PROVE  Distinct(Seen(q, k)) /\ Remembers(Seen(q, k), [f EXCEPT ![k] = e])
<1> DEFINE n == Len(q)
           p == SeenAt(q, k)
           z == Seen(q, k)
           F == [f EXCEPT ![k] = e]
<1>1. n \in Nat /\ DOMAIN q = 1..n /\ \A i \in 1..n : q[i] \in Series
  OBVIOUS
<1>2. F[k] = e /\ \A x \in Series : x # k => F[x] = f[x]
  OBVIOUS
<1>3. CASE k \in ToSet(q)
  <2>1. p \in 1..n /\ q[p] = k
    BY <1>3, SeenAtPlace
  <2>2. /\ DOMAIN z = 1..n
        /\ \A i \in 1..n : z[i] = IF i = 1 THEN k ELSE IF i <= p THEN q[i - 1] ELSE q[i]
    BY <1>3, <2>1, SeenShape
  <2>3. \A i \in 1..n : i # p => q[i] # k
    BY <1>1, <2>1 DEF Distinct
  <2> HIDE DEF n, p, z, F
  <2>4. \A i, j \in 1..n : q[i] = q[j] => i = j
    BY <1>1 DEF Distinct, n
  <2>5. Distinct(z)
    <3> SUFFICES ASSUME NEW i \in 1..n, NEW j \in 1..n, i < j PROVE z[i] # z[j]
      BY <1>1, <2>2 DEF Distinct
    <3>1. i # 1 => i - 1 \in 1..n
      BY <1>1
    <3>2. j - 1 \in 1..n
      BY <1>1
    <3> QED
      BY <1>1, <2>1, <2>2, <2>3, <2>4, <3>1, <3>2
  <2>6. Remembers(z, F)
    <3> SUFFICES ASSUME NEW i \in 1..n PROVE F[z[i]] \in Sample /\ F[z[i]].series = z[i]
      BY <2>2 DEF Remembers
    <3>1. CASE i = 1
      BY <1>1, <1>2, <2>2, <3>1
    <3>2. CASE i # 1
      <4>1. PICK j \in 1..n : z[i] = q[j] /\ j # p
        <5>1. i - 1 \in 1..n
          BY <1>1, <3>2
        <5> QED
          BY <1>1, <2>1, <2>2, <3>2, <5>1
      <4>2. F[q[j]] = f[q[j]]
        BY <1>1, <1>2, <2>3, <4>1
      <4> QED
        BY <1>1, <4>1, <4>2 DEF Remembers
    <3> QED
      BY <3>1, <3>2
  <2> QED
    BY <2>5, <2>6 DEF z, F
<1>4. CASE k \notin ToSet(q)
  <2>1. \A i \in 1..n : q[i] # k
    BY <1>1, <1>4 DEF ToSet
  <2>2. /\ DOMAIN z = 1..n + 1
        /\ \A i \in 1..n + 1 : z[i] = IF i = 1 THEN k ELSE q[i - 1]
    BY <1>4, SeenShape
  <2> HIDE DEF n, z, F
  <2>3. \A i, j \in 1..n : q[i] = q[j] => i = j
    BY <1>1 DEF Distinct, n
  <2>4. \A i \in 1..n + 1 : i # 1 => i - 1 \in 1..n
    BY <1>1
  <2>5. Distinct(z)
    <3> SUFFICES ASSUME NEW i \in 1..n + 1, NEW j \in 1..n + 1, i < j PROVE z[i] # z[j]
      BY <1>1, <2>2 DEF Distinct
    <3> QED
      BY <1>1, <2>1, <2>2, <2>3, <2>4
  <2>6. Remembers(z, F)
    <3> SUFFICES ASSUME NEW i \in 1..n + 1 PROVE F[z[i]] \in Sample /\ F[z[i]].series = z[i]
      BY <2>2 DEF Remembers
    <3>1. CASE i = 1
      BY <1>2, <2>2, <3>1
    <3>2. CASE i # 1
      <4>1. i - 1 \in 1..n /\ z[i] = q[i - 1]
        BY <2>2, <2>4, <3>2
      <4>2. F[q[i - 1]] = f[q[i - 1]]
        BY <1>1, <1>2, <2>1, <4>1
      <4> QED
        BY <1>1, <4>1, <4>2 DEF Remembers
    <3> QED
      BY <3>1, <3>2
  <2> QED
    BY <2>5, <2>6 DEF z, F
<1> QED
  BY <1>3, <1>4

\* The LRU follows the history: a list with a limit shows the front of the one without.
LEMMA UsedMirrors ==
  ASSUME NEW q \in Seq(Series), NEW k \in Series, Distinct(q),
         NEW f \in [Series -> Sample \cup {NoSample}], Remembers(q, f),
         NEW e \in Sample, e.series = k, NEW l, Mirrors(l, q, f)
  PROVE  Mirrors(Used(l, e), Seen(q, k), [f EXCEPT ![k] = e])
<1> DEFINE n == Len(q)
           m == Shown(q)
           p == SeenAt(q, k)
           z == Seen(q, k)
           F == [f EXCEPT ![k] = e]
<1>1. /\ n \in Nat /\ DOMAIN q = 1..n /\ \A i \in 1..n : q[i] \in Series
      /\ LruCap \in Nat \ {0} /\ m \in 0..n /\ m = IF n < LruCap THEN n ELSE LruCap
  BY StagesAssumption DEF Shown
<1>2. F[k] = e /\ \A x \in Series : x # k => F[x] = f[x]
  OBVIOUS
<1>3. DOMAIN l = 1..m /\ Len(l) = m /\ \A i \in 1..m : l[i] = f[q[i]]
  BY <1>1 DEF Mirrors
<1>4. \A i \in 1..m : l[i].series = q[i]
  BY <1>1, <1>3 DEF Remembers
<1>5. \A i, j \in 1..n : q[i] = q[j] => i = j
  BY <1>1 DEF Distinct
<1>6. CASE k \notin ToSet(q)
  <2>1. \A i \in 1..n : q[i] # k
    BY <1>1, <1>6 DEF ToSet
  <2>2. ~Known(l, k)
    BY <1>1, <1>3, <1>4, <2>1 DEF Known
  <2>3. /\ z = [i \in 1..n + 1 |-> IF i = 1 THEN k ELSE q[i - 1]]
        /\ Len(z) = n + 1
    BY <1>1, <1>6, SeenShape
  <2>4. Used(l, e) = [i \in 1..(IF m < LruCap THEN m + 1 ELSE LruCap) |->
                        IF i = 1 THEN e ELSE l[i - 1]]
    BY <1>3, <2>2 DEF Used, Pushed
  <2>5. Shown(z) = IF m < LruCap THEN m + 1 ELSE LruCap
    BY <1>1, <2>3 DEF Shown
  <2> HIDE DEF n, m, z, F
  <2>6. \A i \in 1..Shown(z) : (IF i = 1 THEN e ELSE l[i - 1]) = F[z[i]]
    <3> SUFFICES ASSUME NEW i \in 1..Shown(z) PROVE (IF i = 1 THEN e ELSE l[i - 1]) = F[z[i]]
      OBVIOUS
    <3>1. CASE i = 1
      BY <1>1, <1>2, <2>3, <3>1
    <3>2. CASE i # 1
      <4>1. i - 1 \in 1..m /\ i - 1 \in 1..n /\ i \in 1..n + 1
        BY <1>1, <2>5, <3>2
      <4>2. z[i] = q[i - 1] /\ l[i - 1] = f[q[i - 1]]
        BY <1>3, <2>3, <3>2, <4>1
      <4> QED
        BY <1>1, <1>2, <2>1, <3>2, <4>1, <4>2
    <3> QED
      BY <3>1, <3>2
  <2>7. Used(l, e) = [i \in 1..Shown(z) |-> F[z[i]]]
    BY <2>4, <2>5, <2>6
  <2> QED
    BY <2>7 DEF Mirrors, z, F
<1>7. CASE k \in ToSet(q)
  <2>1. p \in 1..n /\ q[p] = k
    BY <1>7, SeenAtPlace
  <2>2. \A i \in 1..n : i # p => q[i] # k
    BY <1>5, <2>1
  <2>3. z = [i \in 1..n |-> IF i = 1 THEN k ELSE IF i <= p THEN q[i - 1] ELSE q[i]]
    BY <1>7, <2>1, SeenShape
  <2>4. Len(z) = n /\ Shown(z) = m
    BY <1>1, <2>3 DEF Shown
  <2>5. CASE p <= m
    <3>1. Known(l, k)
      BY <1>3, <1>4, <2>1, <2>5 DEF Known
    <3>2. Place(l, k) = p
      BY <1>1, <1>3, <1>4, <2>2, <3>1, PlaceHolds
    <3>3. Used(l, e) = [i \in 1..m |->
                          IF i = 1 THEN e ELSE IF i <= p THEN l[i - 1] ELSE l[i]]
      BY <1>3, <3>1, <3>2 DEF Used, ToFront
    <3> HIDE DEF n, m, p, z, F
    <3>4. ASSUME NEW i \in 1..m
          PROVE  (IF i = 1 THEN e ELSE IF i <= p THEN l[i - 1] ELSE l[i]) = F[z[i]]
      <4>1. i \in 1..n /\ (i # 1 => i - 1 \in 1..m /\ i - 1 \in 1..n)
        BY <1>1
      <4>2. CASE i = 1
        BY <1>2, <2>3, <4>1, <4>2
      <4>3. CASE i # 1 /\ i <= p
        <5>1. z[i] = q[i - 1] /\ l[i - 1] = f[q[i - 1]] /\ i - 1 # p
          BY <1>3, <2>1, <2>3, <4>1, <4>3
        <5> QED
          BY <1>1, <1>2, <2>2, <4>1, <4>3, <5>1
      <4>4. CASE i # 1 /\ ~(i <= p)
        <5>1. z[i] = q[i] /\ l[i] = f[q[i]] /\ i # p
          BY <1>3, <2>1, <2>3, <4>1, <4>4
        <5> QED
          BY <1>1, <1>2, <2>2, <4>1, <4>4, <5>1
      <4> QED
        BY <4>2, <4>3, <4>4
    <3>5. Used(l, e) = [i \in 1..Shown(z) |-> F[z[i]]]
      BY <2>4, <3>3, <3>4
    <3> QED
      BY <3>5 DEF Mirrors, z, F
  <2>6. CASE ~(p <= m)
    <3>1. m = LruCap
      BY <1>1, <2>1, <2>6
    <3>2. ~Known(l, k)
      BY <1>1, <1>3, <1>4, <2>1, <2>2, <2>6 DEF Known
    <3>3. Used(l, e) = [i \in 1..m |-> IF i = 1 THEN e ELSE l[i - 1]]
      BY <1>1, <1>3, <3>1, <3>2 DEF Used, Pushed
    <3> HIDE DEF n, m, p, z, F
    <3>4. ASSUME NEW i \in 1..m PROVE (IF i = 1 THEN e ELSE l[i - 1]) = F[z[i]]
      <4>1. i \in 1..n /\ i <= p /\ (i # 1 => i - 1 \in 1..m /\ i - 1 \in 1..n /\ i - 1 # p)
        BY <1>1, <2>1, <2>6
      <4>2. CASE i = 1
        BY <1>2, <2>3, <4>1, <4>2
      <4>3. CASE i # 1
        <5>1. z[i] = q[i - 1] /\ l[i - 1] = f[q[i - 1]]
          BY <1>3, <2>3, <4>1, <4>3
        <5> QED
          BY <1>1, <1>2, <2>2, <4>1, <4>3, <5>1
      <4> QED
        BY <4>2, <4>3
    <3>5. Used(l, e) = [i \in 1..Shown(z) |-> F[z[i]]]
      BY <2>4, <3>3, <3>4
    <3> QED
      BY <3>5 DEF Mirrors, z, F
  <2> QED
    BY <2>5, <2>6
<1> QED
  BY <1>6, <1>7

\* What LastLetThrough needs beside it: the history has each series once, with a sample
\* of that series.
LruInv ==
  \A g \in Gens :
    /\ Distinct(recency[g])
    /\ Remembers(recency[g], kept[g])
    /\ Mirrors(lru[g], recency[g], kept[g])

\* At first both lists are empty.
LEMMA InitLru == Init => LruInv
<1>1. ASSUME NEW f PROVE Distinct(<<>>) /\ Remembers(<<>>, f) /\ Mirrors(<<>>, <<>>, f)
  BY StagesAssumption DEF Distinct, Remembers, Mirrors, Shown
<1> QED
  BY <1>1 DEF Init, StagesInit, LruInv

\* The entry found for a series is what is kept of it.
LEMMA DeadEntry ==
  ASSUME StagesTypeOK, LruInv, NEW g \in Gens, NEW k, Known(lru[g], k)
  PROVE  /\ Entry(lru[g], k) = kept[g][k]
         /\ Entry(lru[g], k) \in Sample /\ Entry(lru[g], k).series = k
<1> DEFINE l == lru[g]
           q == recency[g]
           f == kept[g]
<1>1. q \in Seq(Series) /\ Remembers(q, f) /\ Mirrors(l, q, f)
  BY DEF StagesTypeOK, LruInv
<1>2. Place(l, k) \in DOMAIN l /\ l[Place(l, k)].series = k
  BY PlaceHolds
<1> HIDE DEF l, q, f
<1>3. DOMAIN l = 1..Shown(q) /\ 1..Shown(q) \subseteq DOMAIN q
  BY <1>1, StagesAssumption DEF Mirrors, Shown
<1>4. l[Place(l, k)] = f[q[Place(l, k)]] /\ Place(l, k) \in DOMAIN q
  BY <1>1, <1>2, <1>3 DEF Mirrors
<1>5. q[Place(l, k)] = k /\ f[k] \in Sample
  BY <1>1, <1>2, <1>4 DEF Remembers
<1>6. Entry(l, k) = f[k] /\ Entry(l, k) \in Sample /\ Entry(l, k).series = k
  BY <1>2, <1>4, <1>5 DEF Entry
<1> QED
  BY <1>6 DEF l, f

\* A dead sample puts the entry it repeats in front again, any other itself: either is
\* what is kept of the series afterwards.
LEMMA CheckedLru ==
  ASSUME StagesTypeOK, LruInv, NEW g \in Gens, NEW s \in Sample, Checked(g, s)
  PROVE  LruInv'
<1> DEFINE k == s.series
           l == lru[g]
           q == recency[g]
           f == kept[g]
           e == IF Dead(l, s) THEN Entry(l, k) ELSE s
<1>1. /\ k \in Series /\ q \in Seq(Series) /\ f \in [Series -> Sample \cup {NoSample}]
      /\ Distinct(q) /\ Remembers(q, f) /\ Mirrors(l, q, f)
  BY DEF StagesTypeOK, Sample, LruInv
<1>2. Dead(l, s) => Entry(l, k) = f[k] /\ Entry(l, k) \in Sample /\ Entry(l, k).series = k
  BY DeadEntry DEF Dead
<1>3. e \in Sample /\ e.series = k
  BY <1>2
<1>4. kept'[g] = [f EXCEPT ![k] = e]
  <2>1. CASE Dead(l, s)
    BY <1>1, <1>2, <2>1 DEF Checked
  <2>2. CASE ~Dead(l, s)
    BY <2>2 DEF Checked, StagesTypeOK
  <2> QED
    BY <2>1, <2>2
<1>5. lru'[g] = Used(l, e) /\ recency'[g] = Seen(q, k)
  BY DEF Checked, StagesTypeOK
<1>6. \A x \in Gens : x # g => lru'[x] = lru[x] /\ recency'[x] = recency[x] /\ kept'[x] = kept[x]
  BY DEF Checked, StagesTypeOK
<1> HIDE DEF k, l, q, f, e
<1>7. Mirrors(Used(l, e), Seen(q, k), [f EXCEPT ![k] = e])
  BY <1>1, <1>3, UsedMirrors
<1>8. Distinct(Seen(q, k)) /\ Remembers(Seen(q, k), [f EXCEPT ![k] = e])
  BY <1>1, <1>3, SeenKeepsList
<1>9. /\ Distinct(recency'[g]) /\ Remembers(recency'[g], kept'[g])
      /\ Mirrors(lru'[g], recency'[g], kept'[g])
  BY <1>4, <1>5, <1>7, <1>8
<1>10. ASSUME NEW x \in Gens
       PROVE  /\ Distinct(recency'[x]) /\ Remembers(recency'[x], kept'[x])
              /\ Mirrors(lru'[x], recency'[x], kept'[x])
  <2>1. CASE x = g
    BY <1>9, <2>1
  <2>2. CASE x # g
    BY <1>6, <2>2 DEF LruInv
  <2> QED
    BY <2>1, <2>2
<1> QED
  BY <1>10 DEF LruInv

\* No other step touches the deadvalue stage.
LEMMA ElsewhereLru == ASSUME LruInv, UNCHANGED deadVars PROVE LruInv'
  BY DEF LruInv, deadVars

\* The sample a request is at, and the state of the stages it works on.
LEMMA SampleType ==
  ASSUME TypeOK, NEW h \in Handlers, StageSample(h)
  PROVE  Head(request[h].in) \in Sample /\ request[h].gen \in Gens
<1>1. PipelineOK(request[h]) /\ request[h].at = "stages"
  BY AtPipeline DEF StageSample, At, TypeOK
<1>2. request[h].in \in Seq(Sample) /\ request[h].in # <<>> /\ request[h].gen \in Gens
  BY <1>1 DEF PipelineOK
<1> QED
  BY <1>2

\* The history is a list without repetition and the LRU its front, in every state.
THEOREM LruInvariant == Spec => []LruInv
<1>1. LruInv /\ TypeOK /\ [Next]_vars => LruInv'
  <2> SUFFICES ASSUME LruInv, TypeOK, [Next]_vars PROVE LruInv'
    OBVIOUS
  <2>1. CASE UNCHANGED vars \/ Swap \/ Idle \/ Reload
    BY <2>1, ElsewhereLru DEF vars, stageVars, Swap, Idle, Reload
  <2>2. ASSUME NEW h \in Handlers, Receiving(h) \/ Allowed(h) \/ Dispatch(h) PROVE LruInv'
    BY <2>2, ElsewhereLru DEF stageVars, Receiving, Allowed, Dispatch
  <2>3. ASSUME NEW h \in Handlers, StageSample(h) PROVE LruInv'
    <3>1. CASE UNCHANGED deadVars
      BY <3>1, ElsewhereLru
    <3>2. CASE Checked(request[h].gen, Head(request[h].in))
      BY <2>3, <3>2, SampleType, CheckedLru DEF TypeOK
    <3> QED
      BY <2>3, <3>1, <3>2 DEF StageSample, stageVars
  <2> QED
    BY <2>1, <2>2, <2>3 DEF Next
<1> QED
  BY <1>1, InitLru, TypeCorrect, PTL DEF Spec

\* In any interleaving of requests and swaps the deadvalue stage judges a sample by the
\* last one of its series let through, for the max_series series seen last
\* (deadvalue.go:86-113, 158-188).
THEOREM LruExact == Spec => []LastLetThrough
<1>1. LruInv => LastLetThrough
  BY DEF LruInv, LastLetThrough, Mirrors, Shown
<1> QED
  BY <1>1, LruInvariant, PTL
-----------------------------------------------------------------------------
NoDownsample == "downsample" \notin ToSet(stages)

\* The samples of a request that the stages have let through.
Through(r) ==
  IF r.at = "stages" THEN ToSet(r.out) ELSE IF r.at = "dispatch" THEN ToSet(r.in) ELSE {}

\* A sample of a body that the sink has taken or refused, or that a request will offer it.
Accounted(e) ==
  \E b \in Batches :
    /\ e \in ToSet(Parsed(b))
    /\ \/ b \in sent \cup refused
       \/ \E h \in Handlers : request[h].batch = b /\ e \in Through(request[h])

Covered(s) == \E e : Repeats(s, e) /\ Accounted(e)

\* A request has dropped only samples that are covered.
Carries(r) ==
  /\ r.at = "stages" =>
       /\ r.pass = <<>> /\ r.stage = 1
       /\ ToSet(r.in) \subseteq ToSet(Parsed(r.batch))
       /\ \A s \in ToSet(Parsed(r.batch)) \ ToSet(r.in) : Covered(s)
  /\ r.at = "dispatch" => \A s \in ToSet(Parsed(r.batch)) : Covered(s)

CarryInv ==
  NoDownsample =>
    /\ \A g \in Gens, k \in Series : kept[g][k] \in Sample => Accounted(kept[g][k])
    /\ \A h \in Handlers : Carries(request[h])
    /\ \A b \in accepted : \A s \in ToSet(Parsed(b)) : Covered(s)

\* One request goes on or ends: nothing is uncovered if the samples it lets through stay
\* with it, or its body has reached the sink.
LEMMA CoveredStays ==
  ASSUME DOMAIN request = Handlers, NEW h \in Handlers, NEW r,
         request' = [request EXCEPT ![h] = r],
         sent \subseteq sent', refused \subseteq refused',
         \/ Through(request[h]) = {}
         \/ request[h].batch \in sent' \cup refused'
         \/ r.batch = request[h].batch /\ Through(request[h]) \subseteq Through(r)
  PROVE  /\ \A e : Accounted(e) => Accounted(e)'
         /\ \A s : Covered(s) => Covered(s)'
         /\ \A x \in Handlers \ {h} : Carries(request[x]) => Carries(request[x])'
<1>1. \A x \in Handlers : request'[x] = IF x = h THEN r ELSE request[x]
  OBVIOUS
<1>2. ASSUME NEW e, Accounted(e) PROVE Accounted(e)'
  <2>1. PICK b \in Batches :
          /\ e \in ToSet(Parsed(b))
          /\ \/ b \in sent \cup refused
             \/ \E x \in Handlers : request[x].batch = b /\ e \in Through(request[x])
    BY <1>2 DEF Accounted
  <2>2. CASE b \in sent \cup refused
    BY <2>1, <2>2 DEF Accounted
  <2>3. ASSUME NEW x \in Handlers, request[x].batch = b, e \in Through(request[x])
        PROVE  Accounted(e)'
    <3>1. CASE x # h
      BY <1>1, <2>1, <2>3, <3>1 DEF Accounted
    <3>2. CASE x = h
      BY <1>1, <2>1, <2>3, <3>2 DEF Accounted
    <3> QED
      BY <3>1, <3>2
  <2> QED
    BY <2>1, <2>2, <2>3
<1>3. ASSUME NEW s, Covered(s) PROVE Covered(s)'
  BY <1>2, <1>3 DEF Covered
<1>4. ASSUME NEW x \in Handlers \ {h}, Carries(request[x]) PROVE Carries(request[x])'
  <2>1. request'[x] = request[x]
    BY <1>1
  <2> QED
    BY <1>3, <1>4, <2>1 DEF Carries
<1> QED
  BY <1>2, <1>3, <1>4

\* What is left to show once nothing else is uncovered: the request itself, what the
\* deadvalue stage keeps, and the bodies accepted.
LEMMA CarryStep ==
  ASSUME CarryInv, DOMAIN request = Handlers, NEW h \in Handlers, NEW r,
         request' = [request EXCEPT ![h] = r], UNCHANGED stages,
         sent \subseteq sent', refused \subseteq refused',
         \/ Through(request[h]) = {}
         \/ request[h].batch \in sent' \cup refused'
         \/ r.batch = request[h].batch /\ Through(request[h]) \subseteq Through(r),
         NoDownsample => Carries(r)',
         NoDownsample =>
           \A g \in Gens, k \in Series :
             kept'[g][k] # kept[g][k] => Accounted(kept[g][k])',
         accepted' \subseteq accepted \cup {request[h].batch},
         \/ accepted' \subseteq accepted
         \/ NoDownsample => \A s \in ToSet(Parsed(request[h].batch)) : Covered(s)
  PROVE  CarryInv'
<1> SUFFICES ASSUME NoDownsample PROVE CarryInv'
  BY DEF CarryInv, NoDownsample
<1>1. /\ \A e : Accounted(e) => Accounted(e)'
      /\ \A s : Covered(s) => Covered(s)'
      /\ \A x \in Handlers \ {h} : Carries(request[x]) => Carries(request[x])'
  BY CoveredStays
<1>2. ASSUME NEW g \in Gens, NEW k \in Series, kept'[g][k] \in Sample
      PROVE  Accounted(kept[g][k])'
  <2>1. CASE kept'[g][k] = kept[g][k]
    BY <1>1, <1>2, <2>1 DEF CarryInv, Accounted
  <2> QED
    BY <2>1
<1>3. ASSUME NEW x \in Handlers PROVE Carries(request[x])'
  <2>1. CASE x = h
    BY <2>1 DEF Carries
  <2> QED
    BY <1>1, <2>1 DEF CarryInv
<1>4. ASSUME NEW b \in accepted', NEW s \in ToSet(Parsed(b)) PROVE Covered(s)'
  BY <1>1, <1>4 DEF CarryInv
<1> QED
  BY <1>2, <1>3, <1>4 DEF CarryInv

\* Steps that leave the requests in the pipeline and the sink alone.
LEMMA CarryElsewhere ==
  ASSUME CarryInv,
         UNCHANGED <<request, accepted, sent, refused, kept, stages>>
  PROVE  CarryInv'
<1>1. NoDownsample' <=> NoDownsample
  BY DEF NoDownsample
<1>2. \A e : Accounted(e) => Accounted(e)'
  BY DEF Accounted
<1>3. \A s : Covered(s) => Covered(s)'
  BY <1>2 DEF Covered
<1>4. \A h \in Handlers : Carries(request[h]) => Carries(request[h])'
  BY <1>3 DEF Carries
<1>5. \A g \in Gens, k \in Series : kept'[g][k] = kept[g][k]
  OBVIOUS
<1>6. \A b \in accepted' : b \in accepted
  OBVIOUS
<1> QED
  BY <1>1, <1>2, <1>3, <1>4, <1>5, <1>6 DEF CarryInv

\* The middleware: no request comes from the pipeline, and none enters it.
LEMMA ReceivingCarry ==
  ASSUME CarryInv, TypeOK, NEW h \in Handlers, Receiving(h) PROVE CarryInv'
<1>1. DOMAIN request = Handlers /\ UNCHANGED <<kept, stages, sent, refused>>
  BY DEF Receiving, stageVars, deadVars, TypeOK, RequestsOK
<1>2. CASE TurnAway
  BY <1>1, <1>2, CarryElsewhere DEF TurnAway
<1>3. ASSUME NEW r, r.at \notin {"stages", "dispatch"}, request' = [request EXCEPT ![h] = r],
             request[h].at \notin {"stages", "dispatch"}, accepted' = accepted
      PROVE  CarryInv'
  <2>1. Carries(r)' /\ Through(request[h]) = {}
    BY <1>3 DEF Carries, Through
  <2> QED
    BY <1>1, <1>3, <2>1, CarryStep
<1>4. ASSUME NEW t \in Tokens, NEW batch \in Batches, Receive(h, t, batch) PROVE CarryInv'
  <2> DEFINE r == [at |-> "cache", batch |-> batch, business |-> tokens[t].business]
  <2>1. request' = [request EXCEPT ![h] = r] /\ accepted' = accepted /\ request[h].at = "none"
    BY <1>4 DEF Receive, At
  <2>2. r.at \notin {"stages", "dispatch"}
    OBVIOUS
  <2> HIDE DEF r
  <2> QED
    BY <1>3, <2>1, <2>2
<1>5. CASE LookUp(h)
  <2> DEFINE place == IF limiters[request[h].business] = NoLimiter THEN "read" ELSE "allow"
             r == [request[h] EXCEPT !.at = place]
  <2>1. request' = [request EXCEPT ![h] = r] /\ accepted' = accepted /\ request[h].at = "cache"
    BY <1>5 DEF LookUp, At
  <2>2. r.at \notin {"stages", "dispatch"}
    BY <1>5 DEF LookUp, At
  <2> HIDE DEF r
  <2> QED
    BY <1>3, <2>1, <2>2
<1>6. CASE ReadLimits(h)
  <2> DEFINE r == [at |-> "store", batch |-> request[h].batch, business |-> request[h].business,
                   rate |-> RateOf(limits, request[h].business), reload |-> reloads]
  <2>1. request' = [request EXCEPT ![h] = r] /\ accepted' = accepted /\ request[h].at = "read"
    BY <1>6 DEF ReadLimits, At
  <2>2. r.at \notin {"stages", "dispatch"}
    OBVIOUS
  <2> HIDE DEF r
  <2> QED
    BY <1>3, <2>1, <2>2
<1>7. CASE StoreLimiter(h)
  <2> DEFINE r == [at |-> "allow", batch |-> request[h].batch, business |-> request[h].business]
  <2>1. request' = [request EXCEPT ![h] = r] /\ accepted' = accepted /\ request[h].at = "store"
    BY <1>7 DEF StoreLimiter, At
  <2>2. r.at \notin {"stages", "dispatch"}
    OBVIOUS
  <2> HIDE DEF r
  <2> QED
    BY <1>3, <2>1, <2>2
<1>8. CASE Refuse(h)
  <2>1. /\ request' = [request EXCEPT ![h] = NoRequest] /\ accepted' = accepted
        /\ request[h].at = "allow"
    BY <1>8 DEF Refuse, Answer, At
  <2>2. NoRequest.at \notin {"stages", "dispatch"}
    BY DEF NoRequest
  <2> QED
    BY <1>3, <2>1, <2>2
<1> QED
  BY <1>2, <1>4, <1>5, <1>6, <1>7, <1>8 DEF Receiving, ReceiverStep

\* A list of stages without downsample is empty, or deadvalue alone.
LEMMA OneStage ==
  ASSUME TypeOK, NoDownsample
  PROVE  Len(stages) \in {0, 1} /\ \A i \in DOMAIN stages : stages[i] = "deadvalue"
<1>1. /\ stages \in Seq({"deadvalue", "downsample"})
      /\ \A i, j \in DOMAIN stages : stages[i] = stages[j] => i = j
  BY IngestAssumption DEF TypeOK
<1>2. DOMAIN stages = 1..Len(stages) /\ Len(stages) \in Nat
  BY <1>1
<1>3. \A i \in DOMAIN stages : stages[i] = "deadvalue"
  BY <1>1 DEF NoDownsample, ToSet
<1>4. ~(1 \in DOMAIN stages /\ 2 \in DOMAIN stages)
  BY <1>1, <1>3
<1> QED
  BY <1>2, <1>3, <1>4

\* A request that enters the pipeline has all its samples, let through if there is no
\* stage.
LEMMA AllowedCarry ==
  ASSUME CarryInv, TypeOK, NEW h \in Handlers, Allowed(h) PROVE CarryInv'
<1> DEFINE q == request[h]
<1>1. DOMAIN request = Handlers /\ UNCHANGED <<accepted, sent, refused, kept, stages>>
  BY DEF Allowed, stageVars, deadVars, TypeOK, RequestsOK
<1>2. q.batch \in Batches /\ Through(q) = {}
  BY AtReceiver DEF Allowed, At, TypeOK, RequestOK, Through
<1>3. Parsed(q.batch) \in Seq(Sample) /\ Len(stages) \in Nat
  BY <1>2, IngestAssumption DEF TypeOK
<1>4. PICK r :
        /\ request' = [request EXCEPT ![h] = r] /\ r.batch = q.batch
        /\ r.in = Parsed(q.batch) /\ r.pass = <<>> /\ r.stage = 1
        /\ r.at \in {"stages", "dispatch"}
  <2> DEFINE r == [at |-> "stages", batch |-> q.batch, business |-> q.business, gen |-> gen,
                   stage |-> 0, in |-> <<>>, out |-> Parsed(q.batch), pass |-> <<>>]
  <2>1. request' = [request EXCEPT ![h] = Advance(r)]
    BY DEF Allowed
  <2>2. Parsed(q.batch) \o <<>> = Parsed(q.batch)
    BY <1>3
  <2> DEFINE next == [r EXCEPT !.stage = @ + 1, !.in = r.out \o r.pass, !.out = <<>>,
                               !.pass = <<>>]
  <2>3. /\ next.batch = q.batch /\ next.in = Parsed(q.batch) /\ next.pass = <<>>
        /\ next.stage = 1 /\ next.at = "stages"
    BY <2>2
  <2>4. Advance(r) \in {next, [next EXCEPT !.at = "dispatch"]}
    BY DEF Advance
  <2>5. next = [x \in {"at", "batch", "business", "gen", "stage", "in", "out", "pass"} |-> next[x]]
    OBVIOUS
  <2> HIDE DEF r, next
  <2>6. PICK y \in {next, [next EXCEPT !.at = "dispatch"]} : y = Advance(r)
    BY <2>4
  <2>7. /\ y.batch = q.batch /\ y.in = Parsed(q.batch) /\ y.pass = <<>> /\ y.stage = 1
        /\ y.at \in {"stages", "dispatch"}
    BY <2>3, <2>5, <2>6
  <2> QED
    BY <2>1, <2>6, <2>7
<1>5. NoDownsample => Carries(r)'
  <2> SUFFICES ASSUME r.at = "dispatch", NEW s \in ToSet(Parsed(r.batch)) PROVE Covered(s)'
    BY <1>4 DEF Carries
  <2>1. s \in Through(r) /\ request'[h] = r
    BY <1>1, <1>4 DEF Through
  <2>2. Accounted(s)'
    BY <1>2, <1>4, <2>1 DEF Accounted
  <2> QED
    BY <2>2 DEF Covered, Repeats
<1> HIDE DEF q
<1>6. request' = [request EXCEPT ![h] = r] /\ Through(request[h]) = {}
  BY <1>2, <1>4 DEF q
<1> QED
  BY <1>1, <1>5, <1>6, CarryStep

\* The sink takes a message or refuses it, or there was none: then every sample of the
\* body is covered, and it is accepted.
LEMMA DispatchCarry ==
  ASSUME CarryInv, TypeOK, NEW h \in Handlers, Dispatch(h) PROVE CarryInv'
<1> DEFINE q == request[h]
<1>1. DOMAIN request = Handlers /\ UNCHANGED <<kept, stages>> /\ q.at = "dispatch"
  BY DEF Dispatch, stageVars, deadVars, At, TypeOK, RequestsOK
<1>2. NoDownsample => \A s \in ToSet(Parsed(q.batch)) : Covered(s)
  BY <1>1 DEF CarryInv, Carries
<1>3. Carries(NoRequest)'
  BY DEF Carries, NoRequest
<1>4. CASE q.in = <<>> /\ Answer(h, 200) /\ UNCHANGED <<sent, refused>>
  <2>1. Through(q) = {}
    BY <1>1, <1>4 DEF Through, ToSet
  <2>2. request' = [request EXCEPT ![h] = NoRequest] /\ accepted' \subseteq accepted \cup {q.batch}
    BY <1>4 DEF Answer
  <2> QED
    BY <1>1, <1>2, <1>3, <1>4, <2>1, <2>2, CarryStep
<1>5. CASE /\ q.in # <<>> /\ sent' = sent \cup {q.batch}
           /\ request' = [request EXCEPT ![h].in = Tail(@)] /\ UNCHANGED <<accepted, refused>>
  <2>1. PICK r : r = [q EXCEPT !.in = Tail(@)]
    OBVIOUS
  <2>2. request' = [request EXCEPT ![h] = r] /\ r.batch = q.batch /\ r.at = "dispatch"
    BY <1>1, <1>5, <2>1
  <2>3. NoDownsample => Carries(r)'
    <3> SUFFICES ASSUME NoDownsample, NEW s \in ToSet(Parsed(r.batch)) PROVE Covered(s)'
      BY <2>2 DEF Carries
    <3>1. Accounted(s)'
      <4>1. q.batch \in Batches
        BY <1>1, AtPipeline DEF TypeOK, PipelineOK
      <4> QED
        BY <1>5, <2>2, <4>1 DEF Accounted
    <3> QED
      BY <3>1 DEF Covered, Repeats
  <2> QED
    BY <1>1, <1>5, <2>2, <2>3, CarryStep
<1>6. CASE q.in # <<>> /\ Answer(h, 503) /\ refused' = refused \cup {q.batch} /\ UNCHANGED sent
  <2>1. request' = [request EXCEPT ![h] = NoRequest] /\ accepted' = accepted
    BY <1>6 DEF Answer
  <2> QED
    BY <1>1, <1>3, <1>6, <2>1, CarryStep
<1> QED
  BY <1>4, <1>5, <1>6 DEF Dispatch

\* The elements of a sequence are its head and those of its tail.
LEMMA HeadAndTail ==
  ASSUME NEW S, NEW l \in Seq(S), l # <<>> PROVE ToSet(l) = {Head(l)} \cup ToSet(Tail(l))
<1>1. /\ Len(l) \in Nat \ {0} /\ Len(Tail(l)) = Len(l) - 1 /\ Head(l) = l[1]
      /\ \A i \in 1..Len(l) - 1 : Tail(l)[i] = l[i + 1]
      /\ DOMAIN l = 1..Len(l) /\ DOMAIN Tail(l) = 1..Len(l) - 1
  OBVIOUS
<1>2. ASSUME NEW x \in ToSet(l) PROVE x = Head(l) \/ x \in ToSet(Tail(l))
  <2>1. PICK i \in 1..Len(l) : l[i] = x
    BY <1>1 DEF ToSet
  <2>2. CASE i = 1
    BY <1>1, <2>1, <2>2
  <2>3. CASE i # 1
    <3>1. i - 1 \in 1..Len(l) - 1 /\ (i - 1) + 1 = i
      BY <1>1, <2>3
    <3>2. Tail(l)[i - 1] = x
      BY <1>1, <2>1, <3>1
    <3> QED
      BY <1>1, <3>1, <3>2 DEF ToSet
  <2> QED
    BY <2>2, <2>3
<1>3. ASSUME NEW x \in ToSet(Tail(l)) PROVE x \in ToSet(l)
  <2>1. PICK i \in 1..Len(l) - 1 : Tail(l)[i] = x
    BY <1>1, <1>3 DEF ToSet
  <2>2. i + 1 \in 1..Len(l) /\ l[i + 1] = x
    BY <1>1, <2>1
  <2> QED
    BY <1>1, <2>2 DEF ToSet
<1>4. Head(l) \in ToSet(l)
  BY <1>1 DEF ToSet
<1> QED
  BY <1>2, <1>3, <1>4

\* An append adds its element.
LEMMA Appended ==
  ASSUME NEW S, NEW l \in Seq(S), NEW x
  PROVE  ToSet(l) \subseteq ToSet(Append(l, x)) /\ x \in ToSet(Append(l, x))
<1>1. /\ Len(l) \in Nat /\ DOMAIN l = 1..Len(l) /\ DOMAIN Append(l, x) = 1..Len(l) + 1
      /\ \A i \in 1..Len(l) : Append(l, x)[i] = l[i]
      /\ Append(l, x)[Len(l) + 1] = x
  OBVIOUS
<1>2. Len(l) + 1 \in 1..Len(l) + 1 /\ 1..Len(l) \subseteq 1..Len(l) + 1
  BY <1>1
<1> QED
  BY <1>1, <1>2 DEF ToSet

\* A sample is let through, or repeats one that has been: then what is kept of its series
\* covers it.
LEMMA SampleCarry ==
  ASSUME CarryInv, TypeOK, LruInv, NEW h \in Handlers, StageSample(h) PROVE CarryInv'
<1>1. DOMAIN request = Handlers /\ UNCHANGED <<accepted, sent, refused, stages>>
  BY DEF StageSample, TypeOK, RequestsOK
<1> SUFFICES ASSUME NoDownsample PROVE CarryInv'
  BY <1>1 DEF CarryInv, NoDownsample
<1> DEFINE q == request[h]
           s == Head(q.in)
           g == q.gen
           e == Entry(lru[g], s.series)
           rest == [q EXCEPT !.in = Tail(@)]
           through == [rest EXCEPT !.out = Append(@, s)]
           dead == s.series \in DeadScope /\ Dead(lru[g], s)
<1>2. PipelineOK(q) /\ q.at = "stages"
  BY AtPipeline DEF StageSample, At, TypeOK
<1>3. Carries(q) /\ q.pass = <<>> /\ q.stage = 1
  BY <1>2 DEF CarryInv, Carries
<1>4. Len(stages) = 1 /\ stages[q.stage] = "deadvalue"
  BY <1>2, <1>3, OneStage DEF PipelineOK
<1>5. /\ kept' = kept \/ (Checked(g, s) /\ s.series \in DeadScope)
      /\ request' = [request EXCEPT ![h] = Advance(IF dead THEN rest ELSE through)]
  <2>1. CASE s.series \in DeadScope
    BY <1>4, <2>1 DEF StageSample
  <2>2. CASE s.series \notin DeadScope
    <3>1. /\ request' = [request EXCEPT ![h] = Advance(through)]
          /\ UNCHANGED stageVars
      BY <1>4, <2>2 DEF StageSample
    <3>2. kept' = kept
      BY <3>1 DEF stageVars, deadVars
    <3> QED
      BY <2>2, <3>1, <3>2
  <2> QED
    BY <2>1, <2>2
<1>6. /\ q.in \in Seq(Sample) /\ q.in # <<>> /\ q.out \in Seq(Sample)
      /\ q.batch \in Batches
  BY <1>2 DEF PipelineOK
<1>7. s \in Sample /\ g \in Gens
  BY SampleType
<1>8. ToSet(q.in) = {s} \cup ToSet(Tail(q.in)) /\ s \in ToSet(Parsed(q.batch))
  <2>1. ToSet(q.in) = {s} \cup ToSet(Tail(q.in))
    BY <1>6, HeadAndTail
  <2> QED
    BY <1>2, <1>3, <2>1 DEF Carries
<1>9. dead => Covered(s)
  <2> SUFFICES ASSUME dead PROVE Covered(s)
    OBVIOUS
  <2>1. e = kept[g][s.series] /\ e \in Sample /\ e.series = s.series
    BY <1>7, DeadEntry DEF Dead, TypeOK
  <2>2. Repeats(s, e)
    BY <2>1 DEF Dead, Repeats
  <2>3. Accounted(e)
    BY <1>7, <2>1 DEF CarryInv, Sample
  <2> QED
    BY <2>2, <2>3 DEF Covered
<1>10. PICK out \in {q.out, Append(q.out, s)} :
         /\ dead => out = q.out
         /\ ~dead => out = Append(q.out, s)
  OBVIOUS
<1>11. /\ out \in Seq(Sample) /\ out \o <<>> = out /\ ToSet(q.out) \subseteq ToSet(out)
       /\ ~dead => s \in ToSet(out)
  <2> HIDE DEF q, s
  <2>1. Append(q.out, s) \in Seq(Sample)
    BY <1>6, <1>7
  <2>2. ToSet(q.out) \subseteq ToSet(Append(q.out, s)) /\ s \in ToSet(Append(q.out, s))
    BY <1>6, Appended
  <2>3. out \in Seq(Sample)
    BY <1>6, <1>10, <2>1
  <2>4. out \o <<>> = out
    BY <2>3
  <2> QED
    BY <1>10, <2>2, <2>3, <2>4
<1>12. PICK r :
         /\ request' = [request EXCEPT ![h] = r] /\ r.batch = q.batch
         /\ \/ /\ r.at = "stages" /\ r.pass = <<>> /\ r.stage = 1
               /\ r.in = Tail(q.in) /\ r.out = out
            \/ r.at = "dispatch" /\ r.in = out /\ Tail(q.in) = <<>>
  <2> DEFINE y == IF dead THEN rest ELSE through
             next == [y EXCEPT !.stage = @ + 1, !.in = y.out \o y.pass, !.out = <<>>, !.pass = <<>>]
             last == [next EXCEPT !.at = "dispatch"]
  <2>1. /\ y.batch = q.batch /\ y.at = "stages" /\ y.pass = <<>> /\ y.stage = 1
        /\ y.in = Tail(q.in) /\ y.out = out
    BY <1>2, <1>3, <1>10 DEF PipelineOK
  <2>2. request' = [request EXCEPT ![h] = Advance(y)]
    BY <1>5
  <2>3. y \in [at : {"stages", "dispatch"}, batch : Batches, business : Businesses, gen : Gens,
               stage : 1..Len(stages) + 1, in : {y.in}, out : {y.out}, pass : {y.pass}]
    BY <1>2 DEF PipelineOK
  <2> HIDE DEF y
  <2>4. next.in = out /\ next.batch = q.batch /\ last.in = next.in /\ last.batch = next.batch
        /\ last.at = "dispatch"
    BY <1>11, <2>1, <2>3
  <2>5. Advance(y) = IF y.in # <<>> THEN y ELSE last
    BY <1>4, <2>1 DEF Advance
  <2> HIDE DEF next, last
  <2>6. PICK r : r = Advance(y)
    OBVIOUS
  <2> QED
    BY <2>1, <2>2, <2>4, <2>5, <2>6
<1>13. Through(q) \subseteq Through(r) /\ Through(r) = ToSet(out)
  BY <1>2, <1>11, <1>12 DEF Through
<1>14. /\ \A x : Covered(x) => Covered(x)'
       /\ \A x : Accounted(x) => Accounted(x)'
  BY <1>1, <1>12, <1>13, CoveredStays
<1>15. PICK v, b : v = s /\ b = q.batch
  OBVIOUS
<1>16. Covered(v)' /\ (~dead => Accounted(v)')
  <2>1. ASSUME ~dead PROVE Accounted(v)' /\ Covered(v)'
    <3>1. v \in Through(r) /\ v \in ToSet(Parsed(b)) /\ b \in Batches
      BY <1>6, <1>8, <1>11, <1>13, <1>15, <2>1
    <3>2. request'[h] = r /\ r.batch = b
      BY <1>1, <1>12, <1>15
    <3>3. Accounted(v)'
      BY <3>1, <3>2 DEF Accounted
    <3> QED
      BY <3>3 DEF Covered, Repeats
  <2>2. dead => Covered(v)'
    BY <1>9, <1>14, <1>15
  <2> QED
    BY <2>1, <2>2
<1>17. Carries(r)'
  <2>1. \A x \in ToSet(Parsed(b)) \ ToSet(q.in) : Covered(x)
    BY <1>2, <1>3, <1>15 DEF Carries
  <2>2. \A x \in ToSet(Parsed(b)) : x \in ToSet(Tail(q.in)) \/ Covered(x)'
    BY <1>8, <1>14, <1>15, <1>16, <2>1
  <2>3. ToSet(Tail(q.in)) \subseteq ToSet(Parsed(b)) /\ r.batch = b
    BY <1>2, <1>3, <1>8, <1>12, <1>15 DEF Carries
  <2>4. Tail(q.in) = <<>> => ToSet(Tail(q.in)) = {}
    BY DEF ToSet
  <2> HIDE DEF q, s
  <2>5. PICK i : i = Tail(q.in)
    OBVIOUS
  <2>6. /\ r.at = "stages" => r.pass = <<>> /\ r.stage = 1 /\ r.in = i
        /\ r.at = "dispatch" => ToSet(i) = {}
    BY <1>12, <2>4, <2>5
  <2> QED
    BY <2>2, <2>3, <2>5, <2>6 DEF Carries
<1>18. ASSUME NEW x \in Gens, NEW k \in Series, kept'[x][k] # kept[x][k]
       PROVE  Accounted(kept[x][k])'
  <2>1. ~dead /\ kept' = [kept EXCEPT ![g][s.series] = s]
    BY <1>5, <1>18 DEF Checked
  <2>2. kept'[x][k] = v
    <3>1. kept \in [Gens -> [Series -> Sample \cup {NoSample}]]
      BY DEF TypeOK, StagesTypeOK
    <3> HIDE DEF s, g
    <3> QED
      BY <1>15, <1>18, <2>1, <3>1
  <2>3. Accounted(v)'
    BY <1>16, <2>1
  <2> QED
    BY <2>2, <2>3 DEF Accounted
<1> HIDE DEF q, s, g, e, rest, through, dead
<1>19. request' = [request EXCEPT ![h] = r] /\ r.batch = request[h].batch
       /\ Through(request[h]) \subseteq Through(r)
  BY <1>12, <1>13 DEF q
<1> QED
  BY <1>1, <1>17, <1>18, <1>19, CarryStep

\* At the start nothing is accepted, on its way or remembered.
LEMMA InitCarry == Init => CarryInv
<1>1. NoSample \notin Sample
  <2>1. DOMAIN NoSample = {"series"} /\ "ts" \notin {"series"}
    BY DEF NoSample
  <2>2. \A s \in Sample : "ts" \in DOMAIN s
    BY DEF Sample
  <2> QED
    BY <2>1, <2>2
<1> QED
  BY <1>1 DEF Init, ReceiverInit, StagesInit, CarryInv, Carries, NoRequest

\* Every sample of a body answered with 200 is covered, in every state.
THEOREM CarryInvariant == Spec => []CarryInv
<1>1. CarryInv /\ TypeOK /\ LruInv /\ [Next]_vars => CarryInv'
  <2> SUFFICES ASSUME CarryInv, TypeOK, LruInv, [Next]_vars PROVE CarryInv'
    OBVIOUS
  <2>1. CASE UNCHANGED vars \/ Idle \/ Swap
    BY <2>1, CarryElsewhere DEF vars, recvVars, stageVars, deadVars, Idle, Swap
  <2>2. CASE Reload
    <3>1. UNCHANGED <<request, accepted>>
      BY <2>2 DEF Reload, Sighup, ReloadTokens, StoreLimits, DeleteLimiter, Reloaded
    <3> QED
      BY <2>2, <3>1, CarryElsewhere DEF Reload, stageVars, deadVars
  <2>3. ASSUME NEW h \in Handlers,
               Receiving(h) \/ Allowed(h) \/ StageSample(h) \/ Dispatch(h)
        PROVE  CarryInv'
    BY <2>3, ReceivingCarry, AllowedCarry, SampleCarry, DispatchCarry
  <2> QED
    BY <2>1, <2>2, <2>3 DEF Next
<1> QED
  BY <1>1, InitCarry, TypeCorrect, LruInvariant, PTL DEF Spec

\* Of a rule set without downsample, each sample of a body answered with 200 was sent, or
\* repeats one that was sent, is on its way or was refused: nothing else is missing,
\* whatever requests, retries, reloads and swaps come between (pipeline.go:214-243).
THEOREM AcceptedKept == Spec => []OnlyRefusedMissing
<1>1. CarryInv /\ TypeOK => OnlyRefusedMissing
  <2> SUFFICES ASSUME CarryInv, TypeOK, NoDownsample, NEW b \in accepted,
                      NEW i \in DOMAIN Parsed(b)
               PROVE  Holding(Parsed(b)[i]) \cap (sent \cup Running \cup refused) # {}
    BY DEF OnlyRefusedMissing, NoDownsample
  <2>1. Covered(Parsed(b)[i])
    BY DEF CarryInv, ToSet
  <2>2. PICK e : Repeats(Parsed(b)[i], e) /\ Accounted(e)
    BY <2>1 DEF Covered
  <2>3. PICK c \in Batches :
          /\ e \in ToSet(Parsed(c))
          /\ \/ c \in sent \cup refused
             \/ \E h \in Handlers : request[h].batch = c /\ e \in Through(request[h])
    BY <2>2 DEF Accounted
  <2>4. c \in Holding(Parsed(b)[i])
    BY <2>2, <2>3 DEF Holding, ToSet
  <2>5. c \in sent \cup Running \cup refused
    BY <2>3 DEF Running, Through
  <2> QED
    BY <2>4, <2>5
<1> QED
  BY <1>1, CarryInvariant, TypeCorrect, PTL
-----------------------------------------------------------------------------
\* The quotient of a larger number is no smaller, across zero too.
LEMMA QuotientMonotone ==
  ASSUME NEW a \in Int, NEW b \in Int, a <= b, NEW n \in Nat \ {0}
  PROVE  Quotient(a, n) <= Quotient(b, n)
<1>1. ASSUME NEW x \in Nat, NEW y \in Nat, x <= y
      PROVE  x \div n \in Nat /\ y \div n \in Nat /\ x \div n <= y \div n
  BY <1>1
<1>2. CASE a >= 0
  <2>1. a \in Nat /\ b \in Nat /\ b >= 0
    BY <1>2
  <2> QED
    BY <1>1, <1>2, <2>1 DEF Quotient
<1>3. CASE ~(a >= 0) /\ b >= 0
  <2>1. -a \in Nat /\ b \in Nat /\ b <= b /\ -a <= -a
    BY <1>3
  <2>2. (-a) \div n \in Nat /\ b \div n \in Nat
    BY <1>1, <2>1
  <2>3. -((-a) \div n) <= b \div n
    BY <2>2
  <2> QED
    BY <1>3, <2>3 DEF Quotient
<1>4. CASE ~(a >= 0) /\ ~(b >= 0)
  <2>1. -a \in Nat /\ -b \in Nat /\ -b <= -a
    BY <1>4
  <2> DEFINE x == -a
             y == -b
  <2>2. x \div n \in Nat /\ y \div n \in Nat /\ y \div n <= x \div n
    BY <1>1, <2>1
  <2>3. Quotient(a, n) = -(x \div n) /\ Quotient(b, n) = -(y \div n)
    BY <1>4 DEF Quotient
  <2> HIDE DEF x, y
  <2> QED
    BY <2>2, <2>3
<1> QED
  BY <1>2, <1>3, <1>4

\* The interval of a later sample is no earlier.
LEMMA StartMonotone ==
  ASSUME NEW s, NEW t, s.ts \in Int, t.ts \in Int, s.ts <= t.ts
  PROVE  /\ BucketStart(s) \in Int /\ BucketStart(t) \in Int
         /\ BucketStart(s) <= BucketStart(t)
<1>1. Second \in Nat \ {0} /\ Interval \in Nat
  BY StagesAssumption
<1>2. PICK a \in Int, b \in Int : a = Seconds(s) /\ b = Seconds(t)
  BY <1>1, QuotientType DEF Seconds
<1>3. a <= b
  BY <1>1, <1>2, QuotientMonotone DEF Seconds
<1>4. CASE Interval = 0
  BY <1>2, <1>3, <1>4 DEF BucketStart
<1>5. CASE Interval # 0
  <2>1. PICK x \in Int : x = Quotient(a, Interval)
    BY <1>1, <1>5, QuotientType
  <2>2. PICK y \in Int : y = Quotient(b, Interval)
    BY <1>1, <1>5, QuotientType
  <2>3. x <= y
    BY <1>1, <1>3, <1>5, <2>1, <2>2, QuotientMonotone
  <2>4. x * Interval \in Int /\ y * Interval \in Int /\ x * Interval <= y * Interval
    BY <1>1, <2>3
  <2>5. BucketStart(s) = x * Interval /\ BucketStart(t) = y * Interval
    BY <1>2, <1>5, <2>1, <2>2 DEF BucketStart
  <2> QED
    BY <2>4, <2>5
<1> QED
  BY <1>4, <1>5

\* The bucket of a series is that of the sample it absorbed last; what was emitted of a
\* series without late samples lies before it.
OnceInv ==
  \A g \in Gens, k \in Series :
    /\ open[g][k] = NoBucket => emitted[g][k] = {}
    /\ open[g][k] # NoBucket =>
         /\ open[g][k].start = BucketStart([ts |-> newest[g][k]])
         /\ k \notin late[g] => \A x \in emitted[g][k] : x < open[g][k].start

\* A bucket is named by the interval of its first sample.
LEMMA StartKept ==
  ASSUME NEW s \in Sample
  PROVE  /\ NewBucket(s) # NoBucket /\ NewBucket(s).start = BucketStart(s)
         /\ \A b \in Bucket : Add(b, s) # NoBucket /\ Add(b, s).start = b.start
<1>1. ASSUME NEW b \in [series : Series, start : Int, sum : Number, count : Nat, max : Number,
                        min : Number, values : Seq(Number), members : Seq(Sample)]
      PROVE  Add(b, s).count # 0 /\ Add(b, s).start = b.start
  BY DEF Add
<1>2. NoBucket.count = 0
  BY DEF NoBucket
<1>3. NewBucket(s).count # 0 /\ NewBucket(s).start = BucketStart(s)
  <2> DEFINE b == [series |-> s.series, start |-> BucketStart(s), sum |-> 0, count |-> 0,
                   max |-> 0, min |-> 0, values |-> <<>>, members |-> <<>>]
  <2>1. b \in [series : Series, start : Int, sum : Number, count : Nat, max : Number,
               min : Number, values : Seq(Number), members : Seq(Sample)]
    BY BucketStartType DEF Sample, Number
  <2>2. b.start = BucketStart(s)
    OBVIOUS
  <2> HIDE DEF b
  <2>3. Add(b, s).count # 0 /\ Add(b, s).start = b.start
    BY <1>1, <2>1
  <2> QED
    BY <2>2, <2>3 DEF NewBucket, b
<1>4. Bucket \subseteq [series : Series, start : Int, sum : Number, count : Nat, max : Number,
                        min : Number, values : Seq(Number), members : Seq(Sample)]
  BY DEF Bucket, Number
<1> QED
  BY <1>1, <1>2, <1>3, <1>4

\* A sample of the bucket's interval stays in it; one that is not late opens a later one.
LEMMA IngestedOnce ==
  ASSUME StagesTypeOK, OnceInv, NEW g \in Gens, NEW s \in Sample, s.series \in Scope,
         Ingested(g, s)
  PROVE  OnceInv'
<1> DEFINE k == s.series
           b == open[g][k]
<1>1. k \in Series /\ s.ts \in Int
  BY DEF Sample
<1>2. b \in Bucket \cup {NoBucket} /\ newest[g][k] \in Int
  BY <1>1 DEF StagesTypeOK
<1>3. BucketStart([ts |-> s.ts]) = BucketStart(s)
  BY DEF BucketStart, Seconds
<1>4. ASSUME NEW x \in Gens, NEW y \in Series, x # g \/ y # k
      PROVE  /\ open'[x][y] = open[x][y] /\ emitted'[x][y] = emitted[x][y]
             /\ newest'[x][y] = newest[x][y] /\ (y \in late'[x] <=> y \in late[x])
  BY <1>4 DEF Ingested, StagesTypeOK
<1>5. /\ b = NoBucket => emitted[g][k] = {}
      /\ b # NoBucket => /\ b.start = BucketStart([ts |-> newest[g][k]])
                         /\ k \notin late[g] => \A x \in emitted[g][k] : x < b.start
  BY <1>1 DEF OnceInv
<1> DEFINE Fine == /\ open'[g][k] = NoBucket => emitted'[g][k] = {}
                   /\ open'[g][k] # NoBucket =>
                        /\ open'[g][k].start = BucketStart([ts |-> newest'[g][k]])
                        /\ k \notin late'[g] => \A x \in emitted'[g][k] : x < open'[g][k].start
<1>6. CASE Full(g, s)
  <2>1. open' = open /\ emitted' = emitted /\ newest' = newest /\ late' = late
    BY <1>6 DEF Ingested, Full, Closes
  <2>2. Fine
    BY <1>5, <2>1
  <2> QED
    BY <1>4, <2>1 DEF OnceInv
<1>7. CASE ~Full(g, s)
  <2>1. /\ open'[g][k] = IF b = NoBucket \/ Closes(g, s) THEN NewBucket(s) ELSE Add(b, s)
        /\ newest'[g][k] = s.ts
        /\ emitted'[g][k] = IF Closes(g, s) THEN emitted[g][k] \cup {b.start} ELSE emitted[g][k]
        /\ k \notin late'[g] => k \notin late[g] /\ (b # NoBucket => ~(s.ts < newest[g][k]))
    BY <1>1, <1>7 DEF Ingested, StagesTypeOK
  <2>2. ASSUME b = NoBucket PROVE Fine
    BY <1>1, <1>3, <1>5, <2>1, <2>2, StartKept DEF Closes
  <2>3. ASSUME b # NoBucket, ~Closes(g, s) PROVE Fine
    <3>1. Add(b, s) # NoBucket /\ Add(b, s).start = b.start /\ b.start = BucketStart(s)
      BY <1>1, <1>2, <2>3, StartKept DEF Closes
    <3> QED
      BY <1>3, <1>5, <2>1, <2>3, <3>1
  <2>4. ASSUME Closes(g, s) PROVE Fine
    <3>1. NewBucket(s) # NoBucket /\ NewBucket(s).start = BucketStart(s)
      BY <1>1, StartKept
    <3>2. b # NoBucket /\ b.start # BucketStart(s)
      BY <2>4 DEF Closes
    <3>3. k \notin late'[g] => b.start < BucketStart(s)
      <4> SUFFICES ASSUME k \notin late'[g] PROVE b.start < BucketStart(s)
        OBVIOUS
      <4>1. newest[g][k] <= s.ts
        BY <1>1, <1>2, <2>1, <3>2
      <4>2. /\ BucketStart([ts |-> newest[g][k]]) \in Int /\ BucketStart(s) \in Int
            /\ BucketStart([ts |-> newest[g][k]]) <= BucketStart(s)
        BY <1>1, <1>2, <4>1, StartMonotone
      <4> QED
        BY <1>5, <3>2, <4>2
    <3>4. \A x \in emitted[g][k] : x \in Int
      BY <1>1 DEF StagesTypeOK
    <3>5. BucketStart(s) \in Int /\ b.start \in Int
      BY <1>2, <3>2, BucketStartType DEF Bucket
    <3> QED
      BY <1>3, <1>5, <2>1, <2>4, <3>1, <3>2, <3>3, <3>4, <3>5
  <2>5. Fine
    BY <2>2, <2>3, <2>4
  <2> HIDE DEF b
  <2>6. ASSUME NEW x \in Gens, NEW y \in Series
        PROVE  /\ open'[x][y] = NoBucket => emitted'[x][y] = {}
               /\ open'[x][y] # NoBucket =>
                    /\ open'[x][y].start = BucketStart([ts |-> newest'[x][y]])
                    /\ y \notin late'[x] => \A z \in emitted'[x][y] : z < open'[x][y].start
    <3>1. CASE x = g /\ y = k
      BY <2>5, <3>1
    <3>2. CASE x # g \/ y # k
      BY <1>4, <3>2 DEF OnceInv
    <3> QED
      BY <3>1, <3>2
  <2> QED
    BY <2>6 DEF OnceInv, BucketStart, Seconds
<1> QED
  BY <1>6, <1>7

\* What leaves the samples alone keeps the invariant.
LEMMA ElsewhereOnce == ASSUME OnceInv, UNCHANGED sampleVars PROVE OnceInv'
  BY DEF OnceInv, sampleVars

\* At first nothing is open and nothing emitted.
LEMMA InitOnce == Init => OnceInv
  BY DEF Init, StagesInit, OnceInv

\* The buckets of a series without late samples open in the order of time, in every state.
THEOREM OnceInvariant == Spec => []OnceInv
<1>1. OnceInv /\ TypeOK /\ [Next]_vars => OnceInv'
  <2> SUFFICES ASSUME OnceInv, TypeOK, [Next]_vars PROVE OnceInv'
    OBVIOUS
  <2>1. CASE UNCHANGED vars \/ Swap \/ Idle \/ Reload
    BY <2>1, ElsewhereOnce DEF vars, stageVars, Swap, Idle, Reload
  <2>2. ASSUME NEW h \in Handlers, Receiving(h) \/ Allowed(h) \/ Dispatch(h) PROVE OnceInv'
    BY <2>2, ElsewhereOnce DEF stageVars, Receiving, Allowed, Dispatch
  <2>3. ASSUME NEW h \in Handlers, StageSample(h) PROVE OnceInv'
    <3>1. CASE UNCHANGED sampleVars
      BY <3>1, ElsewhereOnce
    <3>2. CASE Head(request[h].in).series \in Scope /\ Ingested(request[h].gen, Head(request[h].in))
      BY <2>3, <3>2, SampleType, IngestedOnce DEF TypeOK
    <3> QED
      BY <2>3, <3>1, <3>2 DEF StageSample, stageVars
  <2> QED
    BY <2>1, <2>2, <2>3 DEF Next
<1> QED
  BY <1>1, InitOnce, TypeCorrect, PTL DEF Spec

\* Downsample emits the aggregates of an interval once for each series that had no late
\* sample, in any interleaving of requests and swaps (downsample.go:236-266).
THEOREM EmittedOnce == Spec => []IntervalOnce
<1>1. OnceInv /\ TypeOK => IntervalOnce
  <2> SUFFICES ASSUME OnceInv, TypeOK, NEW g \in Gens, NEW k \in Series, k \notin late[g],
                      open[g][k] # NoBucket
               PROVE  open[g][k].start \notin emitted[g][k]
    BY DEF IntervalOnce
  <2>1. open[g][k].start \in Int
    BY DEF TypeOK, StagesTypeOK, Bucket
  <2>2. \A x \in emitted[g][k] : x < open[g][k].start
    BY DEF OnceInv
  <2> QED
    BY <2>1, <2>2
<1> QED
  BY <1>1, OnceInvariant, TypeCorrect, PTL
-----------------------------------------------------------------------------
\* A bucket, or one about to take its first sample.
RawBucket ==
  [series : Series, start : Int, sum : Number, count : Nat, max : Number, min : Number,
   values : Seq(Number), members : Seq(Sample)]

\* The values of the samples a bucket has taken.
ValuesOf(b) == [i \in DOMAIN b.members |-> b.members[i].value]

\* The samples of a bucket are all of its series and of its interval.
OfInterval(b) ==
  \A i \in DOMAIN b.members :
    b.members[i].series = b.series /\ BucketStart(b.members[i]) = b.start

\* The sum is that of the samples, and NaN with the first NaN.
SumExact(b) ==
  LET v == ValuesOf(b) IN
  /\ \A i \in DOMAIN v : v[i] = NaN => b.sum = NaN
  /\ (\A i \in DOMAIN v : v[i] # NaN) => b.sum \in Int /\ b.sum = SumFunctionOnSet(v, DOMAIN v)

\* The extremes are those of the numbers among the samples, if the first is a number.
ExtremesExact(b) ==
  LET v == ValuesOf(b) IN
  b.members # <<>> /\ v[1] # NaN =>
    /\ b.max \in Int /\ b.min \in Int
    /\ \A i \in DOMAIN v : v[i] # NaN => v[i] <= b.max /\ b.min <= v[i]
    /\ \E i \in DOMAIN v : v[i] = b.max
    /\ \E i \in DOMAIN v : v[i] = b.min

\* The values kept are the first of the samples, as many as there is room for.
ValuesExact(b) ==
  /\ Len(b.values) = IF b.count <= PCap THEN b.count ELSE PCap
  /\ \A i \in DOMAIN b.values : b.values[i] = ValuesOf(b)[i]

\* The accumulators of a bucket are those of the samples it has taken.
Exact(b) ==
  /\ b.count = Len(b.members)
  /\ OfInterval(b)
  /\ SumExact(b)
  /\ ExtremesExact(b)
  /\ ValuesExact(b)

\* Every open bucket is exact, and is that of its series.
AggInv ==
  \A g \in Gens, k \in Series :
    open[g][k] # NoBucket => open[g][k].series = k /\ Exact(open[g][k])

\* What add does to a bucket, field by field.
LEMMA AddFields ==
  ASSUME NEW b \in RawBucket, NEW s \in Sample, NEW c, c = Add(b, s)
  PROVE  /\ c.members = Append(b.members, s) /\ c.series = b.series /\ c.start = b.start
         /\ c.count = b.count + 1 /\ c.sum = Plus(b.sum, s.value)
         /\ c.max = IF b.count = 0 \/ Above(s.value, b.max) THEN s.value ELSE b.max
         /\ c.min = IF b.count = 0 \/ Above(b.min, s.value) THEN s.value ELSE b.min
         /\ c.values = IF Len(b.values) < PCap THEN Append(b.values, s.value) ELSE b.values
  BY DEF Add, RawBucket

\* The samples of the bucket and their values: one more, at the end.
LEMMA AddMembers ==
  ASSUME NEW b \in RawBucket, NEW s \in Sample, NEW c, c = Add(b, s),
         NEW n \in Nat, n = Len(b.members)
  PROVE  /\ DOMAIN b.members = 1..n /\ DOMAIN c.members = 1..(n + 1) /\ Len(c.members) = n + 1
         /\ c.members[n + 1] = s /\ \A i \in 1..n : c.members[i] = b.members[i]
         /\ DOMAIN ValuesOf(b) = 1..n /\ DOMAIN ValuesOf(c) = 1..(n + 1)
         /\ ValuesOf(c)[n + 1] = s.value
         /\ \A i \in 1..n : ValuesOf(c)[i] = ValuesOf(b)[i]
         /\ \A i \in 1..n : ValuesOf(b)[i] \in Number
         /\ s.value \in Number
<1>1. b.members \in Seq(Sample)
  BY DEF RawBucket
<1>2. c.members = Append(b.members, s)
  BY AddFields
<1>3. /\ DOMAIN b.members = 1..n /\ DOMAIN c.members = 1..(n + 1) /\ Len(c.members) = n + 1
      /\ c.members[n + 1] = s /\ \A i \in 1..n : c.members[i] = b.members[i]
  BY <1>1, <1>2
<1>4. n + 1 \in 1..(n + 1) /\ \A i \in 1..n : i \in 1..(n + 1) /\ b.members[i] \in Sample
  BY <1>1, <1>3
<1>5. \A x \in Sample : x.value \in Number
  BY DEF Sample, Number
<1> QED
  BY <1>3, <1>4, <1>5 DEF ValuesOf

\* A sample of the bucket's series and interval is taken into it.
LEMMA AddOfInterval ==
  ASSUME NEW b \in RawBucket, OfInterval(b), NEW s \in Sample, s.series = b.series,
         BucketStart(s) = b.start
  PROVE  OfInterval(Add(b, s))
<1>1. PICK c : c = Add(b, s)
  OBVIOUS
<1>2. PICK n \in Nat : n = Len(b.members)
  BY DEF RawBucket
<1>3. /\ DOMAIN b.members = 1..n /\ DOMAIN c.members = 1..(n + 1)
      /\ c.members[n + 1] = s /\ \A i \in 1..n : c.members[i] = b.members[i]
  BY <1>1, <1>2, AddMembers
<1>4. c.series = b.series /\ c.start = b.start
  BY <1>1, AddFields
<1>5. \A i \in 1..(n + 1) : i # n + 1 => i \in 1..n
  OBVIOUS
<1>6. OfInterval(c)
  BY <1>3, <1>4, <1>5 DEF OfInterval
<1> QED
  BY <1>1, <1>6

\* The sum goes on.
LEMMA AddSum ==
  ASSUME NEW b \in RawBucket, SumExact(b), NEW s \in Sample
  PROVE  SumExact(Add(b, s))
<1>1. PICK c : c = Add(b, s)
  OBVIOUS
<1>2. PICK n \in Nat : n = Len(b.members)
  BY DEF RawBucket
<1>3. PICK v : v = ValuesOf(b)
  OBVIOUS
<1>4. PICK w : w = ValuesOf(c)
  OBVIOUS
<1>5. /\ DOMAIN v = 1..n /\ DOMAIN w = 1..(n + 1) /\ w[n + 1] = s.value
      /\ \A i \in 1..n : w[i] = v[i] /\ v[i] \in Number
      /\ s.value \in Number
  BY <1>1, <1>2, <1>3, <1>4, AddMembers
<1>6. c.sum = IF NaN \in {b.sum, s.value} THEN NaN ELSE b.sum + s.value
  BY <1>1, AddFields DEF Plus
<1>7. \A i \in 1..(n + 1) : i # n + 1 => i \in 1..n
  OBVIOUS
<1>8. n + 1 \in 1..(n + 1) /\ \A i \in 1..n : i \in 1..(n + 1)
  OBVIOUS
<1>9. /\ \A i \in 1..n : v[i] = NaN => b.sum = NaN
      /\ (\A i \in 1..n : v[i] # NaN) => b.sum \in Int /\ b.sum = SumFunctionOnSet(v, 1..n)
  BY <1>3, <1>5 DEF SumExact
<1>10. ASSUME NEW i \in 1..(n + 1), w[i] = NaN PROVE c.sum = NaN
  BY <1>5, <1>6, <1>7, <1>9, <1>10
<1>11. ASSUME \A i \in 1..(n + 1) : w[i] # NaN
       PROVE  c.sum \in Int /\ c.sum = SumFunctionOnSet(w, 1..(n + 1))
  <2>1. \A i \in 1..n : v[i] # NaN
    BY <1>5, <1>8, <1>11
  <2>2. b.sum \in Int /\ b.sum = SumFunctionOnSet(v, 1..n)
    BY <1>9, <2>1
  <2>3. s.value \in Int /\ \A i \in 1..(n + 1) : w[i] \in Int
    BY <1>5, <1>7, <1>8, <1>11 DEF Number
  <2>4. c.sum = b.sum + s.value
    BY <1>6, <2>2, <2>3, StagesAssumption
  <2>5. IsFiniteSet(1..(n + 1)) /\ IsFiniteSet(1..n)
    <3>1. 1 \in Int /\ n \in Int /\ n + 1 \in Int
      OBVIOUS
    <3>2. IsFiniteSet(1..n)
      BY <3>1, FS_Interval
    <3>3. \A m \in Int : IsFiniteSet(1..m)
      BY <3>1, FS_Interval
    <3> QED
      BY <3>1, <3>2, <3>3
  <2>6. SumFunctionOnSet(w, 1..(n + 1)) = w[n + 1] + SumFunctionOnSet(w, (1..(n + 1)) \ {n + 1})
    BY <1>8, <2>3, <2>5, SumRemove
  <2>7. (1..(n + 1)) \ {n + 1} = 1..n
    OBVIOUS
  <2>8. SumFunctionOnSet(w, 1..n) = SumFunctionOnSet(v, 1..n)
    <3>1. IsFiniteSet(1..n) /\ \A i \in 1..n : w[i] = v[i]
      BY <1>5, <2>5
    <3> QED
      BY <3>1, SumEqual, Zenon
  <2>9. SumFunctionOnSet(w, 1..(n + 1)) = s.value + b.sum
    BY <1>5, <2>2, <2>6, <2>7, <2>8
  <2> QED
    BY <2>2, <2>3, <2>4, <2>9
<1>12. SumExact(c)
  BY <1>4, <1>5, <1>10, <1>11 DEF SumExact
<1> QED
  BY <1>1, <1>12

\* A value moves an extreme if it is beyond it, and a NaN moves none.
LEMMA AddExtremes ==
  ASSUME NEW b \in RawBucket, b.count = Len(b.members), ExtremesExact(b), NEW s \in Sample
  PROVE  ExtremesExact(Add(b, s))
<1>1. PICK c : c = Add(b, s)
  OBVIOUS
<1>2. PICK n \in Nat : n = Len(b.members)
  BY DEF RawBucket
<1>3. PICK v : v = ValuesOf(b)
  OBVIOUS
<1>4. PICK w : w = ValuesOf(c)
  OBVIOUS
<1>5. /\ DOMAIN v = 1..n /\ DOMAIN w = 1..(n + 1) /\ w[n + 1] = s.value
      /\ \A i \in 1..n : w[i] = v[i] /\ v[i] \in Number
      /\ s.value \in Number
  BY <1>1, <1>2, <1>3, <1>4, AddMembers
<1>6. /\ c.max = IF n = 0 \/ Above(s.value, b.max) THEN s.value ELSE b.max
      /\ c.min = IF n = 0 \/ Above(b.min, s.value) THEN s.value ELSE b.min
  BY <1>1, <1>2, AddFields
<1>7. \A i \in 1..(n + 1) : i # n + 1 => i \in 1..n
  OBVIOUS
<1>8. n + 1 \in 1..(n + 1) /\ \A i \in 1..n : i \in 1..(n + 1)
  OBVIOUS
<1> DEFINE Bounds == /\ c.max \in Int /\ c.min \in Int
                     /\ \A i \in 1..(n + 1) : w[i] # NaN => w[i] <= c.max /\ c.min <= w[i]
                     /\ \E i \in 1..(n + 1) : w[i] = c.max
                     /\ \E i \in 1..(n + 1) : w[i] = c.min
<1>9. ASSUME n = 0, w[1] # NaN PROVE Bounds
  <2>1. 1..(n + 1) = {1} /\ n + 1 = 1
    BY <1>9
  <2>2. w[1] = s.value /\ s.value \in Int
    BY <1>5, <1>9, <2>1 DEF Number
  <2>3. c.max = w[1] /\ c.min = w[1]
    BY <1>6, <1>9, <2>2
  <2> QED
    BY <2>1, <2>2, <2>3
<1>10. ASSUME n # 0, w[1] # NaN PROVE Bounds
  <2>1. 1 \in 1..n /\ v[1] # NaN /\ b.members # <<>>
    BY <1>2, <1>5, <1>10
  <2>2. /\ b.max \in Int /\ b.min \in Int
        /\ \A i \in 1..n : v[i] # NaN => v[i] <= b.max /\ b.min <= v[i]
    BY <1>3, <1>5, <2>1 DEF ExtremesExact
  <2>3. PICK i \in 1..n : v[i] = b.max
    BY <1>3, <1>5, <2>1 DEF ExtremesExact
  <2>4. PICK j \in 1..n : v[j] = b.min
    BY <1>3, <1>5, <2>1 DEF ExtremesExact
  <2>5. b.max # NaN /\ b.min # NaN
    BY <2>2, StagesAssumption
  <2>6. CASE s.value = NaN
    <3>1. c.max = b.max /\ c.min = b.min
      BY <1>6, <1>10, <2>6 DEF Above
    <3> QED
      BY <1>5, <1>7, <1>8, <2>2, <2>3, <2>4, <2>6, <3>1
  <2>7. CASE s.value # NaN
    <3>1. s.value \in Int
      BY <1>5, <2>7 DEF Number
    <3>2. /\ c.max = IF s.value > b.max THEN s.value ELSE b.max
          /\ c.min = IF b.min > s.value THEN s.value ELSE b.min
      BY <1>6, <1>10, <2>5, <2>7 DEF Above
    <3>3. c.max \in Int /\ c.min \in Int
      BY <2>2, <3>1, <3>2
    <3>4. /\ s.value <= c.max /\ c.min <= s.value
          /\ b.max <= c.max /\ c.min <= b.min
      BY <2>2, <3>1, <3>2
    <3>5. ASSUME NEW m \in 1..(n + 1), w[m] # NaN PROVE w[m] <= c.max /\ c.min <= w[m]
      <4>1. CASE m = n + 1
        BY <1>5, <3>4, <4>1
      <4>2. CASE m # n + 1
        <5>1. m \in 1..n /\ w[m] = v[m] /\ v[m] \in Int
          BY <1>5, <1>7, <3>5, <4>2 DEF Number
        <5>2. v[m] <= b.max /\ b.min <= v[m]
          BY <2>2, <3>5, <5>1
        <5>3. PICK x \in Int : x = v[m]
          BY <5>1
        <5>4. x <= c.max /\ c.min <= x
          BY <2>2, <3>3, <3>4, <5>2, <5>3
        <5> QED
          BY <5>1, <5>3, <5>4
      <4> QED
        BY <4>1, <4>2
    <3>6. \E m \in 1..(n + 1) : w[m] = c.max
      BY <1>5, <1>8, <2>3, <3>2
    <3>7. \E m \in 1..(n + 1) : w[m] = c.min
      BY <1>5, <1>8, <2>4, <3>2
    <3> QED
      BY <3>3, <3>5, <3>6, <3>7
  <2> QED
    BY <2>6, <2>7
<1>11. w[1] # NaN => Bounds
  BY <1>9, <1>10
<1>12. ExtremesExact(c)
  BY <1>4, <1>5, <1>11 DEF ExtremesExact
<1> QED
  BY <1>1, <1>12

\* The value is kept while there is room.
LEMMA AddValues ==
  ASSUME NEW b \in RawBucket, b.count = Len(b.members), ValuesExact(b), NEW s \in Sample
  PROVE  ValuesExact(Add(b, s))
<1>1. PICK c : c = Add(b, s)
  OBVIOUS
<1>2. PICK n \in Nat : n = Len(b.members)
  BY DEF RawBucket
<1>3. PICK v : v = ValuesOf(b)
  OBVIOUS
<1>4. PICK w : w = ValuesOf(c)
  OBVIOUS
<1>5. /\ DOMAIN v = 1..n /\ DOMAIN w = 1..(n + 1) /\ w[n + 1] = s.value
      /\ \A i \in 1..n : w[i] = v[i] /\ v[i] \in Number
      /\ s.value \in Number
  BY <1>1, <1>2, <1>3, <1>4, AddMembers
<1>6. /\ c.count = n + 1
      /\ c.values = IF Len(b.values) < PCap THEN Append(b.values, s.value) ELSE b.values
  BY <1>1, <1>2, AddFields
<1>7. PCap \in Nat \ {0} /\ b.values \in Seq(Number)
  BY StagesAssumption DEF RawBucket
<1>8. /\ Len(b.values) = IF n <= PCap THEN n ELSE PCap
      /\ \A i \in DOMAIN b.values : b.values[i] = v[i]
  BY <1>2, <1>3 DEF ValuesExact
<1>9. \A i \in 1..(n + 1) : i # n + 1 => i \in 1..n
  OBVIOUS
<1>10. /\ Len(c.values) = IF n + 1 <= PCap THEN n + 1 ELSE PCap
       /\ \A i \in DOMAIN c.values : c.values[i] = w[i]
  <2>1. CASE n < PCap
    <3>1. Len(b.values) = n /\ Len(b.values) < PCap
      BY <1>7, <1>8, <2>1
    <3>2. c.values = Append(b.values, s.value)
      BY <1>6, <3>1
    <3>3. /\ Len(c.values) = n + 1 /\ DOMAIN c.values = 1..(n + 1) /\ c.values[n + 1] = s.value
          /\ \A i \in 1..n : c.values[i] = b.values[i]
      BY <1>5, <1>7, <3>1, <3>2
    <3>4. DOMAIN b.values = 1..n
      BY <1>7, <3>1
    <3>5. \A i \in 1..(n + 1) : c.values[i] = w[i]
      BY <1>5, <1>8, <1>9, <3>3, <3>4
    <3>6. n + 1 <= PCap
      BY <1>7, <2>1
    <3> QED
      BY <3>3, <3>5, <3>6
  <2>2. CASE ~(n < PCap)
    <3>1. Len(b.values) = PCap /\ ~(Len(b.values) < PCap) /\ ~(n + 1 <= PCap) /\ PCap \in 0..n
      BY <1>7, <1>8, <2>2
    <3>2. c.values = b.values
      BY <1>6, <3>1
    <3>3. \A i \in DOMAIN b.values : i \in 1..n
      BY <1>7, <3>1
    <3> QED
      BY <1>5, <1>8, <3>1, <3>2, <3>3
  <2> QED
    BY <2>1, <2>2
<1>11. ValuesExact(c)
  BY <1>4, <1>6, <1>10 DEF ValuesExact
<1> QED
  BY <1>1, <1>11

\* A bucket that takes a sample of its series and interval stays exact.
LEMMA AddExact ==
  ASSUME NEW b \in RawBucket, Exact(b), NEW s \in Sample, s.series = b.series,
         BucketStart(s) = b.start
  PROVE  Exact(Add(b, s))
<1>1. PICK c : c = Add(b, s)
  OBVIOUS
<1>2. PICK n \in Nat : n = Len(b.members)
  BY DEF RawBucket
<1>3. b.count = n /\ c.count = b.count + 1 /\ Len(c.members) = n + 1
  BY <1>1, <1>2, AddFields, AddMembers DEF Exact
<1>4. OfInterval(c) /\ SumExact(c)
  BY <1>1, AddOfInterval, AddSum DEF Exact
<1>5. ExtremesExact(c) /\ ValuesExact(c)
  BY <1>1, AddExtremes, AddValues DEF Exact
<1>6. Exact(c)
  BY <1>3, <1>4, <1>5 DEF Exact
<1> QED
  BY <1>1, <1>6

\* So does one opened for a sample: it goes through add.
LEMMA NewBucketExact ==
  ASSUME NEW s \in Sample
  PROVE  Exact(NewBucket(s)) /\ NewBucket(s).series = s.series /\ NewBucket(s) # NoBucket
<1> DEFINE b == [series |-> s.series, start |-> BucketStart(s), sum |-> 0, count |-> 0,
                 max |-> 0, min |-> 0, values |-> <<>>, members |-> <<>>]
<1>1. b \in RawBucket
  BY BucketStartType DEF Sample, RawBucket, Number
<1>2. b.series = s.series /\ b.start = BucketStart(s)
  OBVIOUS
<1>3. Exact(b)
  <2>1. DOMAIN ValuesOf(b) = {}
    BY DEF ValuesOf
  <2>2. SumFunctionOnSet(ValuesOf(b), {}) = 0
    BY SumEmpty
  <2>3. /\ b.count = 0 /\ b.members = <<>> /\ b.sum = 0 /\ Len(b.values) = 0
        /\ DOMAIN b.values = {} /\ DOMAIN b.members = {} /\ Len(b.members) = 0
    OBVIOUS
  <2>4. 0 <= PCap
    BY StagesAssumption
  <2> HIDE DEF b
  <2>5. SumExact(b)
    BY <2>1, <2>2, <2>3 DEF SumExact
  <2>6. OfInterval(b) /\ ExtremesExact(b) /\ ValuesExact(b)
    BY <2>3, <2>4 DEF OfInterval, ExtremesExact, ValuesExact
  <2> QED
    BY <2>3, <2>5, <2>6 DEF Exact
<1>4. Add(b, s).series = b.series
  BY <1>1 DEF Add, RawBucket
<1> HIDE DEF b
<1>5. Exact(Add(b, s))
  BY <1>1, <1>2, <1>3, AddExact
<1> QED
  BY <1>2, <1>4, <1>5, StartKept DEF NewBucket, b

\* A sample is added to the bucket of its interval, or opens one of its own.
LEMMA IngestedExact ==
  ASSUME StagesTypeOK, AggInv, NEW g \in Gens, NEW s \in Sample, s.series \in Scope,
         Ingested(g, s)
  PROVE  AggInv'
<1> DEFINE k == s.series
           b == open[g][k]
<1>1. k \in Series
  BY DEF Sample
<1>2. b \in Bucket \cup {NoBucket}
  BY <1>1 DEF StagesTypeOK
<1>3. ASSUME NEW x \in Gens, NEW y \in Series, x # g \/ y # k
      PROVE  open'[x][y] = open[x][y]
  BY <1>3 DEF Ingested, StagesTypeOK
<1>4. PICK c : c = open'[g][k]
  OBVIOUS
<1>5. c # NoBucket => c.series = k /\ Exact(c)
  <2>1. b # NoBucket => b.series = k /\ Exact(b)
    BY <1>1 DEF AggInv
  <2>2. CASE Full(g, s)
    <3>1. c = b
      BY <1>4, <2>2 DEF Ingested
    <3> QED
      BY <2>1, <3>1
  <2>3. CASE ~Full(g, s)
    <3>1. c = IF b = NoBucket \/ Closes(g, s) THEN NewBucket(s) ELSE Add(b, s)
      BY <1>1, <1>4, <2>3 DEF Ingested, StagesTypeOK
    <3>2. CASE b = NoBucket \/ Closes(g, s)
      BY <1>1, <3>1, <3>2, NewBucketExact
    <3>3. CASE ~(b = NoBucket \/ Closes(g, s))
      <4>1. b # NoBucket /\ b.start = BucketStart(s)
        BY <3>3 DEF Closes
      <4>2. b \in RawBucket
        BY <1>2, <4>1 DEF Bucket, RawBucket, Number
      <4>3. Add(b, s).series = b.series
        BY <4>2 DEF Add, RawBucket
      <4> HIDE DEF b
      <4>4. Exact(Add(b, s))
        BY <1>1, <2>1, <4>1, <4>2, AddExact
      <4> QED
        BY <2>1, <3>1, <3>3, <4>1, <4>3, <4>4
    <3> QED
      BY <3>2, <3>3
  <2> QED
    BY <2>2, <2>3
<1>6. ASSUME NEW x \in Gens, NEW y \in Series, NEW d, d = open'[x][y], d # NoBucket
      PROVE  d.series = y /\ Exact(d)
  <2>1. CASE x = g /\ y = k
    BY <1>4, <1>5, <1>6, <2>1
  <2>2. CASE x # g \/ y # k
    BY <1>3, <1>6, <2>2 DEF AggInv
  <2> QED
    BY <2>1, <2>2
<1>7. ASSUME NEW x \in Gens, NEW y \in Series, open'[x][y] # NoBucket
      PROVE  open'[x][y].series = y /\ Exact(open'[x][y])
  <2>1. PICK d : d = open'[x][y]
    OBVIOUS
  <2>2. d.series = y /\ Exact(d)
    BY <1>6, <1>7, <2>1
  <2>3. open'[x][y].series = y /\ Exact(open'[x][y])
    BY <2>1, <2>2, Zenon
  <2> QED
    BY <2>3
<1> QED
  BY <1>7 DEF AggInv

\* What leaves the samples alone keeps the invariant.
LEMMA ElsewhereExact == ASSUME AggInv, UNCHANGED sampleVars PROVE AggInv'
  BY DEF AggInv, sampleVars

\* At first nothing is open.
LEMMA InitExact == Init => AggInv
  BY DEF Init, StagesInit, AggInv

\* Every open bucket is exact, in every state.
THEOREM AggInvariant == Spec => []AggInv
<1>1. AggInv /\ TypeOK /\ [Next]_vars => AggInv'
  <2> SUFFICES ASSUME AggInv, TypeOK, [Next]_vars PROVE AggInv'
    OBVIOUS
  <2>1. CASE UNCHANGED vars \/ Swap \/ Idle \/ Reload
    BY <2>1, ElsewhereExact DEF vars, stageVars, Swap, Idle, Reload
  <2>2. ASSUME NEW h \in Handlers, Receiving(h) \/ Allowed(h) \/ Dispatch(h) PROVE AggInv'
    BY <2>2, ElsewhereExact DEF stageVars, Receiving, Allowed, Dispatch
  <2>3. ASSUME NEW h \in Handlers, StageSample(h) PROVE AggInv'
    <3>1. CASE UNCHANGED sampleVars
      BY <3>1, ElsewhereExact
    <3>2. CASE Head(request[h].in).series \in Scope /\ Ingested(request[h].gen, Head(request[h].in))
      BY <2>3, <3>2, SampleType, IngestedExact DEF TypeOK
    <3> QED
      BY <2>3, <3>1, <3>2 DEF StageSample, stageVars
  <2> QED
    BY <2>1, <2>2, <2>3 DEF Next
<1> QED
  BY <1>1, InitExact, TypeCorrect, PTL DEF Spec

\* A bound of a set of integers that belongs to it is its maximum, or its minimum.
LEMMA Extremes ==
  ASSUME NEW S \in SUBSET Int, NEW m \in S
  PROVE  /\ (\A y \in S : y <= m) => Max(S) = m
         /\ (\A y \in S : m <= y) => Min(S) = m
<1>1. ASSUME \A y \in S : y <= m PROVE Max(S) = m
  <2>1. \A x \in S : (\A y \in S : x >= y) => x = m
    BY <1>1
  <2>2. \A y \in S : m >= y
    BY <1>1
  <2> QED
    BY <2>1, <2>2 DEF Max
<1>2. ASSUME \A y \in S : m <= y PROVE Min(S) = m
  <2>1. \A x \in S : (\A y \in S : x <= y) => x = m
    BY <1>2
  <2> QED
    BY <1>2, <2>1 DEF Min
<1> QED
  BY <1>1, <1>2

\* The second of a sample lies in the interval of its bucket, on its side of the epoch.
LEMMA InInterval ==
  ASSUME NEW s \in Sample
  PROVE  Within(BucketStart(s), Seconds(s))
<1>1. Interval \in Nat
  BY StagesAssumption
<1>2. PICK sec \in Int : sec = Seconds(s)
  BY BucketStartType
<1>3. CASE Interval = 0
  <2>1. {Interval - 1, 0} \in SUBSET Int /\ 0 \in {Interval - 1, 0}
        /\ \A y \in {Interval - 1, 0} : y <= 0
    BY <1>3
  <2>2. Max({Interval - 1, 0}) = 0
    BY <2>1, Extremes
  <2>3. BucketStart(s) = sec /\ sec - sec = 0 /\ 0 \in 0..0
    BY <1>2, <1>3 DEF BucketStart
  <2> QED
    BY <1>2, <2>2, <2>3 DEF Within
<1>4. CASE Interval # 0
  <2>1. {Interval - 1, 0} \in SUBSET Int /\ Interval - 1 \in {Interval - 1, 0}
        /\ \A y \in {Interval - 1, 0} : y <= Interval - 1
    BY <1>1, <1>4
  <2>2. Max({Interval - 1, 0}) = Interval - 1
    BY <2>1, Extremes
  <2>3. BucketStart(s) = Quotient(sec, Interval) * Interval
    BY <1>2, <1>4 DEF BucketStart
  <2>4. \A m \in Nat : m - (m \div Interval) * Interval \in 0..(Interval - 1)
    BY <1>1, <1>4
  <2>5. CASE sec >= 0
    <3>1. sec \in Nat
      BY <2>5
    <3>2. sec - (sec \div Interval) * Interval \in 0..(Interval - 1)
      BY <2>4, <3>1
    <3> QED
      BY <1>2, <2>2, <2>3, <2>5, <3>2 DEF Within, Quotient
  <2>6. CASE ~(sec >= 0)
    <3>1. PICK m \in Nat : m = -sec
      BY <2>6
    <3>2. m - (m \div Interval) * Interval \in 0..(Interval - 1)
      BY <2>4, <3>1
    <3>3. PICK q \in Int : q = m \div Interval
      BY <1>1, <1>4
    <3>4. BucketStart(s) = (-q) * Interval
      BY <2>3, <2>6, <3>1, <3>3 DEF Quotient
    <3>5. (-q) * Interval - sec = m - q * Interval
      BY <1>1, <3>1
    <3> QED
      BY <1>2, <2>2, <2>6, <3>2, <3>3, <3>4, <3>5 DEF Within
  <2> QED
    BY <2>5, <2>6
<1> QED
  BY <1>3, <1>4

\* Every bucket that will be emitted is the aggregate of the samples of one series and
\* one interval that were let in, each counted once, numbers and NaN, before the epoch and
\* after it, whatever requests and swaps come in between (downsample.go:93-115, 205-266).
THEOREM BucketsExact == Spec => []AggregatesExact
<1>1. AggInv /\ TypeOK => AggregatesExact
  <2> SUFFICES ASSUME AggInv, TypeOK PROVE AggregatesExact
    OBVIOUS
  <2> SUFFICES ASSUME NEW g \in Gens, NEW k \in Series, open[g][k] # NoBucket
               PROVE  LET b == open[g][k]
                          v == [i \in DOMAIN b.members |-> b.members[i].value]
                          numbers == ToSet(v) \ {NaN}
                      IN
                      /\ \A i \in DOMAIN b.members :
                           /\ b.members[i].series = k
                           /\ Within(b.start, Seconds(b.members[i]))
                      /\ b.count = Len(v)
                      /\ b.sum = IF NaN \in ToSet(v) THEN NaN
                                 ELSE SumFunctionOnSet(v, DOMAIN v)
                      /\ v[1] # NaN => b.max = Max(numbers) /\ b.min = Min(numbers)
                      /\ Len(b.values) <= PCap /\ (b.count <= PCap => b.values = v)
    BY Zenon DEF AggregatesExact
  <2> DEFINE b == open[g][k]
             v == [i \in DOMAIN b.members |-> b.members[i].value]
             numbers == ToSet(v) \ {NaN}
  <2>0. b = open[g][k] /\ b # NoBucket /\ v = ValuesOf(b)
    BY DEF ValuesOf
  <2>1. DOMAIN v = DOMAIN b.members /\ \A i \in DOMAIN v : v[i] = b.members[i].value
    OBVIOUS
  <2>2. v = [i \in DOMAIN v |-> v[i]]
    OBVIOUS
  <2> HIDE DEF b, v
  <2>3. b \in Bucket
    BY <2>0 DEF TypeOK, StagesTypeOK
  <2>4. /\ b.members \in Seq(Sample) /\ b.count \in Nat \ {0} /\ b.values \in Seq(Number)
    BY <2>3 DEF Bucket, Number
  <2>5. b.series = k /\ Exact(b)
    BY <2>0 DEF AggInv
  <2>6. PICK m \in Nat : m = Len(b.members)
    BY <2>4
  <2>7. m = b.count /\ m # 0 /\ DOMAIN v = 1..m /\ b.members # <<>> /\ 1 \in 1..m
    BY <2>1, <2>4, <2>5, <2>6 DEF Exact
  <2>8. \A i \in 1..m : b.members[i] \in Sample /\ v[i] \in Number
    <3>1. \A x \in Sample : x.value \in Number
      BY DEF Sample, Number
    <3>2. \A i \in 1..m : b.members[i] \in Sample
      BY <2>4, <2>6
    <3>3. \A i \in 1..m : v[i] = b.members[i].value
      BY <2>1, <2>7
    <3> QED
      BY <3>1, <3>2, <3>3
  <2>9. v \in Seq(Number) /\ Len(v) = m
    <3>1. v \in [1..m -> Number]
      BY <2>2, <2>7, <2>8
    <3> QED
      BY <3>1
  <2>10. ASSUME NEW i \in DOMAIN b.members
         PROVE  b.members[i].series = k /\ Within(b.start, Seconds(b.members[i]))
    <3>1. b.members[i] \in Sample
      BY <2>1, <2>7, <2>8
    <3>2. b.members[i].series = k /\ BucketStart(b.members[i]) = b.start
      BY <2>5 DEF Exact, OfInterval
    <3>3. PICK e \in Sample : e = b.members[i]
      BY <3>1
    <3>4. Within(BucketStart(e), Seconds(e))
      BY InInterval
    <3> QED
      BY <3>2, <3>3, <3>4, Zenon
  <2>11. b.sum = IF NaN \in ToSet(v) THEN NaN ELSE SumFunctionOnSet(v, DOMAIN v)
    <3>1. /\ \A i \in DOMAIN v : v[i] = NaN => b.sum = NaN
          /\ (\A i \in DOMAIN v : v[i] # NaN) => b.sum = SumFunctionOnSet(v, DOMAIN v)
      BY <2>0, <2>5 DEF Exact, SumExact
    <3>2. NaN \in ToSet(v) <=> \E i \in DOMAIN v : v[i] = NaN
      BY DEF ToSet
    <3> QED
      BY <3>1, <3>2
  <2>12. ASSUME v[1] # NaN PROVE b.max = Max(numbers) /\ b.min = Min(numbers)
    <3>1. /\ b.max \in Int /\ b.min \in Int
          /\ \A i \in DOMAIN v : v[i] # NaN => v[i] <= b.max /\ b.min <= v[i]
          /\ \E i \in DOMAIN v : v[i] = b.max
          /\ \E i \in DOMAIN v : v[i] = b.min
      BY <2>0, <2>5, <2>7, <2>12 DEF Exact, ExtremesExact
    <3>2. b.max # NaN /\ b.min # NaN
      BY <3>1, StagesAssumption
    <3>3. numbers \in SUBSET Int
      BY <2>7, <2>8 DEF ToSet, Number
    <3>4. b.max \in numbers /\ b.min \in numbers
      BY <3>1, <3>2 DEF ToSet
    <3>5. \A y \in numbers : y <= b.max /\ b.min <= y
      BY <3>1 DEF ToSet
    <3> HIDE DEF numbers
    <3> QED
      BY <3>3, <3>4, <3>5, Extremes
  <2>13. Len(b.values) <= PCap /\ (b.count <= PCap => b.values = v)
    <3>1. PCap \in Nat /\ Len(b.values) = IF m <= PCap THEN m ELSE PCap
      BY <2>5, <2>7, StagesAssumption DEF Exact, ValuesExact
    <3>2. \A i \in DOMAIN b.values : b.values[i] = v[i]
      BY <2>0, <2>5 DEF Exact, ValuesExact
    <3>3. ASSUME m <= PCap PROVE b.values = v
      <4>1. b.values \in [1..m -> Number] /\ v \in [1..m -> Number]
        BY <2>4, <2>9, <3>1, <3>3
      <4> QED
        BY <3>2, <4>1
    <3> QED
      BY <2>7, <3>1, <3>3
  <2>14. b.count = Len(v)
    BY <2>7, <2>9
  <2> QED
    BY <2>10, <2>11, <2>12, <2>13, <2>14, Zenon DEF b, v
<1> QED
  BY <1>1, AggInvariant, TypeCorrect, PTL
=============================================================================
