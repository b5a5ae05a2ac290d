--------------------------- MODULE StatefulStages ---------------------------
(***************************************************************************)
(* The two stages that remember samples (internal/ruleengine/deadvalue.go, *)
(* downsample.go).  Their state belongs to the compiled rule set: a new    *)
(* one starts empty, requests that run the old one keep its state, and one *)
(* that is installed again has it back.                                    *)
(* Every sample is one critical section of the stage's mutex.              *)
(*                                                                         *)
(* A sample is its series, value and timestamp in milliseconds.  The LRU's *)
(* list and map are one sequence, most recently used first.  A value is a  *)
(* number or NaN, which the stale markers of Prometheus are.  Of the       *)
(* aggregations avg is the quotient of two accumulators and p50, p99 are   *)
(* functions of the values kept: those accumulators are modelled, the      *)
(* arithmetic on them when a bucket is emitted is not.                     *)
(***************************************************************************)
EXTENDS Integers, Sequences, FiniteSets, FiniteSetsExt, SequencesExt

CONSTANTS
  Series,     \* series keys
  NaN,        \* a value that equals none, not even itself
  Second,     \* milliseconds in a second
  Window,     \* deadvalue: window, 0 for none
  LruCap,     \* deadvalue: max_series
  DeadScope,  \* deadvalue: the series its scope.metric_regex matches
  Interval,   \* downsample: whole seconds in the interval, 0 if it is shorter
  Scope,      \* downsample: the series its scope.metric_regex matches
  MaxSeries,  \* downsample: max_series
  PCap,       \* downsample: p99_max_samples
  Aggs,       \* downsample: aggregations, in order
  Generations \* bound: compiled rule sets, numbered

ASSUME StagesAssumption ==
  /\ NaN \notin Int
  /\ Scope \subseteq Series /\ DeadScope \subseteq Series
  /\ {Second, LruCap, MaxSeries, PCap, Generations} \subseteq Nat \ {0}
  /\ {Window, Interval} \subseteq Nat
  /\ Aggs \in Seq({"sum", "count", "max", "min"}) /\ Aggs # <<>>

VARIABLES
  lru,      \* generation -> the deadvalue stage's entries
  recency,  \* history: generation -> every series checked, the last one first
  kept,     \* history: generation -> series -> the sample last let through
  open,     \* generation -> series -> the downsample stage's bucket
  emitted,  \* history: generation -> series -> starts of the intervals emitted
  newest,   \* history: generation -> series -> timestamp of the sample last absorbed
  late      \* history: generation -> series that had a sample after a newer one

deadVars == <<lru, recency, kept>>
sampleVars == <<open, emitted, newest, late>>
stageVars == <<deadVars, sampleVars>>

Gens == 1..Generations
Sample == [series : Series, value : Int \cup {NaN}, ts : Int]
NoSample == [series |-> "none"]
NoBucket == [count |-> 0]

StagesInit ==
  /\ lru = [g \in Gens |-> <<>>]
  /\ recency = [g \in Gens |-> <<>>]
  /\ kept = [g \in Gens |-> [k \in Series |-> NoSample]]
  /\ open = [g \in Gens |-> [k \in Series |-> NoBucket]]
  /\ emitted = [g \in Gens |-> [k \in Series |-> {}]]
  /\ newest = [g \in Gens |-> [k \in Series |-> 0]]
  /\ late = [g \in Gens |-> {}]
-----------------------------------------------------------------------------
\* deadvalueLRU: get moves the entry it finds to the front; put pushes a new one there
\* and drops the last entry if the list is full.
Known(l, k) == \E i \in DOMAIN l : l[i].series = k
Place(l, k) == CHOOSE i \in DOMAIN l : l[i].series = k
Entry(l, k) == l[Place(l, k)]

ToFront(l, n) == [i \in DOMAIN l |-> IF i = 1 THEN l[n] ELSE IF i <= n THEN l[i - 1] ELSE l[i]]
Pushed(l, x, cap) ==
  [i \in 1..(IF Len(l) < cap THEN Len(l) + 1 ELSE cap) |-> IF i = 1 THEN x ELSE l[i - 1]]

Used(l, e) ==
  IF Known(l, e.series) THEN [ToFront(l, Place(l, e.series)) EXCEPT ![1] = e]
  ELSE Pushed(l, e, LruCap)

\* The same for the history, a list without a limit.
Seen(q, k) ==
  IF k \in ToSet(q) THEN ToFront(q, CHOOSE i \in DOMAIN q : q[i] = k)
  ELSE Pushed(q, k, Len(q) + 1)

\* check: a value repeated within the window of the sample last let through is dead.
\* NaN repeats nothing.
Dead(l, s) ==
  /\ Known(l, s.series)
  /\ s.value = Entry(l, s.series).value
  /\ s.value # NaN
  /\ Window = 0 \/ s.ts - Entry(l, s.series).ts <= Window

\* Mutant: the window restarts with every sample, dead or not.
CheckedRestarts(g, s) ==
  /\ lru' = [lru EXCEPT ![g] = Used(@, s)]
  /\ recency' = [recency EXCEPT ![g] = Seen(@, s.series)]
  /\ kept' = IF Dead(lru[g], s) THEN kept ELSE [kept EXCEPT ![g][s.series] = s]

Checked(g, s) ==
  /\ lru' = [lru EXCEPT ![g] = Used(@, IF Dead(@, s) THEN Entry(@, s.series) ELSE s)]
  /\ recency' = [recency EXCEPT ![g] = Seen(@, s.series)]
  /\ kept' = IF Dead(lru[g], s) THEN kept ELSE [kept EXCEPT ![g][s.series] = s]
-----------------------------------------------------------------------------
\* Integer division, which truncates toward zero.
Quotient(a, n) == IF a >= 0 THEN a \div n ELSE -((-a) \div n)

\* Buckets are named by whole seconds.
Seconds(s) == Quotient(s.ts, Second)
BucketStart(s) ==
  IF Interval = 0 THEN Seconds(s) ELSE Quotient(Seconds(s), Interval) * Interval

\* A sum with NaN is NaN, and NaN is neither above nor below anything.
Plus(x, y) == IF NaN \in {x, y} THEN NaN ELSE x + y
Above(x, y) == NaN \notin {x, y} /\ x > y

\* dsBucket.add.  The members are a history.
Add(b, s) ==
  [b EXCEPT !.sum = Plus(@, s.value),
            !.count = @ + 1,
            !.max = IF b.count = 0 \/ Above(s.value, @) THEN s.value ELSE @,
            !.min = IF b.count = 0 \/ Above(@, s.value) THEN s.value ELSE @,
            !.values = IF Len(@) < PCap THEN Append(@, s.value) ELSE @,
            !.members = Append(@, s)]

\* newDSBucket: the first sample goes through add as well.
NewBucket(s) ==
  Add([series |-> s.series, start |-> BucketStart(s), sum |-> 0, count |-> 0,
       max |-> 0, min |-> 0, values |-> <<>>, members |-> <<>>], s)

AggregateValue(b, agg) ==
  CASE agg = "sum" -> b.sum [] agg = "count" -> b.count
    [] agg = "max" -> b.max [] agg = "min" -> b.min

\* emit: one sample for each aggregation, all of the same series, stamped with the end
\* of the bucket, which is in seconds.
Emission(b) ==
  [i \in DOMAIN Aggs |-> [series |-> b.series, value |-> AggregateValue(b, Aggs[i]),
                          ts |-> b.start + Interval]]

Closes(g, s) == open[g][s.series] # NoBucket /\ open[g][s.series].start # BucketStart(s)

\* What ingest returns.
Emits(g, s) == IF Closes(g, s) THEN Emission(open[g][s.series]) ELSE <<>>

Full(g, s) ==
  /\ open[g][s.series] = NoBucket
  /\ Cardinality({k \in Series : open[g][k] # NoBucket}) >= MaxSeries

\* Mutant: only a newer interval closes the bucket; an older sample is added to it.
IngestedLate(g, s) ==
  LET k == s.series b == open[g][k] IN
  /\ open' = IF Full(g, s) THEN open
             ELSE [open EXCEPT ![g][k] =
                     IF b = NoBucket \/ b.start < BucketStart(s) THEN NewBucket(s) ELSE Add(b, s)]
  /\ emitted' = IF Closes(g, s) THEN [emitted EXCEPT ![g][k] = @ \cup {b.start}] ELSE emitted
  /\ newest' = IF Full(g, s) THEN newest ELSE [newest EXCEPT ![g][k] = s.ts]
  /\ late' = IF b # NoBucket /\ s.ts < newest[g][k] THEN [late EXCEPT ![g] = @ \cup {k}] ELSE late

\* Mutant: a bucket is emitted but not replaced.
IngestedKeeps(g, s) ==
  LET k == s.series b == open[g][k] IN
  /\ open' = IF Full(g, s) THEN open
             ELSE [open EXCEPT ![g][k] = IF b = NoBucket THEN NewBucket(s) ELSE Add(b, s)]
  /\ emitted' = IF Closes(g, s) THEN [emitted EXCEPT ![g][k] = @ \cup {b.start}] ELSE emitted
  /\ newest' = IF Full(g, s) THEN newest ELSE [newest EXCEPT ![g][k] = s.ts]
  /\ late' = IF b # NoBucket /\ s.ts < newest[g][k] THEN [late EXCEPT ![g] = @ \cup {k}] ELSE late

\* ingest: a series beyond the limit is dropped; a sample of another interval, older or
\* newer, closes the bucket and opens its own.
Ingested(g, s) ==
  LET k == s.series b == open[g][k] IN
  /\ open' = IF Full(g, s) THEN open
             ELSE [open EXCEPT ![g][k] =
                     IF b = NoBucket \/ Closes(g, s) THEN NewBucket(s) ELSE Add(b, s)]
  /\ emitted' = IF Closes(g, s) THEN [emitted EXCEPT ![g][k] = @ \cup {b.start}] ELSE emitted
  /\ newest' = IF Full(g, s) THEN newest ELSE [newest EXCEPT ![g][k] = s.ts]
  /\ late' = IF b # NoBucket /\ s.ts < newest[g][k] THEN [late EXCEPT ![g] = @ \cup {k}] ELSE late
-----------------------------------------------------------------------------
Bucket ==
  LET number == Int \cup {NaN} IN
  [series : Series, start : Int, sum : number, count : Nat \ {0}, max : number, min : number,
   values : Seq(number), members : Seq(Sample)]

StagesTypeOK ==
  /\ lru \in [Gens -> Seq(Sample)]
  /\ recency \in [Gens -> Seq(Series)]
  /\ kept \in [Gens -> [Series -> Sample \cup {NoSample}]]
  /\ open \in [Gens -> [Series -> Bucket \cup {NoBucket}]]
  /\ emitted \in [Gens -> [Series -> SUBSET Int]]
  /\ newest \in [Gens -> [Series -> Int]]
  /\ late \in [Gens -> SUBSET Series]

\* A sample is judged by the last sample of its series that was let through, unless
\* max_series other series were seen since; then it counts as the first of its series
\* (deadvalue.go:58, :156).  The LRU holds exactly that, in any interleaving of requests.
LastLetThrough ==
  \A g \in Gens :
    lru[g] = [i \in 1..(IF Len(recency[g]) < LruCap THEN Len(recency[g]) ELSE LruCap) |->
                kept[g][recency[g][i]]]

\* The interval that is named start has the second: as many seconds as it is long from
\* its name on, and before the epoch, where the division truncates the other way, up to
\* its name.  The one named 0 has both sides (downsample.go:238).
Within(start, sec) ==
  (IF sec >= 0 THEN sec - start ELSE start - sec) \in 0..Max({Interval - 1, 0})

\* Every aggregate is that of the samples of one series and one interval, each counted
\* once, however the samples of the requests and the intervals interleave.  With a NaN
\* among them the sum is one; the extremes are those of the numbers unless the NaN came
\* first (downsample.go:94).  The percentiles see every value while p99_max_samples are
\* enough, and never more than so many (downsample.go:18).
AggregatesExact ==
  \A g \in Gens, k \in Series :
    open[g][k] # NoBucket =>
      LET b == open[g][k]
          values == [i \in DOMAIN b.members |-> b.members[i].value]
          numbers == ToSet(values) \ {NaN}
      IN
      /\ \A i \in DOMAIN b.members :
           /\ b.members[i].series = k
           /\ Within(b.start, Seconds(b.members[i]))
      /\ b.count = Len(values)
      /\ b.sum = IF NaN \in ToSet(values) THEN NaN ELSE SumFunctionOnSet(values, DOMAIN values)
      /\ values[1] # NaN => b.max = Max(numbers) /\ b.min = Min(numbers)
      /\ Len(b.values) <= PCap /\ (b.count <= PCap => b.values = values)

\* The aggregates of an interval are emitted once, unless a sample of its series came
\* later than a newer one: that closes the newer interval early and emits the older one
\* again (downsample.go:259).
IntervalOnce ==
  \A g \in Gens, k \in Series :
    k \notin late[g] /\ open[g][k] # NoBucket => open[g][k].start \notin emitted[g][k]
=============================================================================
