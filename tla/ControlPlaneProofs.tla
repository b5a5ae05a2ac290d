-------------------------- MODULE ControlPlaneProofs --------------------------
(***************************************************************************)
(* The history of rule sets keeps its index, for any capacity, any sources *)
(* and any number of administrators: a rollback gets the version it names. *)
(***************************************************************************)
EXTENDS ControlPlane, SequenceTheorems, DataLemmas, TLAPS

RuleSetType == RuleSets(MaxVersion)

\* The history's part of the invariant.  HistoryIndexed alone does not say that a
\* position is one of the buffer's.
HistoryTyped ==
  /\ buf \in Seq(RuleSetType)
  /\ idx \in [Names -> [1..MaxVersion -> 0..Capacity]]

IndexBelow == \A n \in Names, v \in 1..MaxVersion : idx[n][v] <= Len(buf)

HistoryOK == HistoryTyped /\ HistoryIndexed /\ IndexBelow

\* A position in the index is one of the buffer's, with the record it stands for.
LEMMA PositionInBuffer ==
  ASSUME HistoryOK, NEW n \in Names, NEW v \in 1..MaxVersion, idx[n][v] # 0
  PROVE  /\ idx[n][v] \in 1..Len(buf)
         /\ buf[idx[n][v]].name = n /\ buf[idx[n][v]].version = v
<1>1. idx[n] \in [1..MaxVersion -> 0..Capacity]
  BY DEF HistoryOK, HistoryTyped
<1>2. idx[n][v] \in 0..Capacity /\ Capacity \in Nat
  BY <1>1, ConfigAssumption
<1>3. idx[n][v] <= Len(buf) /\ Len(buf) \in Nat
  BY LenProperties DEF HistoryOK, HistoryTyped, IndexBelow
<1> QED
  BY <1>2, <1>3 DEF HistoryOK, HistoryIndexed

\* Saving a version that is there leaves every name and version where it was.
LEMMA OverwriteKeepsHistory ==
  ASSUME HistoryOK, NEW r \in RuleSetType, idx[r.name][r.version] # 0, Save(r)
  PROVE  HistoryOK'
<1> DEFINE pos == idx[r.name][r.version]
<1>1. r.name \in Names /\ r.version \in 1..MaxVersion
  BY DEF RuleSetType, RuleSets
<1>2. pos \in 1..Len(buf) /\ buf[pos].name = r.name /\ buf[pos].version = r.version
  BY <1>1, PositionInBuffer
<1>3. buf' = [buf EXCEPT ![pos] = r] /\ idx' = idx
  BY DEF Save
<1>4. buf' \in Seq(RuleSetType) /\ Len(buf') = Len(buf) /\ DOMAIN buf' = DOMAIN buf
  BY <1>2, <1>3, ExceptSeq DEF HistoryOK, HistoryTyped
<1>5. \A i \in DOMAIN buf : buf'[i].name = buf[i].name /\ buf'[i].version = buf[i].version
  BY <1>2, <1>3 DEF HistoryOK, HistoryTyped
<1>6. \A n \in Names, v \in 1..MaxVersion : idx[n][v] # 0 => idx[n][v] \in DOMAIN buf
  BY PositionInBuffer DEF HistoryOK, HistoryTyped
<1> QED
  BY <1>3, <1>4, <1>5, <1>6 DEF HistoryOK, HistoryTyped, HistoryIndexed, IndexBelow

\* Saving a new version moves every record by one and evicts at most the last.
LEMMA SaveNewKeepsHistory ==
  ASSUME HistoryOK, NEW r \in RuleSetType, idx[r.name][r.version] = 0, SaveNew(r)
  PROVE  HistoryOK'
<1> DEFINE len == Len(buf)
           new == IF len + 1 <= Capacity THEN len + 1 ELSE Capacity
           evicted(n, v) == len = Capacity /\ n = buf[len].name /\ v = buf[len].version
           kept == IF len = Capacity THEN Forget(idx, Last(buf)) ELSE idx
<1>1. r.name \in Names /\ r.version \in 1..MaxVersion
  BY DEF RuleSetType, RuleSets
<1>2. Capacity \in Nat \ {0} /\ len \in Nat /\ len <= Capacity
  BY ConfigAssumption, LenProperties DEF HistoryOK, HistoryTyped, HistoryIndexed
<1>3. new \in 1..Capacity /\ new <= len + 1 /\ (new # len + 1 => len = Capacity /\ new = len)
  BY <1>2
<1>4. new = Min({len + 1, Capacity})
  BY <1>2, MinOfTwo
<1>5. /\ buf' \in Seq(RuleSetType)
      /\ Len(buf') = new
      /\ buf'[1] = r
      /\ \A i \in 2..new : buf'[i] = buf[i - 1]
  <2> DEFINE all == <<r>> \o buf
  <2>1. /\ all \in Seq(RuleSetType)
        /\ Len(all) = 1 + len
        /\ \A i \in 1..(1 + len) : all[i] = IF i <= 1 THEN <<r>>[i] ELSE buf[i - 1]
    <3>1. <<r>> \in Seq(RuleSetType) /\ Len(<<r>>) = 1 /\ buf \in Seq(RuleSetType)
      BY DEF HistoryOK, HistoryTyped
    <3> QED
      BY <3>1, ConcatProperties
  <2>2. \A i \in 1..new : all[i] \in RuleSetType
    BY <1>2, <1>3, <2>1, ElementOfSeq
  <2>3. buf' = SubSeq(all, 1, new)
    BY <1>4 DEF SaveNew
  <2>4. /\ buf' \in Seq(RuleSetType)
        /\ Len(buf') = IF 1 <= new THEN new - 1 + 1 ELSE 0
        /\ \A i \in 1..(new - 1 + 1) : buf'[i] = all[1 + i - 1]
    <3>1. new \in Int /\ 1 \in Int
      BY <1>3
    <3> HIDE DEF all, new
    <3> QED
      BY <2>2, <2>3, <3>1, SubSeqProperties
  <2>5. all[1] = r /\ \A i \in 2..new : all[i] = buf[i - 1]
    BY <1>2, <1>3, <2>1
  <2> QED
    <3>1. new - 1 + 1 = new /\ 1 <= new
      BY <1>3
    <3> HIDE DEF all, new
    <3>2. \A i \in 1..new : buf'[i] = all[i]
      BY <2>4, <3>1
    <3>3. new \in Nat
      BY <1>3 DEF new
    <3> QED
      BY <2>4, <2>5, <3>1, <3>2, <3>3
<1>6. ASSUME NEW n \in Names, NEW v \in 1..MaxVersion
      PROVE  /\ kept[n][v] = IF evicted(n, v) THEN 0 ELSE idx[n][v]
             /\ kept \in [Names -> [1..MaxVersion -> 0..Capacity]]
  <2>1. CASE len = Capacity
    <3>1. buf[len] \in RuleSetType /\ Last(buf) = buf[len]
      BY <1>2, <2>1, ElementOfSeq DEF HistoryOK, HistoryTyped, Last
    <3>2. buf[len].name \in Names /\ buf[len].version \in 1..MaxVersion
      BY <3>1 DEF RuleSetType, RuleSets
    <3> DEFINE a == buf[len].name
               b == buf[len].version
    <3>3. kept = [idx EXCEPT ![a] = [idx[a] EXCEPT ![b] = 0]]
      BY <2>1, <3>1 DEF Forget
    <3>4. idx \in [Names -> [1..MaxVersion -> 0..Capacity]] /\ idx[a] \in [1..MaxVersion -> 0..Capacity]
      BY <3>2 DEF HistoryOK, HistoryTyped
    <3>5. [idx[a] EXCEPT ![b] = 0] \in [1..MaxVersion -> 0..Capacity]
      BY <1>2, <3>2, <3>4
    <3>6. kept \in [Names -> [1..MaxVersion -> 0..Capacity]]
      BY <3>2, <3>3, <3>4, <3>5
    <3>7. kept[n][v] = IF n = a /\ v = b THEN 0 ELSE idx[n][v]
      <4>1. a \in Names /\ b \in 1..MaxVersion
        BY <3>2
      <4> HIDE DEF a, b, kept
      <4> QED
        BY <3>3, <3>4, <4>1
    <3> QED
      BY <2>1, <3>6, <3>7
  <2>2. CASE len # Capacity
    BY <2>2 DEF HistoryOK, HistoryTyped
  <2> QED
    BY <2>1, <2>2
<1>7. kept \in [Names -> [1..MaxVersion -> 0..Capacity]]
  BY <1>1, <1>6
<1>8. ASSUME NEW n \in Names, NEW v \in 1..MaxVersion
      PROVE  idx'[n][v] = IF n = r.name /\ v = r.version THEN 1
                          ELSE IF kept[n][v] = 0 THEN 0 ELSE kept[n][v] + 1
  <2>1. idx' = [[i \in Names |-> Shift(kept[i])] EXCEPT ![r.name][r.version] = 1]
    BY DEF SaveNew
  <2> HIDE DEF kept
  <2>2. Shift(kept[n]) = [w \in 1..MaxVersion |-> IF kept[n][w] = 0 THEN 0 ELSE kept[n][w] + 1]
    BY <1>7 DEF Shift
  <2>3. [i \in Names |-> Shift(kept[i])][n] = Shift(kept[n])
    OBVIOUS
  <2>4. CASE n = r.name
    <3>1. idx'[n] = [Shift(kept[n]) EXCEPT ![r.version] = 1]
      BY <1>1, <2>1, <2>3, <2>4
    <3> QED
      BY <2>2, <2>4, <3>1
  <2>5. CASE n # r.name
    <3>1. idx'[n] = Shift(kept[n])
      BY <2>1, <2>3, <2>5
    <3> QED
      BY <2>2, <2>5, <3>1
  <2> QED
    BY <2>4, <2>5
\* Where a record that stays was, and where it goes.
<1>9. ASSUME NEW n \in Names, NEW v \in 1..MaxVersion, kept[n][v] # 0
      PROVE  /\ kept[n][v] = idx[n][v] /\ ~evicted(n, v)
             /\ kept[n][v] \in 1..(new - 1)
             /\ buf'[kept[n][v] + 1].name = n /\ buf'[kept[n][v] + 1].version = v
  <2>1. kept[n][v] = idx[n][v] /\ ~evicted(n, v) /\ idx[n][v] # 0
    BY <1>6, <1>9
  <2>2. idx[n][v] \in 1..len /\ buf[idx[n][v]].name = n /\ buf[idx[n][v]].version = v
    BY <2>1, PositionInBuffer
  <2>3. idx[n][v] \in 1..(new - 1)
    <3>1. CASE len = Capacity
      <4>1. idx[n][v] # len
        BY <2>1, <2>2, <3>1
      <4> QED
        BY <1>2, <2>2, <3>1, <4>1
    <3>2. CASE len # Capacity
      BY <1>2, <2>2, <3>2
    <3> QED
      BY <3>1, <3>2
  <2>4. buf'[idx[n][v] + 1] = buf[idx[n][v]]
    <3> DEFINE next == idx[n][v] + 1
    <3>1. next \in 2..new /\ next - 1 = idx[n][v]
      BY <1>3, <2>3
    <3> HIDE DEF new, next
    <3>2. buf'[next] = buf[next - 1]
      BY <1>5, <3>1
    <3> QED
      BY <3>1, <3>2 DEF next
  <2> QED
    BY <2>1, <2>2, <2>3, <2>4
<1>10. HistoryTyped'
  <2>1. \A n \in Names, v \in 1..MaxVersion : idx'[n][v] \in 0..Capacity
    <3> SUFFICES ASSUME NEW n \in Names, NEW v \in 1..MaxVersion PROVE idx'[n][v] \in 0..Capacity
      OBVIOUS
    <3> HIDE DEF kept, new
    <3> QED
      BY <1>2, <1>3, <1>8, <1>9
  <2>2. DOMAIN idx' = Names /\ \A n \in Names : DOMAIN idx'[n] = 1..MaxVersion
    BY <1>1, <1>7 DEF SaveNew, Shift
  <2>3. idx' = [n \in Names |-> idx'[n]] /\ \A n \in Names : idx'[n] = [v \in 1..MaxVersion |-> idx'[n][v]]
    BY <1>1, <1>7 DEF SaveNew, Shift
  <2> QED
    BY <1>5, <2>1, <2>3 DEF HistoryTyped
<1>11. IndexBelow'
  <2> SUFFICES ASSUME NEW n \in Names, NEW v \in 1..MaxVersion PROVE idx'[n][v] <= Len(buf')
    BY DEF IndexBelow
  <2> HIDE DEF kept, new
  <2> QED
    BY <1>2, <1>3, <1>5, <1>8, <1>9
<1>12. HistoryIndexed'
  <2>1. Len(buf') <= Capacity
    BY <1>2, <1>3, <1>5
  <2>2. ASSUME NEW i \in DOMAIN buf' PROVE idx'[buf'[i].name][buf'[i].version] = i
    <3>1. CASE i = 1
      BY <1>1, <1>5, <1>8, <3>1
    <3>2. CASE i # 1
      <4> DEFINE n == buf[i - 1].name
                 v == buf[i - 1].version
      <4>1. i \in 2..new /\ buf'[i] = buf[i - 1]
        <5>1. i \in 1..new /\ new \in Nat
          BY <1>3, <1>5
        <5> HIDE DEF new
        <5> QED
          BY <1>5, <3>2, <5>1
      <4>2. i - 1 \in 1..len /\ DOMAIN buf = 1..len
        BY <1>2, <1>3, <4>1 DEF HistoryOK, HistoryTyped
      <4>3. n \in Names /\ v \in 1..MaxVersion
        <5>1. buf[i - 1] \in RuleSetType
          BY <4>2, ElementOfSeq DEF HistoryOK, HistoryTyped
        <5> QED
          BY <5>1 DEF RuleSetType, RuleSets
      <4>4. idx[n][v] = i - 1 /\ i - 1 # 0
        BY <4>1, <4>2 DEF HistoryOK, HistoryIndexed
      <4>5. ~(n = r.name /\ v = r.version)
        BY <4>4
      <4>6. ~evicted(n, v)
        <5>1. SUFFICES ASSUME evicted(n, v) PROVE FALSE
          OBVIOUS
        <5>2. idx[n][v] = len
          BY <1>2, <4>2, <5>1 DEF HistoryOK, HistoryIndexed
        <5> QED
          BY <1>2, <1>3, <4>1, <4>4, <5>1, <5>2
      <4>7. kept[n][v] = i - 1
        BY <1>6, <4>3, <4>4, <4>6
      <4>8. idx'[n][v] = i
        <5> HIDE DEF n, v, kept
        <5> QED
          BY <1>8, <4>1, <4>3, <4>4, <4>5, <4>7
      <4> QED
        BY <4>1, <4>8
    <3> QED
      BY <3>1, <3>2
  <2>3. ASSUME NEW n \in Names, NEW v \in 1..MaxVersion, idx'[n][v] # 0
        PROVE  buf'[idx'[n][v]].name = n /\ buf'[idx'[n][v]].version = v
    <3> HIDE DEF kept, new
    <3>1. CASE n = r.name /\ v = r.version
      BY <1>5, <1>8, <3>1
    <3>2. CASE ~(n = r.name /\ v = r.version)
      BY <1>8, <1>9, <2>3, <3>2
    <3> QED
      BY <3>1, <3>2
  <2> QED
    BY <2>1, <2>2, <2>3 DEF HistoryIndexed
<1> QED
  BY <1>10, <1>11, <1>12 DEF HistoryOK

\* History.Save keeps the history, whichever case it is in.
LEMMA SaveKeepsHistory ==
  ASSUME HistoryOK, NEW r \in RuleSetType, Save(r)
  PROVE  HistoryOK'
BY OverwriteKeepsHistory, SaveNewKeepsHistory DEF Save

\* The latest of a name's records is one of the history's.
LEMMA LatestInHistory ==
  ASSUME HistoryOK, NEW n \in Names, HasHistory(n)
  PROVE  Latest(n) \in RuleSetType
<1> DEFINE positions == {idx[n][v] : v \in 1..MaxVersion} \ {0}
<1>1. positions \subseteq 1..Len(buf) /\ positions # {}
  <2>1. \A v \in 1..MaxVersion : idx[n][v] # 0 => idx[n][v] \in 1..Len(buf)
    BY PositionInBuffer
  <2>2. PICK v \in 1..MaxVersion : idx[n][v] # 0
    BY DEF HasHistory
  <2> QED
    BY <2>1, <2>2
<1>2. Min(positions) \in positions
  <2>1. positions \in SUBSET Nat
    BY <1>1, LenProperties DEF HistoryOK, HistoryTyped
  <2> HIDE DEF positions
  <2> QED
    BY <1>1, <2>1, MinInSet
<1>3. Min(positions) \in 1..Len(buf)
  BY <1>1, <1>2
<1> QED
  BY <1>3, ElementOfSeq DEF Latest, HistoryOK, HistoryTyped
-----------------------------------------------------------------------------
\* What a job may hold, by the step it is at.
Steps == {"idle", "save", "install", "rebuild", "put", "latest"}

JobType ==
  [op : {"none", "push", "put", "reload", "rollback"}, at : Steps, snap : Snapshots,
   todo : Seq(Yamls) \cup Seq(RuleSetType), name : Names \cup {0}]

JobOK(j) ==
  /\ j \in JobType
  /\ j.at = "save" => j.todo \in Seq(Yamls) /\ (j.op # "push" => j.name \in Names)
  /\ j.at \in {"put", "install"} => j.todo \in Seq(RuleSetType) /\ j.todo # <<>>
  /\ j.at = "rebuild" => j.todo \in Seq(RuleSetType)
  /\ j.at = "latest" => j.name \in Names

JobsOK == job \in [Actors -> JobType] /\ \A p \in Actors : JobOK(job[p])

SourcesOK ==
  /\ store \in [SourceSet -> Snapshots \cup {Broken}]
  /\ warmup \in Snapshots \cup {Broken, "start", "sent"}
  /\ warmup # "sent" => Nacos \in SourceSet
  /\ fileEvent => File \in SourceSet
  /\ pushed \in [SourceSet -> Seq(Snapshots \cup {Broken})]

ControlInv == SourcesOK /\ current \in Snapshots /\ HistoryOK /\ JobsOK

\* Replacing one actor's job by a typed one.
LEMMA GoesKeepsJobs ==
  ASSUME JobsOK, NEW p \in Actors, NEW j, JobOK(j), Goes(p, j)
  PROVE  JobsOK'
BY DEF JobsOK, JobOK, Goes

\* An entry of a snapshot compiles to a rule set.
LEMMA CompiledEntry ==
  ASSUME NEW e \in Yamls
  PROVE  RuleSetOf(e) \in RuleSetType
BY DEF RuleSetOf, RuleSet, RuleSetType, RuleSets, Yamls

\* A snapshot's rule sets, compiled, are rule sets.
LEMMA CompiledTyped ==
  ASSUME NEW snap \in Snapshots
  PROVE  /\ Content[snap] \in Seq(Yamls)
         /\ CompiledOf(snap) \in Seq(RuleSetType)
         /\ Len(CompiledOf(snap)) = Len(Content[snap])
<1>1. Content[snap] \in Seq(Yamls)
  BY ConfigAssumption
<1>2. \A i \in 1..Len(Content[snap]) : RuleSetOf(Content[snap][i]) \in RuleSetType
  BY <1>1, ElementOfSeq, CompiledEntry
<1>3. CompiledOf(snap) = [i \in 1..Len(Content[snap]) |-> RuleSetOf(Content[snap][i])]
  BY <1>1 DEF CompiledOf
<1> QED
  BY <1>1, <1>2, <1>3, IsASeq, LenProperties

\* The snapshot the start-up chooses is one, or the default.
LEMMA ChosenTyped ==
  ASSUME NEW held \in [SourceSet -> Snapshots \cup {Broken}]
  PROVE  Chosen(held) \in Snapshots
<1> DEFINE valid == {i \in DOMAIN Sources : held[Sources[i]] # Broken}
<1>1. CASE valid = {}
  BY <1>1, ConfigAssumption DEF Chosen
<1>2. CASE valid # {}
  <2>1. valid \in SUBSET Nat
    BY ConfigAssumption
  <2>2. Min(valid) \in valid
    <3> HIDE DEF valid
    <3> QED
      BY <1>2, <2>1, MinInSet
  <2>3. \A i \in DOMAIN Sources : Sources[i] \in SourceSet
    BY DEF SourceSet, ToSet
  <2>4. Chosen(held) = held[Sources[Min(valid)]]
    BY <1>2 DEF Chosen
  <2> HIDE DEF valid
  <2>5. Min(valid) \in DOMAIN Sources /\ held[Sources[Min(valid)]] # Broken
    BY <2>2 DEF valid
  <2> QED
    BY <2>3, <2>4, <2>5
<1> QED
  BY <1>1, <1>2
-----------------------------------------------------------------------------
\* One lemma for each action.
LEMMA ConsumeStep ==
  ASSUME ControlInv, NEW s \in SourceSet, Consume(s)
  PROVE  ControlInv'
<1> DEFINE snap == Head(pushed[s])
<1>1. pushed[s] \in Seq(Snapshots \cup {Broken}) /\ pushed[s] # <<>>
  BY DEF Consume, Take, ControlInv, SourcesOK
<1>2. snap \in Snapshots \cup {Broken} /\ Tail(pushed[s]) \in Seq(Snapshots \cup {Broken})
  BY <1>1, HeadTailProperties
<1>3. SourcesOK'
  BY <1>2 DEF Consume, Take, ControlInv, SourcesOK
<1>4. HistoryOK'
  BY DEF Consume, Take, ControlInv, HistoryOK, HistoryTyped, HistoryIndexed, IndexBelow, historyVars
<1>5. CASE Changed(snap)
  <2>1. snap \in Snapshots
    BY <1>2, <1>5 DEF Changed
  <2>2. JobOK(ApplyJob("push", snap, 0))
    BY <2>1, CompiledTyped DEF JobOK, JobType, ApplyJob, Steps
  <2>3. Goes(s, ApplyJob("push", snap, 0)) /\ current' = snap
    BY <1>5 DEF Consume, Goes
  <2> QED
    BY <1>3, <1>4, <2>1, <2>2, <2>3, GoesKeepsJobs DEF ControlInv, Actors
<1>6. CASE ~Changed(snap)
  <2>1. job' = job /\ current' = current
    BY <1>6 DEF Consume
  <2> QED
    BY <1>3, <1>4, <2>1 DEF ControlInv, JobsOK, JobOK
<1> QED
  BY <1>5, <1>6

\* Source and history variables left alone keep their parts.
LEMMA SourcesSame ==
  ASSUME SourcesOK, UNCHANGED sourceVars
  PROVE  SourcesOK'
BY DEF SourcesOK, sourceVars

\* What leaves the history alone keeps what is known of it.
LEMMA HistorySame ==
  ASSUME HistoryOK, UNCHANGED historyVars
  PROVE  HistoryOK'
BY DEF HistoryOK, HistoryTyped, HistoryIndexed, IndexBelow, historyVars

\* A step that gives one actor a new job, and leaves sources and history alone.
LEMMA JobStep ==
  ASSUME ControlInv, NEW p \in Actors, NEW j, JobOK(j), Goes(p, j), current' \in Snapshots,
         UNCHANGED <<sourceVars, historyVars>>
  PROVE  ControlInv'
BY SourcesSame, HistorySame, GoesKeepsJobs DEF ControlInv

\* A step that saves one rule set and gives one actor a new job.
LEMMA SaveStep ==
  ASSUME ControlInv, NEW p \in Actors, NEW j, JobOK(j), Goes(p, j),
         NEW r \in RuleSetType, Save(r), UNCHANGED <<sourceVars, current>>
  PROVE  ControlInv'
BY SourcesSame, SaveKeepsHistory, GoesKeepsJobs DEF ControlInv

\* Having nothing to do is always allowed.
LEMMA NoJobOK == JobOK(NoJob)
BY ConfigAssumption DEF JobOK, JobType, NoJob, Steps

\* A typed job to which rule sets are given to install.
LEMMA InstallOK ==
  ASSUME NEW j \in JobType, NEW todo \in Seq(RuleSetType), todo # <<>>
  PROVE  JobOK(Install(j, todo))
BY DEF JobOK, JobType, Install, Steps

\* A job that applies a snapshot.
LEMMA ApplyJobOK ==
  ASSUME NEW snap \in Snapshots, NEW op \in {"push", "reload"}, NEW n \in Names \cup {0},
         op = "reload" => n \in Names
  PROVE  JobOK(ApplyJob(op, snap, n))
BY CompiledTyped DEF JobOK, JobType, ApplyJob, Steps

\* Saving the next version of a snapshot.
LEMMA SaveNextStep ==
  ASSUME ControlInv, NEW p \in Actors, SaveNext(p)
  PROVE  ControlInv'
<1> DEFINE entry == Head(job[p].todo)
           j == [job[p] EXCEPT !.todo = Tail(@)]
<1>1. JobOK(job[p]) /\ At(p, "save") /\ job[p].todo # <<>>
  BY DEF SaveNext, ControlInv, JobsOK
<1>2. job[p].todo \in Seq(Yamls) /\ job[p] \in JobType
  BY <1>1 DEF JobOK, At
<1>3. entry \in Yamls /\ Tail(job[p].todo) \in Seq(Yamls)
  BY <1>1, <1>2, HeadTailProperties
<1>4. JobOK(j)
  BY <1>1, <1>2, <1>3 DEF JobOK, JobType, At
<1>5. UNCHANGED <<sourceVars, current>>
  BY DEF SaveNext
<1>6. CASE Save(RuleSetOf(entry)) /\ Goes(p, j)
  BY <1>3, <1>4, <1>5, <1>6, CompiledEntry, SaveStep
<1>8. CASE Goes(p, j) /\ UNCHANGED historyVars
  BY <1>4, <1>5, <1>8, JobStep DEF ControlInv
<1>7. CASE Goes(p, NoJob) /\ UNCHANGED historyVars
  BY <1>5, <1>7, NoJobOK, JobStep DEF ControlInv
<1> QED
  BY <1>6, <1>7, <1>8 DEF SaveNext

\* The callback goes on to the rule sets to install.
LEMMA AppliedStep ==
  ASSUME ControlInv, NEW p \in Actors, Applied(p)
  PROVE  ControlInv'
<1> DEFINE j == job[p]
           returned == {Content[j.snap][i].name : i \in DOMAIN Content[j.snap]}
<1>1. JobOK(j) /\ j.at = "save" /\ j \in JobType
  BY DEF Applied, At, ControlInv, JobsOK, JobOK
<1>2. j.snap \in Snapshots /\ current' = j.snap
  BY <1>1 DEF JobType, Applied
<1>3. UNCHANGED <<sourceVars, historyVars>>
  BY DEF Applied
<1>4. CASE j.op = "push"
  <2>1. CASE returned = {}
    <3>1. Goes(p, NoJob)
      BY <1>4, <2>1 DEF Applied
    <3> QED
      BY <1>2, <1>3, <3>1, NoJobOK, JobStep
  <2>2. CASE returned # {}
    <3>1. Goes(p, Install(j, CompiledOf(j.snap)))
      BY <1>4, <2>2 DEF Applied
    <3>2. CompiledOf(j.snap) \in Seq(RuleSetType) /\ CompiledOf(j.snap) # <<>>
      <4>1. CompiledOf(j.snap) \in Seq(RuleSetType)
        BY <1>2, CompiledTyped
      <4>2. DOMAIN CompiledOf(j.snap) # {}
        BY <2>2 DEF CompiledOf
      <4> QED
        BY <4>1, <4>2
    <3> HIDE DEF j
    <3>3. JobOK(Install(j, CompiledOf(j.snap)))
      BY <1>1, <3>2, InstallOK
    <3> QED
      BY <1>2, <1>3, <3>1, <3>3, JobStep
  <2> QED
    BY <2>1, <2>2
<1>5. CASE j.op # "push"
  <2>1. j.name \in Names
    BY <1>1, <1>5 DEF JobOK
  <2>2. JobOK(NoJob) /\ JobOK([j EXCEPT !.at = "latest"])
    BY <1>1, <2>1, NoJobOK DEF JobOK, JobType, Steps
  <2>3. Goes(p, NoJob) \/ Goes(p, [j EXCEPT !.at = "latest"])
    BY <1>5 DEF Applied
  <2> HIDE DEF j
  <2> QED
    BY <1>2, <1>3, <2>2, <2>3, JobStep
<1> QED
  BY <1>4, <1>5

\* Installing a rule set, before the table is rebuilt.
LEMMA InstallRulesStep ==
  ASSUME ControlInv, NEW p \in Actors, InstallRules(p)
  PROVE  ControlInv'
<1> DEFINE j == [job[p] EXCEPT !.at = "rebuild", !.todo = Tail(@)]
<1>1. JobOK(job[p]) /\ job[p] \in JobType /\ job[p].at = "install"
  BY DEF InstallRules, At, ControlInv, JobsOK, JobOK
<1>2. job[p].todo \in Seq(RuleSetType) /\ job[p].todo # <<>>
  BY <1>1 DEF JobOK
<1>3. Tail(job[p].todo) \in Seq(RuleSetType)
  BY <1>2, HeadTailProperties
<1>4. JobOK(j)
  BY <1>1, <1>3 DEF JobOK, JobType, Steps
<1>5. Goes(p, j) /\ UNCHANGED <<sourceVars, historyVars, current>>
  BY DEF InstallRules, configVars
<1> QED
  BY <1>4, <1>5, JobStep DEF ControlInv

\* The table is rebuilt.
LEMMA InstallTableStep ==
  ASSUME ControlInv, NEW p \in Actors, InstallTable(p)
  PROVE  ControlInv'
<1>1. JobOK(job[p]) /\ job[p] \in JobType /\ job[p].todo \in Seq(RuleSetType)
  BY DEF InstallTable, At, ControlInv, JobsOK, JobOK
<1>2. UNCHANGED <<sourceVars, historyVars, current>>
  BY DEF InstallTable, configVars
<1>3. CASE job[p].todo = <<>>
  BY <1>2, <1>3, NoJobOK, JobStep DEF InstallTable, ControlInv
<1>4. CASE job[p].todo # <<>>
  <2>1. JobOK(Install(job[p], job[p].todo))
    BY <1>1, <1>4, InstallOK
  <2>2. Goes(p, Install(job[p], job[p].todo))
    BY <1>4 DEF InstallTable
  <2> QED
    BY <1>2, <2>1, <2>2, JobStep DEF ControlInv
<1> QED
  BY <1>3, <1>4

\* A put that has passed its checks.
LEMMA PutStep ==
  ASSUME ControlInv, NEW a \in Actors, NEW r \in Puts, Put(a, r)
  PROVE  ControlInv'
<1> DEFINE j == [NoJob EXCEPT !.op = "put", !.at = "put", !.todo = <<r>>]
<1>1. <<r>> \in Seq(RuleSetType) /\ <<r>> # <<>>
  BY ControlAssumption DEF RuleSetType
<1>2. JobOK(j)
  BY <1>1, NoJobOK DEF JobOK, JobType, NoJob, Steps
<1>3. Goes(a, j) /\ UNCHANGED <<sourceVars, historyVars, current>>
  BY DEF Put, Begin, configVars
<1> QED
  BY <1>2, <1>3, JobStep DEF ControlInv

\* Its save.
LEMMA PutSaveStep ==
  ASSUME ControlInv, NEW a \in Actors, PutSave(a)
  PROVE  ControlInv'
<1>1. JobOK(job[a]) /\ job[a] \in JobType /\ job[a].at = "put"
  BY DEF PutSave, At, ControlInv, JobsOK, JobOK
<1>2. job[a].todo \in Seq(RuleSetType) /\ job[a].todo # <<>>
  BY <1>1 DEF JobOK
<1>3. Head(job[a].todo) \in RuleSetType
  BY <1>2, HeadTailProperties
<1>4. JobOK(Install(job[a], job[a].todo))
  BY <1>1, <1>2, InstallOK
<1>5. UNCHANGED <<sourceVars, current>>
  BY DEF PutSave
<1>6. CASE Save(Head(job[a].todo)) /\ Goes(a, Install(job[a], job[a].todo))
  BY <1>3, <1>4, <1>5, <1>6, SaveStep
<1>7. CASE Goes(a, NoJob) /\ UNCHANGED historyVars
  BY <1>5, <1>7, NoJobOK, JobStep DEF ControlInv
<1> QED
  BY <1>6, <1>7 DEF PutSave

\* A reload of a name the snapshot has.
LEMMA ReloadStep ==
  ASSUME ControlInv, NEW a \in Actors, NEW n \in Names, Reload(a, n)
  PROVE  ControlInv'
<1>1. JobOK(ApplyJob("reload", current, n))
  BY ApplyJobOK DEF ControlInv
<1>2. Goes(a, ApplyJob("reload", current, n)) /\ UNCHANGED <<sourceVars, historyVars, current>>
  BY DEF Reload, Begin, configVars
<1> QED
  BY <1>1, <1>2, JobStep DEF ControlInv

\* A reload from the history.
LEMMA ReloadLatestStep ==
  ASSUME ControlInv, NEW a \in Actors, ReloadLatest(a)
  PROVE  ControlInv'
<1>1. JobOK(job[a]) /\ job[a] \in JobType /\ job[a].at = "latest"
  BY DEF ReloadLatest, At, ControlInv, JobsOK, JobOK
<1>2. job[a].name \in Names
  BY <1>1 DEF JobOK
<1>3. UNCHANGED <<sourceVars, historyVars, current>>
  BY DEF ReloadLatest, configVars, seen
<1>4. CASE HasHistory(job[a].name)
  <2> DEFINE latest == Latest(job[a].name)
  <2>1. latest \in RuleSetType
    BY <1>2, <1>4, LatestInHistory DEF ControlInv
  <2>2. Goes(a, Install(job[a], <<latest>>))
    BY <1>4 DEF ReloadLatest
  <2> HIDE DEF latest
  <2>3. <<latest>> \in Seq(RuleSetType) /\ <<latest>> # <<>>
    BY <2>1
  <2>4. JobOK(Install(job[a], <<latest>>))
    BY <1>1, <2>3, InstallOK
  <2> QED
    BY <1>3, <2>2, <2>4, JobStep DEF ControlInv
<1>5. CASE ~HasHistory(job[a].name)
  BY <1>3, <1>5, NoJobOK, JobStep DEF ReloadLatest, ControlInv
<1> QED
  BY <1>4, <1>5

\* A rollback installs the record the index points to.
LEMMA RollbackStep ==
  ASSUME ControlInv, NEW a \in Actors, NEW n \in Names, NEW v \in 1..MaxVersion, Rollback(a, n, v)
  PROVE  ControlInv'
<1> DEFINE record == buf[idx[n][v]]
           j == [Install(NoJob, <<record>>) EXCEPT !.op = "rollback"]
<1>1. record \in RuleSetType
  BY PositionInBuffer, ElementOfSeq DEF Rollback, ControlInv, HistoryOK, HistoryTyped
<1>2. Goes(a, j) /\ UNCHANGED <<sourceVars, historyVars, current>>
  BY DEF Rollback, Begin, configVars
<1>3. JobOK(j)
  <2> HIDE DEF record
  <2>1. <<record>> \in Seq(RuleSetType) /\ <<record>> # <<>>
    BY <1>1
  <2>2. JobOK(Install(NoJob, <<record>>))
    BY <2>1, NoJobOK, InstallOK DEF JobOK
  <2>3. Install(NoJob, <<record>>).at = "install" /\ Install(NoJob, <<record>>).todo = <<record>>
    BY DEF Install, NoJob
  <2> QED
    BY <2>1, <2>2, <2>3 DEF JobOK, JobType
<1> QED
  BY <1>2, <1>3, JobStep DEF ControlInv

\* An administrator's request is at one of these steps.
LEMMA AdminStep ==
  ASSUME ControlInv, NEW a \in Admins, Admin(a)
  PROVE  ControlInv'
<1>1. a \in Actors
  BY DEF Actors
<1> QED
  BY <1>1, PutStep, ReloadStep, RollbackStep, PutSaveStep, ReloadLatestStep DEF Admin

\* Pushing a snapshot keeps the queues typed.
LEMMA PushTyped ==
  ASSUME SourcesOK, NEW s \in SourceSet, NEW snap \in Snapshots \cup {Broken}, Push(s, snap)
  PROVE  pushed' \in [SourceSet -> Seq(Snapshots \cup {Broken})]
BY DEF SourcesOK, Push

\* Changes and deliveries outside touch the sources only.
LEMMA OutsideStep ==
  ASSUME ControlInv, Outside
  PROVE  ControlInv'
<1>1. HistoryOK' /\ JobsOK' /\ current' \in Snapshots
  BY HistorySame DEF Outside, ControlInv, controlVars, JobsOK, JobOK
<1> SUFFICES SourcesOK'
  BY <1>1 DEF ControlInv
<1> USE DEF ControlInv
<1>2. CASE Changes
  BY <1>2 DEF Changes, Change, SourcesOK
<1>3. CASE NacosNotify
  BY <1>3, PushTyped DEF NacosNotify, SourcesOK
<1>4. CASE WarmupRead
  BY <1>4 DEF WarmupRead, SourcesOK
<1>5. CASE WarmupSend
  BY <1>5, PushTyped DEF WarmupSend, SourcesOK
<1>6. CASE FileRefresh
  BY <1>6, PushTyped DEF FileRefresh, SourcesOK
<1> QED
  BY <1>2, <1>3, <1>4, <1>5, <1>6 DEF Outside, Watchers
-----------------------------------------------------------------------------
\* At first there is no history and no job.
LEMMA InitEstablishesControlInv == Init => ControlInv
<1> SUFFICES ASSUME Init PROVE ControlInv
  OBVIOUS
<1> USE DEF Init, ConfigInit
<1>1. SourcesOK
  BY DEF SourcesOK
<1>2. current \in Snapshots
  BY ChosenTyped
<1>3. HistoryOK
  BY ConfigAssumption DEF HistoryOK, HistoryTyped, HistoryIndexed, IndexBelow
<1>4. JobsOK
  <2> DEFINE first == ApplyJob("push", current, 0)
  <2>1. JobOK(first) /\ JobOK(NoJob)
    BY <1>2, NoJobOK, ApplyJobOK
  <2>2. job = [p \in Actors |-> IF p = Main THEN first ELSE NoJob]
    OBVIOUS
  <2> HIDE DEF first, Init, ConfigInit
  <2>3. \A p \in Actors : JobOK(job[p])
    BY <2>1, <2>2
  <2>4. \A p \in Actors : job[p] \in JobType
    BY <2>3 DEF JobOK
  <2> QED
    BY <2>2, <2>3, <2>4 DEF JobsOK
<1> QED
  BY <1>1, <1>2, <1>3, <1>4 DEF ControlInv

\* Every step keeps the invariant.
LEMMA StepKeepsControlInv ==
  ASSUME ControlInv, [Next]_vars
  PROVE  ControlInv'
<1>1. CASE UNCHANGED vars
  BY <1>1, SourcesSame, HistorySame DEF vars, configVars, controlVars, ControlInv, JobsOK, JobOK
<1>2. ASSUME NEW p \in Actors, Apply(p) PROVE ControlInv'
  BY <1>2, SaveNextStep, AppliedStep, InstallRulesStep, InstallTableStep DEF Apply
<1>3. CASE Handlers
  BY <1>3, SourcesSame, HistorySame
     DEF Handlers, configVars, controlVars, ControlInv, JobsOK, JobOK
<1>4. CASE Rest
  BY <1>1, <1>4 DEF Rest
<1> QED
  BY <1>1, <1>2, <1>3, <1>4, ConsumeStep, AdminStep, OutsideStep DEF Next

\* Whatever the sources push and the administrators do, the history, the jobs and the
\* queues stay what the actions take them for.
THEOREM HistoryIndexInvariant == Spec => []ControlInv
BY InitEstablishesControlInv, StepKeepsControlInv, PTL DEF Spec

\* The index of the history is exactly where its records are, for every capacity, every
\* set of sources and any number of administrators, while saves, evictions and
\* overwrites of several names interleave: a rollback gets the version it names.
THEOREM RollbackGetsItsVersion == Spec => []HistoryIndexed
<1>1. ControlInv => HistoryIndexed
  BY DEF ControlInv, HistoryOK
<1> QED
  BY <1>1, HistoryIndexInvariant, PTL
-----------------------------------------------------------------------------
\* The routing table has an entry with the match of its rule set for each of them.
LEMMA RouteTableIs ==
  ASSUME NEW rs \in [Names -> RuleSetType \cup {NotInstalled}]
  PROVE  /\ RouteTable(rs) \in Seq(Entry)
         /\ \A i \in 1..Len(RouteTable(rs)) :
              /\ RouteTable(rs)[i].name \in Names
              /\ RouteTable(rs)[i].match = rs[RouteTable(rs)[i].name].match
<1> DEFINE named == {n \in Names : rs[n] # NotInstalled}
           others == {n \in named : rs[n].match = {}}
           default == IF others = {} THEN <<>> ELSE <<Max(others)>>
<1>1. /\ IsFiniteSet(named \ others) /\ named \ others \in SUBSET Nat
      /\ IsFiniteSet(others) /\ others \in SUBSET Nat
  <2>1. Names \subseteq Nat /\ IsFiniteSet(Names)
    BY RulesAssumption
  <2> QED
    BY <2>1, FS_Subset
<1>2. Sorted(named \ others) \in Seq(Names)
  <2> HIDE DEF named, others
  <2>1. Sorted(named \ others) \in Seq(named \ others)
    BY <1>1, SortedIs
  <2>2. named \ others \subseteq Names
    BY DEF named
  <2> QED
    BY <2>1, <2>2
<1>3. default \in Seq(Names)
  <2>1. CASE others = {}
    BY <2>1
  <2>2. CASE others # {}
    <3>1. Max(others) \in others
      <4> HIDE DEF others
      <4> QED
        BY <1>1, <2>2, MaxInSet
    <3> QED
      BY <2>2, <3>1
  <2> QED
    BY <2>1, <2>2
<1> DEFINE order == Sorted(named \ others) \o default
<1>4. order \in Seq(Names)
  <2> HIDE DEF named, others, default
  <2> QED
    BY <1>2, <1>3
<1>5. RouteTable(rs) = [i \in DOMAIN order |-> [name |-> order[i], match |-> rs[order[i]].match]]
  BY DEF RouteTable
<1> HIDE DEF order
<1>6. DOMAIN order = 1..Len(order) /\ Len(order) \in Nat /\ \A i \in DOMAIN order : order[i] \in Names
  BY <1>4, ElementOfSeq
<1>7. \A n \in Names : rs[n].match \in SUBSET Kinds
  BY DEF RuleSetType, RuleSets, NotInstalled, RuleSet
<1>8. RouteTable(rs) = [i \in 1..Len(order) |-> [name |-> order[i], match |-> rs[order[i]].match]]
  BY <1>5, <1>6
<1>9. \A i \in 1..Len(order) : RouteTable(rs)[i] \in Entry
  BY <1>6, <1>7, <1>8 DEF Entry
<1>10. RouteTable(rs) \in Seq(Entry) /\ Len(RouteTable(rs)) = Len(order)
  BY <1>6, <1>8, <1>9
<1> QED
  BY <1>6, <1>8, <1>10
-----------------------------------------------------------------------------
\* The routing table follows the rules whenever no installation is between its halves.
RulesInv ==
  /\ RulesTypeOK(MaxVersion, Actors)
  /\ rulesMu = Nobody => table = RouteTable(rules)

\* What is left of the types.
RestTyped ==
  /\ fileEvent \in BOOLEAN /\ watched \in BOOLEAN
  /\ notified \in Snapshots \cup {Broken}
  /\ changes \in 0..MaxChanges
  /\ admins \in 0..MaxAdmin
  /\ lastPush \in [SourceSet -> Snapshots \cup {Broken}]

\* What leaves the rules and the requests alone keeps the invariant.
LEMMA RulesSame ==
  ASSUME RulesInv, UNCHANGED rulesVars
  PROVE  RulesInv'
<1>1. UNCHANGED <<rules, table, rulesMu, request>>
  BY DEF rulesVars
<1>2. RulesTypeOK(MaxVersion, Actors)'
  BY <1>1 DEF RulesInv, RulesTypeOK
<1>3. rulesMu' = Nobody => table' = RouteTable(rules')
  BY <1>1 DEF RulesInv
<1> QED
  BY <1>2, <1>3 DEF RulesInv

\* At first the default rule set is installed and routed.
LEMMA RulesInitOK == Init => RulesInv /\ RestTyped
<1> SUFFICES ASSUME Init PROVE RulesInv /\ RestTyped
  OBVIOUS
<1>1. /\ rules = [n \in Names |-> IF n = Default THEN RuleSet(n, 1, {}) ELSE NotInstalled]
      /\ table = RouteTable(rules) /\ rulesMu = Nobody
      /\ request = [q \in Requests |-> NoRequest]
  BY DEF Init, RulesInit
<1>2. RuleSet(Default, 1, {}) \in RuleSetType
  BY RulesAssumption, ConfigAssumption DEF RuleSet, RuleSetType, RuleSets
<1>3. rules \in [Names -> RuleSetType \cup {NotInstalled}]
  BY <1>1, <1>2
<1>4. table \in Seq(Entry)
  BY <1>1, <1>3, RouteTableIs
<1>5. NoRequest \in [entries : Seq(Entry), next : Nat]
  BY DEF NoRequest
<1>6. RulesInv
  BY <1>1, <1>3, <1>4, <1>5 DEF RulesInv, RulesTypeOK, RuleSetType
<1>7. RestTyped
  <2>1. MaxChanges \in Nat /\ MaxAdmin \in Nat
    BY ConfigAssumption, ControlAssumption
  <2>2. /\ fileEvent = FALSE /\ watched = TRUE /\ notified = Broken /\ changes = 0 /\ admins = 0
        /\ lastPush = [s \in SourceSet |-> Broken]
    BY DEF Init, ConfigInit
  <2>3. 0 \in 0..MaxChanges /\ 0 \in 0..MaxAdmin
    BY <2>1
  <2> QED
    BY <2>2, <2>3 DEF RestTyped
<1> QED
  BY <1>6, <1>7

\* Rules, table and requests stay typed, and the table follows the rules.
LEMMA RulesNext ==
  ASSUME ControlInv, RulesInv, [Next]_vars
  PROVE  RulesInv'
<1>0. /\ rules \in [Names -> RuleSetType \cup {NotInstalled}] /\ table \in Seq(Entry)
      /\ rulesMu \in Actors \cup {Nobody}
      /\ request \in [Requests -> [entries : Seq(Entry), next : Nat]]
  BY DEF RulesInv, RulesTypeOK, RuleSetType
<1>1. ASSUME NEW p \in Actors, InstallRules(p) PROVE RulesInv'
  <2>1. PICK r : r = Head(job[p].todo)
    OBVIOUS
  <2>2. r \in RuleSetType /\ r.name \in Names
    <3>1. job[p].todo \in Seq(RuleSetType) /\ job[p].todo # <<>>
      BY <1>1 DEF InstallRules, At, ControlInv, JobsOK, JobOK
    <3>2. r \in RuleSetType
      BY <2>1, <3>1, HeadTailProperties
    <3> QED
      BY <3>2 DEF RuleSetType, RuleSets
  <2>3. /\ rulesMu' = p /\ rules' = [rules EXCEPT ![r.name] = r]
        /\ UNCHANGED <<table, request>> /\ p # Nobody
    BY <1>1, <2>1, ControlAssumption DEF InstallRules, SetRules, Actors
  <2>4. rules' \in [Names -> RuleSetType \cup {NotInstalled}]
    BY <1>0, <2>2, <2>3
  <2> QED
    BY <1>0, <2>3, <2>4 DEF RulesInv, RulesTypeOK, RuleSetType
<1>2. ASSUME NEW p \in Actors, InstallTable(p) PROVE RulesInv'
  <2>1. rulesMu' = Nobody /\ table' = RouteTable(rules) /\ UNCHANGED <<rules, request>>
    BY <1>2 DEF InstallTable, Rebuild
  <2>2. table' \in Seq(Entry)
    BY <1>0, <2>1, RouteTableIs
  <2> QED
    BY <1>0, <2>1, <2>2 DEF RulesInv, RulesTypeOK, RuleSetType
<1>3. ASSUME NEW q \in Requests, RequestBegin(q) \/ RequestBucket(q) \/ RequestEnd(q)
      PROVE  RulesInv'
  <2>1. UNCHANGED <<rules, table, rulesMu>>
    BY <1>3 DEF RequestBegin, RequestBucket, RequestEnd
  <2>2. PICK e : e \in [entries : Seq(Entry), next : Nat] /\ request' = [request EXCEPT ![q] = e]
    <3>1. CASE RequestBegin(q)
      <4>1. [entries |-> table, next |-> 1] \in [entries : Seq(Entry), next : Nat]
        BY <1>0
      <4> QED
        BY <3>1, <4>1 DEF RequestBegin
    <3>2. CASE RequestBucket(q)
      <4>1. PICK e \in [entries : Seq(Entry), next : Nat] : e = request[q]
        BY <1>0
      <4>2. e.next + 1 \in Nat /\ e.entries \in Seq(Entry)
        OBVIOUS
      <4>3. [e EXCEPT !.next = e.next + 1] \in [entries : Seq(Entry), next : Nat]
        BY <4>2
      <4> QED
        BY <3>2, <4>1, <4>3 DEF RequestBucket
    <3>3. CASE RequestEnd(q)
      <4>1. NoRequest \in [entries : Seq(Entry), next : Nat]
        BY DEF NoRequest
      <4> QED
        BY <3>3, <4>1 DEF RequestEnd
    <3> QED
      BY <1>3, <3>1, <3>2, <3>3
  <2>3. request' \in [Requests -> [entries : Seq(Entry), next : Nat]]
    BY <1>0, <2>2
  <2>4. rulesMu' = Nobody => table' = RouteTable(rules')
    BY <2>1 DEF RulesInv
  <2> QED
    BY <1>0, <2>1, <2>3, <2>4 DEF RulesInv, RulesTypeOK, RuleSetType
<1>4. ASSUME NEW p \in Actors, SaveNext(p) \/ Applied(p) PROVE RulesInv'
  BY <1>4, RulesSame DEF SaveNext, Applied
<1>5. ASSUME NEW a \in Admins, Admin(a) PROVE RulesInv'
  <2>1. UNCHANGED rulesVars
    BY <1>5 DEF Admin, Put, Reload, Rollback, Begin, PutSave, ReloadLatest
  <2> QED
    BY <2>1, RulesSame
<1>6. ASSUME NEW s \in SourceSet, Consume(s) PROVE RulesInv'
  BY <1>6, RulesSame DEF Consume
<1>7. CASE Handlers
  BY <1>3, <1>7 DEF Handlers, RequestNext
<1>8. CASE Outside
  BY <1>8, RulesSame DEF Outside
<1>9. CASE Rest \/ UNCHANGED vars
  BY <1>9, RulesSame DEF Rest, vars
<1> QED
  BY <1>1, <1>2, <1>4, <1>5, <1>6, <1>7, <1>8, <1>9 DEF Next, Apply

\* So do the counters, the sources and the history of pushes.
LEMMA RestNext ==
  ASSUME ControlInv, RestTyped, [Next]_vars
  PROVE  RestTyped'
<1>1. ASSUME NEW p \in Actors, Apply(p) PROVE RestTyped'
  BY <1>1 DEF Apply, SaveNext, Applied, InstallRules, InstallTable, configVars, sourceVars, seen, RestTyped
<1>2. ASSUME NEW s \in SourceSet, Consume(s) PROVE RestTyped'
  <2>1. Head(pushed[s]) \in Snapshots \cup {Broken}
    <3>1. pushed[s] \in Seq(Snapshots \cup {Broken}) /\ pushed[s] # <<>>
      BY <1>2 DEF Consume, Take, ControlInv, SourcesOK
    <3> QED
      BY <3>1, HeadTailProperties
  <2>2. UNCHANGED <<fileEvent, watched, notified, changes, admins>>
    BY <1>2 DEF Consume, Take
  <2>3. lastPush' \in [SourceSet -> Snapshots \cup {Broken}]
    BY <1>2, <2>1 DEF Consume, RestTyped
  <2> QED
    BY <2>2, <2>3 DEF RestTyped
<1>3. ASSUME NEW a \in Admins, Admin(a) PROVE RestTyped'
  <2>1. UNCHANGED <<sourceVars, lastPush>>
    BY <1>3 DEF Admin, Put, Reload, Rollback, Begin, PutSave, ReloadLatest, configVars, seen
  <2>2. admins' = admins \/ (admins < MaxAdmin /\ admins' = admins + 1)
    BY <1>3 DEF Admin, Put, Reload, Rollback, Begin, PutSave, ReloadLatest
  <2>3. admins' \in 0..MaxAdmin
    BY <2>2, ControlAssumption DEF RestTyped
  <2> QED
    BY <2>1, <2>3 DEF RestTyped, sourceVars
<1>4. CASE Outside
  <2>1. UNCHANGED <<admins, lastPush>>
    BY <1>4 DEF Outside, controlVars
  <2>2. ASSUME NEW s \in SourceSet, NEW snap \in Snapshots \cup {Broken}, Change(s, snap)
        PROVE  RestTyped'
    <3>1. changes' \in 0..MaxChanges
      BY <2>2, ConfigAssumption DEF Change, RestTyped
    <3>2. fileEvent' \in BOOLEAN /\ watched' \in BOOLEAN
      BY <2>2 DEF Change, RestTyped
    <3> QED
      BY <2>1, <2>2, <3>1, <3>2 DEF Change, RestTyped
  <2>3. CASE NacosNotify
    BY <2>1, <2>3 DEF NacosNotify, ControlInv, SourcesOK, RestTyped
  <2>4. CASE WarmupRead \/ WarmupSend
    BY <2>1, <2>4 DEF WarmupRead, WarmupSend, RestTyped
  <2>5. CASE FileRefresh
    BY <2>1, <2>5 DEF FileRefresh, RestTyped
  <2> QED
    BY <1>4, <2>2, <2>3, <2>4, <2>5 DEF Outside, Changes, Watchers
<1>5. CASE Handlers \/ Rest \/ UNCHANGED vars
  BY <1>5 DEF Handlers, Rest, vars, configVars, sourceVars, controlVars, RestTyped
<1> QED
  BY <1>1, <1>2, <1>3, <1>4, <1>5 DEF Next

\* Both are invariants.
LEMMA RulesInvCorrect == Spec => [](RulesInv /\ RestTyped)
<1>1. ControlInv /\ RulesInv /\ RestTyped /\ [Next]_vars => RulesInv' /\ RestTyped'
  BY RulesNext, RestNext
<1> QED
  BY <1>1, RulesInitOK, HistoryIndexInvariant, PTL DEF Spec

\* Every variable of the control plane keeps its type (the jobs' contents: JobsOK).
THEOREM TypeCorrect == Spec => []TypeOK
<1>1. ControlInv /\ RulesInv /\ RestTyped => TypeOK
  <2> SUFFICES ASSUME ControlInv, RulesInv, RestTyped PROVE TypeOK
    OBVIOUS
  <2>1. RulesTypeOK(MaxVersion, Actors)
    BY DEF RulesInv
  <2>2. ConfigTypeOK
    BY DEF ControlInv, SourcesOK, HistoryOK, HistoryTyped, RuleSetType, RestTyped, ConfigTypeOK
  <2>3. \A p \in Actors :
          /\ job[p].op \in {"none", "push", "put", "reload", "rollback"}
          /\ job[p].at \in {"idle", "save", "install", "rebuild", "put", "latest"}
          /\ job[p].snap \in Snapshots
    BY DEF ControlInv, JobsOK, JobType, Steps
  <2> QED
    BY <2>1, <2>2, <2>3 DEF RestTyped, TypeOK
<1> QED
  BY <1>1, HistoryIndexInvariant, RulesInvCorrect, PTL

\* While no installation is under way and the table is the one a request loaded, every
\* bucket goes to rules that match its samples, for any rule sets, kinds and requests
\* (manager.go:39).
THEOREM RoutedAsMatched == Spec => []MatchedUnlessSwapped
<1>1. RulesInv => MatchedUnlessSwapped
  <2> SUFFICES ASSUME RulesInv, NEW q \in Requests, Running(q), rulesMu = Nobody,
                      request[q].entries = table, NEW i \in request[q].next..Len(table)
               PROVE  Matched(table, i)
    BY DEF MatchedUnlessSwapped
  <2>1. /\ rules \in [Names -> RuleSetType \cup {NotInstalled}] /\ table \in Seq(Entry)
        /\ request[q].next \in Nat
    BY DEF RulesInv, RulesTypeOK, RuleSetType
  <2>2. Len(table) \in Nat /\ DOMAIN table = 1..Len(table) /\ i \in 1..Len(table)
    BY <2>1 DEF Running
  <2>3. table[i].match = rules[table[i].name].match
    BY <2>1, <2>2, RouteTableIs DEF RulesInv
  <2>4. ASSUME NEW k \in Kinds, Owner(table, k) = i, table[i].match # {}
        PROVE  k \in table[i].match
    <3> DEFINE accepting == {j \in DOMAIN table : Accepts(table[j], k)}
               default == {j \in DOMAIN table : table[j].match = {}}
               owners == IF accepting # {} THEN accepting ELSE default \cup {Len(table) + 1}
    <3>1. owners \in SUBSET Nat /\ owners # {}
      BY <2>2
    <3>2. i = Min(owners)
      BY <2>4 DEF Owner
    <3>3. i \in owners
      <4> HIDE DEF owners
      <4> QED
        BY <3>1, <3>2, MinInSet
    <3>4. i \in accepting
      BY <2>2, <2>4, <3>3
    <3> QED
      BY <3>4 DEF Accepts
  <2> QED
    BY <2>3, <2>4 DEF Matched, Bucket
<1> QED
  BY <1>1, RulesInvCorrect, PTL
-----------------------------------------------------------------------------
\* A list of what is left to do of another: its end.  Behind is what is done.
Progress(todo, all) ==
  /\ Len(todo) <= Len(all)
  /\ \A i \in 1..Len(todo) : todo[i] = all[Len(all) - Len(todo) + i]
Behind(todo, all) == 1..(Len(all) - Len(todo))

\* At first everything is left.
LEMMA ProgressStart ==
  ASSUME NEW S, NEW all \in Seq(S)
  PROVE  Progress(all, all) /\ Behind(all, all) = {}
<1>1. Len(all) \in Nat
  BY LenProperties
<1>2. PICK n : n = Len(all)
  OBVIOUS
<1>3. \A i \in 1..n : n - n + i = i
  BY <1>1, <1>2
<1>4. n <= n /\ 1..(n - n) = {}
  BY <1>1, <1>2
<1> QED
  BY <1>2, <1>3, <1>4 DEF Progress, Behind

\* The first of what is left is one of the list, and is done next.
LEMMA ProgressStep ==
  ASSUME NEW S, NEW all \in Seq(S), NEW todo \in Seq(S), todo # <<>>, Progress(todo, all)
  PROVE  \E k \in 1..Len(all) :
           /\ Head(todo) = all[k]
           /\ Progress(Tail(todo), all)
           /\ Behind(todo, all) = 1..(k - 1) /\ Behind(Tail(todo), all) = 1..k
<1>1. /\ Len(all) \in Nat /\ Len(todo) \in Nat /\ Len(todo) <= Len(all)
      /\ todo # <<>> => Len(todo) # 0
  BY LenProperties, EmptySeq DEF Progress
<1>2. PICK n, m : n = Len(all) /\ m = Len(todo)
  OBVIOUS
<1>3. PICK k : k = n - m + 1
  OBVIOUS
<1>4. n \in Nat /\ m \in Nat /\ m # 0 /\ m <= n
  BY <1>1, <1>2
<1>5. k \in 1..n /\ n - m = k - 1 /\ n - (m - 1) = k /\ 1 \in 1..m /\ n - m + 1 = k
  BY <1>3, <1>4
<1>6. /\ Head(todo) = todo[1] /\ Len(Tail(todo)) = m - 1
      /\ \A i \in 1..(m - 1) : Tail(todo)[i] = todo[i + 1]
  BY <1>2, HeadTailProperties
<1>7. \A i \in 1..m : todo[i] = all[n - m + i]
  BY <1>2 DEF Progress
<1>8. Head(todo) = all[k]
  BY <1>5, <1>6, <1>7
<1>9. \A i \in 1..(m - 1) : i + 1 \in 1..m /\ n - m + (i + 1) = n - (m - 1) + i
  BY <1>4
<1>10. \A i \in 1..(m - 1) : Tail(todo)[i] = all[n - (m - 1) + i]
  BY <1>6, <1>7, <1>9
<1>11. m - 1 <= n
  BY <1>4
<1>12. Progress(Tail(todo), all)
  BY <1>2, <1>6, <1>10, <1>11 DEF Progress
<1>13. Behind(todo, all) = 1..(k - 1) /\ Behind(Tail(todo), all) = 1..k
  BY <1>2, <1>5, <1>6 DEF Behind
<1> QED
  BY <1>2, <1>5, <1>8, <1>12, <1>13

\* When nothing is left, all is done.
LEMMA ProgressEnd ==
  ASSUME NEW S, NEW all \in Seq(S)
  PROVE  Behind(<<>>, all) = 1..Len(all)
<1>1. Len(all) \in Nat /\ Len(<<>>) = 0
  BY LenProperties
<1>2. Len(all) - 0 = Len(all)
  BY <1>1
<1> QED
  BY <1>1, <1>2 DEF Behind
-----------------------------------------------------------------------------
\* A job of the callback: it installs what is left of a snapshot all of which compiles,
\* and saves only behind rule sets that do.
Pushing(j) ==
  /\ j.op = "push" /\ j.at \in {"save", "install", "rebuild"}
  /\ j.at = "save" =>
       /\ Progress(j.todo, Content[j.snap])
       /\ \A i \in Behind(j.todo, Content[j.snap]) : Content[j.snap][i].compiles
  /\ j.at # "save" => Compiles(j.snap) /\ Progress(j.todo, CompiledOf(j.snap))

Busy(j) == j.at # "idle"
BusyPushing(j) == Busy(j) => Pushing(j)

\* Before the first admin request every job is one of the callback's.
LoadInv ==
  admins = 0 =>
    /\ \A a \in Admins : ~Busy(job[a])
    /\ \A p \in Actors : BusyPushing(job[p])

\* A job that has nothing to do.
LEMMA IdlePushing == BusyPushing(NoJob) /\ ~Busy(NoJob)
BY DEF BusyPushing, Busy, NoJob

\* A job that begins to apply a snapshot.
LEMMA ApplyPushing ==
  ASSUME NEW snap \in Snapshots
  PROVE  BusyPushing(ApplyJob("push", snap, 0)) /\ Busy(ApplyJob("push", snap, 0))
<1>1. Content[snap] \in Seq(Yamls)
  BY CompiledTyped
<1>2. Progress(Content[snap], Content[snap]) /\ Behind(Content[snap], Content[snap]) = {}
  BY <1>1, ProgressStart
<1> QED
  BY <1>2 DEF BusyPushing, Pushing, Busy, ApplyJob

\* A job that has saved one more rule set, which compiles.
LEMMA SavePushing ==
  ASSUME NEW j, JobOK(j), j.at = "save", j.todo # <<>>, Pushing(j)
  PROVE  /\ Head(j.todo).compiles => BusyPushing([j EXCEPT !.todo = Tail(@)])
         /\ ~Head(j.todo).compiles => ~Compiles(j.snap)
<1>1. j \in JobType /\ j.todo \in Seq(Yamls) /\ j.snap \in Snapshots
  BY DEF JobOK, JobType
<1>2. PICK all : all = Content[j.snap]
  OBVIOUS
<1>3. all \in Seq(Yamls) /\ DOMAIN all = 1..Len(all)
  BY <1>1, <1>2, CompiledTyped
<1>4. Progress(j.todo, all) /\ \A i \in Behind(j.todo, all) : all[i].compiles
  BY <1>2 DEF Pushing
<1>5. PICK k \in 1..Len(all) :
        /\ Head(j.todo) = all[k]
        /\ Progress(Tail(j.todo), all)
        /\ Behind(j.todo, all) = 1..(k - 1) /\ Behind(Tail(j.todo), all) = 1..k
  BY <1>1, <1>3, <1>4, ProgressStep
<1>6. ASSUME ~Head(j.todo).compiles PROVE ~Compiles(j.snap)
  BY <1>2, <1>3, <1>5, <1>6 DEF Compiles
<1>7. ASSUME Head(j.todo).compiles PROVE BusyPushing([j EXCEPT !.todo = Tail(@)])
  <2> DEFINE next == [j EXCEPT !.todo = Tail(@)]
  <2>1. /\ next.op = "push" /\ next.at = "save" /\ next.snap = j.snap
        /\ next.todo = Tail(j.todo)
    BY <1>1 DEF Pushing, JobType
  <2>2. \A i \in 1..k : i \in 1..(k - 1) \/ i = k
    BY <1>3
  <2>3. \A i \in Behind(Tail(j.todo), all) : all[i].compiles
    BY <1>4, <1>5, <1>7, <2>2
  <2> HIDE DEF next
  <2>4. BusyPushing(next)
    BY <1>2, <1>5, <2>1, <2>3 DEF BusyPushing, Pushing
  <2> QED
    BY <2>4 DEF next
<1> QED
  BY <1>6, <1>7

\* A job that has saved all and goes on to install: all of it compiles.
LEMMA InstallPushing ==
  ASSUME NEW j, JobOK(j), j.at = "save", j.todo = <<>>, Pushing(j)
  PROVE  /\ Compiles(j.snap)
         /\ BusyPushing(Install(j, CompiledOf(j.snap)))
         /\ Behind(CompiledOf(j.snap), CompiledOf(j.snap)) = {}
<1>1. j \in JobType /\ j.snap \in Snapshots
  BY DEF JobOK, JobType
<1>2. /\ Content[j.snap] \in Seq(Yamls) /\ DOMAIN Content[j.snap] = 1..Len(Content[j.snap])
      /\ CompiledOf(j.snap) \in Seq(RuleSetType)
  BY <1>1, CompiledTyped
<1>3. Behind(<<>>, Content[j.snap]) = 1..Len(Content[j.snap])
  BY <1>2, ProgressEnd
<1>4. Compiles(j.snap)
  BY <1>2, <1>3 DEF Pushing, Compiles
<1>5. Progress(CompiledOf(j.snap), CompiledOf(j.snap)) /\ Behind(CompiledOf(j.snap), CompiledOf(j.snap)) = {}
  BY <1>2, ProgressStart
<1> DEFINE next == Install(j, CompiledOf(j.snap))
<1>6. /\ next.op = "push" /\ next.at = "install" /\ next.snap = j.snap
      /\ next.todo = CompiledOf(j.snap)
  BY <1>1 DEF Pushing, JobType, Install
<1> HIDE DEF next
<1>7. BusyPushing(next)
  BY <1>4, <1>5, <1>6 DEF BusyPushing, Pushing
<1> QED
  BY <1>4, <1>5, <1>7 DEF next

\* The next rule set a job installs is one of its snapshot's, and the job goes on.
LEMMA RulesPushing ==
  ASSUME NEW j, JobOK(j), j.at = "install", Pushing(j)
  PROVE  \E k \in 1..Len(CompiledOf(j.snap)) :
           /\ Head(j.todo) = CompiledOf(j.snap)[k]
           /\ BusyPushing([j EXCEPT !.at = "rebuild", !.todo = Tail(@)])
           /\ Behind(j.todo, CompiledOf(j.snap)) = 1..(k - 1)
           /\ Behind(Tail(j.todo), CompiledOf(j.snap)) = 1..k
<1>1. j \in JobType /\ j.todo \in Seq(RuleSetType) /\ j.todo # <<>> /\ j.snap \in Snapshots
  BY DEF JobOK, JobType
<1>2. PICK all : all = CompiledOf(j.snap)
  OBVIOUS
<1>3. all \in Seq(RuleSetType)
  BY <1>1, <1>2, CompiledTyped
<1>4. Progress(j.todo, all) /\ Compiles(j.snap)
  BY <1>2 DEF Pushing
<1>5. PICK k \in 1..Len(all) :
        /\ Head(j.todo) = all[k]
        /\ Progress(Tail(j.todo), all)
        /\ Behind(j.todo, all) = 1..(k - 1) /\ Behind(Tail(j.todo), all) = 1..k
  BY <1>1, <1>3, <1>4, ProgressStep
<1> DEFINE next == [j EXCEPT !.at = "rebuild", !.todo = Tail(@)]
<1>6. /\ next.op = "push" /\ next.at = "rebuild" /\ next.snap = j.snap
      /\ next.todo = Tail(j.todo)
  BY <1>1 DEF Pushing, JobType
<1> HIDE DEF next
<1>7. BusyPushing(next)
  BY <1>2, <1>4, <1>5, <1>6 DEF BusyPushing, Pushing
<1> QED
  BY <1>2, <1>5, <1>7 DEF next

\* So does a job that has rebuilt the table.
LEMMA TablePushing ==
  ASSUME NEW j, JobOK(j), j.at = "rebuild", Pushing(j)
  PROVE  BusyPushing(Install(j, j.todo))
<1> DEFINE next == Install(j, j.todo)
<1>1. /\ next.op = "push" /\ next.at = "install" /\ next.snap = j.snap
      /\ next.todo = j.todo
  BY DEF JobOK, Pushing, JobType, Install
<1> HIDE DEF next
<1>2. BusyPushing(next)
  BY <1>1 DEF BusyPushing, Pushing
<1> QED
  BY <1>2 DEF next

\* What a step of the callback does to its job and to the rules.
Advance(p, j) == p \in Actors /\ Goes(p, j) /\ BusyPushing(j) /\ UNCHANGED <<admins, lastPush, brought>>

\* A job of the callback that advances keeps the jobs as they are.
LEMMA AdvanceLoad ==
  ASSUME ControlInv, LoadInv, admins = 0, NEW p, NEW j, Advance(p, j), Busy(job[p])
  PROVE  LoadInv'
<1>1. /\ job \in [Actors -> JobType] /\ job' = [job EXCEPT ![p] = j]
      /\ admins' = admins /\ p \in Actors /\ BusyPushing(j)
  BY DEF ControlInv, JobsOK, Advance, Goes
<1>2. p \notin Admins
  BY DEF LoadInv
<1>3. \A q \in Actors : job'[q] = IF q = p THEN j ELSE job[q]
  BY <1>1
<1>4. \A a \in Admins : ~Busy(job'[a])
  BY <1>2, <1>3 DEF LoadInv, Actors
<1>5. \A q \in Actors : BusyPushing(job'[q])
  BY <1>1, <1>3 DEF LoadInv
<1> QED
  BY <1>4, <1>5 DEF LoadInv

\* Where no rule set has the name the old one stays, else the last that has it is there.
LEMMA OverAt ==
  ASSUME NEW rs, NEW todo \in Seq(RuleSetType), NEW n \in Names
  PROVE  \/ /\ \A i \in 1..Len(todo) : todo[i].name # n
            /\ Over(rs, todo)[n] = rs[n]
         \/ \E k \in 1..Len(todo) :
              /\ todo[k].name = n /\ Over(rs, todo)[n] = todo[k]
              /\ \A i \in 1..Len(todo) : todo[i].name = n => i <= k
<1> DEFINE its == {i \in DOMAIN todo : todo[i].name = n}
<1>1. DOMAIN todo = 1..Len(todo) /\ Len(todo) \in Nat
  OBVIOUS
<1>2. Over(rs, todo)[n] = IF its = {} THEN rs[n] ELSE todo[Max(its)]
  BY Zenon DEF Over
<1>3. CASE its = {}
  BY <1>1, <1>2, <1>3
<1>4. CASE its # {}
  <2>1. its \in SUBSET Nat
    BY <1>1
  <2>2. IsFiniteSet(its)
    <3>1. its \in SUBSET (1..Len(todo)) /\ 1 \in Int /\ Len(todo) \in Int
      BY <1>1
    <3>2. IsFiniteSet(1..Len(todo))
      BY <3>1, FS_Interval
    <3> QED
      BY <3>1, <3>2, FS_Subset
  <2>3. Max(its) \in its /\ \A i \in its : i <= Max(its)
    <3> HIDE DEF its
    <3> QED
      BY <1>4, <2>1, <2>2, MaxInSet
  <2>4. PICK k : k = Max(its)
    OBVIOUS
  <2>5. Over(rs, todo)[n] = todo[k]
    BY <1>2, <1>4, <2>4
  <2>6. k \in 1..Len(todo) /\ todo[k].name = n /\ \A i \in 1..Len(todo) : todo[i].name = n => i <= k
    BY <1>1, <2>3, <2>4
  <2> QED
    BY <2>5, <2>6
<1> QED
  BY <1>3, <1>4

\* Nothing over the rules leaves them.
LEMMA OverNone ==
  ASSUME NEW T, NEW rs \in [Names -> T]
  PROVE  Over(rs, <<>>) = rs
<1>1. \A n \in Names : {i \in DOMAIN <<>> : <<>>[i].name = n} = {}
  OBVIOUS
<1>2. Over(rs, <<>>) = [n \in Names |-> rs[n]]
  BY <1>1, Zenon DEF Over
<1> QED
  BY <1>2

\* Twice the same is once.
LEMMA OverTwice ==
  ASSUME NEW rs, NEW todo
  PROVE  Over(Over(rs, todo), todo) = Over(rs, todo)
BY Zenon DEF Over

\* The first can be installed before the others.
LEMMA OverFirst ==
  ASSUME NEW T, NEW rs \in [Names -> T], NEW todo \in Seq(RuleSetType), todo # <<>>
  PROVE  Over([rs EXCEPT ![Head(todo).name] = Head(todo)], Tail(todo)) = Over(rs, todo)
<1> DEFINE first == Head(todo)
           rest == Tail(todo)
           one == [rs EXCEPT ![first.name] = first]
<1>1. /\ first = todo[1] /\ rest \in Seq(RuleSetType) /\ Len(todo) \in Nat \ {0} /\ Len(rest) = Len(todo) - 1
      /\ \A i \in 1..Len(rest) : rest[i] = todo[i + 1]
  BY HeadTailProperties, LenProperties, EmptySeq
<1>2. first.name \in Names
  <2>1. first \in RuleSetType
    BY HeadTailProperties
  <2> QED
    BY <2>1 DEF RuleSetType, RuleSets
<1>3. \A n \in Names : one[n] = IF n = first.name THEN first ELSE rs[n]
  BY <1>2
<1>4. ASSUME NEW n \in Names PROVE Over(one, rest)[n] = Over(rs, todo)[n]
  <2> HIDE DEF one, first, rest
  <2>1. \/ /\ \A i \in 1..Len(todo) : todo[i].name # n
           /\ Over(rs, todo)[n] = rs[n]
        \/ \E k \in 1..Len(todo) :
              /\ todo[k].name = n /\ Over(rs, todo)[n] = todo[k]
              /\ \A i \in 1..Len(todo) : todo[i].name = n => i <= k
    BY OverAt
  <2>2. \/ /\ \A i \in 1..Len(rest) : rest[i].name # n
           /\ Over(one, rest)[n] = one[n]
        \/ \E k \in 1..Len(rest) :
              /\ rest[k].name = n /\ Over(one, rest)[n] = rest[k]
              /\ \A i \in 1..Len(rest) : rest[i].name = n => i <= k
    BY <1>1, OverAt
  <2>3. CASE \A i \in 1..Len(rest) : rest[i].name # n
    <3>1. Over(one, rest)[n] = one[n]
      BY <2>2, <2>3
    <3>2. ASSUME NEW k \in 1..Len(todo), k # 1 PROVE todo[k].name # n
      <4>1. k - 1 \in 1..Len(rest) /\ (k - 1) + 1 = k
        BY <1>1, <3>2
      <4> QED
        BY <1>1, <2>3, <4>1
    <3>3. CASE first.name = n
      <4>1. 1 \in 1..Len(todo) /\ todo[1].name = n
        BY <1>1, <3>3
      <4>2. PICK k \in 1..Len(todo) : todo[k].name = n /\ Over(rs, todo)[n] = todo[k]
        BY <2>1, <4>1
      <4>3. k = 1
        BY <3>2, <4>2
      <4> QED
        BY <1>1, <1>3, <3>1, <3>3, <4>2, <4>3
    <3>4. CASE first.name # n
      <4>1. \A k \in 1..Len(todo) : todo[k].name # n
        BY <1>1, <3>2, <3>4
      <4>2. Over(rs, todo)[n] = rs[n]
        BY <2>1, <4>1
      <4> QED
        BY <1>3, <3>1, <3>4, <4>2
    <3> QED
      BY <3>3, <3>4
  <2>4. CASE \E i \in 1..Len(rest) : rest[i].name = n
    <3>1. PICK m \in 1..Len(rest) :
            /\ rest[m].name = n /\ Over(one, rest)[n] = rest[m]
            /\ \A i \in 1..Len(rest) : rest[i].name = n => i <= m
      BY <2>2, <2>4
    <3>2. m + 1 \in 1..Len(todo) /\ todo[m + 1] = rest[m]
      BY <1>1, <3>1
    <3>3. PICK k \in 1..Len(todo) :
            /\ todo[k].name = n /\ Over(rs, todo)[n] = todo[k]
            /\ \A i \in 1..Len(todo) : todo[i].name = n => i <= k
      BY <2>1, <3>1, <3>2
    <3>4. m + 1 <= k
      BY <3>1, <3>2, <3>3
    <3>5. k - 1 \in 1..Len(rest) /\ (k - 1) + 1 = k
      BY <1>1, <3>4
    <3>6. rest[k - 1] = todo[k]
      BY <1>1, <3>5
    <3>7. k - 1 <= m
      BY <3>1, <3>3, <3>5, <3>6
    <3>8. k = m + 1
      BY <3>4, <3>7
    <3> QED
      BY <3>1, <3>2, <3>3, <3>8
  <2> QED
    BY <2>3, <2>4
<1>5. Over(one, rest) = [n \in Names |-> Over(one, rest)[n]] /\ Over(rs, todo) = [n \in Names |-> Over(rs, todo)[n]]
  BY Zenon DEF Over
<1> HIDE DEF one, rest
<1>6. Over(one, rest) = Over(rs, todo)
  BY <1>4, <1>5
<1> QED
  BY <1>6 DEF one, rest
-----------------------------------------------------------------------------
\* What the rules rs become when a job is left to finish.
Target(j, rs) ==
  IF ~Busy(j) THEN rs ELSE IF j.at = "save" THEN With(rs, j.snap) ELSE Over(rs, j.todo)

\* A step of the callback: its job goes on with its snapshot, or has come to its end;
\* what the rules will be when it is done stays the same.
Continues(p, j) ==
  /\ Busy(job[p]) /\ Advance(p, j)
  /\ current' \in {current, job[p].snap}
  /\ Busy(j) => j.snap = job[p].snap
  /\ Target(j, rules') = Target(job[p], rules)

\* Saving the next rule set, or giving the snapshot up.
LEMMA SaveNextContinues ==
  ASSUME ControlInv, LoadInv, admins = 0, NEW p \in Actors, SaveNext(p)
  PROVE  \E j : Continues(p, j)
<1>1. JobOK(job[p]) /\ Pushing(job[p]) /\ job[p].at = "save" /\ job[p].todo # <<>>
  BY DEF SaveNext, At, ControlInv, JobsOK, LoadInv, BusyPushing, Busy
<1>2. PICK old : old = job[p]
  OBVIOUS
<1>3. UNCHANGED <<rules, current, admins, lastPush, brought>>
  BY DEF SaveNext, rulesVars, seen
<1>4. CASE Head(old.todo).compiles
  <2> DEFINE j == [old EXCEPT !.todo = Tail(@)]
  <2>1. Goes(p, j)
    BY <1>2, <1>4 DEF SaveNext
  <2>2. BusyPushing(j) /\ j.at = "save" /\ j.snap = old.snap
    BY <1>1, <1>2, <1>4, SavePushing DEF JobOK, JobType
  <2> HIDE DEF j
  <2>3. Advance(p, j)
    BY <1>3, <2>1, <2>2 DEF Advance
  <2>4. Busy(old) /\ Busy(j) /\ Target(j, rules') = Target(old, rules)
    BY <1>1, <1>2, <1>3, <2>2 DEF Busy, Target
  <2>5. Continues(p, j)
    BY <1>2, <1>3, <2>2, <2>3, <2>4 DEF Continues
  <2> QED
    BY <2>5
<1>5. CASE ~Head(old.todo).compiles
  <2>1. Goes(p, NoJob)
    BY <1>2, <1>5 DEF SaveNext
  <2>2. ~Compiles(old.snap)
    BY <1>1, <1>2, <1>5, SavePushing
  <2>3. Advance(p, NoJob)
    BY <1>3, <2>1, IdlePushing DEF Advance
  <2>4. Busy(old) /\ ~Busy(NoJob)
    BY <1>1, <1>2, IdlePushing DEF Busy
  <2>5. Target(NoJob, rules') = Target(old, rules)
    BY <1>1, <1>2, <1>3, <2>2, <2>4 DEF Target, With
  <2>6. Continues(p, NoJob)
    BY <1>2, <1>3, <2>3, <2>4, <2>5 DEF Continues
  <2> QED
    BY <2>6
<1> QED
  BY <1>4, <1>5

\* All is saved: the snapshot is current, and is installed next.
LEMMA AppliedContinues ==
  ASSUME ControlInv, RulesInv, LoadInv, admins = 0, NEW p \in Actors, Applied(p)
  PROVE  \E j : Continues(p, j)
<1>1. /\ JobOK(job[p]) /\ Pushing(job[p]) /\ job[p].at = "save" /\ job[p].todo = <<>>
      /\ job[p].op = "push"
  BY DEF Applied, At, ControlInv, JobsOK, LoadInv, BusyPushing, Busy, Pushing
<1>2. PICK old : old = job[p]
  OBVIOUS
<1>3. UNCHANGED <<rules, admins, lastPush, brought>> /\ current' = old.snap
  BY <1>2 DEF Applied, rulesVars, seen
<1>4. old \in JobType /\ old.snap \in Snapshots
  BY <1>1, <1>2 DEF JobOK, JobType
<1>7. rules \in [Names -> RuleSetType \cup {NotInstalled}]
  BY DEF RulesInv, RulesTypeOK, RuleSetType
<1>8. Target(old, rules) = Over(rules, CompiledOf(old.snap))
  <2>1. Compiles(old.snap)
    BY <1>1, <1>2, InstallPushing
  <2> QED
    BY <1>1, <1>2, <2>1 DEF Target, With, Busy
<1> DEFINE returned == {Content[old.snap][i].name : i \in DOMAIN Content[old.snap]}
<1>5. CASE returned = {}
  <2>1. Goes(p, NoJob)
    BY <1>1, <1>2, <1>5 DEF Applied
  <2>2. CompiledOf(old.snap) = <<>>
    <3>1. DOMAIN Content[old.snap] = {} /\ Content[old.snap] \in Seq(Yamls)
      BY <1>4, <1>5, CompiledTyped
    <3>2. Len(Content[old.snap]) \in Nat /\ DOMAIN Content[old.snap] = 1..Len(Content[old.snap])
      BY <3>1, LenProperties
    <3>3. Len(Content[old.snap]) = 0
      <4>1. PICK n \in Nat : n = Len(Content[old.snap])
        BY <3>2
      <4>2. 1..n = {}
        BY <3>1, <3>2, <4>1
      <4>3. 1 \notin 1..n
        BY <4>2
      <4> QED
        BY <4>1, <4>3
    <3> QED
      BY <1>4, <3>3, CompiledTyped, EmptySeq
  <2>3. Advance(p, NoJob)
    BY <1>3, <2>1, IdlePushing DEF Advance
  <2>4. Busy(old) /\ ~Busy(NoJob)
    BY <1>1, <1>2, IdlePushing DEF Busy
  <2>5. Over(rules, CompiledOf(old.snap)) = rules
    BY <1>7, <2>2, OverNone
  <2>6. Target(NoJob, rules') = Target(old, rules)
    BY <1>3, <1>8, <2>4, <2>5 DEF Target
  <2>7. Continues(p, NoJob)
    BY <1>2, <1>3, <2>3, <2>4, <2>6 DEF Continues
  <2> QED
    BY <2>7
<1>6. CASE returned # {}
  <2> DEFINE j == Install(old, CompiledOf(old.snap))
  <2>1. Goes(p, j)
    BY <1>1, <1>2, <1>6 DEF Applied
  <2>2. BusyPushing(j)
    BY <1>1, <1>2, InstallPushing
  <2>3. j.at = "install" /\ j.snap = old.snap /\ j.todo = CompiledOf(old.snap)
    BY <1>4 DEF JobType, Install
  <2> HIDE DEF j
  <2>4. Advance(p, j)
    BY <1>3, <2>1, <2>2 DEF Advance
  <2>5. Busy(old) /\ Busy(j) /\ Target(j, rules') = Target(old, rules)
    BY <1>1, <1>2, <1>3, <1>8, <2>3 DEF Busy, Target
  <2>6. Continues(p, j)
    BY <1>2, <1>3, <2>3, <2>4, <2>5 DEF Continues
  <2> QED
    BY <2>6
<1> QED
  BY <1>5, <1>6

\* The next rule set replaces the one of its name.
LEMMA InstallRulesContinues ==
  ASSUME ControlInv, RulesInv, LoadInv, admins = 0, NEW p \in Actors, InstallRules(p)
  PROVE  /\ \E j : Continues(p, j)
         /\ \E snap \in Snapshots : \E k \in DOMAIN CompiledOf(snap) :
              /\ Compiles(snap)
              /\ rules' = [rules EXCEPT ![CompiledOf(snap)[k].name] = CompiledOf(snap)[k]]
<1>1. JobOK(job[p]) /\ Pushing(job[p]) /\ job[p].at = "install"
  BY DEF InstallRules, At, ControlInv, JobsOK, LoadInv, BusyPushing, Busy
<1>2. PICK old : old = job[p]
  OBVIOUS
<1>3. old \in JobType /\ old.snap \in Snapshots /\ Compiles(old.snap)
  BY <1>1, <1>2 DEF JobOK, JobType, Pushing
<1>4. PICK all : all = CompiledOf(old.snap)
  OBVIOUS
<1>5. all \in Seq(RuleSetType) /\ DOMAIN all = 1..Len(all) /\ Len(all) = Len(Content[old.snap])
  BY <1>3, <1>4, CompiledTyped
<1> DEFINE j == [old EXCEPT !.at = "rebuild", !.todo = Tail(@)]
<1>6. PICK k \in 1..Len(all) :
        /\ Head(old.todo) = all[k] /\ BusyPushing(j)
        /\ Behind(old.todo, all) = 1..(k - 1) /\ Behind(Tail(old.todo), all) = 1..k
  BY <1>1, <1>2, <1>4, RulesPushing
<1>7. /\ UNCHANGED <<current, admins, lastPush, brought>> /\ Goes(p, j)
      /\ rules' = [rules EXCEPT ![all[k].name] = all[k]]
  BY <1>2, <1>6 DEF InstallRules, SetRules, configVars, seen
<1>8. j.at = "rebuild" /\ j.snap = old.snap /\ j.todo = Tail(old.todo)
  BY <1>3 DEF JobType
<1> HIDE DEF j
<1>9. Advance(p, j) /\ Busy(old) /\ Busy(j)
  BY <1>1, <1>2, <1>6, <1>7, <1>8 DEF Advance, Busy
<1>10. Target(j, rules') = Target(old, rules)
  <2>1. rules \in [Names -> RuleSetType \cup {NotInstalled}]
    BY DEF RulesInv, RulesTypeOK, RuleSetType
  <2>2. old.todo \in Seq(RuleSetType) /\ old.todo # <<>>
    BY <1>1, <1>2 DEF JobOK
  <2>3. rules' = [rules EXCEPT ![Head(old.todo).name] = Head(old.todo)]
    BY <1>6, <1>7
  <2>4. Over(rules', j.todo) = Over(rules, old.todo)
    BY <1>8, <2>1, <2>2, <2>3, OverFirst
  <2> QED
    BY <1>1, <1>2, <1>8, <1>9, <2>4 DEF Target
<1>11. Continues(p, j)
  BY <1>2, <1>7, <1>8, <1>9, <1>10 DEF Continues
<1> QED
  BY <1>2, <1>3, <1>4, <1>5, <1>7, <1>11

\* The table is rebuilt: on to the next rule set, or all of them are installed.
LEMMA InstallTableContinues ==
  ASSUME ControlInv, RulesInv, LoadInv, admins = 0, NEW p \in Actors, InstallTable(p)
  PROVE  \E j : Continues(p, j)
<1>1. JobOK(job[p]) /\ Pushing(job[p]) /\ job[p].at = "rebuild"
  BY DEF InstallTable, At, ControlInv, JobsOK, LoadInv, BusyPushing, Busy
<1>2. PICK old : old = job[p]
  OBVIOUS
<1>3. UNCHANGED <<rules, current, admins, lastPush, brought>>
  BY DEF InstallTable, Rebuild, configVars, seen
<1>4. old \in JobType /\ old.snap \in Snapshots
  BY <1>1, <1>2 DEF JobOK, JobType
<1>5. CASE old.todo = <<>>
  <2>1. Goes(p, NoJob)
    BY <1>2, <1>5 DEF InstallTable
  <2>2. rules \in [Names -> RuleSetType \cup {NotInstalled}]
    BY DEF RulesInv, RulesTypeOK, RuleSetType
  <2>3. Over(rules, old.todo) = rules
    BY <1>5, <2>2, OverNone
  <2>4. Advance(p, NoJob)
    BY <1>3, <2>1, IdlePushing DEF Advance
  <2>5. Busy(old) /\ ~Busy(NoJob)
    BY <1>1, <1>2, IdlePushing DEF Busy
  <2>6. Target(NoJob, rules') = Target(old, rules)
    BY <1>1, <1>2, <1>3, <2>3, <2>5 DEF Target
  <2>7. Continues(p, NoJob)
    BY <1>2, <1>3, <2>4, <2>5, <2>6 DEF Continues
  <2> QED
    BY <2>7
<1>6. CASE old.todo # <<>>
  <2> DEFINE j == Install(old, old.todo)
  <2>1. Goes(p, j)
    BY <1>2, <1>6 DEF InstallTable
  <2>2. BusyPushing(j)
    BY <1>1, <1>2, TablePushing
  <2>3. j.at = "install" /\ j.snap = old.snap /\ j.todo = old.todo
    BY <1>4 DEF JobType, Install
  <2> HIDE DEF j
  <2>4. Advance(p, j)
    BY <1>3, <2>1, <2>2 DEF Advance
  <2>5. Busy(old) /\ Busy(j) /\ Target(j, rules') = Target(old, rules)
    BY <1>1, <1>2, <1>3, <2>3 DEF Busy, Target
  <2>6. Continues(p, j)
    BY <1>2, <1>3, <2>3, <2>4, <2>5 DEF Continues
  <2> QED
    BY <2>6
<1> QED
  BY <1>5, <1>6

\* So every step of a job is one of the callback's.
LEMMA ApplyContinues ==
  ASSUME ControlInv, RulesInv, LoadInv, admins = 0, NEW p \in Actors, Apply(p)
  PROVE  \E j : Continues(p, j)
BY SaveNextContinues, AppliedContinues, InstallRulesContinues, InstallTableContinues DEF Apply
-----------------------------------------------------------------------------
\* At first only the start-up works, on the snapshot it has chosen.
LEMMA LoadInitOK == Init => LoadInv
<1> SUFFICES ASSUME Init PROVE LoadInv
  OBVIOUS
<1>1. /\ current \in Snapshots
      /\ job = [p \in Actors |-> IF p = Main THEN ApplyJob("push", current, 0) ELSE NoJob]
  BY InitEstablishesControlInv DEF Init, ControlInv
<1>2. \A a \in Admins : a # Main /\ a \in Actors
  BY ControlAssumption DEF Actors
<1> QED
  BY <1>1, <1>2, ApplyPushing, IdlePushing DEF LoadInv

\* A step of an administrator is not one before the first request.
LEMMA AdminCounts ==
  ASSUME ControlInv, RestTyped, LoadInv, NEW a \in Admins, Admin(a)
  PROVE  admins' # 0
<1>1. admins \in Nat
  BY ControlAssumption DEF RestTyped
<1>2. CASE admins' = admins + 1
  BY <1>1, <1>2
<1>3. CASE PutSave(a) \/ ReloadLatest(a)
  BY <1>3 DEF PutSave, ReloadLatest, At, LoadInv, Busy
<1> QED
  BY <1>2, <1>3 DEF Admin, Put, Reload, Rollback, Begin

\* A consumer that takes a snapshot: it is content with it, or begins to apply it.
LEMMA ConsumeJob ==
  ASSUME ControlInv, NEW s \in SourceSet, Consume(s)
  PROVE  \E snap \in Snapshots \cup {Broken} :
           /\ ~Busy(job[s])
           /\ lastPush' = IF snap = Broken THEN lastPush ELSE [lastPush EXCEPT ![s] = snap]
           /\ brought' = IF snap = Broken THEN brought ELSE With(brought, snap)
           /\ IF Changed(snap)
              THEN current' = snap /\ job' = [job EXCEPT ![s] = ApplyJob("push", snap, 0)]
              ELSE current' = current /\ job' = job
           /\ UNCHANGED <<rules, admins>>
<1>1. pushed[s] \in Seq(Snapshots \cup {Broken}) /\ pushed[s] # <<>>
  BY DEF Consume, Take, ControlInv, SourcesOK
<1>2. PICK snap \in Snapshots \cup {Broken} : snap = Head(pushed[s])
  BY <1>1, HeadTailProperties
<1>3. /\ lastPush' = IF snap = Broken THEN lastPush ELSE [lastPush EXCEPT ![s] = snap]
      /\ brought' = IF snap = Broken THEN brought ELSE With(brought, snap)
      /\ current' = IF Changed(snap) THEN snap ELSE current
      /\ job' = IF Changed(snap) THEN [job EXCEPT ![s] = ApplyJob("push", snap, 0)] ELSE job
      /\ UNCHANGED <<rules, admins>>
  BY <1>2 DEF Consume, rulesVars
<1>4. ~Busy(job[s])
  BY DEF Consume, At, Busy
<1> QED
  BY <1>3, <1>4

\* What leaves the jobs, the rules and the pushes alone.
StillJobs == UNCHANGED <<job, admins, lastPush, brought, current, rules>>

\* The steps, as far as the jobs before the first admin request are concerned.
LEMMA StepKinds ==
  ASSUME ControlInv, RulesInv, RestTyped, LoadInv, [Next]_vars, admins' = 0
  PROVE  /\ admins = 0
         /\ \/ \E p \in Actors : \E j : Continues(p, j)
            \/ \E s \in SourceSet : Started /\ Consume(s)
            \/ StillJobs
<1>1. \A a \in Admins : ~Admin(a)
  BY AdminCounts
<1>2. CASE \E p \in Actors : Apply(p)
  <2>1. PICK p \in Actors : Apply(p)
    BY <1>2
  <2>2. UNCHANGED admins
    BY <2>1 DEF Apply, SaveNext, Applied, InstallRules, InstallTable
  <2> QED
    BY <2>1, <2>2, ApplyContinues
<1>3. CASE \E s \in SourceSet : Started /\ Consume(s)
  BY <1>3 DEF Consume
<1>4. CASE Handlers
  <2>1. UNCHANGED rules
    BY <1>4 DEF Handlers, RequestNext, RequestBegin, RequestBucket, RequestEnd
  <2> QED
    BY <1>4, <2>1 DEF Handlers, StillJobs, configVars, controlVars
<1>5. CASE Outside
  BY <1>5 DEF Outside, StillJobs, rulesVars, controlVars
<1>6. CASE Rest \/ UNCHANGED vars
  BY <1>6 DEF Rest, StillJobs, vars, rulesVars, configVars, controlVars
<1> QED
  BY <1>1, <1>2, <1>3, <1>4, <1>5, <1>6 DEF Next

\* The jobs stay the callback's until the first admin request.
LEMMA LoadNext ==
  ASSUME ControlInv, RulesInv, RestTyped, LoadInv, [Next]_vars
  PROVE  LoadInv'
<1> SUFFICES ASSUME admins' = 0 PROVE LoadInv'
  BY DEF LoadInv
<1>1. ASSUME NEW p \in Actors, NEW j, Continues(p, j) PROVE LoadInv'
  BY <1>1, StepKinds, AdvanceLoad DEF Continues
<1>2. ASSUME NEW s \in SourceSet, Consume(s) PROVE LoadInv'
  <2>1. PICK snap \in Snapshots \cup {Broken} :
          IF Changed(snap) THEN job' = [job EXCEPT ![s] = ApplyJob("push", snap, 0)]
          ELSE job' = job
    BY <1>2, ConsumeJob
  <2>2. s \in Actors /\ s \notin Admins /\ job \in [Actors -> JobType]
    BY ControlAssumption DEF Actors, ControlInv, JobsOK
  <2>3. Changed(snap) => BusyPushing(ApplyJob("push", snap, 0))
    BY ApplyPushing DEF Changed
  <2>4. \A a \in Admins : job'[a] = job[a]
    BY <2>1, <2>2 DEF Actors
  <2>5. \A q \in Actors : job'[q] = job[q] \/ BusyPushing(job'[q])
    BY <2>1, <2>2, <2>3
  <2> QED
    BY <2>4, <2>5, StepKinds DEF LoadInv
<1>3. CASE StillJobs
  BY <1>3, StepKinds DEF LoadInv, StillJobs
<1> QED
  BY <1>1, <1>2, <1>3, StepKinds

\* It is an invariant.
LEMMA LoadInvCorrect == Spec => []LoadInv
<1>1. ControlInv /\ RulesInv /\ RestTyped /\ LoadInv /\ [Next]_vars => LoadInv'
  BY LoadNext
<1> QED
  BY <1>1, LoadInitOK, HistoryIndexInvariant, RulesInvCorrect, PTL DEF Spec

\* Until an administrator asks for it no rule set of a rejected snapshot is installed,
\* for any sources, snapshots and history (source.go:461-464).
THEOREM RejectedNeverInstalled == Spec => []RejectedStaysOut
<1>1. Init => RejectedStaysOut
  BY DEF Init, RulesInit, RejectedStaysOut
<1>2. ASSUME ControlInv, RulesInv, RestTyped, LoadInv, RejectedStaysOut, [Next]_vars
      PROVE  RejectedStaysOut'
  <2> SUFFICES ASSUME admins' = 0, NEW n \in Names
               PROVE  \/ rules'[n] \in {NotInstalled, RuleSet(Default, 1, {})}
                      \/ \E snap \in Snapshots : Compiles(snap) /\ rules'[n] \in ToSet(CompiledOf(snap))
    BY DEF RejectedStaysOut
  <2>1. /\ admins = 0
        /\ \/ rules[n] \in {NotInstalled, RuleSet(Default, 1, {})}
           \/ \E snap \in Snapshots : Compiles(snap) /\ rules[n] \in ToSet(CompiledOf(snap))
    BY <1>2, StepKinds DEF RejectedStaysOut
  <2>2. ASSUME NEW p \in Actors, InstallRules(p)
        PROVE  \/ rules'[n] = rules[n]
               \/ \E snap \in Snapshots : Compiles(snap) /\ rules'[n] \in ToSet(CompiledOf(snap))
    <3>1. PICK snap \in Snapshots : \E k \in DOMAIN CompiledOf(snap) :
            /\ Compiles(snap)
            /\ rules' = [rules EXCEPT ![CompiledOf(snap)[k].name] = CompiledOf(snap)[k]]
      BY <1>2, <2>1, <2>2, InstallRulesContinues
    <3>2. PICK k \in DOMAIN CompiledOf(snap) :
            /\ Compiles(snap)
            /\ rules' = [rules EXCEPT ![CompiledOf(snap)[k].name] = CompiledOf(snap)[k]]
      BY <3>1
    <3>3. PICK r : r = CompiledOf(snap)[k]
      OBVIOUS
    <3>4. r \in ToSet(CompiledOf(snap))
      BY <3>2, <3>3 DEF ToSet
    <3>5. rules \in [Names -> RuleSetType \cup {NotInstalled}]
      BY <1>2 DEF RulesInv, RulesTypeOK, RuleSetType
    <3>6. rules'[n] = rules[n] \/ rules'[n] = r
      BY <3>2, <3>3, <3>5
    <3> QED
      BY <3>2, <3>4, <3>6
  <2>3. ASSUME ~\E p \in Actors : InstallRules(p) PROVE rules' = rules
    <3>1. ASSUME NEW p \in Actors, SaveNext(p) \/ Applied(p) \/ InstallTable(p) PROVE rules' = rules
      BY <3>1 DEF SaveNext, Applied, InstallTable, Rebuild, rulesVars
    <3>2. ASSUME NEW s \in SourceSet, Consume(s) PROVE rules' = rules
      BY <3>2 DEF Consume, rulesVars
    <3>3. \A a \in Admins : ~Admin(a)
      BY <1>2, AdminCounts
    <3>4. CASE Handlers
      BY <3>4 DEF Handlers, RequestNext, RequestBegin, RequestBucket, RequestEnd
    <3>5. CASE Outside \/ Rest \/ UNCHANGED vars
      BY <3>5 DEF Outside, Rest, vars, rulesVars
    <3> QED
      BY <1>2, <2>3, <3>1, <3>2, <3>3, <3>4, <3>5 DEF Next, Apply
  <2> QED
    BY <2>1, <2>2, <2>3
<1>3. ControlInv /\ RulesInv /\ RestTyped /\ LoadInv /\ RejectedStaysOut /\ [Next]_vars
        => RejectedStaysOut'
  BY <1>2
<1> QED
  BY <1>1, <1>3, HistoryIndexInvariant, RulesInvCorrect, LoadInvCorrect, PTL DEF Spec
-----------------------------------------------------------------------------
\* No two snapshots have the same sum.
SumsDistinct == \A a, b \in Snapshots : MD5[a] = MD5[b] => a = b

\* While one source pushes: it and the start-up work one after the other, on the current
\* snapshot; when the one at work is done what the snapshots brought is what runs, and
\* the current one would bring nothing new.
Alone(s) == \A t \in SourceSet \ {s} : lastPush[t] = Broken

OnCurrent(s) ==
  /\ \A p \in {Main, s} : Busy(job[p]) => job[p].snap = current
  /\ \A p \in {Main, s} :
       (\A q \in {Main, s} : q # p => ~Busy(job[q])) => Target(job[p], rules) = brought
  /\ With(brought, current) = brought

OneInv ==
  admins = 0 =>
    /\ Busy(job[Main]) => \A s \in SourceSet : ~Busy(job[s]) /\ lastPush[s] = Broken
    /\ \A s \in SourceSet : Busy(job[s]) => lastPush[s] # Broken
    /\ \A s \in SourceSet : Alone(s) => OnCurrent(s)

\* A snapshot brings the same twice.
LEMMA WithTwice ==
  ASSUME NEW rs, NEW snap
  PROVE  With(With(rs, snap), snap) = With(rs, snap)
<1>1. Over(Over(rs, CompiledOf(snap)), CompiledOf(snap)) = Over(rs, CompiledOf(snap))
  BY OverTwice
<1> QED
  BY <1>1 DEF With

\* At first only the start-up is busy, with the current snapshot.
LEMMA OneInitOK == Init => OneInv
<1> SUFFICES ASSUME Init PROVE OneInv
  OBVIOUS
<1>1. /\ current \in Snapshots /\ lastPush = [s \in SourceSet |-> Broken]
      /\ job = [p \in Actors |-> IF p = Main THEN ApplyJob("push", current, 0) ELSE NoJob]
      /\ brought = With(rules, current)
  BY InitEstablishesControlInv DEF Init, ControlInv
<1>2. Main \in Actors /\ \A s \in SourceSet : s \in Actors /\ s # Main
  BY ConfigAssumption DEF Actors, SourceSet, ToSet, Main, Nacos, File
<1>3. \A s \in SourceSet : job[s] = NoJob /\ lastPush[s] = Broken
  BY <1>1, <1>2
<1>4. job[Main] = ApplyJob("push", current, 0)
  BY <1>1, <1>2
<1>5. Busy(job[Main]) /\ job[Main].snap = current /\ Target(job[Main], rules) = brought
  BY <1>1, <1>4 DEF Busy, ApplyJob, Target
<1>6. With(brought, current) = brought
  BY <1>1, WithTwice
<1>7. ASSUME NEW s \in SourceSet PROVE OnCurrent(s)
  <2>1. ~Busy(job[s]) /\ s # Main
    BY <1>2, <1>3, IdlePushing
  <2> QED
    BY <1>5, <1>6, <2>1 DEF OnCurrent
<1> QED
  BY <1>3, <1>7, IdlePushing DEF OneInv

\* A step of a job leaves what the other installs alone: there is no other.
LEMMA ContinuesOne ==
  ASSUME ControlInv, LoadInv, OneInv, admins = 0, NEW p \in Actors, NEW j, Continues(p, j)
  PROVE  OneInv'
<1>1. /\ Busy(job[p]) /\ job' = [job EXCEPT ![p] = j] /\ UNCHANGED <<admins, lastPush, brought>>
      /\ job \in [Actors -> JobType]
  BY DEF Continues, Advance, Goes, ControlInv, JobsOK
<1>2. Main \in Actors /\ \A s \in SourceSet : s \in Actors
  BY DEF Actors
<1>3. \A q \in Actors : job'[q] = IF q = p THEN j ELSE job[q]
  BY <1>1
<1>4. p = Main \/ p \in SourceSet
  BY <1>1 DEF LoadInv, Actors
<1>5. \A q \in Actors : Busy(job'[q]) => Busy(job[q])
  BY <1>1, <1>3
<1>6. ASSUME NEW s \in SourceSet, Alone(s) PROVE OnCurrent(s)'
  <2>1. OnCurrent(s) /\ p \in {Main, s}
    BY <1>1, <1>4, <1>6 DEF OneInv, Alone
  <2>2. \A q \in {Main, s} : q # p => ~Busy(job[q])
    BY <1>1, <2>1 DEF OneInv
  <2>3. job[p].snap = current /\ Target(job[p], rules) = brought /\ With(brought, current) = brought
    BY <1>1, <2>1, <2>2 DEF OnCurrent
  <2>4. /\ current' = current
        /\ Busy(j) => j.snap = current
        /\ Target(j, rules') = brought
    BY <2>3 DEF Continues
  <2>5. \A q \in {Main, s} : Busy(job'[q]) => q = p
    BY <1>2, <1>5, <2>2
  <2>6. job'[p] = j /\ \A q \in {Main, s} : q # p => job'[q] = job[q]
    BY <1>2, <1>3
  <2>7. \A q \in {Main, s} : Busy(job'[q]) => job'[q].snap = current'
    BY <2>4, <2>5, <2>6
  <2>8. ASSUME NEW r \in {Main, s}, \A q \in {Main, s} : q # r => ~Busy(job'[q])
        PROVE  Target(job'[r], rules') = brought'
    <3>1. CASE r = p
      BY <1>1, <2>4, <2>6, <3>1
    <3>2. CASE r # p
      <4>1. ~Busy(j) /\ ~Busy(job'[r])
        BY <2>1, <2>2, <2>6, <2>8, <3>2
      <4> QED
        BY <1>1, <2>4, <4>1 DEF Target
    <3> QED
      BY <3>1, <3>2
  <2>9. With(brought', current') = brought'
    BY <1>1, <2>3, <2>4
  <2> QED
    BY <2>7, <2>8, <2>9 DEF OnCurrent
<1>7. Busy(job'[Main]) => \A s \in SourceSet : ~Busy(job'[s]) /\ lastPush'[s] = Broken
  BY <1>1, <1>2, <1>5 DEF OneInv
<1>8. \A s \in SourceSet : Busy(job'[s]) => lastPush'[s] # Broken
  BY <1>1, <1>2, <1>5 DEF OneInv
<1>9. \A s \in SourceSet : Alone(s)' => Alone(s)
  BY <1>1 DEF Alone
<1> QED
  BY <1>6, <1>7, <1>8, <1>9 DEF OneInv

\* A source that pushes alone: what it brings is what its job, if it needs one, installs.
LEMMA ConsumeOne ==
  ASSUME SumsDistinct, ControlInv, RestTyped, OneInv, admins = 0,
         NEW s \in SourceSet, Started, Consume(s)
  PROVE  OneInv'
<1>1. PICK snap \in Snapshots \cup {Broken} :
        /\ ~Busy(job[s])
        /\ lastPush' = IF snap = Broken THEN lastPush ELSE [lastPush EXCEPT ![s] = snap]
        /\ brought' = IF snap = Broken THEN brought ELSE With(brought, snap)
        /\ IF Changed(snap)
           THEN current' = snap /\ job' = [job EXCEPT ![s] = ApplyJob("push", snap, 0)]
           ELSE current' = current /\ job' = job
        /\ UNCHANGED <<rules, admins>>
  BY ConsumeJob
<1>2. ~Busy(job[Main]) /\ Main # s /\ Main \in Actors /\ s \in Actors
  <2>1. Main # s
    BY ConfigAssumption DEF SourceSet, ToSet, Main, Nacos, File
  <2> QED
    BY <2>1 DEF Started, At, Busy, Actors
<1>3. /\ job \in [Actors -> JobType] /\ lastPush \in [SourceSet -> Snapshots \cup {Broken}]
      /\ \A t \in SourceSet : t \in Actors
  BY DEF ControlInv, JobsOK, RestTyped, Actors
<1>4. ~Busy(job'[Main]) /\ \A t \in SourceSet \ {s} : job'[t] = job[t] /\ lastPush'[t] = lastPush[t]
  BY <1>1, <1>2, <1>3
<1>5. CASE snap = Broken
  <2>1. UNCHANGED <<lastPush, brought, current, job, rules, admins>>
    BY <1>1, <1>5 DEF Changed
  <2> QED
    BY <2>1 DEF OneInv, OnCurrent, Alone
<1>6. CASE snap # Broken
  <2>1. lastPush'[s] = snap /\ brought' = With(brought, snap) /\ rules' = rules
    BY <1>1, <1>3, <1>6
  <2>2. current' = snap
    BY <1>1, <1>6 DEF Changed, SumsDistinct, ControlInv
  <2>3. ASSUME NEW t \in SourceSet, Alone(t)' PROVE OnCurrent(t)'
    <3>1. t = s
      BY <1>6, <2>1, <2>3 DEF Alone
    <3>2. Alone(s)
      BY <1>4, <2>3, <3>1 DEF Alone
    <3>3. OnCurrent(s)
      BY <3>2 DEF OneInv
    <3>4. rules = brought
      BY <1>1, <1>2, <3>3 DEF OnCurrent, Target
    <3>5. With(brought', current') = brought'
      BY <2>1, <2>2, WithTwice
    <3>6. CASE Changed(snap)
      <4>1. job'[s] = ApplyJob("push", snap, 0)
        BY <1>1, <1>2, <1>3, <3>6
      <4>2. Busy(job'[s]) /\ job'[s].snap = current' /\ Target(job'[s], rules') = brought'
        BY <2>1, <2>2, <3>4, <4>1 DEF Busy, ApplyJob, Target
      <4> QED
        BY <1>4, <3>1, <3>5, <4>2, <1>2 DEF OnCurrent
    <3>7. CASE ~Changed(snap)
      <4>1. UNCHANGED <<job, current, rules>>
        BY <1>1, <3>7
      <4>2. brought' = brought
        BY <2>1, <2>2, <3>3, <4>1 DEF OnCurrent
      <4> QED
        BY <3>1, <3>3, <4>1, <4>2 DEF OnCurrent
    <3> QED
      BY <3>6, <3>7
  <2>4. \A t \in SourceSet : Busy(job'[t]) => lastPush'[t] # Broken
    BY <1>1, <1>4, <1>6, <2>1 DEF OneInv
  <2> QED
    BY <1>4, <2>3, <2>4 DEF OneInv
<1> QED
  BY <1>5, <1>6

\* Steps of a source that pushes alone, and of the start-up.
LEMMA OneNext ==
  ASSUME SumsDistinct, ControlInv, RulesInv, RestTyped, LoadInv, OneInv, [Next]_vars
  PROVE  OneInv'
<1> SUFFICES ASSUME admins' = 0 PROVE OneInv'
  BY DEF OneInv
<1>1. CASE StillJobs
  BY <1>1, StepKinds DEF OneInv, OnCurrent, Alone, StillJobs
<1> QED
  BY <1>1, StepKinds, ContinuesOne, ConsumeOne

\* While only the source of the highest priority pushes, and no administrator acts, what
\* runs at rest is what the snapshots that compiled brought, the later one's rule set for
\* every name: for any snapshots, names twice in one included, accepted and rejected in
\* any order, provided that no two have the same sum.
THEOREM ConvergesToOneSource == ASSUME SumsDistinct PROVE Spec => []OneSourceConverges
<1>1. ControlInv /\ RulesInv /\ RestTyped /\ LoadInv /\ OneInv /\ [Next]_vars => OneInv'
  BY OneNext
<1>2. OneInv => OneSourceConverges
  <2> SUFFICES ASSUME OneInv, Quiet, admins = 0, Alone(Sources[1]) PROVE rules = brought
    BY DEF OneSourceConverges, Alone
  <2>1. Sources[1] \in SourceSet
    BY ConfigAssumption DEF SourceSet, ToSet
  <2>2. OnCurrent(Sources[1])
    BY <2>1 DEF OneInv
  <2>3. ~Busy(job[Main]) /\ ~Busy(job[Sources[1]])
    BY <2>1 DEF Quiet, Idle, At, Busy, Actors
  <2> QED
    BY <2>2, <2>3 DEF OnCurrent, Target
<1> QED
  BY <1>1, <1>2, OneInitOK, HistoryIndexInvariant, RulesInvCorrect, LoadInvCorrect, PTL DEF Spec
=============================================================================
