------------------------------ MODULE WalProofs ------------------------------
(***************************************************************************)
(* The write-ahead log keeps its files and its promise, for any number of  *)
(* writers, records of any sizes, segments, crashes and failing calls: one *)
(* unsealed file, sealed files nobody changes, segments confirmed only     *)
(* after delivery and in order, a byte counter the files bear out; and     *)
(* when framing survives, no acknowledged record is lost, so that the log  *)
(* implements the abstract one.                                            *)
(***************************************************************************)
EXTENDS Wal, DataLemmas, SequenceTheorems

FileType == [name : FileName, data : Seq(Entry), synced : Nat, footer : Int]

\* The record of a writer inside Write is one, a replay starts at the first position,
\* and no more is fsynced than there is.
TypeInv ==
  /\ TypeOK
  /\ replay.pos >= 1
  /\ \A w \in Writers : pc[w] # "idle" => rec[w] \in Records
  /\ \A s \in Segments : disk[s].synced <= Len(disk[s].data)
-----------------------------------------------------------------------------
\* A file with one field changed is a file with the other fields as they were.
LEMMA FileData ==
  ASSUME NEW f \in FileType, NEW d \in Seq(Entry)
  PROVE  LET g == [f EXCEPT !.data = d] IN
         /\ g \in FileType
         /\ g.name = f.name /\ g.data = d /\ g.synced = f.synced /\ g.footer = f.footer
  BY DEF FileType

\* Renaming.
LEMMA FileRenamed ==
  ASSUME NEW f \in FileType, NEW n \in FileName
  PROVE  LET g == [f EXCEPT !.name = n] IN
         /\ g \in FileType
         /\ g.name = n /\ g.data = f.data /\ g.synced = f.synced /\ g.footer = f.footer
  BY DEF FileType

\* An fsync.
LEMMA FileSynced ==
  ASSUME NEW f \in FileType, NEW y \in Nat
  PROVE  LET g == [f EXCEPT !.synced = y] IN
         /\ g \in FileType
         /\ g.name = f.name /\ g.data = f.data /\ g.synced = y /\ g.footer = f.footer
  BY DEF FileType

\* The three files without records.
LEMMA EmptyFiles ==
  /\ NoFile \in FileType /\ Removed \in FileType /\ NewFile \in FileType
  /\ NoFile.name = "absent" /\ Removed.name = "removed" /\ NewFile.name = "log"
  /\ \A f \in {NoFile, Removed, NewFile} : f.data = <<>> /\ f.synced = 0 /\ f.footer = -1
<1>1. <<>> \in Seq(Entry) /\ 0 \in Nat /\ -1 \in Int
  OBVIOUS
<1>2. NoFile \in FileType
  BY <1>1 DEF NoFile, FileType, FileName
<1>3. NoFile.name = "absent" /\ NoFile.data = <<>> /\ NoFile.synced = 0 /\ NoFile.footer = -1
  BY DEF NoFile
<1>4. "removed" \in FileName /\ "log" \in FileName
  BY DEF FileName
<1>5. /\ Removed \in FileType /\ Removed.name = "removed" /\ Removed.data = NoFile.data
      /\ Removed.synced = NoFile.synced /\ Removed.footer = NoFile.footer
  BY <1>2, <1>4, FileRenamed DEF Removed
<1>6. /\ NewFile \in FileType /\ NewFile.name = "log" /\ NewFile.data = NoFile.data
      /\ NewFile.synced = NoFile.synced /\ NewFile.footer = NoFile.footer
  BY <1>2, <1>4, FileRenamed DEF NewFile
<1> QED
  BY <1>2, <1>3, <1>5, <1>6
-----------------------------------------------------------------------------
\* The whole records of a file are finitely many positions of it.
LEMMA WholeIs ==
  ASSUME NEW f \in FileType
  PROVE  /\ Len(f.data) \in Nat /\ DOMAIN f.data = 1..Len(f.data)
         /\ WholeRecords(f) \subseteq 1..Len(f.data) /\ IsFiniteSet(WholeRecords(f))
         /\ RecordCount(f) \in Nat
         /\ \A i \in WholeRecords(f) : f.data[i] \in Records
<1>1. f.data \in Seq(Entry)
  BY DEF FileType
<1>2. Len(f.data) \in Nat /\ DOMAIN f.data = 1..Len(f.data)
  BY <1>1
<1>3. WholeRecords(f) \subseteq 1..Len(f.data)
  BY <1>2 DEF WholeRecords
<1>4. IsFiniteSet(WholeRecords(f))
  <2>1. IsFiniteSet(1..Len(f.data))
    BY <1>2, FS_Interval
  <2> QED
    BY <1>3, <2>1, FS_Subset
<1>5. \A i \in WholeRecords(f) : f.data[i] \in Records
  BY <1>1, <1>2, <1>3 DEF WholeRecords, Entry
<1> QED
  BY <1>2, <1>3, <1>4, <1>5, FS_CardinalityType DEF RecordCount

\* Framing by length reads the records before the first Junk, and no further.
LEMMA ReadableIs ==
  ASSUME NEW f \in FileType
  PROVE  /\ ReadableCount(f) \in 0..Len(f.data)
         /\ \A i \in 1..ReadableCount(f) : f.data[i] \in Records
         /\ ReadableCount(f) < Len(f.data) => f.data[ReadableCount(f) + 1] = Junk
<1> DEFINE J == {i \in DOMAIN f.data : f.data[i] = Junk} \cup {Len(f.data) + 1}
<1>1. f.data \in Seq(Entry) /\ Len(f.data) \in Nat /\ DOMAIN f.data = 1..Len(f.data)
  BY WholeIs DEF FileType
<1>2. J \in SUBSET Nat /\ J # {}
  BY <1>1
<1>3. PICK m : m = Min(J)
  OBVIOUS
<1>4. m \in J /\ \A i \in J : m <= i
  <2> HIDE DEF J
  <2> QED
    BY <1>2, <1>3, MinInSet
<1>5. ReadableCount(f) = m - 1
  BY <1>3 DEF ReadableCount
<1>6. m \in 1..Len(f.data) + 1 /\ (m < Len(f.data) + 1 => f.data[m] = Junk)
  BY <1>1, <1>4
<1>7. \A i \in 1..m - 1 : f.data[i] \in Records
  <2> SUFFICES ASSUME NEW i \in 1..m - 1 PROVE f.data[i] \in Records
    OBVIOUS
  <2>1. i \in 1..Len(f.data) /\ i < m
    BY <1>1, <1>6
  <2>2. f.data[i] # Junk
    BY <1>1, <1>4, <2>1
  <2> QED
    BY <1>1, <2>1, <2>2 DEF Entry
<1> HIDE DEF J
<1> QED
  BY <1>1, <1>5, <1>6, <1>7
-----------------------------------------------------------------------------
\* The sizes of records, files and sets of files are numbers.
LEMMA WrittenType ==
  ASSUME NEW f \in FileType
  PROVE  Written(f) \in Nat /\ FileSize(f) \in Nat
<1> DEFINE sizes == [i \in WholeRecords(f) |-> Size[f.data[i]]]
<1>1. IsFiniteSet(WholeRecords(f)) /\ \A i \in WholeRecords(f) : sizes[i] \in Nat
  BY WholeIs, WalAssumption
<1>2. Written(f) = SumFunctionOnSet(sizes, WholeRecords(f))
  BY DEF Written, SumFunction
<1>3. Written(f) \in Nat
  <2> HIDE DEF sizes
  <2> QED
    BY <1>1, <1>2, SumNat
<1>4. FooterSize \in Nat
  BY WalAssumption
<1> QED
  BY <1>3, <1>4 DEF FileSize

\* The segments are finitely many.
LEMMA SegmentsFinite == IsFiniteSet(Segments) /\ Segments \subseteq Nat /\ MaxSegment \in Nat
<1>1. MaxSegment \in Nat
  BY WalAssumption
<1> QED
  BY <1>1, FS_Interval DEF Segments

\* A total, as a sum over all segments.
LEMMA TotalIs ==
  ASSUME NEW d \in [Segments -> FileType], NEW S \in SUBSET Segments
  PROVE  /\ TotalSize(d, S) = SumFunctionOnSet([s \in Segments |-> FileSize(d[s])], S)
         /\ TotalSize(d, S) \in Nat
<1> DEFINE part == [s \in S |-> FileSize(d[s])]
           whole == [s \in Segments |-> FileSize(d[s])]
<1>1. IsFiniteSet(S)
  BY SegmentsFinite, FS_Subset
<1>2. \A s \in S : part[s] = whole[s] /\ part[s] \in Nat
  BY WrittenType
<1>3. TotalSize(d, S) = SumFunctionOnSet(part, S)
  BY DEF TotalSize, SumFunction
<1> HIDE DEF part, whole
<1>4. SumFunctionOnSet(part, S) = SumFunctionOnSet(whole, S) /\ SumFunctionOnSet(part, S) \in Nat
  BY <1>1, <1>2, SumEqual, SumNat
<1> QED
  BY <1>3, <1>4 DEF whole

\* What New makes of a file, whatever it frames behind the records that can be read.
Scanned(f, h) == \E framed \in BOOLEAN : h = Recover(f, framed)

\* What sealRecoveredSegment keeps: all that can be read, and at most one record more.
LEMMA RecoverIs ==
  ASSUME NEW f \in FileType, NEW h, Scanned(f, h)
  PROVE  /\ h \in FileType
         /\ f.name # "log" => h = f
         /\ f.name = "log" =>
              \/ h = Removed /\ ReadableCount(f) = 0
              \/ \E n \in {ReadableCount(f), ReadableCount(f) + 1} :
                   /\ n \in 1..Len(f.data)
                   /\ h.name = "sealed" /\ Len(h.data) = n /\ h.synced = n /\ h.footer = n
                   /\ \A i \in 1..n : h.data[i] = f.data[i]
<1>1. PICK framed \in BOOLEAN : h = Recover(f, framed)
  BY DEF Scanned
<1>2. PICK m : m = ReadableCount(f)
  OBVIOUS
<1>3. m \in 0..Len(f.data) /\ f.data \in Seq(Entry) /\ Len(f.data) \in Nat
  BY <1>2, ReadableIs, WholeIs DEF FileType
<1>4. PICK n : n = m + (IF framed /\ m < Len(f.data) THEN 1 ELSE 0)
  OBVIOUS
<1>5. n \in 0..Len(f.data) /\ n \in Nat /\ n \in {m, m + 1} /\ (n = 0 => m = 0)
  BY <1>3, <1>4
<1>6. h = IF f.name # "log" THEN f
          ELSE IF n = 0 THEN Removed
          ELSE [name |-> "sealed", data |-> SubSeq(f.data, 1, n), synced |-> n, footer |-> n]
  BY <1>1, <1>2, <1>4 DEF Recover
<1>7. /\ SubSeq(f.data, 1, n) \in Seq(Entry) /\ Len(SubSeq(f.data, 1, n)) = n
      /\ \A i \in 1..n : SubSeq(f.data, 1, n)[i] = f.data[i]
  BY <1>3, <1>5, SubSeqProperties
<1>8. CASE f.name # "log"
  BY <1>6, <1>8
<1>9. CASE f.name = "log" /\ n = 0
  BY <1>2, <1>5, <1>6, <1>9, EmptyFiles
<1>10. CASE f.name = "log" /\ n # 0
  <2>1. h = [name |-> "sealed", data |-> SubSeq(f.data, 1, n), synced |-> n, footer |-> n]
    BY <1>6, <1>10
  <2>2. n \in Nat /\ n \in Int /\ n \in 1..Len(f.data) /\ "sealed" \in FileName
    BY <1>3, <1>5, <1>10 DEF FileName
  <2>3. h \in FileType
    BY <1>7, <2>1, <2>2 DEF FileType
  <2> QED
    BY <1>2, <1>5, <1>7, <1>10, <2>1, <2>2, <2>3
<1> QED
  BY <1>8, <1>9, <1>10

\* What a crash leaves of a file: at least what was fsynced.
LEMMA CutIs ==
  ASSUME NEW f \in FileType, f.synced <= Len(f.data), NEW k \in Nat
  PROVE  \E m \in f.synced..Len(f.data) :
           /\ SubSeq(f.data, 1, Max({f.synced, Min({k, Len(f.data)})})) = SubSeq(f.data, 1, m)
           /\ SubSeq(f.data, 1, m) \in Seq(Entry) /\ Len(SubSeq(f.data, 1, m)) = m
           /\ \A i \in 1..m : SubSeq(f.data, 1, m)[i] = f.data[i]
<1>1. f.data \in Seq(Entry) /\ Len(f.data) \in Nat /\ f.synced \in Nat
  BY WholeIs DEF FileType
<1>2. PICK j : j = Min({k, Len(f.data)})
  OBVIOUS
<1>3. j \in Nat /\ j <= Len(f.data)
  BY <1>1, <1>2, MinOfTwo
<1>4. PICK m : m = Max({f.synced, j})
  OBVIOUS
<1>5. m \in f.synced..Len(f.data) /\ m \in Nat
  BY <1>1, <1>3, <1>4, MaxOfTwo
<1>6. /\ SubSeq(f.data, 1, m) \in Seq(Entry) /\ Len(SubSeq(f.data, 1, m)) = m
      /\ \A i \in 1..m : SubSeq(f.data, 1, m)[i] = f.data[i]
  BY <1>1, <1>5, SubSeqProperties
<1>7. Max({f.synced, Min({k, Len(f.data)})}) = m
  BY <1>2, <1>4
<1> QED
  BY <1>5, <1>6, <1>7
-----------------------------------------------------------------------------
\* What each step does to the files.
Changed(s, n, d, y, k) ==
  /\ disk' \in [Segments -> FileType]
  /\ \A t \in Segments \ {s} : disk'[t] = disk[t]
  /\ s \in Segments =>
       disk'[s].name = n /\ disk'[s].data = d /\ disk'[s].synced = y /\ disk'[s].footer = k

\* The types the steps start from.
LEMMA Types ==
  ASSUME TypeInv
  PROVE  /\ disk \in [Segments -> FileType]
         /\ active \in Segments \cup {None} /\ opened \in SUBSET Segments
         /\ holder \in [Segments -> Procs \cup {None}]
         /\ DOMAIN pc = Procs /\ DOMAIN seg = Procs
         /\ \A p \in Procs : seg[p] \in Segments \cup {None}
         /\ None \notin Segments /\ None \notin Procs /\ None \notin Records
         /\ Closer \notin Writers /\ Writers \subseteq Procs /\ Closer \in Procs
         /\ replay.segs \in SUBSET Segments
<1>1. None \notin Segments /\ None \notin Procs /\ None \notin Records
  BY WalAssumption, SegmentsFinite DEF Procs
<1>2. Closer \notin Writers /\ Writers \subseteq Procs /\ Closer \in Procs
  BY WalAssumption DEF Procs
<1> QED
  BY <1>1, <1>2 DEF TypeInv, TypeOK, FileType

\* Sealing, up to the close of the file.
LEMMA SealFooterIs ==
  ASSUME TypeInv, NEW p \in Procs, SealFooter(p)
  PROVE  \/ UNCHANGED disk /\ UNCHANGED opened /\ Abort(p)
         \/ /\ seg[p] \in opened /\ opened' = opened \ {seg[p]}
            /\ Changed(seg[p], disk[seg[p]].name, disk[seg[p]].data, Len(disk[seg[p]].data),
                       RecordCount(disk[seg[p]]))
            /\ Goto(p, "publish") /\ UNCHANGED <<holder, faults>>
         \/ /\ seg[p] \in opened /\ UNCHANGED opened
            /\ "footer" \in Faults
            /\ Changed(seg[p], disk[seg[p]].name, Append(disk[seg[p]].data, Junk),
                       disk[seg[p]].synced, disk[seg[p]].footer)
            /\ Abort(p)
<1> DEFINE f == disk[seg[p]]
<1>1. CASE seg[p] \notin opened
  BY <1>1 DEF SealFooter
<1>2. CASE seg[p] \in opened
  <2>1. f \in FileType /\ seg[p] \in Segments
    BY <1>2, Types
  <2>2. Len(f.data) \in Nat /\ RecordCount(f) \in Int /\ Append(f.data, Junk) \in Seq(Entry)
    BY <2>1, WholeIs DEF FileType, Entry
  <2>3. ASSUME disk' = [disk EXCEPT ![seg[p]] = [f EXCEPT !.footer = RecordCount(f),
                                                         !.synced = Len(f.data)]]
        PROVE  Changed(seg[p], f.name, f.data, Len(f.data), RecordCount(f))
    <3>1. PICK g : g = [f EXCEPT !.footer = RecordCount(f), !.synced = Len(f.data)]
      OBVIOUS
    <3>2. g \in FileType /\ g.name = f.name /\ g.data = f.data /\ g.synced = Len(f.data)
          /\ g.footer = RecordCount(f)
      <4>1. PICK y \in Nat, k \in Int, h \in FileType :
              y = Len(f.data) /\ k = RecordCount(f) /\ h = f
        BY <2>1, <2>2
      <4>2. g = [h EXCEPT !.footer = k, !.synced = y]
        BY <3>1, <4>1
      <4>3. g \in FileType /\ g.name = h.name /\ g.data = h.data /\ g.synced = y /\ g.footer = k
        BY <4>2 DEF FileType
      <4> QED
        BY <4>1, <4>3
    <3>3. disk' = [disk EXCEPT ![seg[p]] = g]
      BY <2>3, <3>1
    <3> HIDE DEF f
    <3> QED
      BY <2>1, <3>2, <3>3, Types DEF Changed
  <2>4. ASSUME disk' = [disk EXCEPT ![seg[p]] = [f EXCEPT !.data = Append(@, Junk)]]
        PROVE  Changed(seg[p], f.name, Append(f.data, Junk), f.synced, f.footer)
    <3>1. PICK g : g = [f EXCEPT !.data = Append(f.data, Junk)]
      OBVIOUS
    <3>2. g \in FileType /\ g.name = f.name /\ g.data = Append(f.data, Junk)
          /\ g.synced = f.synced /\ g.footer = f.footer
      BY <2>1, <2>2, <3>1, FileData
    <3>3. disk' = [disk EXCEPT ![seg[p]] = g]
      BY <2>4, <3>1
    <3> HIDE DEF f
    <3> QED
      BY <2>1, <3>2, <3>3, Types DEF Changed
  <2> QED
    BY <1>2, <2>3, <2>4 DEF SealFooter, SetFile, Fail
<1> QED
  BY <1>1, <1>2

\* Renaming the sealed file.
LEMMA PublishIs ==
  ASSUME TypeInv, NEW p \in Procs, Publish(p)
  PROVE  \/ /\ Changed(seg[p], "sealed", disk[seg[p]].data, disk[seg[p]].synced,
                       disk[seg[p]].footer)
            /\ active' = IF active = seg[p] THEN None ELSE active
            /\ IF p = Closer THEN Abort(p) ELSE Goto(p, "open") /\ UNCHANGED holder
         \/ UNCHANGED disk /\ UNCHANGED active /\ Abort(p)
<1> DEFINE f == disk[seg[p]]
<1>1. ASSUME disk' = [disk EXCEPT ![seg[p]].name = "sealed"]
      PROVE  Changed(seg[p], "sealed", f.data, f.synced, f.footer)
  <2>1. CASE seg[p] \in Segments
    <3>1. PICK g : g = [f EXCEPT !.name = "sealed"]
      OBVIOUS
    <3>2. g \in FileType /\ g.name = "sealed" /\ g.data = f.data /\ g.synced = f.synced
          /\ g.footer = f.footer
      <4>1. f \in FileType /\ "sealed" \in FileName
        BY <2>1, Types DEF FileName
      <4> QED
        BY <3>1, <4>1, FileRenamed
    <3>3. disk' = [disk EXCEPT ![seg[p]] = g]
      BY <1>1, <3>1
    <3> HIDE DEF f
    <3> QED
      BY <2>1, <3>2, <3>3, Types DEF Changed
  <2>2. CASE seg[p] \notin Segments
    <3>1. disk' = disk
      BY <1>1, <2>2, Types
    <3> QED
      BY <2>2, <3>1, Types DEF Changed
  <2> QED
    BY <2>1, <2>2
<1> QED
  BY <1>1 DEF Publish

\* A new active file, under a name never used.
LEMMA OpenNewIs ==
  ASSUME TypeInv, NEW w \in Writers, OpenNew(w)
  PROVE  \/ \E s \in Segments :
              /\ disk[s].name = "absent" /\ \A t \in Segments : disk[t].name = "absent" => s <= t
              /\ Changed(s, "log", <<>>, 0, -1)
              /\ active' = s /\ opened' = opened \cup {s}
              /\ Goto(w, "reload") /\ Unlock(seg[w])
         \/ UNCHANGED <<disk, active, opened>> /\ Abort(w)
<1>1. ASSUME Unused(disk) # {},
             SetFile(Min(Unused(disk)), NewFile), active' = Min(Unused(disk)),
             opened' = opened \cup {Min(Unused(disk))}, Goto(w, "reload"), Unlock(seg[w])
      PROVE  \E s \in Segments :
              /\ disk[s].name = "absent" /\ \A t \in Segments : disk[t].name = "absent" => s <= t
              /\ Changed(s, "log", <<>>, 0, -1)
              /\ active' = s /\ opened' = opened \cup {s}
              /\ Goto(w, "reload") /\ Unlock(seg[w])
  <2>1. PICK s : s = Min(Unused(disk))
    OBVIOUS
  <2>2. Unused(disk) \in SUBSET Nat /\ Unused(disk) \subseteq Segments
    BY SegmentsFinite DEF Unused
  <2>3. s \in Unused(disk) /\ \A t \in Unused(disk) : s <= t
    BY <1>1, <2>1, <2>2, MinInSet
  <2>4. s \in Segments /\ disk[s].name = "absent"
        /\ \A t \in Segments : disk[t].name = "absent" => s <= t
    BY <2>3 DEF Unused
  <2>5. disk' = [disk EXCEPT ![s] = NewFile]
    BY <1>1, <2>1 DEF SetFile
  <2>6. Changed(s, "log", <<>>, 0, -1)
    BY <2>4, <2>5, Types, EmptyFiles DEF Changed
  <2> QED
    BY <1>1, <2>1, <2>4, <2>6
<1> QED
  BY <1>1 DEF OpenNew

\* An append, whole or torn.
LEMMA WriteRecordIs ==
  ASSUME TypeInv, NEW w \in Writers, WriteRecord(w)
  PROVE  \/ UNCHANGED disk /\ Abort(w)
         \/ /\ seg[w] \in opened
            /\ Changed(seg[w], disk[seg[w]].name, Append(disk[seg[w]].data, rec[w]),
                       disk[seg[w]].synced, disk[seg[w]].footer)
            /\ Goto(w, "sync") /\ UNCHANGED holder
         \/ /\ seg[w] \in opened
            /\ "write" \in Faults
            /\ Changed(seg[w], disk[seg[w]].name, Append(disk[seg[w]].data, Junk),
                       disk[seg[w]].synced, disk[seg[w]].footer)
            /\ Abort(w)
<1> DEFINE f == disk[seg[w]]
<1>1. CASE seg[w] \notin opened
  BY <1>1 DEF WriteRecord
<1>2. CASE seg[w] \in opened
  <2>1. f \in FileType /\ seg[w] \in Segments
    BY <1>2, Types
  <2>2. ASSUME NEW e \in {rec[w], Junk}, disk' = [disk EXCEPT ![seg[w]].data = Append(@, e)]
        PROVE  Changed(seg[w], f.name, Append(f.data, e), f.synced, f.footer)
    <3>1. rec[w] \in Records
      BY DEF WriteRecord, TypeInv
    <3>2. Append(f.data, e) \in Seq(Entry)
      BY <2>1, <3>1 DEF FileType, Entry
    <3>3. PICK g : g = [f EXCEPT !.data = Append(f.data, e)]
      OBVIOUS
    <3>4. g \in FileType /\ g.name = f.name /\ g.data = Append(f.data, e)
          /\ g.synced = f.synced /\ g.footer = f.footer
      BY <2>1, <3>2, <3>3, FileData
    <3>5. disk' = [disk EXCEPT ![seg[w]] = g]
      BY <2>2, <3>3
    <3> HIDE DEF f
    <3> QED
      BY <2>1, <3>4, <3>5, Types DEF Changed
  <2> QED
    BY <1>2, <2>2 DEF WriteRecord, Fail
<1> QED
  BY <1>1, <1>2

\* An fsync and the unlock.
LEMMA SyncIs ==
  ASSUME TypeInv, NEW w \in Writers, Sync(w)
  PROVE  \/ /\ Changed(seg[w], disk[seg[w]].name, disk[seg[w]].data, Len(disk[seg[w]].data),
                       disk[seg[w]].footer)
            /\ Goto(w, "account")
         \/ UNCHANGED disk /\ Goto(w, "idle")
<1> DEFINE f == disk[seg[w]]
<1>1. ASSUME disk' = [disk EXCEPT ![seg[w]].synced = Len(f.data)]
      PROVE  Changed(seg[w], f.name, f.data, Len(f.data), f.footer)
  <2>1. CASE seg[w] \in Segments
    <3>1. PICK g : g = [f EXCEPT !.synced = Len(f.data)]
      OBVIOUS
    <3>2. g \in FileType /\ g.name = f.name /\ g.data = f.data /\ g.synced = Len(f.data)
          /\ g.footer = f.footer
      <4>1. f \in FileType /\ Len(f.data) \in Nat
        BY <2>1, Types, WholeIs
      <4> QED
        BY <3>1, <4>1, FileSynced
    <3>3. disk' = [disk EXCEPT ![seg[w]] = g]
      BY <1>1, <3>1
    <3> HIDE DEF f
    <3> QED
      BY <2>1, <3>2, <3>3, Types DEF Changed
  <2>2. CASE seg[w] \notin Segments
    <3>1. disk' = disk
      BY <1>1, <2>2, Types
    <3> QED
      BY <2>2, <3>1, Types DEF Changed
  <2> QED
    BY <2>1, <2>2
<1> QED
  BY <1>1 DEF Sync

\* The segment a replay is at.
LEMMA CurrentIs ==
  ASSUME TypeInv, replay.segs # {}
  PROVE  /\ Current \in replay.segs /\ Current \in Segments
         /\ \A s \in replay.segs : Current <= s
<1>1. replay.segs \in SUBSET Nat
  BY Types, SegmentsFinite
<1> QED
  BY <1>1, Types, MinInSet DEF Current

\* A segment confirmed, or its rename failed.
LEMMA ReplayDoneIs ==
  ASSUME TypeInv, ReplayDone
  PROVE  /\ \/ Changed(Current, "done", disk[Current].data, disk[Current].synced,
                       disk[Current].footer)
            \/ UNCHANGED disk
         /\ replay' = [segs |-> replay.segs \ {Current}, pos |-> 1, attempt |-> 0]
<1>1. PICK c : c = Current
  OBVIOUS
<1>2. c \in Segments
  BY <1>1, CurrentIs DEF ReplayDone
<1> DEFINE f == disk[c]
<1>3. ASSUME disk' = [disk EXCEPT ![c].name = "done"]
      PROVE  Changed(c, "done", f.data, f.synced, f.footer)
  <2>1. PICK g : g = [f EXCEPT !.name = "done"]
    OBVIOUS
  <2>2. g \in FileType /\ g.name = "done" /\ g.data = f.data /\ g.synced = f.synced
        /\ g.footer = f.footer
    <3>1. f \in FileType /\ "done" \in FileName
      BY <1>2, Types DEF FileName
    <3> QED
      BY <2>1, <3>1, FileRenamed
  <2>3. disk' = [disk EXCEPT ![c] = g]
    BY <1>3, <2>1
  <2> HIDE DEF f
  <2> QED
    BY <1>2, <2>2, <2>3, Types DEF Changed
<1> QED
  BY <1>1, <1>3 DEF ReplayDone, Idle

\* Confirmed files deleted.
LEMMA CleanupIs ==
  ASSUME TypeInv, Cleanup
  PROVE  \E S \in SUBSET Named("done") :
           /\ disk' \in [Segments -> FileType]
           /\ \A s \in S : disk'[s] = Removed
           /\ \A s \in Segments \ S : disk'[s] = disk[s]
           /\ bytes' = bytes - TotalSize(disk, S)
<1>1. PICK S \in SUBSET Named("done") :
        /\ disk' = [s \in Segments |-> IF s \in S THEN Removed ELSE disk[s]]
        /\ bytes' = bytes - TotalSize(disk, S)
  BY DEF Cleanup
<1>2. S \subseteq Segments
  BY DEF Named
<1> QED
  BY <1>1, <1>2, Types, EmptyFiles

\* The unsealed files cut short, not below what was fsynced.
LEMMA CrashIs ==
  ASSUME TypeInv, Crash
  PROVE  /\ disk' \in [Segments -> FileType]
         /\ \A s \in Segments : disk[s].name # "log" => disk'[s] = disk[s]
         /\ \A s \in Segments : disk[s].name = "log" =>
              \E m \in disk[s].synced..Len(disk[s].data) :
                /\ disk'[s].name = "log" /\ disk'[s].synced = disk[s].synced
                /\ disk'[s].footer = disk[s].footer /\ Len(disk'[s].data) = m
                /\ \A i \in 1..m : disk'[s].data[i] = disk[s].data[i]
<1>1. PICK k \in UNION {0..Len(disk[s].data) : s \in Segments} :
       disk' = [s \in Segments |->
                 IF disk[s].name = "log"
                 THEN [disk[s] EXCEPT !.data =
                         SubSeq(@, 1, Max({disk[s].synced, Min({k, Len(@)})}))]
                 ELSE disk[s]]
  BY DEF Crash
<1>2. k \in Nat
  BY <1>1, Types, WholeIs
<1>3. ASSUME NEW s \in Segments, disk[s].name = "log"
      PROVE  /\ disk'[s] \in FileType
             /\ \E m \in disk[s].synced..Len(disk[s].data) :
                /\ disk'[s].name = "log" /\ disk'[s].synced = disk[s].synced
                /\ disk'[s].footer = disk[s].footer /\ Len(disk'[s].data) = m
                /\ \A i \in 1..m : disk'[s].data[i] = disk[s].data[i]
  <2>1. PICK f : f = disk[s]
    OBVIOUS
  <2>2. f \in FileType /\ f.synced <= Len(f.data) /\ f.name = "log"
    BY <1>3, <2>1, Types DEF TypeInv
  <2>3. PICK m \in f.synced..Len(f.data) :
          /\ SubSeq(f.data, 1, Max({f.synced, Min({k, Len(f.data)})})) = SubSeq(f.data, 1, m)
          /\ SubSeq(f.data, 1, m) \in Seq(Entry) /\ Len(SubSeq(f.data, 1, m)) = m
          /\ \A i \in 1..m : SubSeq(f.data, 1, m)[i] = f.data[i]
    BY <1>2, <2>2, CutIs
  <2>4. disk'[s] = [f EXCEPT !.data = SubSeq(f.data, 1, m)]
    BY <1>1, <1>3, <2>1, <2>3
  <2>5. /\ disk'[s] \in FileType /\ disk'[s].name = f.name /\ disk'[s].data = SubSeq(f.data, 1, m)
        /\ disk'[s].synced = f.synced /\ disk'[s].footer = f.footer
    <3>1. PICK d \in Seq(Entry) : d = SubSeq(f.data, 1, m)
      BY <2>3
    <3>2. PICK g : g = [f EXCEPT !.data = d]
      OBVIOUS
    <3>3. g \in FileType /\ g.name = f.name /\ g.data = d /\ g.synced = f.synced
          /\ g.footer = f.footer
      BY <2>2, <3>2, FileData
    <3>4. disk'[s] = g
      BY <2>4, <3>1, <3>2
    <3> QED
      BY <3>1, <3>3, <3>4
  <2> QED
    BY <2>1, <2>2, <2>3, <2>5
<1>4. \A s \in Segments : disk[s].name # "log" => disk'[s] = disk[s]
  BY <1>1
<1>5. disk' \in [Segments -> FileType]
  BY <1>1, <1>3, <1>4, Types
<1> QED
  BY <1>3, <1>4, <1>5

\* What New leaves of the unsealed files, and the active file it opens.
LEMMA RestartIs ==
  ASSUME TypeInv, Restart
  PROVE  \E lost \in SUBSET Named("log"), new \in Segments :
           /\ lost = {} \/ "recover" \in Faults
           /\ disk[new].name = "absent"
           /\ \A s \in Segments : disk[s].name = "absent" => new <= s
           /\ disk' \in [Segments -> FileType]
           /\ disk'[new] = NewFile /\ active' = new /\ opened' = {new}
           /\ \A s \in lost : disk'[s] = Removed
           /\ \A s \in Segments \ (lost \cup {new}) : Scanned(disk[s], disk'[s])
           /\ \E d \in [Segments -> FileType] :
                /\ bytes' = TotalSize(d, Segments) /\ d[new] = disk[new]
                /\ \A s \in Segments \ {new} : d[s] = disk'[s]
<1>1. PICK lost \in SUBSET Named("log"), framed \in SUBSET Named("log") :
       /\ IF lost = {} THEN UNCHANGED faults ELSE Fail("recover")
       /\ LET scanned == [s \in Segments |->
                            IF s \in lost THEN Removed
                            ELSE Recover(disk[s], s \in framed)]
              new == Min(Unused(scanned))
          IN
          /\ Unused(scanned) # {}
          /\ disk' = [scanned EXCEPT ![new] = NewFile]
          /\ bytes' = TotalSize(scanned, Segments)
          /\ active' = new
          /\ opened' = {new}
  BY DEF Restart
<1>2. PICK scanned : scanned = [s \in Segments |->
                                  IF s \in lost THEN Removed
                                  ELSE Recover(disk[s], s \in framed)]
  OBVIOUS
<1>3. PICK new : new = Min(Unused(scanned))
  OBVIOUS
<1>4. /\ Unused(scanned) # {} /\ disk' = [scanned EXCEPT ![new] = NewFile]
      /\ bytes' = TotalSize(scanned, Segments) /\ active' = new /\ opened' = {new}
  BY <1>1, <1>2, <1>3
<1>5. new \in Unused(scanned) /\ \A s \in Unused(scanned) : new <= s
  <2>1. Unused(scanned) \in SUBSET Nat
    BY SegmentsFinite DEF Unused
  <2> QED
    BY <1>3, <1>4, <2>1, MinInSet
<1>14. ASSUME NEW s \in Segments \ lost PROVE Scanned(disk[s], scanned[s])
  <2>1. s \in framed => scanned[s] = Recover(disk[s], TRUE)
    BY <1>2 DEF Recover
  <2>2. s \notin framed => scanned[s] = Recover(disk[s], FALSE)
    BY <1>2 DEF Recover
  <2> QED
    BY <2>1, <2>2 DEF Scanned
<1>6. scanned \in [Segments -> FileType]
  <2>1. \A s \in Segments : scanned[s] \in FileType
    BY <1>2, <1>14, Types, RecoverIs, EmptyFiles
  <2> QED
    BY <1>2, <2>1
<1>7. \A s \in Segments : scanned[s].name = "absent" <=> disk[s].name = "absent"
  <2> SUFFICES ASSUME NEW s \in Segments
               PROVE  scanned[s].name = "absent" <=> disk[s].name = "absent"
    OBVIOUS
  <2>1. CASE s \in lost
    BY <1>2, <2>1, EmptyFiles DEF Named
  <2>2. CASE s \notin lost
    <3>1. Scanned(disk[s], scanned[s]) /\ disk[s] \in FileType
      BY <1>14, <2>2, Types
    <3> QED
      BY <3>1, RecoverIs, EmptyFiles
  <2> QED
    BY <2>1, <2>2
<1>8. new \in Segments /\ disk[new].name = "absent"
      /\ \A s \in Segments : disk[s].name = "absent" => new <= s
  BY <1>5, <1>7 DEF Unused
<1>9. /\ disk' \in [Segments -> FileType] /\ disk'[new] = NewFile
      /\ \A s \in Segments \ {new} : disk'[s] = scanned[s]
  BY <1>4, <1>6, <1>8, EmptyFiles
<1>10. new \notin lost
  BY <1>8 DEF Named
<1>11. /\ \A s \in lost : disk'[s] = Removed
       /\ \A s \in Segments \ (lost \cup {new}) : Scanned(disk[s], disk'[s])
  BY <1>2, <1>9, <1>10, <1>14 DEF Named
<1>12. lost = {} \/ "recover" \in Faults
  BY <1>1 DEF Fail
<1>13. scanned[new] = disk[new]
  <2>1. disk[new] \in FileType /\ disk[new].name # "log"
    BY <1>8, Types
  <2> QED
    BY <1>8, <1>10, <1>14, <2>1, RecoverIs
<1> QED
  BY <1>4, <1>6, <1>8, <1>9, <1>10, <1>11, <1>12, <1>13
-----------------------------------------------------------------------------
\* The files stay files.
DiskInv ==
  /\ disk \in [Segments -> FileType]
  /\ \A s \in Segments : disk[s].synced <= Len(disk[s].data)

\* A step that changes one file, which stays longer than its synced part.
LEMMA ChangedKeeps ==
  ASSUME TypeInv, NEW s, NEW n, NEW d, NEW y, NEW k, Changed(s, n, d, y, k),
         s \in Segments => y <= Len(d)
  PROVE  DiskInv'
<1>1. ASSUME NEW t \in Segments PROVE disk'[t].synced <= Len(disk'[t].data)
  BY DEF Changed, TypeInv
<1> QED
  BY <1>1 DEF DiskInv, Changed

\* No step leaves a file with more fsynced than there is.
LEMMA DiskKept == ASSUME TypeInv, [Next]_vars PROVE DiskInv'
<1>0. /\ disk \in [Segments -> FileType] /\ opened \subseteq Segments
      /\ \A s \in Segments : Len(disk[s].data) \in Nat /\ disk[s].data \in Seq(Entry)
                             /\ disk[s].synced \in Nat /\ disk[s].synced <= Len(disk[s].data)
  <2>1. ASSUME NEW s \in Segments
        PROVE  Len(disk[s].data) \in Nat /\ disk[s].data \in Seq(Entry)
               /\ disk[s].synced \in Nat /\ disk[s].synced <= Len(disk[s].data)
    <3>1. disk[s] \in FileType
      BY Types
    <3> QED
      BY <3>1, WholeIs DEF FileType, TypeInv
  <2> QED
    BY <2>1, Types
<1>1. ASSUME UNCHANGED disk PROVE DiskInv'
  BY <1>1, Types DEF DiskInv, TypeInv
<1>2. ASSUME NEW s \in Segments, NEW e PROVE disk[s].synced <= Len(Append(disk[s].data, e))
  <2>1. Len(Append(disk[s].data, e)) = Len(disk[s].data) + 1
    BY <1>0
  <2> QED
    BY <1>0, <2>1
<1>3. ASSUME NEW p \in Procs, Step(p) PROVE DiskInv'
  <2>1. CASE Load(p) \/ Lock(p)
    BY <1>1, <2>1 DEF Load, Lock
  <2>2. CASE SealFooter(p)
    <3>1. CASE UNCHANGED disk
      BY <1>1, <3>1
    <3>2. CASE /\ seg[p] \in opened
               /\ Changed(seg[p], disk[seg[p]].name, disk[seg[p]].data, Len(disk[seg[p]].data),
                          RecordCount(disk[seg[p]]))
      BY <1>0, <3>2, ChangedKeeps
    <3>3. CASE /\ seg[p] \in opened
               /\ Changed(seg[p], disk[seg[p]].name, Append(disk[seg[p]].data, Junk),
                          disk[seg[p]].synced, disk[seg[p]].footer)
      BY <1>0, <1>2, <3>3, ChangedKeeps
    <3> QED
      BY <2>2, <3>1, <3>2, <3>3, SealFooterIs
  <2>3. CASE Publish(p)
    BY <1>0, <1>1, <2>3, PublishIs, ChangedKeeps
  <2> QED
    BY <1>3, <2>1, <2>2, <2>3 DEF Step
<1>4. ASSUME NEW w \in Writers, WriteStep(w) \/ \E r \in Records : BeginWrite(w, r) PROVE DiskInv'
  <2>1. CASE Account(w) \/ \E r \in Records : BeginWrite(w, r)
    BY <1>1, <2>1 DEF Account, BeginWrite
  <2>2. CASE OpenNew(w)
    <3>1. Len(<<>>) = 0
      OBVIOUS
    <3> QED
      BY <1>1, <2>2, <3>1, OpenNewIs, ChangedKeeps
  <2>3. CASE WriteRecord(w)
    BY <1>0, <1>1, <1>2, <2>3, WriteRecordIs, ChangedKeeps
  <2>4. CASE Sync(w)
    BY <1>0, <1>1, <2>4, SyncIs, ChangedKeeps
  <2> QED
    BY <1>3, <1>4, <2>1, <2>2, <2>3, <2>4, Types DEF WriteStep
<1>5. CASE Replay
  <2>1. CASE ReplayStart \/ ReplayRecord \/ ReplayFail
    BY <1>1, <2>1 DEF ReplayStart, ReplayRecord, ReplayFail
  <2>2. CASE ReplayDone
    <3>1. Current \in Segments
      BY <2>2, CurrentIs DEF ReplayDone
    <3> QED
      BY <1>0, <1>1, <2>2, <3>1, ReplayDoneIs, ChangedKeeps
  <2> QED
    BY <1>5, <2>1, <2>2 DEF Replay
<1>6. CASE Cleanup
  <2>1. Removed.synced <= Len(Removed.data)
    <3>1. Len(<<>>) = 0
      OBVIOUS
    <3> QED
      BY <3>1, EmptyFiles
  <2> QED
    BY <1>0, <1>6, <2>1, CleanupIs DEF DiskInv
<1>7. CASE Crash
  <2>1. disk' \in [Segments -> FileType]
    BY <1>7, CrashIs
  <2>2. ASSUME NEW s \in Segments PROVE disk'[s].synced <= Len(disk'[s].data)
    <3>1. CASE disk[s].name # "log"
      BY <1>0, <1>7, <3>1, CrashIs
    <3>2. CASE disk[s].name = "log"
      <4>1. PICK m \in disk[s].synced..Len(disk[s].data) :
              disk'[s].synced = disk[s].synced /\ Len(disk'[s].data) = m
        BY <1>7, <3>2, CrashIs
      <4> QED
        BY <1>0, <4>1
    <3> QED
      BY <3>1, <3>2
  <2> QED
    BY <2>1, <2>2 DEF DiskInv
<1>8. CASE Restart
  <2>1. PICK lost \in SUBSET Named("log"), new \in Segments :
           /\ disk' \in [Segments -> FileType]
           /\ disk'[new] = NewFile
           /\ \A s \in lost : disk'[s] = Removed
           /\ \A s \in Segments \ (lost \cup {new}) : Scanned(disk[s], disk'[s])
    BY <1>8, RestartIs
  <2>2. ASSUME NEW s \in Segments PROVE disk'[s].synced <= Len(disk'[s].data)
    <3>1. Len(<<>>) = 0
      OBVIOUS
    <3>2. CASE s \in lost \/ s = new
      BY <2>1, <3>1, <3>2, EmptyFiles
    <3>3. CASE s \notin lost /\ s # new
      <4>1. disk[s] \in FileType /\ Scanned(disk[s], disk'[s])
        BY <1>0, <2>1, <3>3
      <4> QED
        BY <1>0, <3>1, <4>1, RecoverIs, EmptyFiles
    <3> QED
      BY <3>2, <3>3
  <2> QED
    BY <2>1, <2>2 DEF DiskInv
<1>9. CASE BeginClose \/ Stopped \/ UNCHANGED vars
  BY <1>1, <1>9 DEF BeginClose, Stopped, vars
<1> QED
  BY <1>3, <1>4, <1>5, <1>6, <1>7, <1>8, <1>9, Types DEF Next, Running
-----------------------------------------------------------------------------
\* The variables other than the files keep their types.
MemInv ==
  /\ active \in Segments \cup {None}
  /\ opened \in SUBSET Segments
  /\ holder \in [Segments -> Procs \cup {None}]
  /\ bytes \in Int
  /\ pc \in [Procs -> {"idle", "load", "lock", "seal", "publish", "open", "reload",
                       "relock", "write", "sync", "account", "closed"}]
  /\ seg \in [Procs -> Segments \cup {None}]
  /\ rec \in [Writers -> Records \cup {None}]
  /\ fresh \in SUBSET Records
  /\ replay \in [segs : SUBSET Segments, pos : Nat, attempt : 0..(MaxReplayFailures - 1)]
  /\ restarts \in Nat
  /\ faults \in Nat
  /\ acked \in SUBSET Records
  /\ delivered \in SUBSET Records
  /\ replay.pos >= 1
  /\ \A w \in Writers : pc[w] # "idle" => rec[w] \in Records

FlagInv == closed \in BOOLEAN /\ up \in BOOLEAN

\* The type invariant is the one of the files and the one of the rest.
LEMMA TypeParts ==
  /\ TypeInv <=> DiskInv /\ MemInv /\ FlagInv
  /\ TypeInv' <=> DiskInv' /\ MemInv' /\ FlagInv'
  BY DEF TypeInv, TypeOK, DiskInv, MemInv, FlagInv, FileType

\* The flags stay flags.
LEMMA FlagsKept == ASSUME TypeInv, [Next]_vars PROVE FlagInv'
<1>0. FlagInv
  BY TypeParts
<1>1. CASE UNCHANGED vars
  BY <1>0, <1>1 DEF FlagInv, vars, mem
<1>2. CASE Crash \/ Restart \/ (up /\ Stopped)
  BY <1>0, <1>2 DEF FlagInv, Crash, Restart, Stopped, vars, mem
<1>3. CASE Running
  <2>0. up' \in BOOLEAN
    BY <1>0, <1>3 DEF FlagInv, Running, Alive
  <2>1. CASE BeginClose
    BY <2>0, <2>1 DEF FlagInv, BeginClose
  <2>2. ASSUME NEW p, Step(p) PROVE FlagInv'
    BY <1>0, <2>0, <2>2 DEF FlagInv, Step, Load, Lock, SealFooter, Publish
  <2>3. ASSUME NEW w, (\E r \in Records : BeginWrite(w, r)) \/ WriteStep(w) PROVE FlagInv'
    BY <1>0, <2>0, <2>2, <2>3
    DEF FlagInv, BeginWrite, WriteStep, OpenNew, WriteRecord, Sync, Account
  <2>4. CASE Replay \/ Cleanup
    BY <1>0, <2>0, <2>4
    DEF FlagInv, Replay, ReplayStart, ReplayRecord, ReplayFail, ReplayDone, Cleanup
  <2> QED
    BY <1>3, <2>1, <2>2, <2>3, <2>4 DEF Running
<1> QED
  BY <1>1, <1>2, <1>3 DEF Next

\* Idle is a state of a replay.
LEMMA IdleType ==
  /\ Idle \in [segs : SUBSET Segments, pos : Nat, attempt : 0..(MaxReplayFailures - 1)]
  /\ MaxReplayFailures \in Nat \ {0}
  /\ Idle.segs = {} /\ Idle.pos = 1
  BY WalAssumption DEF Idle

\* The steps Write and Close share.
LEMMA StepTyped == ASSUME TypeInv, Alive, NEW p \in Procs, Step(p) PROVE MemInv'
<1>0. MemInv /\ Closer \notin Writers /\ Writers \subseteq Procs
  BY TypeParts, Types
<1>1. CASE Load(p)
  BY <1>0, <1>1 DEF MemInv, Alive, history, Load, End, Goto
<1>2. CASE Lock(p)
  BY <1>0, <1>2 DEF MemInv, Alive, history, Lock, Goto
<1>3. CASE SealFooter(p)
  BY <1>0, <1>3 DEF MemInv, Alive, history, SealFooter, Goto, Abort, End, Unlock, Fail
<1>4. CASE Publish(p)
  BY <1>0, <1>4 DEF MemInv, Alive, history, Publish, Goto, Abort, End, Unlock, Fail
<1> QED
  BY <1>1, <1>2, <1>3, <1>4 DEF Step

\* The steps of Write only.
LEMMA WriteStepTyped ==
  ASSUME TypeInv, Alive, NEW w \in Writers, WriteStep(w) \/ \E r \in Records : BeginWrite(w, r)
  PROVE  MemInv'
<1>0. MemInv /\ Closer \notin Writers /\ w \in Procs /\ Writers \subseteq Procs
  BY TypeParts, Types
<1>1. CASE \E r \in Records : BeginWrite(w, r)
  BY <1>0, <1>1 DEF MemInv, Alive, history, BeginWrite, Goto
<1>2. CASE OpenNew(w)
  <2>1. (active' \in Segments /\ opened' \subseteq Segments) \/ UNCHANGED <<active, opened>>
    BY <1>0, <1>2, OpenNewIs DEF MemInv
  <2> QED
    BY <1>0, <1>2, <2>1 DEF MemInv, Alive, history, OpenNew, Goto, Abort, End, Unlock, Fail
<1>3. CASE WriteRecord(w)
  BY <1>0, <1>3 DEF MemInv, Alive, history, WriteRecord, Goto, Abort, End, Unlock, Fail
<1>4. CASE Sync(w)
  <2>1. /\ faults' \in Nat /\ (Goto(w, "account") \/ Goto(w, "idle")) /\ Unlock(seg[w])
        /\ pc[w] = "sync"
        /\ UNCHANGED <<active, opened, bytes, seg, rec, fresh, replay, restarts, history>>
    BY <1>0, <1>4 DEF MemInv, Sync, Fail, Alive
  <2> QED
    BY <1>0, <2>1 DEF MemInv, history, Goto, Unlock
<1>5. CASE Account(w)
  <2>1. rec[w] \in Records /\ Size[rec[w]] \in Int
    BY <1>0, <1>5, WalAssumption DEF MemInv, Alive, history, Account
  <2> QED
    BY <1>0, <1>5, <2>1 DEF MemInv, Alive, history, Account, Goto
<1> QED
  BY <1>0, <1>1, <1>2, <1>3, <1>4, <1>5, StepTyped DEF WriteStep

\* The steps of Replay.
LEMMA ReplayTyped == ASSUME TypeInv, Alive, Replay PROVE MemInv'
<1>0. MemInv
  BY TypeParts
<1>1. CASE ReplayStart
  <2>1. Named("sealed") \in SUBSET Segments
    BY DEF Named
  <2> QED
    BY <1>0, <1>1, <2>1, IdleType DEF MemInv, Alive, history, ReplayStart, Idle
<1>2. CASE ReplayRecord
  <2>1. ReplayFile \in FileType
    BY <1>2, CurrentIs, Types DEF ReplayRecord, AtRecord, ReplayFile
  <2>2. ReadableCount(ReplayFile) \in Nat /\ replay.pos \in Nat /\ replay.pos >= 1
    BY <1>0, <2>1, ReadableIs, WholeIs DEF MemInv
  <2>3. ASSUME replay.pos <= ReadableCount(ReplayFile) PROVE delivered' \in SUBSET Records
    <3>1. replay.pos \in 1..ReadableCount(ReplayFile)
      BY <2>2, <2>3
    <3> QED
      BY <1>0, <1>2, <2>1, <2>3, <3>1, ReadableIs DEF MemInv, Alive, history, ReplayRecord
  <2>4. delivered' \in SUBSET Records
    BY <1>0, <1>2, <2>3 DEF MemInv, ReplayRecord
  <2> QED
    BY <1>0, <1>2, <2>4 DEF MemInv, Alive, history, ReplayRecord
<1>3. CASE ReplayFail
  <2>1. replay.attempt + 1 < MaxReplayFailures =>
          replay.attempt + 1 \in 0..(MaxReplayFailures - 1)
    BY <1>0, IdleType DEF MemInv
  <2>2. \/ /\ replay' = [replay EXCEPT !.pos = 1, !.attempt = replay.attempt + 1]
           /\ replay.attempt + 1 < MaxReplayFailures
        \/ replay' = Idle
    BY <1>3 DEF ReplayFail
  <2>3. replay' \in [segs : SUBSET Segments, pos : Nat, attempt : 0..(MaxReplayFailures - 1)]
        /\ replay'.pos >= 1
    <3>1. /\ replay \in [segs : SUBSET Segments, pos : Nat, attempt : 0..(MaxReplayFailures - 1)]
          /\ 1 \in Nat
      BY <1>0 DEF MemInv
    <3>2. CASE replay' = Idle
      BY <3>2, IdleType
    <3>3. CASE /\ replay' = [replay EXCEPT !.pos = 1, !.attempt = replay.attempt + 1]
               /\ replay.attempt + 1 < MaxReplayFailures
      <4>1. PICK a \in 0..(MaxReplayFailures - 1) : a = replay.attempt + 1
        BY <2>1, <3>3
      <4>2. replay' = [segs |-> replay.segs, pos |-> 1, attempt |-> a]
        BY <3>1, <3>3, <4>1
      <4> QED
        BY <3>1, <4>2
    <3> QED
      BY <2>2, <3>2, <3>3
  <2>4. faults' \in Nat
    BY <1>0, <1>3 DEF MemInv, Alive, history, ReplayFail, Fail
  <2> QED
    BY <1>0, <1>3, <2>3, <2>4 DEF MemInv, Alive, history, ReplayFail
<1>4. CASE ReplayDone
  <2>1. replay.segs \ {Current} \in SUBSET Segments
    BY Types
  <2>2. replay' \in [segs : SUBSET Segments, pos : Nat, attempt : 0..(MaxReplayFailures - 1)]
        /\ replay'.pos >= 1
    BY <1>4, <2>1, ReplayDoneIs, IdleType DEF Idle
  <2>3. faults' \in Nat
    BY <1>0, <1>4 DEF MemInv, Alive, history, ReplayDone, Fail
  <2> QED
    BY <1>0, <1>4, <2>2, <2>3 DEF MemInv, Alive, history, ReplayDone
<1> QED
  BY <1>1, <1>2, <1>3, <1>4 DEF Replay

\* The type invariant is inductive.
LEMMA TypeNext == ASSUME TypeInv, [Next]_vars PROVE TypeInv'
<1>0. MemInv /\ Closer \notin Writers /\ Writers \subseteq Procs
  BY TypeParts, Types
<1>1. CASE Alive /\ \E w \in Writers : (\E r \in Records : BeginWrite(w, r)) \/ WriteStep(w)
  BY <1>1, DiskKept, FlagsKept, WriteStepTyped, TypeParts
<1>2. CASE Alive /\ Step(Closer)
  BY <1>2, DiskKept, FlagsKept, StepTyped, TypeParts, Types
<1>3. CASE Alive /\ Replay
  BY <1>3, DiskKept, FlagsKept, ReplayTyped, TypeParts
<1>4. CASE Alive /\ BeginClose
  <2>1. MemInv'
    BY <1>0, <1>4, Types DEF MemInv, Alive, history, BeginClose, Goto
  <2> QED
    BY <2>1, DiskKept, FlagsKept, TypeParts
<1>5. CASE Alive /\ Cleanup
  <2>1. PICK S \in SUBSET Named("done") : bytes' = bytes - TotalSize(disk, S)
    BY <1>5, CleanupIs
  <2>2. S \in SUBSET Segments
    BY DEF Named
  <2>3. TotalSize(disk, S) \in Nat
    BY <2>2, TotalIs, Types
  <2>4. bytes' \in Int
    BY <1>0, <2>1, <2>3 DEF MemInv
  <2>5. MemInv'
    BY <1>0, <1>5, <2>4 DEF MemInv, Alive, history, Cleanup
  <2> QED
    BY <2>5, DiskKept, FlagsKept, TypeParts
<1>6. CASE Crash
  <2>1. MemInv'
    BY <1>0, <1>6 DEF MemInv, Crash, mem, history
  <2> QED
    BY <2>1, DiskKept, FlagsKept, TypeParts
<1>7. CASE Restart
  <2>1. PICK new \in Segments, d \in [Segments -> FileType] :
          active' = new /\ opened' = {new} /\ bytes' = TotalSize(d, Segments)
    BY <1>7, RestartIs
  <2>2. bytes' \in Int
    <3>1. TotalSize(d, Segments) \in Nat
      BY <2>1, TotalIs
    <3> QED
      BY <2>1, <3>1
  <2>3. faults' \in Nat
    BY <1>0, <1>7 DEF MemInv, Restart, Fail
  <2>4. MemInv'
    BY <1>0, <1>7, <2>1, <2>2, <2>3, IdleType DEF MemInv, Restart, history, Idle
  <2> QED
    BY <2>4, DiskKept, FlagsKept, TypeParts
<1>8. CASE Stopped \/ UNCHANGED vars
  <2>1. MemInv'
    BY <1>0, <1>8 DEF MemInv, Stopped, vars, mem, history
  <2> QED
    BY <2>1, DiskKept, FlagsKept, TypeParts
<1> QED
  BY <1>1, <1>2, <1>3, <1>4, <1>5, <1>6, <1>7, <1>8 DEF Next, Running

\* The type invariant holds.
LEMMA TypeInvCorrect == Spec => []TypeInv
<1>1. Init => TypeInv
  <2> SUFFICES ASSUME Init PROVE DiskInv /\ MemInv /\ FlagInv
    BY TypeParts
  <2>1. 1 \in Segments
    BY SegmentsFinite, WalAssumption DEF Segments
  <2>2. Len(<<>>) = 0
    OBVIOUS
  <2>3. DiskInv
    BY <2>2, EmptyFiles DEF DiskInv, Init
  <2>4. MemInv
    BY <2>1, IdleType DEF MemInv, Init, Procs
  <2>5. FlagInv
    BY DEF FlagInv, Init
  <2> QED
    BY <2>3, <2>4, <2>5
<1> QED
  BY <1>1, TypeNext, PTL DEF Spec

\* Every file is whole records and junk, and every variable has its type, whatever
\* crashes and fails.
THEOREM TypeCorrect == Spec => []TypeOK
<1>1. TypeInv => TypeOK
  BY DEF TypeInv
<1> QED
  BY <1>1, TypeInvCorrect, PTL
-----------------------------------------------------------------------------
\* Who holds a segment's lock, and which file is the active one.
Holding == {"seal", "publish", "open", "write", "sync"}

ProcInv ==
  /\ pc[Closer] \in {"idle", "load", "lock", "seal", "publish", "closed"}
  /\ \A w \in Writers : pc[w] # "closed"
  /\ \A p \in Procs : pc[p] \in Holding \cup {"lock", "relock"} => seg[p] \in Segments
  /\ \A p \in Procs : pc[p] \in Holding => holder[seg[p]] = p

FileInv ==
  /\ \A s \in Segments : disk[s].name = "log" <=> s = active
  /\ \A s \in opened : s = active
  /\ \A p \in Procs : pc[p] = "publish" => seg[p] = active /\ seg[p] \notin opened
  /\ \A p \in Procs : pc[p] = "open" => active = None
  /\ \A p, q \in Procs : pc[p] = "open" /\ pc[q] = "open" => p = q
  /\ \A p \in Procs : pc[p] = "sync" => seg[p] \in opened

\* File names are used in order, and a replay works on sealed files.
NameInv ==
  /\ \A s, t \in Segments : s < t /\ disk[t].name # "absent" => disk[s].name # "absent"
  /\ \A s \in Segments : active # None /\ disk[s].name # "absent" => s <= active
  /\ \A s \in replay.segs : disk[s].name = "sealed"

LockInv == ProcInv /\ FileInv /\ NameInv

SameNames == \A s \in Segments : disk'[s].name = disk[s].name

\* A step that renames no file and leaves the rest of the state alone keeps the names.
LEMMA NamesStay ==
  ASSUME TypeInv, NameInv, SameNames, UNCHANGED <<active, replay>>
  PROVE  NameInv'
  BY Types DEF NameInv, SameNames

\* Where the processes are, and what they hold, as functions.
LEMMA ProcTypes ==
  ASSUME TypeInv
  PROVE  /\ DOMAIN pc = Procs /\ DOMAIN seg = Procs /\ DOMAIN holder = Segments
         /\ Closer \in Procs /\ Writers = Procs \ {Closer}
         /\ \A p \in Procs : p # None
         /\ active \in Segments \cup {None} /\ None \notin Segments
         /\ opened \subseteq Segments /\ replay.segs \subseteq Segments
         /\ \A p \in Procs : seg[p] \in Segments \cup {None}
<1>1. Writers = Procs \ {Closer}
  BY Types DEF Procs
<1>2. DOMAIN holder = Segments
  BY Types
<1> QED
  BY <1>1, <1>2, Types

\* The steps Write and Close share: no two goroutines hold one segment's lock.
LEMMA StepLocks ==
  ASSUME TypeInv, LockInv, NEW p \in Procs, Step(p)
  PROVE  LockInv'
<1>0. ProcInv /\ FileInv /\ NameInv
  BY DEF LockInv
<1>1. CASE Load(p)
  <2>1. ProcInv'
    BY <1>0, <1>1, ProcTypes DEF ProcInv, Holding, Load, End, Goto
  <2>2. FileInv'
    BY <1>0, <1>1, ProcTypes DEF FileInv, Load, End, Goto
  <2>3. NameInv'
    BY <1>0, <1>1, NamesStay DEF SameNames, Load
  <2> QED
    BY <2>1, <2>2, <2>3 DEF LockInv
<1>2. CASE Lock(p)
  <2>1. ProcInv'
    BY <1>0, <1>2, ProcTypes DEF ProcInv, Holding, Lock, Goto
  <2>2. FileInv'
    BY <1>0, <1>2, ProcTypes DEF FileInv, Lock, Goto
  <2>3. NameInv'
    BY <1>0, <1>2, NamesStay DEF SameNames, Lock
  <2> QED
    BY <2>1, <2>2, <2>3 DEF LockInv
<1>3. CASE SealFooter(p)
  <2>0. SameNames
    BY <1>3, SealFooterIs DEF SameNames, Changed
  <2>1. ProcInv'
    <3>1. \/ UNCHANGED holder /\ Goto(p, "publish")
          \/ Abort(p)
      BY <1>3, SealFooterIs
    <3> QED
      BY <1>0, <1>3, <3>1, ProcTypes DEF ProcInv, Holding, SealFooter, Abort, End, Goto, Unlock
  <2>2. FileInv'
    <3>1. \/ seg[p] \in opened /\ opened' = opened \ {seg[p]} /\ Goto(p, "publish")
          \/ UNCHANGED opened /\ Abort(p)
      BY <1>3, SealFooterIs
    <3>2. pc[p] = "seal" /\ UNCHANGED <<active, seg>>
      BY <1>3 DEF SealFooter
    <3> QED
      BY <1>0, <2>0, <3>1, <3>2, ProcTypes
      DEF FileInv, ProcInv, Holding, SameNames, Abort, End, Goto
  <2>3. NameInv'
    BY <1>0, <1>3, <2>0, NamesStay DEF SealFooter
  <2> QED
    BY <2>1, <2>2, <2>3 DEF LockInv
<1>4. CASE Publish(p)
  <2>0. pc[p] = "publish" /\ UNCHANGED <<opened, seg, replay>> /\ seg[p] = active
        /\ active \in Segments /\ active \notin opened
    BY <1>0, <1>4, ProcTypes DEF FileInv, ProcInv, Holding, Publish
  <2>1. \/ /\ disk'[active].name = "sealed"
           /\ \A t \in Segments \ {active} : disk'[t].name = disk[t].name
           /\ active' = None
           /\ IF p = Closer THEN Abort(p) ELSE Goto(p, "open") /\ UNCHANGED holder
        \/ SameNames /\ UNCHANGED active /\ Abort(p)
    BY <1>4, <2>0, PublishIs DEF SameNames, Changed
  <2>2. ProcInv'
    BY <1>0, <2>0, <2>1, ProcTypes DEF ProcInv, Holding, Abort, End, Goto, Unlock
  <2>3. FileInv'
    <3>1. \A q \in Procs : pc[q] \in {"publish", "sync"} => q = p
      BY <1>0, <2>0 DEF FileInv, ProcInv, Holding
    <3>2. \A q \in Procs : q # p => pc'[q] = pc[q] /\ pc'[q] \notin {"publish", "sync", "open"}
      BY <1>0, <2>0, <2>1, <3>1, ProcTypes DEF FileInv, Abort, End, Goto
    <3>3. pc'[p] \in {"closed", "idle", "open"} /\ (pc'[p] = "open" => active' = None)
      BY <2>0, <2>1, ProcTypes DEF Abort, End, Goto
    <3>4. \A s \in Segments : disk'[s].name = "log" <=> s = active'
      BY <1>0, <2>0, <2>1, ProcTypes DEF FileInv, SameNames
    <3>5. opened' = {}
      BY <1>0, <2>0 DEF FileInv
    <3> QED
      BY <3>2, <3>3, <3>4, <3>5 DEF FileInv
  <2>4. NameInv'
    BY <1>0, <2>0, <2>1, ProcTypes DEF NameInv, FileInv, SameNames
  <2> QED
    BY <2>2, <2>3, <2>4 DEF LockInv
<1> QED
  BY <1>1, <1>2, <1>3, <1>4 DEF Step

\* The steps of Write only.
LEMMA WriteLocks ==
  ASSUME TypeInv, LockInv, NEW w \in Writers,
         WriteStep(w) \/ \E r \in Records : BeginWrite(w, r)
  PROVE  LockInv'
<1>0. ProcInv /\ FileInv /\ NameInv /\ w \in Procs /\ w # Closer
  BY ProcTypes DEF LockInv
<1>1. CASE \E r \in Records : BeginWrite(w, r)
  <2>1. ProcInv'
    BY <1>0, <1>1, ProcTypes DEF ProcInv, Holding, BeginWrite, Goto
  <2>2. FileInv'
    BY <1>0, <1>1, ProcTypes DEF FileInv, BeginWrite, Goto
  <2>3. NameInv'
    BY <1>0, <1>1, NamesStay DEF SameNames, BeginWrite
  <2> QED
    BY <2>1, <2>2, <2>3 DEF LockInv
<1>2. CASE OpenNew(w)
  <2>0. pc[w] = "open" /\ UNCHANGED <<seg, replay>> /\ active = None
    BY <1>0, <1>2 DEF FileInv, OpenNew
  <2>1. CASE UNCHANGED <<disk, active, opened>> /\ Abort(w)
    <3>1. ProcInv'
      BY <1>0, <2>0, <2>1, ProcTypes DEF ProcInv, Holding, Abort, End, Goto, Unlock
    <3>2. FileInv'
      BY <1>0, <2>0, <2>1, ProcTypes DEF FileInv, Abort, End, Goto
    <3>3. NameInv'
      BY <1>0, <2>0, <2>1, NamesStay DEF SameNames
    <3> QED
      BY <3>1, <3>2, <3>3 DEF LockInv
  <2>2. CASE \E s \in Segments :
              /\ disk[s].name = "absent" /\ \A t \in Segments : disk[t].name = "absent" => s <= t
              /\ Changed(s, "log", <<>>, 0, -1)
              /\ active' = s /\ opened' = opened \cup {s}
              /\ Goto(w, "reload") /\ Unlock(seg[w])
    <3>0. PICK s \in Segments :
              /\ disk[s].name = "absent" /\ \A t \in Segments : disk[t].name = "absent" => s <= t
              /\ disk'[s].name = "log" /\ \A t \in Segments \ {s} : disk'[t].name = disk[t].name
              /\ active' = s /\ opened' = opened \cup {s}
              /\ Goto(w, "reload") /\ Unlock(seg[w])
      BY <2>2 DEF Changed
    <3>1. ProcInv'
      BY <1>0, <2>0, <3>0, ProcTypes DEF ProcInv, Holding, Goto, Unlock
    <3>2. FileInv'
      <4>1. opened = {} /\ \A q \in Procs : pc[q] \notin {"publish", "sync"}
        BY <1>0, <2>0, ProcTypes DEF FileInv, ProcInv, Holding
      <4>2. \A q \in Procs : pc'[q] \notin {"publish", "sync", "open"}
        BY <1>0, <2>0, <3>0, <4>1, ProcTypes DEF FileInv, Goto
      <4>3. \A t \in Segments : disk'[t].name = "log" <=> t = active'
        BY <1>0, <2>0, <3>0, ProcTypes DEF FileInv
      <4> QED
        BY <3>0, <4>1, <4>2, <4>3 DEF FileInv
    <3>3. NameInv'
      <4>1. \A t \in Segments : t \in Nat
        BY SegmentsFinite
      <4>2. \A t \in Segments : disk[t].name # "absent" <=> t < s
        BY <1>0, <3>0, <4>1 DEF NameInv
      <4>3. \A t \in Segments : disk'[t].name # "absent" <=> t <= s
        BY <3>0, <4>1, <4>2
      <4>4. \A t \in replay'.segs : disk'[t].name = "sealed"
        BY <1>0, <2>0, <3>0, ProcTypes DEF NameInv
      <4> QED
        BY <3>0, <4>1, <4>3, <4>4 DEF NameInv
    <3> QED
      BY <3>1, <3>2, <3>3 DEF LockInv
  <2> QED
    BY <1>2, <2>1, <2>2, OpenNewIs
<1>3. CASE WriteRecord(w)
  <2>0. SameNames
    BY <1>3, WriteRecordIs DEF SameNames, Changed
  <2>1. /\ pc[w] = "write" /\ UNCHANGED <<active, opened, seg, replay>>
        /\ Abort(w) \/ (Goto(w, "sync") /\ UNCHANGED holder /\ seg[w] \in opened)
    BY <1>3 DEF WriteRecord
  <2>2. ProcInv'
    BY <1>0, <2>1, ProcTypes DEF ProcInv, Holding, Abort, End, Goto, Unlock
  <2>3. FileInv'
    BY <1>0, <2>0, <2>1, ProcTypes DEF FileInv, SameNames, Abort, End, Goto
  <2>4. NameInv'
    BY <1>0, <2>0, <2>1, NamesStay
  <2> QED
    BY <2>2, <2>3, <2>4 DEF LockInv
<1>4. CASE Sync(w) \/ Account(w)
  <2>0. SameNames
    BY <1>4, SyncIs DEF SameNames, Changed, Account
  <2>1. /\ pc[w] \in {"sync", "account"} /\ UNCHANGED <<active, opened, seg, replay>>
        /\ (pc[w] = "sync" /\ Unlock(seg[w])) \/ UNCHANGED holder
        /\ Goto(w, "account") \/ Goto(w, "idle")
    BY <1>4 DEF Sync, Account
  <2>2. ProcInv'
    BY <1>0, <2>1, ProcTypes DEF ProcInv, Holding, Goto, Unlock
  <2>3. FileInv'
    BY <1>0, <2>0, <2>1, ProcTypes DEF FileInv, SameNames, Goto
  <2>4. NameInv'
    BY <1>0, <2>0, <2>1, NamesStay
  <2> QED
    BY <2>2, <2>3, <2>4 DEF LockInv
<1> QED
  BY <1>0, <1>1, <1>2, <1>3, <1>4, StepLocks DEF WriteStep

\* Replay, and the retention cleanup.
LEMMA ReplayLocks ==
  ASSUME TypeInv, LockInv, Replay \/ Cleanup
  PROVE  LockInv'
<1>0. ProcInv /\ FileInv /\ NameInv
  BY DEF LockInv
<1>1. UNCHANGED <<active, opened, holder, pc, seg>>
  BY DEF Replay, ReplayStart, ReplayRecord, ReplayFail, ReplayDone, Cleanup
<1>2. ProcInv'
  BY <1>0, <1>1 DEF ProcInv
<1>3. ASSUME \A s \in Segments : disk'[s].name = "log" <=> disk[s].name = "log" PROVE FileInv'
  BY <1>0, <1>1, <1>3 DEF FileInv
<1>4. CASE ReplayStart \/ ReplayRecord \/ ReplayFail
  <2>1. UNCHANGED disk
    BY <1>4 DEF ReplayStart, ReplayRecord, ReplayFail
  <2>2. CASE ReplayStart
    <3>1. replay'.segs = Named("sealed")
      BY <2>2 DEF ReplayStart, Idle
    <3> QED
      BY <1>0, <1>1, <1>2, <1>3, <2>1, <3>1 DEF NameInv, Named, LockInv
  <2>3. CASE ReplayRecord \/ ReplayFail
    <3>1. replay'.segs \subseteq replay.segs
      BY <2>3, IdleType DEF ReplayRecord, ReplayFail, TypeInv, TypeOK
    <3> QED
      BY <1>0, <1>1, <1>2, <1>3, <2>1, <3>1 DEF NameInv, LockInv
  <2> QED
    BY <1>4, <2>2, <2>3
<1>5. CASE ReplayDone
  <2>1. Current \in Segments /\ disk[Current].name = "sealed"
    BY <1>0, <1>5, CurrentIs DEF ReplayDone, NameInv
  <2>2. /\ disk'[Current].name \in {"done", "sealed"}
        /\ \A s \in Segments \ {Current} : disk'[s].name = disk[s].name
        /\ replay'.segs = replay.segs \ {Current}
    BY <1>5, <2>1, ReplayDoneIs DEF Changed
  <2>3. NameInv'
    BY <1>0, <1>1, <2>1, <2>2, ProcTypes DEF NameInv
  <2> QED
    BY <1>2, <1>3, <2>1, <2>2, <2>3 DEF LockInv
<1>6. CASE Cleanup
  <2>1. PICK S \in SUBSET Named("done") :
           /\ \A s \in S : disk'[s] = Removed
           /\ \A s \in Segments \ S : disk'[s] = disk[s]
    BY <1>6, CleanupIs
  <2>2. \A s \in Segments : \/ disk'[s].name = disk[s].name
                            \/ disk[s].name = "done" /\ disk'[s].name = "removed"
    BY <2>1, EmptyFiles DEF Named
  <2>3. UNCHANGED replay
    BY <1>6 DEF Cleanup
  <2>4. NameInv'
    BY <1>0, <1>1, <2>2, <2>3, ProcTypes DEF NameInv
  <2> QED
    BY <1>2, <1>3, <2>2, <2>4 DEF LockInv
<1> QED
  BY <1>4, <1>5, <1>6 DEF Replay

\* What a crash and a restart do to the names.
LEMMA RestartNames ==
  ASSUME TypeInv, Restart
  PROVE  /\ active' \in Segments /\ disk[active'].name = "absent" /\ disk'[active'].name = "log"
         /\ \A s \in Segments : disk[s].name = "absent" => active' <= s
         /\ \A s \in Segments \ {active'} :
              /\ disk'[s].name # "log"
              /\ disk'[s].name = "absent" <=> disk[s].name = "absent"
         /\ opened' = {active'}
<1>1. PICK lost \in SUBSET Named("log"), new \in Segments :
           /\ disk[new].name = "absent"
           /\ \A s \in Segments : disk[s].name = "absent" => new <= s
           /\ disk'[new] = NewFile /\ active' = new /\ opened' = {new}
           /\ \A s \in lost : disk'[s] = Removed
           /\ \A s \in Segments \ (lost \cup {new}) : Scanned(disk[s], disk'[s])
  BY RestartIs
<1>2. ASSUME NEW s \in Segments, s # new
      PROVE  disk'[s].name # "log" /\ (disk'[s].name = "absent" <=> disk[s].name = "absent")
  <2>1. CASE s \in lost
    BY <1>1, <2>1, EmptyFiles DEF Named
  <2>2. CASE s \notin lost
    <3>1. Scanned(disk[s], disk'[s]) /\ disk[s] \in FileType
      BY <1>1, <1>2, <2>2, Types
    <3> QED
      BY <3>1, RecoverIs, EmptyFiles
  <2> QED
    BY <2>1, <2>2
<1> QED
  BY <1>1, <1>2, EmptyFiles

\* The locks and the names are inductive.
LEMMA LockNext == ASSUME TypeInv, LockInv, [Next]_vars PROVE LockInv'
<1>0. ProcInv /\ FileInv /\ NameInv
  BY DEF LockInv
<1>1. CASE BeginClose
  <2>1. ProcInv'
    BY <1>0, <1>1, ProcTypes DEF ProcInv, Holding, BeginClose, Goto
  <2>2. FileInv'
    BY <1>0, <1>1, ProcTypes DEF FileInv, BeginClose, Goto
  <2>3. NameInv'
    BY <1>0, <1>1, NamesStay DEF SameNames, BeginClose
  <2> QED
    BY <2>1, <2>2, <2>3 DEF LockInv
<1>2. CASE Crash
  <2>1. SameNames
    BY <1>2, CrashIs DEF SameNames
  <2>2. UNCHANGED <<active, opened, holder, pc, seg, replay>>
    BY <1>2 DEF Crash, mem
  <2>3. ProcInv' /\ FileInv'
    BY <1>0, <2>1, <2>2 DEF ProcInv, FileInv, SameNames
  <2> QED
    BY <1>0, <2>1, <2>2, <2>3, NamesStay DEF LockInv
<1>3. CASE Restart
  <2>1. pc' = [p \in Procs |-> "idle"] /\ replay' = Idle
    BY <1>3 DEF Restart
  <2>2. ProcInv'
    BY <2>1, ProcTypes DEF ProcInv, Holding
  <2>3. FileInv'
    BY <1>3, <2>1, RestartNames DEF FileInv
  <2>4. NameInv'
    <3>0. active' \in Segments /\ \A t \in Segments : t \in Nat
      BY <1>3, RestartNames, SegmentsFinite
    <3>1. \A t \in Segments : disk[t].name # "absent" <=> t < active'
      BY <1>0, <1>3, <3>0, RestartNames DEF NameInv
    <3>2. \A t \in Segments : disk'[t].name # "absent" <=> t <= active'
      BY <1>3, <3>0, <3>1, RestartNames
    <3>3. replay'.segs = {}
      BY <2>1, IdleType
    <3> QED
      BY <3>0, <3>2, <3>3 DEF NameInv
  <2> QED
    BY <2>2, <2>3, <2>4 DEF LockInv
<1>4. CASE Stopped \/ UNCHANGED vars
  <2>1. UNCHANGED <<disk, active, opened, holder, pc, seg, replay>>
    BY <1>4 DEF Stopped, vars, mem
  <2> QED
    BY <1>0, <2>1 DEF LockInv, ProcInv, FileInv, NameInv
<1> QED
  BY <1>1, <1>2, <1>3, <1>4, StepLocks, WriteLocks, ReplayLocks, ProcTypes DEF Next, Running

\* The locks and the names hold from the start.
LEMMA LockInvCorrect == Spec => []LockInv
<1>1. Init => LockInv
  <2> SUFFICES ASSUME Init PROVE LockInv
    OBVIOUS
  <2>1. 1 \in Segments /\ \A s \in Segments : s \in Nat /\ s >= 1
    BY WalAssumption DEF Segments
  <2>2. ProcInv
    BY DEF ProcInv, Holding, Init, Procs
  <2>3. FileInv
    BY <2>1, EmptyFiles DEF FileInv, Init
  <2>4. NameInv
    BY <2>1, EmptyFiles, IdleType DEF NameInv, Init
  <2> QED
    BY <2>2, <2>3, <2>4 DEF LockInv
<1> QED
  BY <1>1, LockNext, TypeInvCorrect, PTL DEF Spec

\* However writers race for a rotation, and however seals and openings fail, at most one
\* file is unsealed: the one fileWAL.active points to.
THEOREM OneActive == Spec => []OneActiveFile
<1>1. TypeInv /\ LockInv => OneActiveFile
  <2> SUFFICES ASSUME TypeInv, LockInv PROVE Cardinality(Named("log")) <= 1
    BY DEF OneActiveFile
  <2>1. Named("log") \subseteq {active}
    BY DEF Named, LockInv, FileInv
  <2>2. Named("log") = {} \/ Named("log") = {active}
    BY <2>1
  <2>3. Cardinality({}) = 0 /\ Cardinality({active}) = 1
    BY FS_EmptySet, FS_Singleton
  <2> QED
    BY <2>2, <2>3
<1> QED
  BY <1>1, TypeInvCorrect, LockInvCorrect, PTL
-----------------------------------------------------------------------------
\* A process writes, seals or renames the active file only.
LEMMA HeldIsActive ==
  ASSUME TypeInv, LockInv, NEW p \in Procs
  PROVE  /\ seg[p] \in opened => seg[p] \in Segments /\ disk[seg[p]].name = "log"
         /\ pc[p] = "publish" => seg[p] \in Segments /\ disk[seg[p]].name = "log"
         /\ pc[p] = "sync" => seg[p] \in opened
<1>1. seg[p] \in opened => seg[p] \in Segments /\ disk[seg[p]].name = "log"
  BY Types DEF LockInv, FileInv
<1>2. pc[p] = "publish" => seg[p] \in Segments /\ disk[seg[p]].name = "log"
  BY DEF LockInv, FileInv, ProcInv, Holding
<1> QED
  BY <1>1, <1>2 DEF LockInv, FileInv

\* A file that is not the active one changes by ReplayDone, Cleanup, OpenNew and
\* Restart only.
LEMMA OtherFiles ==
  ASSUME TypeInv, LockInv, [Next]_vars, NEW s \in Segments, disk[s].name # "log"
  PROVE  \/ disk'[s] = disk[s]
         \/ disk[s].name = "done" /\ disk'[s] = Removed /\ Cleanup
         \/ /\ ReplayDone /\ s = Current /\ disk[s].name = "sealed" /\ disk'[s].name = "done"
            /\ disk'[s].data = disk[s].data /\ disk'[s].synced = disk[s].synced
            /\ disk'[s].footer = disk[s].footer
         \/ /\ disk[s].name = "absent" /\ disk'[s].name = "log"
            /\ disk'[s].data = <<>> /\ disk'[s].synced = 0 /\ disk'[s].footer = -1
<1> DEFINE Goal == \/ disk'[s] = disk[s]
                   \/ disk[s].name = "done" /\ disk'[s] = Removed /\ Cleanup
                   \/ /\ ReplayDone /\ s = Current /\ disk[s].name = "sealed"
                      /\ disk'[s].name = "done"
                      /\ disk'[s].data = disk[s].data /\ disk'[s].synced = disk[s].synced
                      /\ disk'[s].footer = disk[s].footer
                   \/ /\ disk[s].name = "absent" /\ disk'[s].name = "log"
                      /\ disk'[s].data = <<>> /\ disk'[s].synced = 0 /\ disk'[s].footer = -1
<1>1. ASSUME NEW p \in Procs, Step(p) PROVE disk'[s] = disk[s]
  <2>1. CASE Load(p) \/ Lock(p)
    BY <2>1 DEF Load, Lock
  <2>2. CASE SealFooter(p)
    BY <2>2, SealFooterIs, HeldIsActive DEF Changed
  <2>3. CASE Publish(p)
    <3>1. pc[p] = "publish"
      BY <2>3 DEF Publish
    <3> QED
      BY <2>3, <3>1, PublishIs, HeldIsActive DEF Changed
  <2> QED
    BY <1>1, <2>1, <2>2, <2>3 DEF Step
<1>2. ASSUME NEW w \in Writers, WriteStep(w) \/ \E r \in Records : BeginWrite(w, r) PROVE Goal
  <2>0. w \in Procs
    BY Types
  <2>1. CASE Account(w) \/ \E r \in Records : BeginWrite(w, r)
    BY <2>1 DEF Account, BeginWrite
  <2>2. CASE OpenNew(w)
    BY <2>2, OpenNewIs DEF Changed
  <2>3. CASE WriteRecord(w)
    BY <2>0, <2>3, WriteRecordIs, HeldIsActive DEF Changed
  <2>4. CASE Sync(w)
    <3>1. pc[w] = "sync"
      BY <2>4 DEF Sync
    <3> QED
      BY <2>0, <2>4, <3>1, SyncIs, HeldIsActive DEF Changed
  <2> QED
    BY <1>1, <1>2, <2>0, <2>1, <2>2, <2>3, <2>4 DEF WriteStep
<1>3. CASE Replay
  <2>1. CASE ReplayStart \/ ReplayRecord \/ ReplayFail
    BY <2>1 DEF ReplayStart, ReplayRecord, ReplayFail
  <2>2. CASE ReplayDone
    <3>1. Current \in Segments /\ disk[Current].name = "sealed"
      BY <2>2, CurrentIs DEF ReplayDone, LockInv, NameInv
    <3> QED
      BY <2>2, <3>1, ReplayDoneIs DEF Changed
  <2> QED
    BY <1>3, <2>1, <2>2 DEF Replay
<1>4. CASE Cleanup
  <2>1. PICK S \in SUBSET Named("done") :
           /\ \A t \in S : disk'[t] = Removed
           /\ \A t \in Segments \ S : disk'[t] = disk[t]
    BY <1>4, CleanupIs
  <2> QED
    BY <1>4, <2>1 DEF Named
<1>5. CASE Crash
  BY <1>5, CrashIs
<1>6. CASE Restart
  <2>1. PICK lost \in SUBSET Named("log"), new \in Segments :
           /\ disk[new].name = "absent" /\ disk'[new] = NewFile
           /\ \A t \in Segments \ (lost \cup {new}) : Scanned(disk[t], disk'[t])
    BY <1>6, RestartIs
  <2>2. CASE s = new
    BY <2>1, <2>2, EmptyFiles
  <2>3. CASE s # new
    <3>1. Scanned(disk[s], disk'[s]) /\ disk[s] \in FileType
      BY <2>1, <2>3, Types DEF Named
    <3> QED
      BY <3>1, RecoverIs
  <2> QED
    BY <2>2, <2>3
<1>7. CASE BeginClose \/ Stopped \/ UNCHANGED vars
  BY <1>7 DEF BeginClose, Stopped, vars
<1> QED
  BY <1>1, <1>2, <1>3, <1>4, <1>5, <1>6, <1>7, Types DEF Next, Running

\* What a writer's stale pointer, a second seal, a crash and a restart never do: from its
\* rename to .sealed to its deletion a segment's content, footer and fsynced length stay.
THEOREM Immutable == Spec => SealedImmutable
<1>1. ASSUME TypeInv, LockInv, [Next]_vars, NEW s \in Named("sealed") \cup Named("done")
      PROVE  disk[s]'.name = "removed"
             \/ [disk[s]' EXCEPT !.name = ""] = [disk[s] EXCEPT !.name = ""]
  <2>1. s \in Segments /\ disk[s].name \in {"sealed", "done"}
    BY DEF Named
  <2>2. disk[s] \in FileType /\ disk'[s] \in FileType
    BY <1>1, <2>1, DiskKept, Types DEF DiskInv
  <2>3. PICK f \in FileType, g \in FileType : f = disk[s] /\ g = disk'[s]
    BY <2>2
  <2>4. g = f \/ g.name = "removed"
        \/ (g.data = f.data /\ g.synced = f.synced /\ g.footer = f.footer)
    BY <1>1, <2>1, <2>3, OtherFiles, EmptyFiles
  <2>5. g.data = f.data /\ g.synced = f.synced /\ g.footer = f.footer =>
          [g EXCEPT !.name = ""] = [f EXCEPT !.name = ""]
    BY DEF FileType
  <2> QED
    BY <2>3, <2>4, <2>5
<1>2. TypeInv /\ LockInv /\ [Next]_vars =>
        [\A s \in Named("sealed") \cup Named("done") :
          disk[s]'.name = "removed"
          \/ [disk[s]' EXCEPT !.name = ""] = [disk[s] EXCEPT !.name = ""]]_vars
  BY <1>1
<1> QED
  BY <1>2, TypeInvCorrect, LockInvCorrect, PTL DEF Spec, SealedImmutable
-----------------------------------------------------------------------------
\* What can happen to the active file in a step.
Kept(s) == disk'[s].name = "log" /\ disk'[s].data = disk[s].data
Sealed(s) ==
  \E p \in Procs :
    /\ SealFooter(p) /\ seg[p] = s /\ s \in opened /\ Kept(s) /\ pc'[p] = "publish"
    /\ disk'[s].synced = Len(disk[s].data) /\ disk'[s].footer = RecordCount(disk[s])
Torn(s) ==
  /\ s \in opened /\ Faults \cap {"write", "footer"} # {} /\ disk'[s].name = "log"
  /\ disk'[s].data = Append(disk[s].data, Junk)
  /\ disk'[s].synced = disk[s].synced /\ disk'[s].footer = disk[s].footer
Written1(s) ==
  \E w \in Writers :
    /\ WriteRecord(w) /\ seg[w] = s /\ s \in opened /\ disk'[s].name = "log" /\ pc'[w] = "sync"
    /\ disk'[s].data = Append(disk[s].data, rec[w])
    /\ disk'[s].synced = disk[s].synced /\ disk'[s].footer = disk[s].footer
Synced(s) ==
  \E w \in Writers :
    /\ Sync(w) /\ seg[w] = s /\ s \in opened /\ Kept(s) /\ pc'[w] = "account"
    /\ disk'[s].synced = Len(disk[s].data) /\ disk'[s].footer = disk[s].footer
Published(s) ==
  \E p \in Procs :
    /\ Publish(p) /\ seg[p] = s /\ disk'[s].name = "sealed" /\ disk'[s].data = disk[s].data
    /\ disk'[s].synced = disk[s].synced /\ disk'[s].footer = disk[s].footer
Cut(s) ==
  /\ Crash /\ disk'[s].name = "log" /\ disk'[s].synced = disk[s].synced
  /\ disk'[s].footer = disk[s].footer
  /\ Len(disk'[s].data) \in disk[s].synced..Len(disk[s].data)
  /\ \A i \in 1..Len(disk'[s].data) : disk'[s].data[i] = disk[s].data[i]
Recovered(s) ==
  /\ Restart
  /\ \/ Scanned(disk[s], disk'[s])
     \/ disk'[s] = Removed /\ "recover" \in Faults

\* Every step is one of these for the active file.
LEMMA LogFiles ==
  ASSUME TypeInv, LockInv, [Next]_vars, NEW s \in Segments, disk[s].name = "log"
  PROVE  \/ disk'[s] = disk[s] \/ Sealed(s) \/ Torn(s) \/ Written1(s) \/ Synced(s)
         \/ Published(s) \/ Cut(s) \/ Recovered(s)
<1> DEFINE Goal == \/ disk'[s] = disk[s] \/ Sealed(s) \/ Torn(s) \/ Written1(s) \/ Synced(s)
                   \/ Published(s) \/ Cut(s) \/ Recovered(s)
<1>1. ASSUME NEW p \in Procs, Step(p) PROVE Goal
  <2>1. CASE Load(p) \/ Lock(p)
    BY <2>1 DEF Load, Lock
  <2>2. CASE SealFooter(p)
    <3>1. CASE UNCHANGED disk
      BY <3>1
    <3>2. CASE /\ seg[p] \in opened
               /\ Changed(seg[p], disk[seg[p]].name, disk[seg[p]].data, Len(disk[seg[p]].data),
                          RecordCount(disk[seg[p]]))
               /\ Goto(p, "publish")
      <4>1. CASE s = seg[p]
        <5>1. pc'[p] = "publish"
          BY <3>2, ProcTypes DEF Goto
        <5> QED
          BY <2>2, <3>2, <4>1, <5>1 DEF Sealed, Kept, Changed
      <4> QED
        BY <3>2, <4>1 DEF Changed
    <3>3. CASE /\ seg[p] \in opened /\ "footer" \in Faults
               /\ Changed(seg[p], disk[seg[p]].name, Append(disk[seg[p]].data, Junk),
                          disk[seg[p]].synced, disk[seg[p]].footer)
      BY <3>3 DEF Torn, Changed
    <3> QED
      BY <2>2, <3>1, <3>2, <3>3, SealFooterIs
  <2>3. CASE Publish(p)
    BY <2>3, PublishIs DEF Changed, Published
  <2> QED
    BY <1>1, <2>1, <2>2, <2>3 DEF Step
<1>2. ASSUME NEW w \in Writers, WriteStep(w) \/ \E r \in Records : BeginWrite(w, r) PROVE Goal
  <2>0. w \in Procs
    BY Types
  <2>1. CASE Account(w) \/ \E r \in Records : BeginWrite(w, r)
    BY <2>1 DEF Account, BeginWrite
  <2>2. CASE OpenNew(w)
    BY <2>2, OpenNewIs DEF Changed
  <2>3. CASE WriteRecord(w)
    <3>1. CASE UNCHANGED disk
      BY <3>1
    <3>2. CASE /\ seg[w] \in opened
               /\ Changed(seg[w], disk[seg[w]].name, Append(disk[seg[w]].data, rec[w]),
                          disk[seg[w]].synced, disk[seg[w]].footer)
               /\ Goto(w, "sync")
      <4>1. CASE s = seg[w]
        <5>1. pc'[w] = "sync"
          BY <2>0, <3>2, ProcTypes DEF Goto
        <5> QED
          BY <2>3, <3>2, <4>1, <5>1 DEF Written1, Changed
      <4> QED
        BY <3>2, <4>1 DEF Changed
    <3>3. CASE /\ seg[w] \in opened /\ "write" \in Faults
               /\ Changed(seg[w], disk[seg[w]].name, Append(disk[seg[w]].data, Junk),
                          disk[seg[w]].synced, disk[seg[w]].footer)
      BY <3>3 DEF Torn, Changed
    <3> QED
      BY <2>3, <3>1, <3>2, <3>3, WriteRecordIs
  <2>4. CASE Sync(w)
    <3>1. CASE UNCHANGED disk
      BY <3>1
    <3>2. CASE /\ Changed(seg[w], disk[seg[w]].name, disk[seg[w]].data, Len(disk[seg[w]].data),
                          disk[seg[w]].footer)
               /\ Goto(w, "account")
      <4>1. CASE s = seg[w]
        <5>1. pc'[w] = "account" /\ seg[w] \in opened
          BY <2>0, <2>4, <3>2, ProcTypes, HeldIsActive DEF Goto, Sync
        <5> QED
          BY <2>4, <3>2, <4>1, <5>1 DEF Synced, Kept, Changed
      <4> QED
        BY <3>2, <4>1 DEF Changed
    <3> QED
      BY <2>4, <3>1, <3>2, SyncIs
  <2> QED
    BY <1>1, <1>2, <2>0, <2>1, <2>2, <2>3, <2>4 DEF WriteStep
<1>3. CASE Replay
  <2>1. CASE ReplayStart \/ ReplayRecord \/ ReplayFail
    BY <2>1 DEF ReplayStart, ReplayRecord, ReplayFail
  <2>2. CASE ReplayDone
    <3>1. Current \in Segments /\ disk[Current].name = "sealed"
      BY <2>2, CurrentIs DEF ReplayDone, LockInv, NameInv
    <3> QED
      BY <2>2, <3>1, ReplayDoneIs DEF Changed
  <2> QED
    BY <1>3, <2>1, <2>2 DEF Replay
<1>4. CASE Cleanup
  <2>1. PICK S \in SUBSET Named("done") : \A t \in Segments \ S : disk'[t] = disk[t]
    BY <1>4, CleanupIs
  <2> QED
    BY <2>1 DEF Named
<1>5. CASE Crash
  <2>1. PICK m \in disk[s].synced..Len(disk[s].data) :
          /\ disk'[s].name = "log" /\ disk'[s].synced = disk[s].synced
          /\ disk'[s].footer = disk[s].footer /\ Len(disk'[s].data) = m
          /\ \A i \in 1..m : disk'[s].data[i] = disk[s].data[i]
    BY <1>5, CrashIs
  <2> QED
    BY <1>5, <2>1 DEF Cut
<1>6. CASE Restart
  <2>1. PICK lost \in SUBSET Named("log"), new \in Segments :
           /\ lost = {} \/ "recover" \in Faults
           /\ disk[new].name = "absent"
           /\ \A t \in lost : disk'[t] = Removed
           /\ \A t \in Segments \ (lost \cup {new}) : Scanned(disk[t], disk'[t])
    BY <1>6, RestartIs
  <2> QED
    BY <1>6, <2>1 DEF Recovered
<1>7. CASE BeginClose \/ Stopped \/ UNCHANGED vars
  BY <1>7 DEF BeginClose, Stopped, vars
<1> QED
  BY <1>1, <1>2, <1>3, <1>4, <1>5, <1>6, <1>7, Types DEF Next, Running
-----------------------------------------------------------------------------
\* A footer counts the whole records before it, which a crash cannot cut, or a recovery
\* wrote it behind all it framed; a file that does not exist is empty.
FootOK(f) ==
  \/ f.footer = RecordCount(f)
  \/ f.footer = Len(f.data) /\ WholeRecords(f) \subseteq 1..ReadableCount(f)
FootInv ==
  /\ \A s \in Segments : disk[s].name \in {"sealed", "done"} => FootOK(disk[s])
  /\ \A p \in Procs : pc[p] = "publish" =>
       /\ disk[seg[p]].footer = RecordCount(disk[seg[p]])
       /\ disk[seg[p]].synced = Len(disk[seg[p]].data)
  /\ \A s \in Segments : disk[s].name \in {"absent", "removed"} =>
       disk[s].data = <<>> /\ disk[s].footer = -1

\* Counting looks at the records only.
LEMMA CountOfData ==
  ASSUME NEW f, NEW g, f.data = g.data
  PROVE  WholeRecords(f) = WholeRecords(g) /\ RecordCount(f) = RecordCount(g)
         /\ ReadableCount(f) = ReadableCount(g) /\ Written(f) = Written(g)
<1>1. WholeRecords(f) = WholeRecords(g)
  BY DEF WholeRecords
<1>2. ReadableCount(f) = ReadableCount(g)
  BY DEF ReadableCount
<1>3. Written(f) = Written(g)
  BY <1>1 DEF Written
<1> QED
  BY <1>1, <1>2, <1>3 DEF RecordCount

\* A recovered file has a footer that counts its records, or all that was framed.
LEMMA RecoverCount ==
  ASSUME NEW f \in FileType, f.name = "log", NEW h, Scanned(f, h)
  PROVE  /\ h.name = "sealed" => FootOK(h)
         /\ h.name \in {"sealed", "removed"}
         /\ h.name = "removed" => h = Removed
<1>1. h \in FileType
  BY RecoverIs
<1>2. CASE h = Removed
  BY <1>2, EmptyFiles
<1>3. ASSUME NEW n, n \in 1..Len(f.data), n \in {ReadableCount(f), ReadableCount(f) + 1},
             h.name = "sealed", Len(h.data) = n, h.footer = n,
             \A i \in 1..n : h.data[i] = f.data[i]
      PROVE  FootOK(h)
  <2>1. /\ ReadableCount(f) \in 0..Len(f.data) /\ Len(f.data) \in Nat
        /\ \A i \in 1..ReadableCount(f) : f.data[i] # Junk
    BY ReadableIs, WholeIs, WalAssumption
  <2>2. /\ ReadableCount(h) \in 0..n
        /\ ReadableCount(h) < n => h.data[ReadableCount(h) + 1] = Junk
    BY <1>1, <1>3, ReadableIs
  <2>3. PICK k, m : k = ReadableCount(h) /\ m = ReadableCount(f)
    OBVIOUS
  <2>4. k \in Nat /\ m \in Nat /\ n \in Nat /\ k <= n /\ (n = m \/ n = m + 1)
    BY <1>3, <2>1, <2>2, <2>3
  <2>5. k >= m
    <3> SUFFICES ASSUME k < m PROVE FALSE
      BY <2>4
    <3>1. k + 1 \in 1..n /\ k + 1 \in 1..m
      BY <2>4
    <3> QED
      BY <1>3, <2>1, <2>2, <2>3, <2>4, <3>1
  <2>6. WholeRecords(h) \subseteq 1..k
    <3> SUFFICES ASSUME NEW i \in WholeRecords(h) PROVE i \in 1..k
      OBVIOUS
    <3>1. i \in 1..n /\ i \in Nat /\ h.data[i] # Junk
      BY <1>1, <1>3, <2>4, WholeIs DEF WholeRecords
    <3>2. i <= k
      <4> SUFFICES ASSUME i > k PROVE FALSE
        BY <2>4, <3>1
      <4>1. i = k + 1 /\ k < n
        BY <2>4, <2>5, <3>1
      <4> QED
        BY <2>2, <2>3, <3>1, <4>1
    <3> QED
      BY <2>4, <3>1, <3>2
  <2> QED
    BY <1>3, <2>3, <2>6 DEF FootOK
<1> QED
  BY <1>1, <1>2, <1>3, RecoverIs

\* A file cut at its end is as it was.
LEMMA CutNothing ==
  ASSUME TypeInv, TypeInv', NEW s \in Segments, Cut(s), disk[s].synced = Len(disk[s].data)
  PROVE  disk'[s].data = disk[s].data
<1>1. /\ disk[s].data \in Seq(Entry) /\ disk'[s].data \in Seq(Entry)
      /\ Len(disk[s].data) \in Nat
  <2>1. disk[s] \in FileType /\ disk'[s] \in FileType
    BY DEF TypeInv, TypeOK, FileType
  <2> QED
    BY <2>1, WholeIs DEF FileType
<1>2. /\ Len(disk'[s].data) = Len(disk[s].data)
      /\ \A i \in 1..Len(disk'[s].data) : disk'[s].data[i] = disk[s].data[i]
  BY <1>1 DEF Cut
<1> QED
  BY <1>1, <1>2, SeqEqual

\* What a goroutine in Write or Close does next.
Own(q) ==
  \/ Step(q)
  \/ q = Closer /\ BeginClose
  \/ q \in Writers /\ (OpenNew(q) \/ WriteRecord(q) \/ Sync(q) \/ Account(q))
  \/ q \in Writers /\ \E r \in Records : BeginWrite(q, r)

\* A step is one of a single goroutine, of Replay or the cleanup, a crash or a restart.
LEMMA OneMoves ==
  ASSUME TypeInv, [Next]_vars
  PROVE  \/ UNCHANGED <<pc, seg, rec>>
         \/ Restart
         \/ \E q \in Procs :
              /\ Own(q) /\ Alive
              /\ \A p \in Procs \ {q} : pc'[p] = pc[p] /\ seg'[p] = seg[p]
              /\ \A w \in Writers \ {q} : rec'[w] = rec[w]
<1>1. ASSUME NEW q \in Procs, Own(q)
      PROVE  /\ \A p \in Procs \ {q} : pc'[p] = pc[p] /\ seg'[p] = seg[p]
             /\ \A w \in Writers \ {q} : rec'[w] = rec[w]
  <2>0. DOMAIN rec = Writers
    BY DEF TypeInv, TypeOK
  <2>1. CASE Step(q)
    BY <2>1, ProcTypes
    DEF Step, Load, Lock, SealFooter, Publish, Goto, Abort, End
  <2>2. CASE q = Closer /\ BeginClose
    BY <2>2, ProcTypes DEF BeginClose, Goto
  <2>3. CASE q \in Writers /\ (OpenNew(q) \/ WriteRecord(q) \/ Sync(q) \/ Account(q))
    BY <2>3, ProcTypes DEF OpenNew, WriteRecord, Sync, Account, Goto, Abort, End
  <2>4. CASE q \in Writers /\ \E r \in Records : BeginWrite(q, r)
    BY <2>0, <2>4, ProcTypes DEF BeginWrite, Goto
  <2> QED
    BY <1>1, <2>1, <2>2, <2>3, <2>4 DEF Own
<1>2. CASE Running
  <2>1. Alive
    BY <1>2 DEF Running
  <2>2. CASE Replay \/ Cleanup
    BY <2>2 DEF Replay, ReplayStart, ReplayRecord, ReplayFail, ReplayDone, Cleanup
  <2>3. CASE \E q \in Procs : Own(q)
    BY <1>1, <2>1, <2>3
  <2> QED
    BY <1>2, <2>2, <2>3, ProcTypes DEF Running, Own, WriteStep
<1>3. CASE Crash \/ Stopped \/ UNCHANGED vars
  BY <1>3 DEF Crash, Stopped, vars, mem
<1> QED
  BY <1>2, <1>3 DEF Next

\* The footers are inductive.
LEMMA FootNext == ASSUME TypeInv, LockInv, FootInv, [Next]_vars PROVE FootInv'
<1>0. LockInv' /\ TypeInv'
  BY LockNext, TypeNext
<1>1. ASSUME NEW s \in Segments, disk'[s].name \in {"sealed", "done"}
      PROVE  FootOK(disk'[s])
  <2>1. CASE disk[s].name # "log"
    <3>1. /\ disk[s].name \in {"sealed", "done"} /\ disk'[s].data = disk[s].data
          /\ disk'[s].footer = disk[s].footer
      BY <1>1, <2>1, OtherFiles, EmptyFiles
    <3> QED
      BY <3>1, CountOfData DEF FootInv, FootOK
  <2>2. CASE disk[s].name = "log"
    <3>1. Published(s) \/ Recovered(s)
      BY <1>1, <2>2, LogFiles DEF Sealed, Torn, Written1, Synced, Cut, Kept
    <3>2. CASE Published(s)
      <4>1. PICK p \in Procs : Publish(p) /\ seg[p] = s /\ disk'[s].data = disk[s].data
                               /\ disk'[s].footer = disk[s].footer
        BY <3>2 DEF Published
      <4>2. pc[p] = "publish"
        BY <4>1 DEF Publish
      <4> QED
        BY <4>1, <4>2, CountOfData DEF FootInv, FootOK
    <3>3. CASE Recovered(s)
      <4>1. Scanned(disk[s], disk'[s]) /\ disk[s] \in FileType
        BY <1>1, <3>3, Types, EmptyFiles DEF Recovered
      <4> QED
        BY <1>1, <2>2, <4>1, RecoverCount
    <3> QED
      BY <3>1, <3>2, <3>3
  <2> QED
    BY <2>1, <2>2
<1>2. ASSUME NEW p \in Procs, pc'[p] = "publish"
      PROVE  /\ disk'[seg'[p]].footer = RecordCount(disk'[seg'[p]])
             /\ disk'[seg'[p]].synced = Len(disk'[seg'[p]].data)
  <2>1. CASE pc[p] = "publish" /\ seg'[p] = seg[p] /\ ~Publish(p)
    <3>1. PICK s \in Segments : s = seg[p] /\ s \notin opened /\ disk[s].name = "log"
      BY <2>1, HeldIsActive DEF LockInv, FileInv
    <3>2. disk[s].footer = RecordCount(disk[s]) /\ disk[s].synced = Len(disk[s].data)
      BY <2>1, <3>1 DEF FootInv
    <3>3. ~Restart
      BY <1>2 DEF Restart
    <3>4. ~Published(s)
      <4> SUFFICES ASSUME NEW q \in Procs, Publish(q), seg[q] = s PROVE FALSE
        BY DEF Published
      <4>1. pc[q] = "publish"
        BY DEF Publish
      <4> QED
        BY <2>1, <3>1, <4>1 DEF LockInv, ProcInv, Holding
    <3>5. disk'[s] = disk[s] \/ Cut(s)
      BY <3>1, <3>3, <3>4, LogFiles DEF Sealed, Torn, Written1, Synced, Recovered
    <3>6. CASE Cut(s)
      <4>1. disk'[s].data = disk[s].data
        BY <1>0, <3>2, <3>6, CutNothing
      <4> QED
        BY <2>1, <3>1, <3>2, <3>6, <4>1, CountOfData DEF Cut
    <3> QED
      BY <2>1, <3>1, <3>2, <3>5, <3>6
  <2>2. CASE SealFooter(p)
    <3>1. /\ seg[p] \in Segments /\ disk'[seg[p]].data = disk[seg[p]].data
          /\ disk'[seg[p]].synced = Len(disk[seg[p]].data)
          /\ disk'[seg[p]].footer = RecordCount(disk[seg[p]])
      <4>1. ~Abort(p)
        BY <1>2, ProcTypes DEF Abort, End, Goto
      <4> QED
        BY <2>2, <4>1, SealFooterIs, Types DEF Changed
    <3>2. seg'[p] = seg[p]
      BY <2>2 DEF SealFooter
    <3> QED
      BY <3>1, <3>2, CountOfData
  <2>3. ~Publish(p)
    BY <1>2, ProcTypes DEF Publish, Abort, End, Goto
  <2>4. Own(p) => SealFooter(p)
    BY <1>2, <2>3, ProcTypes
    DEF Own, Step, Load, Lock, OpenNew, WriteRecord, Sync, Account, BeginWrite, BeginClose,
        Abort, End, Goto
  <2>5. ~Restart
    BY <1>2 DEF Restart
  <2> QED
    BY <1>2, <2>1, <2>2, <2>3, <2>4, <2>5, OneMoves
<1>3. ASSUME NEW s \in Segments, disk'[s].name \in {"absent", "removed"}
      PROVE  disk'[s].data = <<>> /\ disk'[s].footer = -1
  <2>1. CASE disk[s].name # "log"
    BY <1>3, <2>1, OtherFiles, EmptyFiles DEF FootInv
  <2>2. CASE disk[s].name = "log"
    <3>1. Recovered(s)
      BY <1>3, <2>2, LogFiles DEF Sealed, Torn, Written1, Synced, Published, Cut, Kept
    <3>2. disk'[s] = Removed
      BY <1>3, <2>2, <3>1, Types, RecoverCount DEF Recovered
    <3> QED
      BY <3>2, EmptyFiles
  <2> QED
    BY <2>1, <2>2
<1> QED
  BY <1>1, <1>2, <1>3 DEF FootInv

\* Every footer counts the whole records of its file.
LEMMA FootInvCorrect == Spec => []FootInv
<1>1. Init => FootInv
  BY EmptyFiles DEF Init, FootInv
<1> QED
  BY <1>1, FootNext, TypeInvCorrect, LockInvCorrect, PTL DEF Spec
-----------------------------------------------------------------------------
\* What a replay has handed over of the segment it is at.
ReplayInv ==
  replay.segs # {} =>
    \A i \in 1..replay.pos - 1 :
      \/ i <= ReadableCount(ReplayFile) /\ ReplayFile.data[i] \in delivered
      \/ i > ReadableCount(ReplayFile) /\ CountsJunk(ReplayFile)

\* The handler gets a record somebody wrote.
Delivers == ReplayRecord /\ replay.pos <= ReadableCount(ReplayFile)

\* What the handler accepted stays accepted, and only ReplayRecord adds to it.
LEMMA DeliveredGrows ==
  ASSUME [Next]_vars
  PROVE  \/ delivered' = delivered
         \/ Delivers /\ delivered' = delivered \cup {ReplayFile.data[replay.pos]}
<1>1. ASSUME NEW p, Step(p) PROVE delivered' = delivered
  BY <1>1 DEF Step, Load, Lock, SealFooter, Publish, history
<1>2. ASSUME NEW w \in Writers, WriteStep(w) \/ \E r \in Records : BeginWrite(w, r)
      PROVE  delivered' = delivered
  BY <1>1, <1>2 DEF WriteStep, BeginWrite, OpenNew, WriteRecord, Sync, Account, history
<1>3. CASE ReplayRecord
  BY <1>3 DEF ReplayRecord, Delivers
<1>4. CASE ReplayStart \/ ReplayFail \/ ReplayDone
  BY <1>4 DEF ReplayStart, ReplayFail, ReplayDone, history
<1>5. CASE Cleanup \/ BeginClose
  BY <1>5 DEF Cleanup, BeginClose, history
<1>6. CASE Crash \/ Stopped \/ UNCHANGED vars
  BY <1>6 DEF Crash, Stopped, vars, history
<1>7. CASE Restart
  BY <1>7 DEF Restart, history
<1>8. CASE Running
  BY <1>1, <1>2, <1>3, <1>4, <1>5, <1>8 DEF Running, Replay
<1> QED
  BY <1>6, <1>7, <1>8 DEF Next

\* A replay moves by the steps of Replay, and forgets where it was at a restart.
LEMMA ReplayMoves ==
  ASSUME TypeInv, [Next]_vars
  PROVE  \/ replay' = replay /\ ~ReplayDone
         \/ ReplayRecord /\ replay'.segs = replay.segs /\ replay'.pos = replay.pos + 1
         \/ replay'.pos = 1
<1>0. /\ replay \in [segs : SUBSET Segments, pos : Nat, attempt : 0..(MaxReplayFailures - 1)]
      /\ Idle.pos = 1
  BY IdleType DEF TypeInv, TypeOK
<1>1. ReplayDone => replay'.pos = 1
  BY ReplayDoneIs
<1>2. ASSUME NEW p, Step(p) PROVE replay' = replay
  BY <1>2 DEF Step, Load, Lock, SealFooter, Publish
<1>3. ASSUME NEW w \in Writers, WriteStep(w) \/ \E r \in Records : BeginWrite(w, r)
      PROVE  replay' = replay
  BY <1>2, <1>3 DEF WriteStep, BeginWrite, OpenNew, WriteRecord, Sync, Account
<1>4. CASE Cleanup \/ BeginClose
  BY <1>1, <1>4 DEF Cleanup, BeginClose
<1>5. CASE Replay
  <2>1. CASE ReplayStart
    BY <2>1 DEF ReplayStart, Idle
  <2>2. CASE ReplayRecord
    <3>1. replay' = [replay EXCEPT !.pos = replay.pos + 1]
      BY <2>2 DEF ReplayRecord
    <3> QED
      BY <1>0, <2>2, <3>1
  <2>3. CASE ReplayFail
    <3>1. replay' = [replay EXCEPT !.pos = 1, !.attempt = replay.attempt + 1] \/ replay' = Idle
      BY <2>3 DEF ReplayFail
    <3> QED
      BY <1>0, <3>1
  <2> QED
    BY <1>1, <1>5, <2>1, <2>2, <2>3 DEF Replay
<1>6. CASE Crash \/ Stopped \/ UNCHANGED vars
  BY <1>1, <1>6 DEF Crash, Stopped, vars, mem
<1>7. CASE Restart
  BY <1>0, <1>7 DEF Restart
<1> QED
  BY <1>1, <1>2, <1>3, <1>4, <1>5, <1>6, <1>7 DEF Next, Running

\* The segment a replay is at is sealed, and keeps its content.
LEMMA ReplayFileKept ==
  ASSUME TypeInv, LockInv, [Next]_vars, replay.segs # {}, replay'.segs = replay.segs
  PROVE  /\ Current' = Current /\ Current \in Segments /\ disk[Current].name = "sealed"
         /\ ReplayFile'.data = ReplayFile.data
         /\ ReadableCount(ReplayFile') = ReadableCount(ReplayFile)
         /\ CountsJunk(ReplayFile') <=> CountsJunk(ReplayFile)
<1>1. Current' = Current
  BY DEF Current
<1>2. Current \in Segments /\ disk[Current].name = "sealed"
  BY CurrentIs DEF LockInv, NameInv
<1>3. disk'[Current].data = disk[Current].data /\ disk'[Current].footer = disk[Current].footer
  BY <1>2, OtherFiles
<1>4. ReplayFile' = disk'[Current]
  BY <1>1 DEF ReplayFile
<1>5. ReadableCount(ReplayFile') = ReadableCount(ReplayFile)
  BY <1>3, <1>4, CountOfData DEF ReplayFile
<1>6. CountsJunk(ReplayFile') <=> CountsJunk(ReplayFile)
  BY <1>3, <1>4, <1>5 DEF CountsJunk, ReplayFile
<1> QED
  BY <1>1, <1>2, <1>3, <1>4, <1>5, <1>6 DEF ReplayFile

\* A replay that reaches the footer has handed over every whole record of the segment.
LEMMA WholeDelivered ==
  ASSUME TypeInv, LockInv, FootInv, ReplayInv, ReplayDone
  PROVE  \A i \in WholeRecords(disk[Current]) : disk[Current].data[i] \in delivered
<1>1. PICK f \in FileType : f = ReplayFile /\ f = disk[Current]
  BY CurrentIs, Types DEF ReplayDone, ReplayFile
<1>2. replay.segs # {} /\ Current \in Segments /\ disk[Current].name = "sealed"
  BY CurrentIs DEF ReplayDone, LockInv, NameInv
<1>3. /\ RecordCount(f) \in Nat /\ Len(f.data) \in Nat /\ FootOK(f)
      /\ WholeRecords(f) \subseteq 1..Len(f.data) /\ IsFiniteSet(WholeRecords(f))
      /\ ReadableCount(f) \in 0..Len(f.data)
      /\ ReadableCount(f) < Len(f.data) => f.data[ReadableCount(f) + 1] = Junk
  BY <1>1, <1>2, WholeIs, ReadableIs DEF FootInv
<1>4. PICK n \in Nat : n = f.footer
  BY <1>3 DEF FootOK
<1>5. replay.pos > n /\ replay.pos \in Nat
  BY <1>1, <1>4 DEF ReplayDone, TypeInv, TypeOK
<1>6. \A i \in 1..n : \/ i <= ReadableCount(f) /\ f.data[i] \in delivered
                      \/ i > ReadableCount(f) /\ CountsJunk(f)
  BY <1>1, <1>2, <1>5 DEF ReplayInv
<1>7. CASE n = Len(f.data) /\ WholeRecords(f) \subseteq 1..ReadableCount(f)
  BY <1>1, <1>3, <1>6, <1>7
<1>8. CASE n = RecordCount(f)
  <2>1. ~CountsJunk(f)
    <3> SUFFICES ASSUME n = Len(f.data), ReadableCount(f) < n PROVE FALSE
      BY <1>4 DEF CountsJunk
    <3>1. ReadableCount(f) + 1 \in 1..n /\ ReadableCount(f) + 1 \notin WholeRecords(f)
      BY <1>3 DEF WholeRecords
    <3>2. Cardinality(1..n) = n /\ IsFiniteSet(1..n)
      BY FS_Interval
    <3>3. Cardinality(WholeRecords(f)) = Cardinality(1..n)
      BY <1>8, <3>2 DEF RecordCount
    <3> QED
      BY <1>3, <3>1, <3>2, <3>3, FS_Subset
  <2>2. \A i \in 1..n : i <= ReadableCount(f) /\ f.data[i] \in delivered
    BY <1>6, <2>1
  <2>3. 1..n \subseteq WholeRecords(f)
    <3> SUFFICES ASSUME NEW i \in 1..n PROVE i \in WholeRecords(f)
      OBVIOUS
    <3>1. DOMAIN f.data = 1..Len(f.data)
      BY WholeIs
    <3>2. i \in 1..ReadableCount(f) /\ i \in DOMAIN f.data
      BY <1>3, <2>2, <3>1
    <3>3. f.data[i] # Junk
      BY <3>2, ReadableIs, WalAssumption
    <3> QED
      BY <3>2, <3>3 DEF WholeRecords
  <2>4. Cardinality(1..n) = Cardinality(WholeRecords(f))
    <3>1. Cardinality(1..n) = n
      BY FS_Interval
    <3> QED
      BY <1>8, <3>1 DEF RecordCount
  <2>5. 1..n = WholeRecords(f)
    BY <1>3, <2>3, <2>4, FS_Subset
  <2> QED
    BY <1>1, <2>2, <2>5
<1> QED
  BY <1>3, <1>4, <1>7, <1>8 DEF FootOK

\* What a replay has done is inductive.
LEMMA ReplayNext ==
  ASSUME TypeInv, LockInv, FootInv, ReplayInv, DoneWasDelivered, [Next]_vars
  PROVE  ReplayInv' /\ DoneWasDelivered'
<1>0. replay.pos \in Nat /\ replay.pos >= 1 /\ delivered \subseteq delivered'
  BY DeliveredGrows DEF TypeInv, TypeOK
<1>1. ReplayInv'
  <2>1. CASE replay'.pos = 1
    BY <2>1 DEF ReplayInv
  <2>2. CASE replay' = replay
    <3> SUFFICES ASSUME replay.segs # {}, NEW i \in 1..replay.pos - 1
                 PROVE  \/ i <= ReadableCount(ReplayFile') /\ ReplayFile'.data[i] \in delivered'
                        \/ i > ReadableCount(ReplayFile') /\ CountsJunk(ReplayFile')
      BY <2>2 DEF ReplayInv
    <3> QED
      BY <1>0, <2>2, ReplayFileKept DEF ReplayInv
  <2>3. CASE ReplayRecord /\ replay'.segs = replay.segs /\ replay'.pos = replay.pos + 1
    <3> SUFFICES ASSUME replay.segs # {}, NEW i \in 1..replay'.pos - 1
                 PROVE  \/ i <= ReadableCount(ReplayFile') /\ ReplayFile'.data[i] \in delivered'
                        \/ i > ReadableCount(ReplayFile') /\ CountsJunk(ReplayFile')
      BY <2>3 DEF ReplayInv
    <3>1. i \in 1..replay.pos - 1 \/ i = replay.pos
      BY <1>0, <2>3
    <3>2. CASE i \in 1..replay.pos - 1
      BY <1>0, <2>3, <3>2, ReplayFileKept DEF ReplayInv
    <3>3. CASE i = replay.pos
      <4>1. \/ i <= ReadableCount(ReplayFile) /\ ReplayFile.data[i] \in delivered'
            \/ i > ReadableCount(ReplayFile) /\ CountsJunk(ReplayFile)
        BY <2>3, <3>3 DEF ReplayRecord
      <4> QED
        BY <2>3, <4>1, ReplayFileKept
    <3> QED
      BY <3>1, <3>2, <3>3
  <2> QED
    BY <2>1, <2>2, <2>3, ReplayMoves
<1>2. DoneWasDelivered'
  <2> SUFFICES ASSUME NEW s \in Segments, disk'[s].name = "done", NEW i \in WholeRecords(disk'[s])
               PROVE  disk'[s].data[i] \in delivered'
    BY DEF DoneWasDelivered, Named
  <2>1. disk[s].name # "log"
    <3> SUFFICES ASSUME disk[s].name = "log" PROVE FALSE
      OBVIOUS
    <3>1. Recovered(s)
      BY LogFiles DEF Sealed, Torn, Written1, Synced, Published, Cut, Kept
    <3> QED
      BY <3>1, Types, RecoverCount, EmptyFiles DEF Recovered
  <2>2. CASE disk'[s] = disk[s]
    BY <1>0, <2>2 DEF DoneWasDelivered, Named
  <2>3. CASE ReplayDone /\ s = Current /\ disk'[s].data = disk[s].data
    BY <1>0, <2>3, WholeDelivered, CountOfData
  <2> QED
    BY <2>1, <2>2, <2>3, OtherFiles, EmptyFiles
<1> QED
  BY <1>1, <1>2

\* What a replay has done holds from the start.
LEMMA ReplayInvCorrect == Spec => [](ReplayInv /\ DoneWasDelivered)
<1>1. Init => ReplayInv /\ DoneWasDelivered
  BY EmptyFiles, IdleType DEF Init, ReplayInv, DoneWasDelivered, Named
<1>2. TypeInv /\ LockInv /\ FootInv /\ (ReplayInv /\ DoneWasDelivered) /\ [Next]_vars =>
        (ReplayInv /\ DoneWasDelivered)'
  BY ReplayNext
<1> QED
  BY <1>1, <1>2, TypeInvCorrect, LockInvCorrect, FootInvCorrect, PTL DEF Spec

\* A segment is confirmed, and so may be deleted, only when every whole record in it was
\* accepted by the handler, whatever was torn, refused, retried, cancelled or restarted.
THEOREM DoneDelivered == Spec => []DoneWasDelivered
  BY ReplayInvCorrect, PTL
-----------------------------------------------------------------------------
\* A record is written once: it is with the caller, in the hands of one writer, or at one
\* place on disk; it can be delivered only when its file is no longer the active one.
Pending(w) ==
  pc[w] \in {"load", "lock", "seal", "publish", "open", "reload", "relock", "write"}

UniqueInv ==
  /\ \A s, t \in Segments : \A i \in DOMAIN disk[s].data, j \in DOMAIN disk[t].data :
       disk[s].data[i] = disk[t].data[j] /\ disk[s].data[i] # Junk => s = t /\ i = j
  /\ \A s \in Segments : \A i \in DOMAIN disk[s].data : disk[s].data[i] \notin fresh
  /\ delivered \cap fresh = {}
  /\ \A w \in Writers : pc[w] # "idle" => rec[w] \notin fresh
  /\ \A v, w \in Writers : pc[v] # "idle" /\ pc[w] # "idle" /\ rec[v] = rec[w] => v = w
  /\ \A w \in Writers : Pending(w) =>
       /\ rec[w] \notin delivered
       /\ \A s \in Segments : \A i \in DOMAIN disk[s].data : disk[s].data[i] # rec[w]
  /\ \A s \in Segments : disk[s].name = "log" =>
       \A i \in DOMAIN disk[s].data : disk[s].data[i] \notin delivered

\* The entry a writer adds.
Adds(w, s, i) ==
  /\ WriteRecord(w) /\ seg[w] = s /\ disk[s].name = "log" /\ pc'[w] = "sync"
  /\ disk'[s].name = "log" /\ i = Len(disk[s].data) + 1 /\ disk'[s].data[i] = rec[w]

\* Every entry of a file was there before, or is junk, or is the one record just written.
LEMMA Entries ==
  ASSUME TypeInv, LockInv, [Next]_vars, NEW s \in Segments, NEW i \in DOMAIN disk'[s].data
  PROVE  \/ i \in DOMAIN disk[s].data /\ disk'[s].data[i] = disk[s].data[i]
         \/ \E w \in Writers : Adds(w, s, i)
         \/ disk'[s].data[i] = Junk /\ Faults \cap {"write", "footer"} # {}
<1> DEFINE Old == i \in DOMAIN disk[s].data /\ disk'[s].data[i] = disk[s].data[i]
<1>1. /\ disk[s] \in FileType /\ Len(disk[s].data) \in Nat
      /\ disk[s].data \in Seq(Entry) /\ DOMAIN disk[s].data = 1..Len(disk[s].data)
  BY Types, WholeIs DEF FileType
<1>2. /\ disk'[s] \in FileType /\ Len(disk'[s].data) \in Nat
      /\ DOMAIN disk'[s].data = 1..Len(disk'[s].data)
  <2>1. disk'[s] \in FileType
    BY DiskKept DEF DiskInv
  <2> QED
    BY <2>1, WholeIs
<1>3. Removed.data = <<>> /\ <<>> = << >> /\ DOMAIN <<>> = {}
  BY EmptyFiles
<1>4. CASE disk[s].name # "log"
  BY <1>3, <1>4, OtherFiles
<1>5. CASE disk[s].name = "log"
  <2>1. CASE disk'[s].data = disk[s].data
    BY <2>1
  <2>2. CASE Torn(s)
    <3>1. \/ i \in 1..Len(disk[s].data) /\ disk'[s].data[i] = disk[s].data[i]
          \/ disk'[s].data[i] = Junk
      BY <1>1, <2>2 DEF Torn
    <3> QED
      BY <1>1, <2>2, <3>1 DEF Torn
  <2>3. CASE Written1(s)
    <3>1. PICK w \in Writers :
            /\ WriteRecord(w) /\ seg[w] = s /\ disk'[s].name = "log" /\ pc'[w] = "sync"
            /\ disk'[s].data = Append(disk[s].data, rec[w])
      BY <2>3 DEF Written1
    <3>2. \/ i \in 1..Len(disk[s].data) /\ disk'[s].data[i] = disk[s].data[i]
          \/ i = Len(disk[s].data) + 1 /\ disk'[s].data[i] = rec[w]
      BY <1>1, <3>1
    <3> QED
      BY <1>1, <1>5, <3>1, <3>2 DEF Adds
  <2>4. CASE Cut(s)
    <3>1. disk[s].synced \in Nat
      BY <1>1 DEF FileType
    <3> QED
      BY <1>1, <1>2, <2>4, <3>1 DEF Cut
  <2>5. CASE Recovered(s)
    <3>1. CASE disk'[s] = Removed
      BY <1>3, <3>1
    <3>2. CASE Scanned(disk[s], disk'[s])
      BY <1>1, <1>2, <1>3, <1>5, <3>2, RecoverIs
    <3> QED
      BY <2>5, <3>1, <3>2 DEF Recovered
  <2> QED
    BY <1>5, <2>1, <2>2, <2>3, <2>4, <2>5, LogFiles DEF Sealed, Synced, Published, Kept
<1> QED
  BY <1>4, <1>5

\* Two writers do not write in one step.
LEMMA OneAdds ==
  ASSUME TypeInv, [Next]_vars, NEW v \in Writers, NEW w \in Writers, NEW s, NEW t, NEW i, NEW j,
         Adds(v, s, i), Adds(w, t, j)
  PROVE  v = w /\ s = t /\ i = j
<1>1. pc[v] = "write" /\ pc[w] = "write" /\ pc'[v] = "sync" /\ pc'[w] = "sync"
  BY DEF Adds, WriteRecord
<1>2. v = w
  BY <1>1, OneMoves, Types DEF Restart
<1> QED
  BY <1>2 DEF Adds

\* A write is no delivery.
LEMMA AddsDelivers ==
  ASSUME [Next]_vars, NEW w, NEW s, NEW i, Adds(w, s, i)
  PROVE  delivered' = delivered /\ fresh' = fresh
BY DEF Adds, WriteRecord, history

\* Writer w passes the entry of Write with record r.
Began(w, r) ==
  /\ r \in fresh /\ rec'[w] = r /\ fresh' = fresh \ {r} /\ pc[w] = "idle" /\ pc'[w] = "load"
  /\ \A v \in Writers \ {w} : pc'[v] = pc[v] /\ rec'[v] = rec[v]
  /\ UNCHANGED <<disk, bytes, acked, delivered>>

\* A writer inside Write was inside with the same record, or has just begun.
LEMMA WriterMoves ==
  ASSUME TypeInv, [Next]_vars, NEW w \in Writers, pc'[w] # "idle"
  PROVE  \/ pc[w] # "idle" /\ rec'[w] = rec[w] /\ (Pending(w)' => Pending(w))
         \/ \E r \in Records : Began(w, r)
<1>0. w \in Procs /\ w # Closer /\ DOMAIN rec = Writers
  BY Types DEF TypeInv, TypeOK
<1>1. CASE UNCHANGED <<pc, seg, rec>>
  BY <1>1 DEF Pending
<1>2. CASE Restart
  BY <1>0, <1>2 DEF Restart
<1>3. ASSUME NEW q \in Procs, Own(q), q # w, pc'[w] = pc[w], rec'[w] = rec[w]
      PROVE  pc[w] # "idle" /\ rec'[w] = rec[w] /\ (Pending(w)' => Pending(w))
  BY <1>3 DEF Pending
<1>4. CASE /\ Own(w)
           /\ \A v \in Writers \ {w} : pc'[v] = pc[v] /\ rec'[v] = rec[v]
  <2>1. CASE \E r \in Records : BeginWrite(w, r)
    BY <1>0, <1>4, <2>1, ProcTypes DEF BeginWrite, Began, Goto, history
  <2>2. CASE Step(w)
    <3>1. pc[w] # "idle" /\ rec'[w] = rec[w] /\ Pending(w)
      BY <2>2 DEF Step, Load, Lock, SealFooter, Publish, Pending
    <3> QED
      BY <3>1
  <2>3. CASE OpenNew(w)
    BY <2>3 DEF OpenNew, Pending
  <2>4. CASE WriteRecord(w)
    BY <2>4 DEF WriteRecord, Pending
  <2>5. CASE Sync(w) \/ Account(w)
    BY <1>0, <2>5, ProcTypes DEF Sync, Account, Pending, Goto
  <2> QED
    BY <1>0, <1>4, <2>1, <2>2, <2>3, <2>4, <2>5 DEF Own
<1> QED
  BY <1>0, <1>1, <1>2, <1>3, <1>4, OneMoves, Types

\* A record leaves fresh when its Write begins, and does not come back.
LEMMA FreshShrinks == ASSUME [Next]_vars PROVE fresh' \subseteq fresh
<1>1. ASSUME NEW p, Step(p) PROVE fresh' = fresh
  BY <1>1 DEF Step, Load, Lock, SealFooter, Publish
<1>2. ASSUME NEW w \in Writers, WriteStep(w) \/ \E r \in Records : BeginWrite(w, r)
      PROVE  fresh' \subseteq fresh
  BY <1>1, <1>2 DEF WriteStep, BeginWrite, OpenNew, WriteRecord, Sync, Account
<1>3. CASE Replay \/ Cleanup \/ BeginClose
  BY <1>3
  DEF Replay, ReplayStart, ReplayRecord, ReplayFail, ReplayDone, Cleanup, BeginClose
<1>4. CASE Crash \/ Stopped \/ UNCHANGED vars
  BY <1>4 DEF Crash, Stopped, vars
<1>5. CASE Restart
  BY <1>5 DEF Restart
<1> QED
  BY <1>1, <1>2, <1>3, <1>4, <1>5 DEF Next, Running

\* A step of Replay that delivers, delivers an entry of a sealed file.
LEMMA DeliveredIs ==
  ASSUME TypeInv, LockInv, Delivers
  PROVE  /\ Current \in Segments /\ disk[Current].name = "sealed"
         /\ replay.pos \in DOMAIN disk[Current].data
         /\ replay.pos \in 1..ReadableCount(disk[Current])
         /\ delivered' = delivered \cup {disk[Current].data[replay.pos]}
         /\ disk[Current].data[replay.pos] # Junk
         /\ UNCHANGED <<disk, pc, rec, fresh>>
<1>1. Current \in Segments /\ disk[Current].name = "sealed"
  BY CurrentIs DEF Delivers, ReplayRecord, AtRecord, LockInv, NameInv
<1>2. PICK f \in FileType : f = disk[Current]
  BY <1>1, Types
<1>3. ReadableCount(f) \in 0..Len(f.data) /\ Len(f.data) \in Nat /\ DOMAIN f.data = 1..Len(f.data)
  BY ReadableIs, WholeIs
<1>4. replay.pos \in Nat /\ replay.pos >= 1 /\ replay.pos <= ReadableCount(f)
  BY <1>2 DEF TypeInv, TypeOK, Delivers, ReplayRecord, ReplayFile
<1>5. replay.pos \in 1..ReadableCount(f) /\ replay.pos \in DOMAIN f.data
  BY <1>3, <1>4
<1>6. f.data[replay.pos] # Junk
  BY <1>5, ReadableIs, WalAssumption
<1> QED
  BY <1>1, <1>2, <1>3, <1>4, <1>5, <1>6 DEF Delivers, ReplayRecord, ReplayFile

\* A new entry is the record of a writer that had not written it.
LEMMA AddedIs ==
  ASSUME TypeInv, LockInv, UniqueInv, NEW w \in Writers, NEW s \in Segments, NEW i,
         Adds(w, s, i)
  PROVE  /\ rec[w] \notin delivered /\ rec[w] \notin fresh /\ pc[w] # "idle"
         /\ \A t \in Segments : \A j \in DOMAIN disk[t].data : disk[t].data[j] # rec[w]
<1>1. pc[w] = "write"
  BY DEF Adds, WriteRecord
<1> QED
  BY <1>1 DEF UniqueInv, Pending

\* Records stay unique.
LEMMA UniqueNext == ASSUME TypeInv, LockInv, UniqueInv, [Next]_vars PROVE UniqueInv'
<1>0. fresh' \subseteq fresh
  BY FreshShrinks
<1>1. ASSUME NEW s \in Segments, NEW t \in Segments,
             NEW i \in DOMAIN disk'[s].data, NEW j \in DOMAIN disk'[t].data,
             disk'[s].data[i] = disk'[t].data[j], disk'[s].data[i] # Junk
      PROVE  s = t /\ i = j
  <2>1. CASE /\ i \in DOMAIN disk[s].data /\ disk'[s].data[i] = disk[s].data[i]
             /\ j \in DOMAIN disk[t].data /\ disk'[t].data[j] = disk[t].data[j]
    <3>1. disk[s].data[i] = disk[t].data[j] /\ disk[s].data[i] # Junk
      BY <1>1, <2>1
    <3> QED
      BY <2>1, <3>1 DEF UniqueInv
  <2>2. CASE \E w \in Writers : Adds(w, s, i)
    <3>1. PICK w \in Writers : Adds(w, s, i)
      BY <2>2
    <3>2. disk'[t].data[j] = rec[w]
      BY <1>1, <3>1 DEF Adds
    <3>3. \E v \in Writers : Adds(v, t, j)
      BY <1>1, <3>1, <3>2, AddedIs, Entries
    <3> QED
      BY <3>1, <3>3, OneAdds
  <2>3. CASE \E w \in Writers : Adds(w, t, j)
    <3>1. PICK w \in Writers : Adds(w, t, j)
      BY <2>3
    <3>2. disk'[s].data[i] = rec[w]
      BY <1>1, <3>1 DEF Adds
    <3>3. \E v \in Writers : Adds(v, s, i)
      BY <1>1, <3>1, <3>2, AddedIs, Entries
    <3> QED
      BY <3>1, <3>3, OneAdds
  <2> QED
    BY <1>1, <2>1, <2>2, <2>3, Entries
<1>2. ASSUME NEW s \in Segments, NEW i \in DOMAIN disk'[s].data
      PROVE  disk'[s].data[i] \notin fresh'
  <2>1. Junk \notin fresh
    BY WalAssumption DEF TypeInv, TypeOK
  <2>2. CASE disk'[s].data[i] = Junk
    BY <1>0, <2>1, <2>2
  <2>3. CASE i \in DOMAIN disk[s].data /\ disk'[s].data[i] = disk[s].data[i]
    BY <1>0, <2>3 DEF UniqueInv
  <2>4. CASE \E w \in Writers : Adds(w, s, i)
    <3>1. PICK w \in Writers : Adds(w, s, i)
      BY <2>4
    <3>2. disk'[s].data[i] = rec[w]
      BY <3>1 DEF Adds
    <3> QED
      BY <1>0, <3>1, <3>2, AddedIs
  <2> QED
    BY <2>2, <2>3, <2>4, Entries
<1>3. delivered' \cap fresh' = {}
  <2>1. CASE delivered' = delivered
    BY <1>0, <2>1 DEF UniqueInv
  <2>2. CASE Delivers
    BY <1>0, <2>2, DeliveredIs DEF UniqueInv
  <2> QED
    BY <2>1, <2>2, DeliveredGrows
<1>4. ASSUME NEW w \in Writers, pc'[w] # "idle" PROVE rec'[w] \notin fresh'
  <2>1. CASE pc[w] # "idle" /\ rec'[w] = rec[w]
    BY <1>0, <2>1 DEF UniqueInv
  <2>2. CASE \E r \in Records : Began(w, r)
    BY <2>2 DEF Began
  <2> QED
    BY <1>4, <2>1, <2>2, WriterMoves
<1>5. ASSUME NEW v \in Writers, NEW w \in Writers, pc'[v] # "idle", pc'[w] # "idle",
             rec'[v] = rec'[w]
      PROVE  v = w
  <2>1. CASE pc[v] # "idle" /\ rec'[v] = rec[v] /\ pc[w] # "idle" /\ rec'[w] = rec[w]
    BY <1>5, <2>1 DEF UniqueInv
  <2>2. ASSUME NEW x \in Writers, NEW y \in Writers, NEW r, Began(x, r), x # y, pc'[y] # "idle"
        PROVE  rec'[x] # rec'[y]
    BY <2>2 DEF Began, UniqueInv
  <2> QED
    BY <1>5, <2>1, <2>2, WriterMoves
<1>6. ASSUME NEW w \in Writers, Pending(w)'
      PROVE  /\ rec'[w] \notin delivered'
             /\ \A s \in Segments : \A i \in DOMAIN disk'[s].data : disk'[s].data[i] # rec'[w]
  <2>0. pc'[w] # "idle" /\ pc'[w] # "sync"
    BY <1>6 DEF Pending
  <2>1. CASE pc[w] # "idle" /\ rec'[w] = rec[w] /\ Pending(w)
    <3>1. rec[w] \notin delivered'
      <4>1. CASE delivered' = delivered
        BY <2>1, <4>1 DEF UniqueInv
      <4>2. CASE Delivers
        BY <2>1, <4>2, DeliveredIs DEF UniqueInv
      <4> QED
        BY <4>1, <4>2, DeliveredGrows
    <3>2. ASSUME NEW s \in Segments, NEW i \in DOMAIN disk'[s].data
          PROVE  disk'[s].data[i] # rec[w]
      <4>1. rec[w] # Junk
        BY <2>1, WalAssumption DEF TypeInv
      <4>2. CASE i \in DOMAIN disk[s].data /\ disk'[s].data[i] = disk[s].data[i]
        BY <2>1, <4>2 DEF UniqueInv
      <4>3. CASE \E v \in Writers : Adds(v, s, i)
        <5>1. PICK v \in Writers : Adds(v, s, i)
          BY <4>3
        <5>2. v # w /\ pc[v] # "idle" /\ disk'[s].data[i] = rec[v]
          BY <2>0, <5>1, AddedIs DEF Adds
        <5> QED
          BY <2>1, <5>2 DEF UniqueInv
      <4> QED
        BY <4>1, <4>2, <4>3, Entries
    <3> QED
      BY <2>1, <3>1, <3>2
  <2>2. CASE \E r \in Records : Began(w, r)
    BY <2>2 DEF Began, UniqueInv
  <2> QED
    BY <1>6, <2>0, <2>1, <2>2, WriterMoves
<1>7. ASSUME NEW s \in Segments, disk'[s].name = "log", NEW i \in DOMAIN disk'[s].data
      PROVE  disk'[s].data[i] \notin delivered'
  <2>0. Junk \notin delivered'
    <3>1. TypeInv'
      BY TypeNext
    <3> QED
      BY <3>1, WalAssumption DEF TypeInv, TypeOK
  <2>1. CASE disk'[s].data[i] = Junk
    BY <2>0, <2>1
  <2>2. CASE \E w \in Writers : Adds(w, s, i)
    <3>1. PICK w \in Writers : Adds(w, s, i)
      BY <2>2
    <3>2. disk'[s].data[i] = rec[w]
      BY <3>1 DEF Adds
    <3> QED
      BY <3>1, <3>2, AddedIs, AddsDelivers
  <2>3. CASE i \in DOMAIN disk[s].data /\ disk'[s].data[i] = disk[s].data[i]
             /\ disk[s].data[i] # Junk
    <3>1. disk[s].name = "log"
      <4>1. DOMAIN <<>> = {}
        OBVIOUS
      <4> QED
        BY <1>7, <4>1, OtherFiles, EmptyFiles
    <3>2. CASE delivered' = delivered
      BY <2>3, <3>1, <3>2 DEF UniqueInv
    <3>3. CASE Delivers
      <4>1. disk[s].data[i] # disk[Current].data[replay.pos]
        BY <2>3, <3>1, <3>3, DeliveredIs DEF UniqueInv
      <4> QED
        BY <2>3, <3>1, <3>3, <4>1, DeliveredIs DEF UniqueInv
    <3> QED
      BY <3>2, <3>3, DeliveredGrows
  <2> QED
    BY <2>1, <2>2, <2>3, Entries
<1> QED
  BY <1>1, <1>2, <1>3, <1>4, <1>5, <1>6, <1>7 DEF UniqueInv

\* Records are unique from the start.
LEMMA UniqueInvCorrect == Spec => []UniqueInv
<1>1. Init => UniqueInv
  <2> SUFFICES ASSUME Init PROVE UniqueInv
    OBVIOUS
  <2>1. \A s \in Segments : disk[s].data = <<>>
    BY EmptyFiles DEF Init
  <2>2. DOMAIN <<>> = {}
    OBVIOUS
  <2>3. delivered = {} /\ \A w \in Writers : pc[w] = "idle"
    BY Types DEF Init, Procs
  <2> QED
    BY <2>1, <2>2, <2>3 DEF UniqueInv, Pending
<1> QED
  BY <1>1, UniqueNext, TypeInvCorrect, LockInvCorrect, PTL DEF Spec
-----------------------------------------------------------------------------
\* Every record a replay could read in a file is delivered.
FullyDelivered(s) == \A i \in 1..ReadableCount(disk[s]) : disk[s].data[i] \in delivered

\* While a replay works through its segments, the older ones it has left are delivered.
OrderInv ==
  \A s \in Segments : \A t \in replay.segs :
    disk[s].name \in {"sealed", "done"} /\ s < t /\ s \notin replay.segs => FullyDelivered(s)

\* What can be read is whole.
LEMMA ReadableOf ==
  ASSUME NEW f \in FileType, NEW i \in 1..ReadableCount(f)
  PROVE  i \in WholeRecords(f) /\ i \in DOMAIN f.data /\ f.data[i] # Junk
<1>1. ReadableCount(f) \in 0..Len(f.data) /\ Len(f.data) \in Nat /\ DOMAIN f.data = 1..Len(f.data)
  BY ReadableIs, WholeIs
<1>2. i \in DOMAIN f.data /\ f.data[i] # Junk
  BY <1>1, ReadableIs, WalAssumption
<1> QED
  BY <1>2 DEF WholeRecords

\* Likewise of a file on disk.
LEMMA ReadableWhole ==
  ASSUME TypeInv, NEW s \in Segments, NEW i \in 1..ReadableCount(disk[s])
  PROVE  i \in WholeRecords(disk[s]) /\ i \in DOMAIN disk[s].data /\ disk[s].data[i] # Junk
<1>1. disk[s] \in FileType
  BY Types
<1> QED
  BY <1>1, ReadableOf

\* A file that is sealed or done after a step was so before, or was the active one, which
\* is the newest.
LEMMA SealedFrom ==
  ASSUME TypeInv, LockInv, [Next]_vars, NEW s \in Segments, disk'[s].name \in {"sealed", "done"}
  PROVE  \/ /\ disk[s].name \in {"sealed", "done"} /\ disk'[s].data = disk[s].data
            /\ ReadableCount(disk'[s]) = ReadableCount(disk[s])
         \/ /\ disk[s].name = "log"
            /\ \A t \in Segments : disk[t].name # "absent" => t <= s
<1>1. CASE disk[s].name # "log"
  BY <1>1, OtherFiles, EmptyFiles, CountOfData
<1>2. CASE disk[s].name = "log"
  BY <1>2, ProcTypes DEF LockInv, FileInv, NameInv
<1> QED
  BY <1>1, <1>2

\* The segments of a replay: the sealed ones at its start, fewer by each one done.
LEMMA SegsMove ==
  ASSUME TypeInv, [Next]_vars
  PROVE  ReplayStart \/ ReplayDone \/ replay'.segs = replay.segs \/ replay'.segs = {}
<1>0. /\ replay \in [segs : SUBSET Segments, pos : Nat, attempt : 0..(MaxReplayFailures - 1)]
      /\ Idle.segs = {}
  BY IdleType DEF TypeInv, TypeOK
<1>2. ASSUME NEW p, Step(p) PROVE replay' = replay
  BY <1>2 DEF Step, Load, Lock, SealFooter, Publish
<1>3. ASSUME NEW w \in Writers, WriteStep(w) \/ \E r \in Records : BeginWrite(w, r)
      PROVE  replay' = replay
  BY <1>2, <1>3 DEF WriteStep, BeginWrite, OpenNew, WriteRecord, Sync, Account
<1>4. CASE Cleanup \/ BeginClose
  BY <1>4 DEF Cleanup, BeginClose
<1>5. CASE ReplayRecord \/ ReplayFail
  <2>1. \/ replay' = [replay EXCEPT !.pos = replay.pos + 1]
        \/ replay' = [replay EXCEPT !.pos = 1, !.attempt = replay.attempt + 1]
        \/ replay' = Idle
    BY <1>5 DEF ReplayRecord, ReplayFail
  <2> QED
    BY <1>0, <2>1
<1>6. CASE Crash \/ Stopped \/ UNCHANGED vars
  BY <1>6 DEF Crash, Stopped, vars, mem
<1>7. CASE Restart
  BY <1>0, <1>7 DEF Restart
<1> QED
  BY <1>2, <1>3, <1>4, <1>5, <1>6, <1>7 DEF Next, Running, Replay

\* A segment that a replay finishes is delivered as far as it can be read.
LEMMA FullyDone ==
  ASSUME TypeInv, NEW s \in Segments,
         \A i \in WholeRecords(disk[s]) : disk[s].data[i] \in delivered
  PROVE  FullyDelivered(s)
BY ReadableWhole DEF FullyDelivered

\* The order of the replay is inductive.
LEMMA OrderNext ==
  ASSUME TypeInv, LockInv, FootInv, ReplayInv, DoneWasDelivered, UniqueInv, OrderInv,
         ReplayInOrder, [Next]_vars
  PROVE  OrderInv' /\ ReplayInOrder'
<1>0. /\ delivered \subseteq delivered' /\ \A s \in Segments : s \in Nat
      /\ replay.segs \subseteq Segments /\ replay'.segs \subseteq Segments
  <2>1. TypeInv'
    BY TypeNext
  <2>2. replay'.segs \subseteq Segments
    BY <2>1 DEF TypeInv, TypeOK
  <2> QED
    BY <2>2, DeliveredGrows, SegmentsFinite, Types
<1>1. OrderInv'
  <2> SUFFICES ASSUME NEW s \in Segments, NEW t \in replay'.segs,
                      disk'[s].name \in {"sealed", "done"}, s < t, s \notin replay'.segs
               PROVE  FullyDelivered(s)'
    BY DEF OrderInv
  <2>1. ASSUME disk[s].name \in {"sealed", "done"}, disk'[s].data = disk[s].data,
               ReadableCount(disk'[s]) = ReadableCount(disk[s]), FullyDelivered(s)
        PROVE  FullyDelivered(s)'
    BY <1>0, <2>1 DEF FullyDelivered
  <2>2. CASE ReplayStart
    <3>1. UNCHANGED disk /\ replay'.segs = Named("sealed")
      BY <2>2 DEF ReplayStart, Idle
    <3>2. disk[s].name = "done"
      BY <3>1 DEF Named
    <3>3. FullyDelivered(s)
      BY <3>2, FullyDone DEF DoneWasDelivered, Named
    <3> QED
      BY <2>1, <3>1, <3>2, <3>3
  <2>3. CASE ReplayDone
    <3>1. replay'.segs = replay.segs \ {Current} /\ t \in replay.segs
      BY <2>3, ReplayDoneIs
    <3>2. disk[t].name = "sealed" /\ t \in Segments
      BY <1>0, <3>1 DEF LockInv, NameInv
    <3>3. /\ disk[s].name \in {"sealed", "done"} /\ disk'[s].data = disk[s].data
          /\ ReadableCount(disk'[s]) = ReadableCount(disk[s])
      BY <1>0, <3>2, SealedFrom
    <3>4. CASE s \in replay.segs
      BY <2>1, <2>3, <3>1, <3>3, <3>4, WholeDelivered, FullyDone
    <3>5. CASE s \notin replay.segs
      BY <2>1, <3>1, <3>3, <3>5 DEF OrderInv
    <3> QED
      BY <3>4, <3>5
  <2>4. CASE replay'.segs = replay.segs
    <3>1. disk[t].name = "sealed" /\ t \in Segments
      BY <1>0, <2>4 DEF LockInv, NameInv
    <3>2. /\ disk[s].name \in {"sealed", "done"} /\ disk'[s].data = disk[s].data
          /\ ReadableCount(disk'[s]) = ReadableCount(disk[s])
      BY <1>0, <3>1, SealedFrom
    <3> QED
      BY <2>1, <2>4, <3>2 DEF OrderInv
  <2> QED
    BY <2>2, <2>3, <2>4, SegsMove
<1>2. ReplayInOrder'
  <2> SUFFICES ASSUME NEW s \in Segments, NEW t \in Segments,
                      disk'[s].name \in {"sealed", "done"}, disk'[t].name \in {"sealed", "done"},
                      NEW j \in 1..ReadableCount(disk'[t]), disk'[t].data[j] \in delivered',
                      NEW i \in 1..ReadableCount(disk'[s]),
                      s < t \/ (s = t /\ i < j)
               PROVE  disk'[s].data[i] \in delivered'
    BY DEF ReplayInOrder, Named
  <2>1. CASE delivered' = delivered
    <3>1. disk[t].name # "log"
      <4> SUFFICES ASSUME disk[t].name = "log" PROVE FALSE
        OBVIOUS
      <4>1. disk'[t] \in FileType
        BY DiskKept DEF DiskInv
      <4>2. j \in DOMAIN disk'[t].data /\ disk'[t].data[j] # Junk
        BY <4>1, ReadableOf
      <4>3. j \in DOMAIN disk[t].data /\ disk'[t].data[j] = disk[t].data[j]
        BY <4>2, Entries DEF Adds
      <4> QED
        BY <2>1, <4>3 DEF UniqueInv
    <3>2. /\ disk[t].name \in {"sealed", "done"} /\ disk'[t].data = disk[t].data
          /\ ReadableCount(disk'[t]) = ReadableCount(disk[t])
      BY <3>1, SealedFrom
    <3>3. /\ disk[s].name \in {"sealed", "done"} /\ disk'[s].data = disk[s].data
          /\ ReadableCount(disk'[s]) = ReadableCount(disk[s])
      BY <1>0, <3>2, SealedFrom
    <3> QED
      BY <2>1, <3>2, <3>3 DEF ReplayInOrder, Named
  <2>2. CASE Delivers
    <3>0. UNCHANGED disk /\ delivered' = delivered \cup {disk[Current].data[replay.pos]}
      BY <2>2, DeliveredIs
    <3>1. CASE disk[t].data[j] \in delivered
      BY <1>0, <3>0, <3>1 DEF ReplayInOrder, Named
    <3>2. CASE disk[t].data[j] = disk[Current].data[replay.pos]
      <4>1. t = Current /\ j = replay.pos
        <5>1. j \in DOMAIN disk[t].data /\ disk[t].data[j] # Junk
          BY <3>0, ReadableWhole
        <5> QED
          BY <2>2, <3>2, <5>1, DeliveredIs DEF UniqueInv
      <4>2. replay.segs # {}
        BY <2>2 DEF Delivers, ReplayRecord, AtRecord
      <4>3. CASE s = t
        <5>1. i \in 1..replay.pos - 1
          BY <1>0, <4>1, <4>3
        <5>2. /\ i <= ReadableCount(ReplayFile) /\ ReadableCount(ReplayFile) \in Nat
              /\ i \in Nat /\ disk[s] = ReplayFile
          BY <1>0, <3>0, <4>1, <4>3, <5>1, ReadableIs, WholeIs, Types DEF ReplayFile
        <5>3. ReplayFile.data[i] \in delivered
          BY <1>0, <4>2, <5>1, <5>2 DEF ReplayInv
        <5> QED
          BY <3>0, <5>2, <5>3
      <4>4. CASE s < t
        <5>1. s \notin replay.segs /\ Current \in replay.segs
          BY <1>0, <4>1, <4>2, <4>4, CurrentIs
        <5>2. FullyDelivered(s)
          BY <3>0, <4>1, <4>4, <5>1 DEF OrderInv
        <5> QED
          BY <1>0, <3>0, <5>2 DEF FullyDelivered
      <4> QED
        BY <4>3, <4>4
    <3> QED
      BY <3>0, <3>1, <3>2
  <2> QED
    BY <2>1, <2>2, DeliveredGrows
<1> QED
  BY <1>1, <1>2

\* The order of the replay holds from the start.
LEMMA OrderInvCorrect == Spec => [](OrderInv /\ ReplayInOrder)
<1>1. Init => OrderInv /\ ReplayInOrder
  BY EmptyFiles, IdleType DEF Init, OrderInv, ReplayInOrder, Named
<1>2. TypeInv /\ LockInv /\ FootInv /\ (ReplayInv /\ DoneWasDelivered) /\ UniqueInv
      /\ (OrderInv /\ ReplayInOrder) /\ [Next]_vars => (OrderInv /\ ReplayInOrder)'
  BY OrderNext
<1> QED
  BY <1>1, <1>2, TypeInvCorrect, LockInvCorrect, FootInvCorrect, ReplayInvCorrect,
     UniqueInvCorrect, PTL DEF Spec

\* A replay never overtakes, across attempts, cancellations, crashes and the segments sealed
\* while it runs: a record is delivered only after every readable record before it.
THEOREM DeliveredInOrder == Spec => []ReplayInOrder
  BY OrderInvCorrect, PTL
-----------------------------------------------------------------------------
\* The sizes of the records a set of writers carries.
Carried(S, r) ==
  SumFunction([w \in Writers |-> IF w \in S /\ r[w] \in Records THEN Size[r[w]] ELSE 0])

\* Carried sizes are a sum of numbers.
LEMMA CarriedIs ==
  ASSUME NEW S, NEW r
  PROVE  LET f == [w \in Writers |-> IF w \in S /\ r[w] \in Records THEN Size[r[w]] ELSE 0] IN
         /\ Carried(S, r) = SumFunctionOnSet(f, Writers) /\ IsFiniteSet(Writers)
         /\ \A w \in Writers : f[w] \in Nat
         /\ Carried(S, r) \in Nat
<1> DEFINE f == [w \in Writers |-> IF w \in S /\ r[w] \in Records THEN Size[r[w]] ELSE 0]
<1>1. Carried(S, r) = SumFunctionOnSet(f, Writers)
  BY DEF Carried, SumFunction
<1>2. IsFiniteSet(Writers) /\ \A w \in Writers : f[w] \in Nat
  BY WalAssumption
<1>3. SumFunctionOnSet(f, Writers) \in Nat
  <2> HIDE DEF f
  <2> QED
    BY <1>2, SumNat
<1> QED
  BY <1>1, <1>2, <1>3

\* More writers with the same records carry no less.
LEMMA CarriedMore ==
  ASSUME NEW S, NEW T, NEW q, NEW r, \A w \in Writers : w \in S => w \in T /\ q[w] = r[w]
  PROVE  Carried(S, q) <= Carried(T, r)
<1> DEFINE f == [w \in Writers |-> IF w \in S /\ q[w] \in Records THEN Size[q[w]] ELSE 0]
           g == [w \in Writers |-> IF w \in T /\ r[w] \in Records THEN Size[r[w]] ELSE 0]
<1>1. /\ Carried(S, q) = SumFunctionOnSet(f, Writers)
      /\ Carried(T, r) = SumFunctionOnSet(g, Writers)
      /\ IsFiniteSet(Writers)
  BY CarriedIs
<1>2. \A w \in Writers : f[w] \in Int /\ g[w] \in Int /\ f[w] <= g[w]
  BY WalAssumption
<1>3. SumFunctionOnSet(f, Writers) <= SumFunctionOnSet(g, Writers)
  <2> HIDE DEF f, g
  <2> QED
    BY <1>1, <1>2, SumMonotonic
<1> QED
  BY <1>1, <1>3

\* One more writer adds its record.
LEMMA CarriedAdd ==
  ASSUME NEW S, NEW r, NEW a \in Writers, a \notin S, r[a] \in Records
  PROVE  Carried(S \cup {a}, r) = Carried(S, r) + Size[r[a]] /\ Size[r[a]] \in Nat
<1> DEFINE f == [w \in Writers |-> IF w \in S /\ r[w] \in Records THEN Size[r[w]] ELSE 0]
           g == [w \in Writers |-> IF w \in S \cup {a} /\ r[w] \in Records THEN Size[r[w]] ELSE 0]
<1>1. /\ Carried(S, r) = SumFunctionOnSet(f, Writers) /\ Carried(S, r) \in Nat
      /\ Carried(S \cup {a}, r) = SumFunctionOnSet(g, Writers)
      /\ IsFiniteSet(Writers)
  BY CarriedIs
<1>2. /\ \A w \in Writers : f[w] \in Int /\ g[w] \in Int
      /\ \A w \in Writers : w # a => f[w] = g[w]
      /\ f[a] = 0 /\ g[a] = Size[r[a]] /\ Size[r[a]] \in Nat
  BY WalAssumption
<1>3. SumFunctionOnSet(g, Writers) = SumFunctionOnSet(f, Writers) - f[a] + g[a]
  <2> HIDE DEF f, g
  <2> QED
    BY <1>1, <1>2, SumChange
<1> HIDE DEF f, g
<1> QED
  BY <1>1, <1>2, <1>3
-----------------------------------------------------------------------------
\* Junk has no size, a record its own.
LEMMA WrittenAppend ==
  ASSUME NEW f \in FileType, NEW g \in FileType, NEW e \in Entry, g.data = Append(f.data, e)
  PROVE  Written(g) = Written(f) + (IF e = Junk THEN 0 ELSE Size[e])
<1> DEFINE n == Len(f.data) + 1
           F == [i \in WholeRecords(f) |-> Size[f.data[i]]]
           H == [i \in WholeRecords(g) |-> Size[g.data[i]]]
<1>1. /\ f.data \in Seq(Entry) /\ Len(f.data) \in Nat /\ DOMAIN f.data = 1..Len(f.data)
      /\ IsFiniteSet(WholeRecords(f)) /\ IsFiniteSet(WholeRecords(g))
      /\ \A i \in WholeRecords(f) : f.data[i] \in Records
      /\ \A i \in WholeRecords(g) : g.data[i] \in Records
  BY WholeIs DEF FileType
<1>2. /\ DOMAIN g.data = 1..n /\ g.data[n] = e
      /\ \A i \in 1..Len(f.data) : g.data[i] = f.data[i]
  BY <1>1, WholeIs
<1>3. Written(f) = SumFunctionOnSet(F, WholeRecords(f))
      /\ Written(g) = SumFunctionOnSet(H, WholeRecords(g))
  BY DEF Written, SumFunction
<1>4. /\ \A i \in WholeRecords(f) : F[i] = H[i] /\ i \in WholeRecords(g)
      /\ \A i \in WholeRecords(g) : H[i] \in Int
  <2>1. \A i \in WholeRecords(f) : i \in 1..n /\ g.data[i] = f.data[i] /\ f.data[i] # Junk
    BY <1>1, <1>2 DEF WholeRecords
  <2>2. \A i \in WholeRecords(f) : i \in WholeRecords(g)
    BY <1>2, <2>1 DEF WholeRecords
  <2>3. \A x \in Records : Size[x] \in Int
    BY WalAssumption
  <2> QED
    BY <1>1, <2>1, <2>2, <2>3
<1>5. Written(f) \in Nat
  BY WrittenType
<1>6. CASE e = Junk
  <2>1. WholeRecords(g) = WholeRecords(f)
    BY <1>1, <1>2, <1>6 DEF WholeRecords
  <2>2. SumFunctionOnSet(F, WholeRecords(f)) = SumFunctionOnSet(H, WholeRecords(f))
    <3> HIDE DEF F, H
    <3> QED
      BY <1>1, <1>4, SumEqual
  <2> HIDE DEF F, H
  <2> QED
    BY <1>3, <1>5, <1>6, <2>1, <2>2
<1>7. CASE e # Junk
  <2>1. n \in WholeRecords(g) /\ WholeRecords(g) \ {n} = WholeRecords(f) /\ H[n] = Size[e]
    BY <1>1, <1>2, <1>7 DEF WholeRecords
  <2>2. SumFunctionOnSet(F, WholeRecords(f)) = SumFunctionOnSet(H, WholeRecords(f))
    <3> HIDE DEF F, H
    <3> QED
      BY <1>1, <1>4, SumEqual
  <2>3. SumFunctionOnSet(H, WholeRecords(g)) = H[n] + SumFunctionOnSet(H, WholeRecords(g) \ {n})
    <3> HIDE DEF F, H, n
    <3> QED
      BY <1>1, <1>4, <2>1, SumRemove
  <2>4. Size[e] \in Nat
    BY <1>7, WalAssumption DEF Entry
  <2> HIDE DEF F, H, n
  <2>5. SumFunctionOnSet(H, WholeRecords(g) \ {n}) = SumFunctionOnSet(F, WholeRecords(f))
    BY <2>1, <2>2, Zenon
  <2>6. Written(g) = Size[e] + Written(f)
    BY <1>3, <2>1, <2>3, <2>5, Zenon
  <2> QED
    BY <1>5, <1>7, <2>4, <2>6
<1> QED
  BY <1>6, <1>7

\* A file without data or footer has no size.
LEMMA EmptySize ==
  ASSUME NEW f, f.data = <<>>, f.footer = -1
  PROVE  FileSize(f) = 0
<1>1. WholeRecords(f) = {}
  BY DEF WholeRecords
<1>2. Written(f) = 0
  BY <1>1, SumEmpty DEF Written, SumFunction
<1> QED
  BY <1>2 DEF FileSize

\* What does not shrink a file, and where it grows.
LEMMA SizeOf ==
  ASSUME NEW f \in FileType, NEW g \in FileType
  PROVE  /\ FileSize(f) \in Nat
         /\ g.data = f.data /\ g.footer = f.footer => FileSize(g) = FileSize(f)
         /\ g.data = f.data /\ g.footer >= 0 => FileSize(f) <= FileSize(g)
         /\ g.data = Append(f.data, Junk) /\ g.footer = f.footer => FileSize(g) = FileSize(f)
         /\ \A e \in Records : g.data = Append(f.data, e) /\ g.footer = f.footer =>
              FileSize(g) = FileSize(f) + Size[e]
<1>0. Written(f) \in Nat /\ FileSize(f) \in Nat /\ FooterSize \in Nat /\ Junk \notin Records
      /\ f.footer \in Int /\ g.footer \in Int
  BY WrittenType, WalAssumption DEF FileType
<1>1. g.data = f.data => Written(g) = Written(f)
  BY CountOfData
<1>2. g.data = Append(f.data, Junk) => Written(g) = Written(f)
  <2>1. Junk \in Entry
    BY DEF Entry
  <2> QED
    BY <1>0, <2>1, WrittenAppend
<1>3. \A e \in Records : g.data = Append(f.data, e) => Written(g) = Written(f) + Size[e]
                                                       /\ Size[e] \in Nat
  <2>1. \A e \in Records : e \in Entry /\ e # Junk /\ Size[e] \in Nat
    BY WalAssumption DEF Entry
  <2> QED
    BY <2>1, WrittenAppend
<1> QED
  BY <1>0, <1>1, <1>2, <1>3 DEF FileSize

\* Totals, file by file.
LEMMA TotalMore ==
  ASSUME NEW d \in [Segments -> FileType], NEW h \in [Segments -> FileType],
         \A s \in Segments : FileSize(d[s]) <= FileSize(h[s])
  PROVE  TotalSize(d, Segments) <= TotalSize(h, Segments)
<1> DEFINE f == [s \in Segments |-> FileSize(d[s])]
           g == [s \in Segments |-> FileSize(h[s])]
<1>1. /\ TotalSize(d, Segments) = SumFunctionOnSet(f, Segments)
      /\ TotalSize(h, Segments) = SumFunctionOnSet(g, Segments)
      /\ IsFiniteSet(Segments)
  BY TotalIs, SegmentsFinite
<1>2. \A s \in Segments : f[s] \in Int /\ g[s] \in Int /\ f[s] <= g[s]
  BY WrittenType
<1> HIDE DEF f, g
<1> QED
  BY <1>1, <1>2, SumMonotonic

\* One file changes.
LEMMA TotalChange ==
  ASSUME NEW d \in [Segments -> FileType], NEW h \in [Segments -> FileType], NEW s \in Segments,
         \A t \in Segments \ {s} : d[t] = h[t]
  PROVE  TotalSize(h, Segments) = TotalSize(d, Segments) - FileSize(d[s]) + FileSize(h[s])
<1> DEFINE f == [t \in Segments |-> FileSize(d[t])]
           g == [t \in Segments |-> FileSize(h[t])]
<1>1. /\ TotalSize(d, Segments) = SumFunctionOnSet(f, Segments)
      /\ TotalSize(h, Segments) = SumFunctionOnSet(g, Segments)
      /\ IsFiniteSet(Segments)
  BY TotalIs, SegmentsFinite
<1>2. /\ \A t \in Segments : f[t] \in Int /\ g[t] \in Int
      /\ \A t \in Segments : t # s => f[t] = g[t]
      /\ f[s] = FileSize(d[s]) /\ g[s] = FileSize(h[s])
  BY WrittenType
<1> HIDE DEF f, g
<1>3. SumFunctionOnSet(g, Segments) = SumFunctionOnSet(f, Segments) - f[s] + g[s]
  BY <1>1, <1>2, SumChange
<1> QED
  BY <1>1, <1>2, <1>3

\* The files outside a set are as they are, those inside have no size.
LEMMA TotalWithout ==
  ASSUME NEW d \in [Segments -> FileType], NEW h \in [Segments -> FileType],
         NEW S \in SUBSET Segments,
         \A t \in Segments \ S : d[t] = h[t], \A t \in S : FileSize(h[t]) = 0
  PROVE  TotalSize(d, Segments) = TotalSize(d, S) + TotalSize(h, Segments)
<1> DEFINE f == [t \in Segments |-> FileSize(d[t])]
           g == [t \in Segments |-> FileSize(h[t])]
<1>1. /\ TotalSize(d, Segments) = SumFunctionOnSet(f, Segments)
      /\ TotalSize(d, S) = SumFunctionOnSet(f, S)
      /\ TotalSize(h, Segments) = SumFunctionOnSet(g, Segments)
      /\ IsFiniteSet(Segments)
  BY TotalIs, SegmentsFinite
<1>2. /\ \A t \in Segments : f[t] \in Int /\ g[t] \in Int
      /\ \A t \in Segments \ S : f[t] = g[t]
      /\ \A t \in S : g[t] = 0
  BY WrittenType
<1> HIDE DEF f, g
<1>3. IsFiniteSet(S) /\ IsFiniteSet(Segments \ S)
  BY <1>1, FS_Subset
<1>4. /\ SumFunctionOnSet(f, Segments) = SumFunctionOnSet(f, S) + SumFunctionOnSet(f, Segments \ S)
      /\ SumFunctionOnSet(g, Segments) = SumFunctionOnSet(g, S) + SumFunctionOnSet(g, Segments \ S)
  BY <1>1, <1>2, SumSplit
<1>5. SumFunctionOnSet(f, Segments \ S) = SumFunctionOnSet(g, Segments \ S)
      /\ SumFunctionOnSet(g, S) = 0
  BY <1>2, <1>3, SumEqual, SumZero
<1>6. SumFunctionOnSet(g, Segments \ S) \in Int
  BY <1>2, <1>3, SumType
<1> QED
  BY <1>1, <1>4, <1>5, <1>6
-----------------------------------------------------------------------------
\* Writers between their write and their accounting.
InSync == {w \in Writers : pc[w] \in {"sync", "account"}}

\* The counter and what is still to be counted are in the files.
BytesInv == up => bytes + Carried(InSync, rec) <= TotalSize(disk, Segments)

\* Nobody carries nothing.
LEMMA CarriedNone == ASSUME NEW r PROVE Carried({}, r) = 0
<1> DEFINE f == [w \in Writers |-> IF w \in {} /\ r[w] \in Records THEN Size[r[w]] ELSE 0]
<1>1. Carried({}, r) = SumFunctionOnSet(f, Writers) /\ IsFiniteSet(Writers)
  BY CarriedIs
<1>2. \A w \in Writers : f[w] = 0
  OBVIOUS
<1> HIDE DEF f
<1> QED
  BY <1>1, <1>2, SumZero

\* Only a restart brings the process up.
LEMMA UpWas == ASSUME TypeInv, [Next]_vars, up' = TRUE PROVE up = TRUE \/ Restart
<1>0. up \in BOOLEAN
  BY DEF TypeInv, TypeOK
<1>1. CASE Running
  BY <1>1 DEF Running, Alive
<1>2. CASE UNCHANGED vars
  BY <1>0, <1>2 DEF vars
<1>3. CASE Crash
  BY <1>3 DEF Crash
<1>4. CASE up /\ Stopped
  BY <1>4
<1> QED
  BY <1>1, <1>2, <1>3, <1>4 DEF Next

\* Who changes the counter.
LEMMA BytesMove ==
  ASSUME [Next]_vars
  PROVE  bytes' = bytes \/ (\E w \in Writers : Account(w)) \/ Cleanup \/ Restart
<1>1. ASSUME NEW p, Step(p) PROVE bytes' = bytes
  BY <1>1 DEF Step, Load, Lock, SealFooter, Publish
<1>2. ASSUME NEW w \in Writers, WriteStep(w) \/ \E r \in Records : BeginWrite(w, r)
      PROVE  bytes' = bytes \/ Account(w)
  BY <1>1, <1>2 DEF WriteStep, BeginWrite, OpenNew, WriteRecord, Sync
<1>3. CASE Replay \/ BeginClose
  BY <1>3 DEF Replay, ReplayStart, ReplayRecord, ReplayFail, ReplayDone, BeginClose
<1>4. CASE Crash \/ Stopped \/ UNCHANGED vars
  BY <1>4 DEF Crash, Stopped, vars, mem
<1> QED
  BY <1>1, <1>2, <1>3, <1>4 DEF Next, Running

\* Where a writer between its write and its accounting comes from.
LEMMA SyncFrom ==
  ASSUME TypeInv, [Next]_vars, NEW w \in Writers, pc'[w] \in {"sync", "account"}
  PROVE  \/ pc[w] \in {"sync", "account"} /\ rec'[w] = rec[w]
         \/ WriteRecord(w) /\ pc'[w] = "sync"
<1>0. w \in Procs /\ w # Closer
  BY Types
<1>1. CASE UNCHANGED <<pc, seg, rec>>
  BY <1>1
<1>2. CASE Restart
  BY <1>0, <1>2 DEF Restart
<1>3. CASE Own(w)
  <2>1. CASE \E r \in Records : BeginWrite(w, r)
    BY <1>0, <2>1, ProcTypes DEF BeginWrite, Goto
  <2>2. CASE Step(w)
    BY <1>0, <2>2, ProcTypes DEF Step, Load, Lock, SealFooter, Publish, Goto, Abort, End
  <2>3. CASE OpenNew(w)
    BY <1>0, <2>3, ProcTypes DEF OpenNew, Goto, Abort, End
  <2>4. CASE WriteRecord(w)
    BY <1>0, <2>4, ProcTypes DEF WriteRecord, Goto, Abort, End
  <2>5. CASE Sync(w) \/ Account(w)
    BY <1>0, <2>5, ProcTypes DEF Sync, Account, Goto
  <2> QED
    BY <1>0, <1>3, <2>1, <2>2, <2>3, <2>4, <2>5 DEF Own
<1>4. CASE pc'[w] = pc[w] /\ rec'[w] = rec[w]
  BY <1>4
<1> QED
  BY <1>0, <1>1, <1>2, <1>3, <1>4, OneMoves

\* No file gets smaller but by a crash, a restart or the cleanup.
LEMMA SizesGrow ==
  ASSUME TypeInv, LockInv, FootInv, [Next]_vars, ~Crash, ~Restart, ~Cleanup, NEW s \in Segments
  PROVE  FileSize(disk[s]) <= FileSize(disk'[s])
<1>1. disk[s] \in FileType /\ disk'[s] \in FileType
  BY DiskKept, Types DEF DiskInv
<1>2. FileSize(disk[s]) \in Nat /\ FileSize(disk'[s]) \in Nat
  BY <1>1, SizeOf
<1>3. CASE disk[s].name # "log"
  <2>1. CASE disk'[s] = disk[s]
    BY <1>2, <2>1
  <2>2. CASE disk'[s].data = disk[s].data /\ disk'[s].footer = disk[s].footer
    BY <1>1, <1>2, <2>2, SizeOf
  <2>3. CASE disk[s].name = "absent"
    BY <1>2, <2>3, EmptySize DEF FootInv
  <2> QED
    BY <1>3, <2>1, <2>2, <2>3, OtherFiles
<1>4. CASE disk[s].name = "log"
  <2>1. CASE disk'[s].data = disk[s].data /\ disk'[s].footer = disk[s].footer
    BY <1>1, <1>2, <2>1, SizeOf
  <2>2. CASE Sealed(s)
    <3>1. disk'[s].data = disk[s].data /\ disk'[s].footer >= 0
      BY <1>1, <2>2, WholeIs DEF Sealed, Kept
    <3> QED
      BY <1>1, <3>1, SizeOf
  <2>3. CASE Torn(s)
    <3>1. FileSize(disk'[s]) = FileSize(disk[s])
      BY <1>1, <2>3, SizeOf DEF Torn
    <3> QED
      BY <1>2, <3>1
  <2>4. CASE Written1(s)
    <3>1. PICK w \in Writers :
            /\ WriteRecord(w) /\ disk'[s].data = Append(disk[s].data, rec[w])
            /\ disk'[s].footer = disk[s].footer
      BY <2>4 DEF Written1
    <3>2. rec[w] \in Records
      BY <3>1 DEF WriteRecord, TypeInv
    <3>3. FileSize(disk'[s]) = FileSize(disk[s]) + Size[rec[w]]
      BY <1>1, <3>1, <3>2, SizeOf
    <3>4. Size[rec[w]] \in Nat
      BY <3>2, WalAssumption
    <3> QED
      BY <1>2, <3>3, <3>4
  <2>5. CASE disk'[s] = disk[s]
    BY <1>2, <2>5
  <2> QED
    BY <1>4, <2>1, <2>2, <2>3, <2>4, <2>5, LogFiles
    DEF Synced, Published, Cut, Recovered, Kept
<1> QED
  BY <1>3, <1>4

\* The counter stays within the files.
LEMMA BytesNext == ASSUME TypeInv, LockInv, FootInv, BytesInv, [Next]_vars PROVE BytesInv'
<1> SUFFICES ASSUME up' = TRUE
             PROVE  bytes' + Carried(InSync', rec') <= TotalSize(disk', Segments)
  BY DEF BytesInv, Carried
<1>0. /\ disk \in [Segments -> FileType] /\ disk' \in [Segments -> FileType]
      /\ bytes \in Int /\ Carried(InSync, rec) \in Nat /\ Carried(InSync', rec') \in Nat
      /\ TotalSize(disk, Segments) \in Nat /\ TotalSize(disk', Segments) \in Nat
  <2>1. disk \in [Segments -> FileType] /\ disk' \in [Segments -> FileType]
    BY DiskKept, Types DEF DiskInv
  <2>2. TotalSize(disk, Segments) \in Nat /\ TotalSize(disk', Segments) \in Nat
    BY <2>1, TotalIs
  <2>3. bytes \in Int
    BY DEF TypeInv, TypeOK
  <2> QED
    BY <2>1, <2>2, <2>3, CarriedIs
<1>1. CASE Restart
  <2>1. PICK new \in Segments, d \in [Segments -> FileType] :
           /\ disk[new].name = "absent"
           /\ bytes' = TotalSize(d, Segments) /\ d[new] = disk[new]
           /\ \A s \in Segments \ {new} : d[s] = disk'[s]
    BY <1>1, RestartIs
  <2>2. \A s \in Segments : FileSize(d[s]) <= FileSize(disk'[s])
    <3>1. FileSize(d[new]) = 0
      BY <2>1, EmptySize DEF FootInv
    <3>2. \A s \in Segments : FileSize(d[s]) \in Nat /\ FileSize(disk'[s]) \in Nat
      BY <1>0, WrittenType
    <3> QED
      BY <2>1, <3>1, <3>2
  <2>3. TotalSize(d, Segments) <= TotalSize(disk', Segments) /\ TotalSize(d, Segments) \in Nat
    BY <1>0, <2>2, TotalMore, TotalIs
  <2>4. InSync' = {}
    BY <1>1, Types DEF Restart, InSync
  <2>5. Carried(InSync', rec') = 0
    BY <2>4, CarriedNone
  <2> QED
    BY <1>0, <2>1, <2>3, <2>5
<1>2. CASE ~Restart
  <2>0. up = TRUE /\ ~Crash
    <3>1. up = TRUE
      BY <1>2, UpWas
    <3>2. Crash => up' = FALSE
      BY DEF Crash
    <3> QED
      BY <3>1, <3>2
  <2>1. bytes + Carried(InSync, rec) <= TotalSize(disk, Segments)
    BY <2>0 DEF BytesInv
  <2>2. CASE \E w \in Writers : Account(w)
    <3>1. PICK w \in Writers : Account(w)
      BY <2>2
    <3>2. /\ pc[w] = "account" /\ bytes' = bytes + Size[rec[w]] /\ UNCHANGED <<disk, rec>>
          /\ pc' = [pc EXCEPT ![w] = "idle"] /\ rec[w] \in Records
      BY <3>1 DEF Account, Goto, TypeInv
    <3>3. InSync = InSync' \cup {w} /\ w \notin InSync'
      BY <3>2, ProcTypes DEF InSync
    <3>4. Carried(InSync, rec) = Carried(InSync', rec) + Size[rec[w]] /\ Size[rec[w]] \in Nat
      BY <3>2, <3>3, CarriedAdd
    <3>5. Carried(InSync', rec') = Carried(InSync', rec)
      BY <3>2
    <3> QED
      BY <1>0, <2>1, <3>2, <3>4, <3>5
  <2>3. CASE Cleanup
    <3>1. PICK S \in SUBSET Named("done") :
             /\ \A s \in S : disk'[s] = Removed
             /\ \A s \in Segments \ S : disk'[s] = disk[s]
             /\ bytes' = bytes - TotalSize(disk, S)
      BY <2>3, CleanupIs
    <3>2. S \in SUBSET Segments
      BY DEF Named
    <3>3. \A s \in S : FileSize(disk'[s]) = 0
      BY <3>1, EmptySize, EmptyFiles
    <3>4. TotalSize(disk, Segments) = TotalSize(disk, S) + TotalSize(disk', Segments)
          /\ TotalSize(disk, S) \in Nat
      BY <1>0, <3>1, <3>2, <3>3, TotalWithout, TotalIs
    <3>5. Carried(InSync', rec') = Carried(InSync, rec)
      BY <2>3 DEF Cleanup, InSync
    <3> QED
      BY <1>0, <2>1, <3>1, <3>4, <3>5
  <2>4. CASE \E w \in Writers : WriteRecord(w) /\ pc'[w] = "sync"
    <3>1. PICK w \in Writers : WriteRecord(w) /\ pc'[w] = "sync"
      BY <2>4
    <3>2. /\ seg[w] \in opened /\ Goto(w, "sync") /\ bytes' = bytes /\ rec' = rec
          /\ Changed(seg[w], disk[seg[w]].name, Append(disk[seg[w]].data, rec[w]),
                     disk[seg[w]].synced, disk[seg[w]].footer)
      <4>1. ~Abort(w)
        BY <3>1, ProcTypes DEF Abort, End, Goto
      <4> QED
        BY <3>1, <4>1, WriteRecordIs DEF WriteRecord
    <3>3. PICK s \in Segments : s = seg[w]
      BY <3>2, Types
    <3>4. pc[w] = "write" /\ rec[w] \in Records
      BY <3>1 DEF WriteRecord, TypeInv
    <3>5. InSync' = InSync \cup {w} /\ w \notin InSync
      BY <3>2, <3>4, ProcTypes DEF InSync, Goto
    <3>6. Carried(InSync', rec') = Carried(InSync, rec) + Size[rec[w]] /\ Size[rec[w]] \in Nat
      BY <3>2, <3>4, <3>5, CarriedAdd
    <3>7. /\ FileSize(disk'[s]) = FileSize(disk[s]) + Size[rec[w]] /\ FileSize(disk[s]) \in Nat
          /\ \A t \in Segments \ {s} : disk[t] = disk'[t]
      BY <1>0, <3>2, <3>3, <3>4, SizeOf DEF Changed
    <3>8. TotalSize(disk', Segments)
            = TotalSize(disk, Segments) - FileSize(disk[s]) + FileSize(disk'[s])
      BY <1>0, <3>7, TotalChange
    <3> QED
      BY <1>0, <2>1, <3>2, <3>6, <3>7, <3>8
  <2>5. CASE /\ ~\E w \in Writers : Account(w)
             /\ ~Cleanup
             /\ ~\E w \in Writers : WriteRecord(w) /\ pc'[w] = "sync"
    <3>1. bytes' = bytes
      BY <1>2, <2>5, BytesMove
    <3>2. \A w \in Writers : w \in InSync' => w \in InSync /\ rec'[w] = rec[w]
      BY <2>5, SyncFrom DEF InSync
    <3>3. Carried(InSync', rec') <= Carried(InSync, rec)
      BY <3>2, CarriedMore
    <3>4. TotalSize(disk, Segments) <= TotalSize(disk', Segments)
      <4>1. \A s \in Segments : FileSize(disk[s]) <= FileSize(disk'[s])
        BY <1>2, <2>0, <2>5, SizesGrow
      <4> QED
        BY <1>0, <4>1, TotalMore
    <3> QED
      BY <1>0, <2>1, <3>1, <3>3, <3>4
  <2> QED
    BY <2>2, <2>3, <2>4, <2>5
<1> QED
  BY <1>1, <1>2

\* The counter is within the files from the start.
LEMMA BytesInvCorrect == Spec => []BytesInv
<1>1. Init => BytesInv
  <2> SUFFICES ASSUME Init PROVE bytes + Carried(InSync, rec) <= TotalSize(disk, Segments)
    BY DEF BytesInv
  <2>1. InSync = {} /\ bytes = 0
    BY Types DEF Init, InSync, Procs
  <2>2. disk \in [Segments -> FileType]
    BY EmptyFiles DEF Init
  <2>3. TotalSize(disk, Segments) \in Nat
    BY <2>2, TotalIs
  <2>4. Carried(InSync, rec) = 0
    BY <2>1, CarriedNone
  <2> QED
    BY <2>1, <2>3, <2>4
<1> QED
  BY <1>1, BytesNext, TypeInvCorrect, LockInvCorrect, FootInvCorrect, PTL DEF Spec

\* Bytes() never exceeds what the files hold once the writers are through: no failed call,
\* deletion, crash or restart leaves bytes in the counter that would refuse writes for good.
THEOREM BytesBounded == Spec => []BytesNotAbove
<1>1. TypeInv /\ FootInv /\ BytesInv => BytesNotAbove
  <2> SUFFICES ASSUME TypeInv, FootInv, BytesInv, up
               PROVE  bytes <= TotalSize(disk, {s \in Segments : disk[s].name \notin
                                                                {"absent", "removed"}})
    BY DEF BytesNotAbove
  <2> DEFINE P == {s \in Segments : disk[s].name \notin {"absent", "removed"}}
             f == [s \in Segments |-> FileSize(disk[s])]
  <2>1. /\ disk \in [Segments -> FileType] /\ P \in SUBSET Segments
        /\ IsFiniteSet(Segments) /\ IsFiniteSet(Segments \ P)
    BY Types, SegmentsFinite, FS_Subset
  <2>2. /\ TotalSize(disk, Segments) = SumFunctionOnSet(f, Segments)
        /\ TotalSize(disk, P) = SumFunctionOnSet(f, P) /\ TotalSize(disk, P) \in Nat
    <3> HIDE DEF P
    <3> QED
      BY <2>1, TotalIs
  <2>3. \A s \in Segments \ P : f[s] = 0
    BY EmptySize DEF FootInv
  <2>4. \A s \in Segments : f[s] \in Int
    BY <2>1, WrittenType
  <2>5. bytes + Carried(InSync, rec) <= TotalSize(disk, Segments) /\ bytes \in Int
    BY DEF BytesInv, TypeInv, TypeOK
  <2> HIDE DEF P, f
  <2>6. SumFunctionOnSet(f, Segments) = SumFunctionOnSet(f, P) + SumFunctionOnSet(f, Segments \ P)
    BY <2>1, <2>4, SumSplit
  <2>7. SumFunctionOnSet(f, Segments \ P) = 0
    BY <2>1, <2>3, SumZero
  <2>8. Carried(InSync, rec) \in Nat
    BY CarriedIs
  <2>9. TotalSize(disk, Segments) = TotalSize(disk, P)
    BY <2>2, <2>6, <2>7
  <2>10. bytes <= TotalSize(disk, P)
    BY <2>2, <2>5, <2>8, <2>9
  <2> QED
    BY <2>10 DEF P
<1> QED
  BY <1>1, TypeInvCorrect, FootInvCorrect, BytesInvCorrect, PTL
-----------------------------------------------------------------------------
\* Writers outside Write.
Outside == {w \in Writers : pc[w] = "idle"}

\* While a writer is inside, the counter is below the bound and the last records of those
\* outside: each of them may have been let in with it.
OvershootInv ==
  (\E w \in Writers : pc[w] # "idle") => bytes < MaxBytes + Carried(Outside, rec)

\* What a writer wrote last is what it carries.
LEMMA LastWrittenIs == ASSUME TypeInv PROVE LastWritten = Carried(Writers, rec)
<1>1. \A w \in Writers : rec[w] = None <=> rec[w] \notin Records
  BY Types DEF TypeInv, TypeOK
<1>2. [w \in Writers |-> IF rec[w] = None THEN 0 ELSE Size[rec[w]]]
      = [w \in Writers |-> IF w \in Writers /\ rec[w] \in Records THEN Size[rec[w]] ELSE 0]
  BY <1>1
<1> QED
  BY <1>2 DEF LastWritten, Carried

\* An accounting, in the sums.
LEMMA AccountIs ==
  ASSUME TypeInv, NEW w \in Writers, Account(w)
  PROVE  /\ bytes' = bytes + Size[rec[w]] /\ Size[rec[w]] \in Nat /\ pc[w] # "idle"
         /\ Carried(Outside', rec') = Carried(Outside, rec) + Size[rec[w]]
<1>1. /\ pc[w] = "account" /\ bytes' = bytes + Size[rec[w]] /\ rec' = rec
      /\ pc' = [pc EXCEPT ![w] = "idle"] /\ rec[w] \in Records
  BY DEF Account, Goto, TypeInv
<1>2. Outside' = Outside \cup {w} /\ w \notin Outside
  BY <1>1, ProcTypes DEF Outside
<1> QED
  BY <1>1, <1>2, CarriedAdd

\* The overshoot is inductive.
LEMMA OvershootNext == ASSUME TypeInv, OvershootInv, [Next]_vars PROVE OvershootInv'
<1> SUFFICES ASSUME NEW w \in Writers, pc'[w] # "idle"
             PROVE  bytes' < MaxBytes + Carried(Outside', rec')
  BY DEF OvershootInv, Carried
<1>0. /\ bytes \in Int /\ MaxBytes \in Nat
      /\ Carried(Outside, rec) \in Nat /\ Carried(Outside', rec') \in Nat
  BY CarriedIs, WalAssumption DEF TypeInv, TypeOK
<1>1. CASE \E r \in Records : BeginWrite(w, r)
  BY <1>0, <1>1 DEF BeginWrite
<1>2. CASE \E v \in Writers : Account(v)
  <2>1. PICK v \in Writers : Account(v)
    BY <1>2
  <2>2. bytes < MaxBytes + Carried(Outside, rec)
    BY <2>1, AccountIs DEF OvershootInv
  <2> QED
    BY <1>0, <2>1, <2>2, AccountIs
<1>3. CASE Cleanup
  <2>1. PICK S \in SUBSET Named("done") : bytes' = bytes - TotalSize(disk, S)
    BY <1>3, CleanupIs
  <2>2. TotalSize(disk, S) \in Nat
    BY TotalIs, Types DEF Named
  <2>3. pc' = pc /\ Carried(Outside', rec') = Carried(Outside, rec)
    BY <1>3 DEF Cleanup, Outside
  <2>4. bytes < MaxBytes + Carried(Outside, rec)
    BY <2>3 DEF OvershootInv
  <2> QED
    BY <1>0, <2>1, <2>2, <2>3, <2>4
<1>4. CASE ~Restart /\ bytes' = bytes /\ ~\E v \in Writers, r \in Records : BeginWrite(v, r)
  <2>1. \A v \in Writers : v \in Outside => v \in Outside' /\ rec[v] = rec'[v]
    <3> SUFFICES ASSUME NEW v \in Writers, pc[v] = "idle"
                 PROVE  pc'[v] = "idle" /\ rec'[v] = rec[v]
      BY DEF Outside
    <3>1. v \in Procs /\ v # Closer
      BY Types
    <3>2. ~Own(v)
      BY <1>4, <3>1 DEF Own, Step, Load, Lock, SealFooter, Publish, OpenNew, WriteRecord, Sync,
                        Account
    <3> QED
      BY <1>4, <3>1, <3>2, OneMoves
  <2>2. Carried(Outside, rec) <= Carried(Outside', rec')
    BY <2>1, CarriedMore
  <2>3. pc[w] # "idle"
    BY <2>1 DEF Outside
  <2>4. bytes < MaxBytes + Carried(Outside, rec)
    BY <2>3 DEF OvershootInv
  <2> QED
    BY <1>0, <1>4, <2>2, <2>4
<1>5. CASE \E v \in Writers, r \in Records : v # w /\ BeginWrite(v, r)
  BY <1>0, <1>5 DEF BeginWrite
<1>6. ~Restart
  BY Types DEF Restart
<1> QED
  BY <1>1, <1>2, <1>3, <1>4, <1>5, <1>6, BytesMove

\* The overshoot holds from the start.
LEMMA OvershootInvCorrect == Spec => []OvershootInv
<1>1. Init => OvershootInv
  BY Types DEF Init, OvershootInv, Procs
<1> QED
  BY <1>1, OvershootNext, TypeInvCorrect, PTL DEF Spec

\* However many writers pass the capacity check together, the counter passes MaxBytes by less
\* than the records they wrote last.
THEOREM Overshoot == Spec => BoundedOvershoot
<1>1. ASSUME TypeInv, OvershootInv, [Next]_vars, up, bytes' > bytes, up'
      PROVE  bytes' < MaxBytes + LastWritten
  <2>0. /\ bytes \in Int /\ MaxBytes \in Nat /\ Carried(Outside, rec) \in Nat
        /\ Carried(Writers, rec) \in Nat
    BY <1>1, CarriedIs, WalAssumption DEF TypeInv, TypeOK
  <2>1. ~Restart
    BY <1>1 DEF Restart
  <2>2. ~Cleanup
    <3> SUFFICES ASSUME Cleanup PROVE FALSE
      OBVIOUS
    <3>1. PICK S \in SUBSET Named("done") : bytes' = bytes - TotalSize(disk, S)
      BY <1>1, CleanupIs
    <3>2. TotalSize(disk, S) \in Nat
      BY <1>1, TotalIs, Types DEF Named
    <3> QED
      BY <1>1, <2>0, <3>1, <3>2
  <2>3. PICK w \in Writers : Account(w)
    BY <1>1, <2>0, <2>1, <2>2, BytesMove
  <2>4. bytes < MaxBytes + Carried(Outside, rec)
    BY <1>1, <2>3, AccountIs DEF OvershootInv
  <2>5. Carried(Outside \cup {w}, rec) = Carried(Outside, rec) + Size[rec[w]]
    <3>1. w \notin Outside /\ rec[w] \in Records
      BY <1>1, <2>3 DEF Account, Outside, TypeInv
    <3> QED
      BY <3>1, CarriedAdd
  <2>6. Carried(Outside \cup {w}, rec) <= Carried(Writers, rec)
    BY CarriedMore
  <2>7. bytes' = bytes + Size[rec[w]] /\ Size[rec[w]] \in Nat
    BY <1>1, <2>3, AccountIs
  <2>8. bytes' < MaxBytes + Carried(Writers, rec)
    BY <2>0, <2>4, <2>5, <2>6, <2>7
  <2> QED
    BY <1>1, <2>8, LastWrittenIs
<1>2. TypeInv /\ OvershootInv /\ [Next]_vars =>
        [up /\ bytes' > bytes /\ up' => bytes' < MaxBytes + LastWritten]_vars
  BY <1>1
<1> QED
  BY <1>2, TypeInvCorrect, OvershootInvCorrect, PTL DEF Spec, BoundedOvershoot
-----------------------------------------------------------------------------
\* A record is durable once fsynced, until a replay has delivered it.
Durable(r) ==
  \/ r \in delivered
  \/ \E s \in Segments : /\ disk[s].name \in {"log", "sealed"}
                         /\ \E i \in 1..disk[s].synced : disk[s].data[i] = r

\* Failing calls that leave every file whole records to its end.
FramingWhole == Faults \cap {"write", "footer", "recover"} = {}

\* What is acknowledged is durable; what is not fsynced is not acknowledged.
DurableInv ==
  /\ \A s \in Segments : \A i \in DOMAIN disk[s].data : disk[s].data[i] # Junk
  /\ \A r \in acked : Durable(r)
  /\ \A w \in Writers : pc[w] = "account" => Durable(rec[w])
  /\ up = TRUE => \A w \in Writers : pc[w] = "sync" =>
       \E i \in DOMAIN disk[seg[w]].data : disk[seg[w]].data[i] = rec[w]
  /\ \A s \in Segments : disk[s].name = "log" =>
       \A i \in DOMAIN disk[s].data : i > disk[s].synced =>
         /\ disk[s].data[i] \notin acked
         /\ \A w \in Writers : pc[w] = "account" => disk[s].data[i] # rec[w]
  /\ \A s \in Segments : disk[s].name \in {"sealed", "done"} =>
       disk[s].synced = Len(disk[s].data)
  /\ acked \cap fresh = {}
  /\ \A w \in Writers : pc[w] # "idle" => rec[w] \notin acked

\* Only an accounting acknowledges.
LEMMA AckedMove ==
  ASSUME [Next]_vars
  PROVE  \/ acked' = acked
         \/ \E w \in Writers : Account(w) /\ acked' = acked \cup {rec[w]}
<1>1. ASSUME NEW p, Step(p) PROVE acked' = acked
  BY <1>1 DEF Step, Load, Lock, SealFooter, Publish, history
<1>2. ASSUME NEW w \in Writers, WriteStep(w) \/ \E r \in Records : BeginWrite(w, r)
      PROVE  acked' = acked \/ (Account(w) /\ acked' = acked \cup {rec[w]})
  <2>1. CASE Account(w)
    BY <2>1 DEF Account
  <2>2. CASE OpenNew(w) \/ WriteRecord(w) \/ Sync(w) \/ \E r \in Records : BeginWrite(w, r)
    BY <2>2 DEF BeginWrite, OpenNew, WriteRecord, Sync, history
  <2> QED
    BY <1>1, <1>2, <2>1, <2>2 DEF WriteStep
<1>3. CASE ReplayRecord
  BY <1>3 DEF ReplayRecord
<1>4. CASE ReplayStart \/ ReplayFail \/ ReplayDone
  BY <1>4 DEF ReplayStart, ReplayFail, ReplayDone, history
<1>5. CASE Cleanup \/ BeginClose
  BY <1>5 DEF Cleanup, BeginClose, history
<1>6. CASE Crash \/ Stopped \/ UNCHANGED vars
  BY <1>6 DEF Crash, Stopped, vars, history
<1>7. CASE Restart
  BY <1>7 DEF Restart, history
<1>8. CASE Running
  BY <1>1, <1>2, <1>3, <1>4, <1>5, <1>8 DEF Running, Replay
<1> QED
  BY <1>6, <1>7, <1>8 DEF Next

\* Without junk every record of a file can be read.
LEMMA AllReadable ==
  ASSUME NEW f \in FileType, \A i \in DOMAIN f.data : f.data[i] # Junk
  PROVE  ReadableCount(f) = Len(f.data) /\ WholeRecords(f) = 1..Len(f.data)
<1>1. ReadableCount(f) \in 0..Len(f.data) /\ Len(f.data) \in Nat /\ DOMAIN f.data = 1..Len(f.data)
  BY ReadableIs, WholeIs
<1>2. ReadableCount(f) < Len(f.data) => f.data[ReadableCount(f) + 1] = Junk
  BY ReadableIs
<1>3. WholeRecords(f) = 1..Len(f.data)
  BY <1>1 DEF WholeRecords
<1> QED
  BY <1>1, <1>2, <1>3

\* What is durable stays durable.
LEMMA DurableStays ==
  ASSUME FramingWhole, TypeInv, LockInv, FootInv, ReplayInv, DurableInv, [Next]_vars,
         NEW r \in Records, Durable(r)
  PROVE  Durable(r)'
<1>0. delivered \subseteq delivered'
  BY DeliveredGrows
<1>1. CASE r \in delivered
  BY <1>0, <1>1 DEF Durable
<1>2. CASE \E s \in Segments : /\ disk[s].name \in {"log", "sealed"}
                               /\ \E i \in 1..disk[s].synced : disk[s].data[i] = r
  <2>1. PICK s \in Segments, i \in Nat :
          /\ disk[s].name \in {"log", "sealed"}
          /\ i \in 1..disk[s].synced /\ disk[s].data[i] = r
    <3>1. \A s \in Segments : disk[s].synced \in Nat
      BY Types DEF FileType
    <3> QED
      BY <1>2, <3>1
  <2>2. /\ disk[s] \in FileType /\ disk[s].synced \in Nat /\ Len(disk[s].data) \in Nat
        /\ disk[s].synced <= Len(disk[s].data) /\ DOMAIN disk[s].data = 1..Len(disk[s].data)
        /\ disk[s].data \in Seq(Entry)
    BY Types, WholeIs DEF FileType, TypeInv
  <2>3. i \in 1..Len(disk[s].data) /\ i <= disk[s].synced /\ i >= 1
    BY <2>1, <2>2
  <2>4. ASSUME disk'[s].name \in {"log", "sealed"}, i <= disk'[s].synced, disk'[s].synced \in Nat,
               disk'[s].data[i] = r
        PROVE  Durable(r)'
    <3>1. i \in 1..disk'[s].synced
      BY <2>3, <2>4
    <3> QED
      BY <2>4, <3>1 DEF Durable
  <2>5. CASE disk'[s] = disk[s]
    BY <2>1, <2>2, <2>3, <2>4, <2>5
  <2>6. CASE disk[s].name = "sealed"
    <3>1. CASE ReplayDone /\ s = Current
      <4>1. i \in WholeRecords(disk[s])
        BY <2>2, <2>3 DEF DurableInv, WholeRecords
      <4>2. r \in delivered
        BY <2>1, <3>1, <4>1, WholeDelivered
      <4> QED
        BY <1>0, <4>2 DEF Durable
    <3> QED
      BY <2>5, <2>6, <3>1, OtherFiles
  <2>7. CASE disk[s].name = "log"
    <3>1. CASE Sealed(s) \/ Synced(s)
      BY <2>1, <2>2, <2>3, <2>4, <3>1 DEF Sealed, Synced, Kept
    <3>2. CASE Written1(s)
      <4>1. PICK e : disk'[s].data = Append(disk[s].data, e) /\ disk'[s].name = "log"
                     /\ disk'[s].synced = disk[s].synced
        BY <3>2 DEF Written1
      <4>2. disk'[s].data[i] = disk[s].data[i]
        BY <2>2, <2>3, <4>1
      <4> QED
        BY <2>1, <2>2, <2>3, <2>4, <4>1, <4>2
    <3>3. CASE Published(s)
      BY <2>1, <2>2, <2>3, <2>4, <3>3 DEF Published
    <3>4. CASE Cut(s)
      <4>1. i \in 1..Len(disk'[s].data)
        BY <2>2, <2>3, <3>4 DEF Cut
      <4> QED
        BY <2>1, <2>2, <2>3, <2>4, <3>4, <4>1 DEF Cut
    <3>5. CASE Recovered(s)
      <4>1. Scanned(disk[s], disk'[s])
        BY <3>5 DEF Recovered, FramingWhole
      <4>2. ReadableCount(disk[s]) = Len(disk[s].data)
        BY <2>2, AllReadable DEF DurableInv
      <4> QED
        BY <2>1, <2>2, <2>3, <2>4, <2>7, <4>1, <4>2, RecoverIs, WholeIs
    <3>6. ~Torn(s)
      BY DEF Torn, FramingWhole
    <3> QED
      BY <2>5, <2>7, <3>1, <3>2, <3>3, <3>4, <3>5, <3>6, LogFiles
  <2> QED
    BY <2>1, <2>6, <2>7
<1> QED
  BY <1>1, <1>2 DEF Durable

\* Durability is inductive.
LEMMA DurableNext ==
  ASSUME FramingWhole, TypeInv, LockInv, FootInv, ReplayInv, UniqueInv, DurableInv, [Next]_vars
  PROVE  DurableInv'
<1>0. /\ Faults \cap {"write", "footer"} = {} /\ fresh' \subseteq fresh
      /\ TypeInv' /\ LockInv' /\ acked \in SUBSET Records
  BY FreshShrinks, TypeNext, LockNext DEF FramingWhole, TypeInv, TypeOK
<1>1. ASSUME NEW s \in Segments, NEW i \in DOMAIN disk'[s].data
      PROVE  disk'[s].data[i] # Junk
  <2>1. ASSUME NEW w \in Writers, Adds(w, s, i) PROVE disk'[s].data[i] # Junk
    BY <2>1, WalAssumption DEF Adds, WriteRecord, TypeInv
  <2> QED
    BY <1>0, <2>1, Entries DEF DurableInv
<1>2. ASSUME NEW r \in acked' PROVE Durable(r)'
  <2>1. CASE r \in acked
    BY <1>0, <2>1, DurableStays DEF DurableInv
  <2>2. ASSUME NEW w \in Writers, Account(w), r = rec[w] PROVE Durable(r)'
    BY <2>2, DurableStays DEF DurableInv, Account, TypeInv
  <2> QED
    BY <2>1, <2>2, AckedMove
<1>3. ASSUME NEW w \in Writers, pc'[w] = "sync", up' = TRUE
      PROVE  \E i \in DOMAIN disk'[seg'[w]].data : disk'[seg'[w]].data[i] = rec'[w]
  <2>1. CASE WriteRecord(w)
    <3>1. /\ seg[w] \in Segments /\ seg'[w] = seg[w] /\ rec'[w] = rec[w]
          /\ disk'[seg[w]].data = Append(disk[seg[w]].data, rec[w])
      <4>1. ~Abort(w)
        BY <1>3, ProcTypes DEF Abort, End, Goto
      <4> QED
        BY <2>1, <4>1, WriteRecordIs, Types DEF Changed, WriteRecord
    <3>2. disk[seg[w]].data \in Seq(Entry) /\ rec[w] \in Entry
      BY <2>1, <3>1, Types DEF FileType, WriteRecord, TypeInv, Entry
    <3> DEFINE n == Len(disk[seg[w]].data) + 1
    <3>3. n \in DOMAIN Append(disk[seg[w]].data, rec[w])
          /\ Append(disk[seg[w]].data, rec[w])[n] = rec[w]
      BY <3>2
    <3> QED
      BY <3>1, <3>3
  <2>2. CASE pc[w] = "sync" /\ seg'[w] = seg[w] /\ rec'[w] = rec[w]
    <3>1. PICK s \in Segments : s = seg[w] /\ s \in opened /\ disk[s].name = "log"
      BY <2>2, HeldIsActive, Types
    <3>2. up = TRUE /\ ~Restart
      <4>1. ~Restart
        BY <1>3, Types DEF Restart
      <4> QED
        BY <1>3, <4>1, UpWas
    <3>3. PICK i \in DOMAIN disk[s].data : disk[s].data[i] = rec[w]
      BY <2>2, <3>1, <3>2 DEF DurableInv
    <3>4. CASE disk'[s].data = disk[s].data
      BY <2>2, <3>1, <3>3, <3>4
    <3>5. CASE Written1(s)
      <4>1. PICK e : disk'[s].data = Append(disk[s].data, e)
        BY <3>5 DEF Written1
      <4>2. disk[s].data \in Seq(Entry)
        BY Types DEF FileType
      <4>3. i \in DOMAIN disk'[s].data /\ disk'[s].data[i] = disk[s].data[i]
        BY <3>3, <4>1, <4>2
      <4> QED
        BY <2>2, <3>1, <3>3, <4>3
    <3>6. ~Cut(s)
      BY <1>3 DEF Cut, Crash
    <3>7. ~Torn(s)
      BY <1>0 DEF Torn
    <3> QED
      BY <3>1, <3>2, <3>4, <3>5, <3>6, <3>7, LogFiles
      DEF Sealed, Synced, Published, Recovered, Kept
  <2>3. w \in Procs /\ w # Closer
    BY Types
  <2>4. Own(w) => WriteRecord(w)
    BY <1>3, <2>3, ProcTypes
    DEF Own, Step, Load, Lock, SealFooter, Publish, OpenNew, Sync, Account, BeginWrite,
        Abort, End, Goto
  <2>5. ~Restart
    BY <1>3, <2>3 DEF Restart
  <2> QED
    BY <1>3, <2>1, <2>2, <2>3, <2>4, <2>5, OneMoves
<1>4. ASSUME NEW w \in Writers, pc'[w] = "account"
      PROVE  \/ pc[w] = "account" /\ rec'[w] = rec[w]
             \/ /\ pc[w] = "sync" /\ Sync(w) /\ rec'[w] = rec[w]
                /\ seg[w] \in Segments /\ disk'[seg[w]].name = disk[seg[w]].name
                /\ disk'[seg[w]].data = disk[seg[w]].data
                /\ disk'[seg[w]].synced = Len(disk[seg[w]].data)
  <2>1. CASE Sync(w)
    <3>1. w \in Procs /\ pc[w] = "sync" /\ rec'[w] = rec[w] /\ seg[w] \in Segments
      BY <2>1, HeldIsActive, Types DEF Sync
    <3>2. ~Goto(w, "idle")
      BY <1>4, <3>1, ProcTypes DEF Goto
    <3> QED
      BY <2>1, <3>1, <3>2, SyncIs DEF Changed
  <2>2. w \in Procs /\ w # Closer
    BY Types
  <2>3. Own(w) => Sync(w)
    BY <1>4, <2>2, ProcTypes
    DEF Own, Step, Load, Lock, SealFooter, Publish, OpenNew, WriteRecord, Account, BeginWrite,
        Abort, End, Goto
  <2>4. ~Restart
    BY <1>4, <2>2 DEF Restart
  <2> QED
    BY <1>4, <2>1, <2>2, <2>3, <2>4, OneMoves
<1>5. ASSUME NEW w \in Writers, NEW r \in Records, pc'[w] = "account", r = rec'[w]
      PROVE  Durable(r)'
  <2>1. CASE pc[w] = "account" /\ rec'[w] = rec[w]
    <3>1. rec[w] \in Records /\ Durable(rec[w])
      BY <1>5, <2>1 DEF DurableInv
    <3> QED
      BY <1>5, <2>1, <3>1, DurableStays
  <2>2. CASE /\ pc[w] = "sync" /\ Sync(w) /\ rec'[w] = rec[w]
             /\ seg[w] \in Segments /\ disk'[seg[w]].name = disk[seg[w]].name
             /\ disk'[seg[w]].data = disk[seg[w]].data
             /\ disk'[seg[w]].synced = Len(disk[seg[w]].data)
    <3>1. PICK s \in Segments : s = seg[w]
      BY <2>2
    <3>2. disk[s].name = "log"
      BY <2>2, <3>1, HeldIsActive, Types
    <3>3. up = TRUE
      <4>1. ~Restart
        BY <1>5, Types DEF Restart
      <4>2. Sync(w) => pc' # pc
        BY <1>5, <2>2 DEF Sync
      <4>3. ~Crash /\ ~UNCHANGED vars
        BY <2>2, <4>2 DEF Crash, mem, vars
      <4> QED
        BY <4>1, <4>3 DEF Next, Running, Alive
    <3>4. PICK i \in DOMAIN disk[s].data : disk[s].data[i] = rec[w]
      BY <2>2, <3>1, <3>3 DEF DurableInv
    <3>5. i \in 1..disk'[s].synced
      <4>1. DOMAIN disk[s].data = 1..Len(disk[s].data)
        BY Types, WholeIs
      <4> QED
        BY <2>2, <3>1, <3>4, <4>1
    <3> QED
      BY <1>5, <2>2, <3>1, <3>2, <3>4, <3>5 DEF Durable
  <2> QED
    BY <1>4, <1>5, <2>1, <2>2
<1>6. ASSUME NEW s \in Segments, disk'[s].name = "log", NEW i \in DOMAIN disk'[s].data,
             i > disk'[s].synced
      PROVE  /\ disk'[s].data[i] \notin acked'
             /\ \A w \in Writers : pc'[w] = "account" => disk'[s].data[i] # rec'[w]
  <2>1. CASE \E v \in Writers : Adds(v, s, i)
    <3>1. PICK v \in Writers : Adds(v, s, i)
      BY <2>1
    <3>2. disk'[s].data[i] = rec[v] /\ pc[v] = "write" /\ pc'[v] = "sync" /\ acked' = acked
      BY <3>1 DEF Adds, WriteRecord, history
    <3>3. rec[v] \notin acked
      BY <3>2 DEF DurableInv
    <3>4. ASSUME NEW w \in Writers, pc'[w] = "account" PROVE rec[v] # rec'[w]
      <4>1. w # v /\ pc[w] # "idle" /\ rec'[w] = rec[w]
        BY <1>4, <3>2, <3>4
      <4> QED
        BY <3>2, <4>1 DEF UniqueInv
    <3> QED
      BY <3>2, <3>3, <3>4
  <2>2. CASE i \in DOMAIN disk[s].data /\ disk'[s].data[i] = disk[s].data[i]
    <3>1. disk[s].name = "log"
      <4>1. DOMAIN <<>> = {}
        OBVIOUS
      <4> QED
        BY <1>6, <2>2, <4>1, OtherFiles, EmptyFiles
    <3>2. /\ disk[s].synced \in Nat /\ DOMAIN disk[s].data = 1..Len(disk[s].data)
          /\ disk[s].synced <= Len(disk[s].data) /\ Len(disk[s].data) \in Nat
      BY Types, WholeIs DEF FileType, TypeInv
    <3>3. i > disk[s].synced /\ disk'[s].synced # Len(disk[s].data)
      <4>1. disk'[s].synced = disk[s].synced \/ disk'[s].synced = Len(disk[s].data)
        <5>1. disk'[s] = disk[s] \/ disk'[s].synced = disk[s].synced
              \/ disk'[s].synced = Len(disk[s].data) \/ Recovered(s)
          BY <3>1, LogFiles DEF Sealed, Torn, Written1, Synced, Published, Cut
        <5>2. ~Recovered(s)
          <6>1. disk[s] \in FileType
            BY Types
          <6> QED
            BY <1>6, <3>1, <6>1, RecoverCount, EmptyFiles DEF Recovered
        <5> QED
          BY <5>1, <5>2
      <4>2. i \in 1..Len(disk[s].data)
        BY <2>2, <3>2
      <4> QED
        BY <1>6, <3>2, <4>1, <4>2
    <3>4. /\ disk[s].data[i] \notin acked
          /\ \A w \in Writers : pc[w] = "account" => disk[s].data[i] # rec[w]
      BY <2>2, <3>1, <3>3 DEF DurableInv
    <3>5. disk[s].data[i] \notin acked'
      BY <3>4, AckedMove DEF Account
    <3>6. ASSUME NEW w \in Writers, pc'[w] = "account" PROVE disk[s].data[i] # rec'[w]
      <4>1. CASE pc[w] = "account" /\ rec'[w] = rec[w]
        BY <3>4, <4>1
      <4>2. CASE pc[w] = "sync" /\ disk'[seg[w]].synced = Len(disk[seg[w]].data)
        <5>1. seg[w] = s
          BY <3>1, <4>2, Types DEF LockInv, FileInv
        <5> QED
          BY <3>3, <4>2, <5>1
      <4> QED
        BY <1>4, <3>6, <4>1, <4>2
    <3> QED
      BY <2>2, <3>5, <3>6
  <2> QED
    BY <1>0, <2>1, <2>2, Entries
<1>7. ASSUME NEW s \in Segments, disk'[s].name \in {"sealed", "done"}
      PROVE  disk'[s].synced = Len(disk'[s].data)
  <2>1. CASE disk[s].name # "log"
    BY <1>7, <2>1, OtherFiles, EmptyFiles DEF DurableInv
  <2>2. CASE Published(s)
    <3>1. PICK p \in Procs : pc[p] = "publish" /\ seg[p] = s /\ disk'[s].data = disk[s].data
                             /\ disk'[s].synced = disk[s].synced
      BY <2>2 DEF Published, Publish
    <3> QED
      BY <3>1 DEF FootInv
  <2>3. CASE disk[s].name = "log" /\ Recovered(s)
    <3>1. disk[s] \in FileType
      BY Types
    <3>2. Scanned(disk[s], disk'[s]) /\ disk'[s].name # "removed"
      BY <1>7, <2>3, EmptyFiles DEF Recovered
    <3>3. ReadableCount(disk[s]) \in 0..Len(disk[s].data) /\ Len(disk[s].data) \in Nat
      BY <3>1, ReadableIs, WholeIs
    <3> QED
      BY <2>3, <3>1, <3>2, <3>3, RecoverIs, EmptyFiles
  <2> QED
    BY <1>7, <2>1, <2>2, <2>3, LogFiles DEF Sealed, Torn, Written1, Synced, Cut, Kept
<1>8. acked' \cap fresh' = {}
  <2>1. \A w \in Writers : Account(w) => rec[w] \notin fresh
    BY DEF Account, UniqueInv
  <2> QED
    BY <1>0, <2>1, AckedMove DEF DurableInv
<1>9. ASSUME NEW w \in Writers, pc'[w] # "idle" PROVE rec'[w] \notin acked'
  <2>1. CASE pc[w] # "idle" /\ rec'[w] = rec[w]
    <3>1. ASSUME NEW v \in Writers, Account(v) PROVE rec[v] # rec[w]
      <4>1. v # w /\ pc[v] # "idle"
        BY <1>9, <3>1, ProcTypes DEF Account, Goto
      <4> QED
        BY <2>1, <4>1 DEF UniqueInv
    <3> QED
      BY <2>1, <3>1, AckedMove DEF DurableInv
  <2>2. CASE \E r \in Records : Began(w, r)
    BY <2>2 DEF Began, DurableInv
  <2> QED
    BY <1>9, <2>1, <2>2, WriterMoves
<1>10. (\A w \in Writers : pc[w] = "account" => Durable(rec[w]))'
  <2>1. ASSUME NEW w \in Writers, pc'[w] = "account" PROVE rec'[w] \in Records
    BY <1>0, <2>1 DEF TypeInv
  <2> QED
    BY <1>5, <2>1 DEF Durable
<1>11. (\A r \in acked : Durable(r))'
  BY <1>2
<1>12. (\A s \in Segments : \A i \in DOMAIN disk[s].data : disk[s].data[i] # Junk)'
  BY <1>1
<1>13. (up = TRUE => \A w \in Writers : pc[w] = "sync" =>
         \E i \in DOMAIN disk[seg[w]].data : disk[seg[w]].data[i] = rec[w])'
  BY <1>3
<1>14. (\A s \in Segments : disk[s].name = "log" =>
         \A i \in DOMAIN disk[s].data : i > disk[s].synced =>
           /\ disk[s].data[i] \notin acked
           /\ \A w \in Writers : pc[w] = "account" => disk[s].data[i] # rec[w])'
  BY <1>6
<1> QED
  BY <1>7, <1>8, <1>9, <1>10, <1>11, <1>12, <1>13, <1>14 DEF DurableInv

\* Durability holds from the start.
LEMMA DurableInvCorrect == ASSUME FramingWhole PROVE Spec => []DurableInv
<1>1. Init => DurableInv
  <2> SUFFICES ASSUME Init PROVE DurableInv
    OBVIOUS
  <2>1. \A s \in Segments : disk[s].data = <<>> /\ disk[s].synced = 0
    BY EmptyFiles DEF Init
  <2>2. DOMAIN <<>> = {} /\ Len(<<>>) = 0
    OBVIOUS
  <2>3. acked = {} /\ \A w \in Writers : pc[w] = "idle"
    BY Types DEF Init, Procs
  <2> QED
    BY <2>1, <2>2, <2>3 DEF DurableInv
<1>2. TypeInv /\ LockInv /\ FootInv /\ (ReplayInv /\ DoneWasDelivered) /\ UniqueInv
      /\ DurableInv /\ [Next]_vars => DurableInv'
  BY DurableNext
<1> QED
  BY <1>1, <1>2, TypeInvCorrect, LockInvCorrect, FootInvCorrect, ReplayInvCorrect,
     UniqueInvCorrect, PTL DEF Spec

\* What is durable and not delivered can be read by the next replay.
LEMMA DurableReachable ==
  ASSUME TypeInv, DurableInv, NEW r, Durable(r)
  PROVE  r \in delivered \/ Reachable(r)
<1>1. CASE r \in delivered
  BY <1>1
<1>2. CASE \E s \in Segments : /\ disk[s].name \in {"log", "sealed"}
                               /\ \E i \in 1..disk[s].synced : disk[s].data[i] = r
  <2>0. PICK s \in Segments : /\ disk[s].name \in {"log", "sealed"}
                             /\ \E i \in 1..disk[s].synced : disk[s].data[i] = r
    BY <1>2
  <2>1. PICK i \in 1..disk[s].synced : disk[s].data[i] = r
    BY <2>0
  <2>2. /\ disk[s] \in FileType /\ disk[s].synced \in Nat /\ Len(disk[s].data) \in Nat
        /\ disk[s].synced <= Len(disk[s].data)
    BY Types, WholeIs DEF FileType, TypeInv
  <2>3. ReadableCount(disk[s]) = Len(disk[s].data)
    BY <2>2, AllReadable DEF DurableInv
  <2>4. i \in 1..ReadableCount(disk[s])
    BY <2>1, <2>2, <2>3
  <2> QED
    BY <2>0, <2>1, <2>4 DEF Reachable, Readable, Named
<1> QED
  BY <1>1, <1>2 DEF Durable

\* As long as no failing call leaves junk in a file or fails its recovery, no acknowledged
\* record is lost: whatever crashes, races and fails in fsync, rename, open and handler.
THEOREM NothingAckedLost == ASSUME FramingWhole PROVE Spec => []AckedDurable
<1>1. TypeInv /\ DurableInv => AckedDurable
  BY DurableReachable DEF AckedDurable, DurableInv
<1> QED
  BY <1>1, TypeInvCorrect, DurableInvCorrect, PTL
-----------------------------------------------------------------------------
\* A file without junk can be read to its end.
LEMMA ReadableIsAll ==
  ASSUME NEW f \in FileType, \A i \in DOMAIN f.data : f.data[i] # Junk
  PROVE  Readable(f) = {f.data[i] : i \in DOMAIN f.data}
<1>1. ReadableCount(f) = Len(f.data) /\ DOMAIN f.data = 1..Len(f.data)
  BY AllReadable, WholeIs
<1> QED
  BY <1>1 DEF Readable

\* What the log would still replay: what its unsealed and sealed files hold.
LEMMA ReachableIs ==
  ASSUME TypeInv, DurableInv, NEW r
  PROVE  Reachable(r) <=> \E s \in Segments : /\ disk[s].name \in {"log", "sealed"}
                                              /\ \E i \in DOMAIN disk[s].data : disk[s].data[i] = r
<1>1. \A s \in Segments : Readable(disk[s]) = {disk[s].data[i] : i \in DOMAIN disk[s].data}
  BY ReadableIsAll, Types DEF DurableInv
<1> QED
  BY <1>1 DEF Reachable, Named

\* Likewise after a step.
LEMMA ReachableNextIs ==
  ASSUME TypeInv', DurableInv', NEW r
  PROVE  Reachable(r)' <=> \E s \in Segments :
                             /\ disk'[s].name \in {"log", "sealed"}
                             /\ \E i \in DOMAIN disk'[s].data : disk'[s].data[i] = r
<1>1. \A s \in Segments : Readable(disk'[s]) = {disk'[s].data[i] : i \in DOMAIN disk'[s].data}
  <2>1. \A s \in Segments : disk'[s] \in FileType
    BY DEF TypeInv, TypeOK, FileType
  <2> QED
    BY <2>1, ReadableIsAll DEF DurableInv
<1> QED
  BY <1>1 DEF Reachable, Named

\* No step makes an acknowledged record reachable that was not.
LEMMA NothingComesBack ==
  ASSUME FramingWhole, TypeInv, LockInv, DurableInv, TypeInv', DurableInv', [Next]_vars,
         NEW r \in acked, Reachable(r)'
  PROVE  Reachable(r)
<1>1. PICK s \in Segments : /\ disk'[s].name \in {"log", "sealed"}
                            /\ \E i \in DOMAIN disk'[s].data : disk'[s].data[i] = r
  BY ReachableNextIs
<1>2. PICK i \in DOMAIN disk'[s].data : disk'[s].data[i] = r
  BY <1>1
<1>3. i \in DOMAIN disk[s].data /\ disk[s].data[i] = r
  <2>1. r # Junk
    BY WalAssumption DEF TypeInv, TypeOK
  <2>2. ASSUME NEW w \in Writers, Adds(w, s, i) PROVE FALSE
    <3>1. pc[w] = "write" /\ rec[w] = r
      BY <1>2, <2>2 DEF Adds, WriteRecord
    <3> QED
      BY <3>1 DEF DurableInv
  <2> QED
    BY <1>2, <2>1, <2>2, Entries
<1>4. disk[s].name \in {"log", "sealed"}
  <2>1. CASE disk[s].name # "log"
    <3>1. disk[s].name = "absent" => DOMAIN disk'[s].data = {}
      BY <1>1, <1>3, <2>1, OtherFiles, EmptyFiles DEF LockInv
    <3>2. disk[s].name # "absent" =>
            disk'[s].name = disk[s].name \/ disk'[s].name \in {"done", "removed"}
      BY <2>1, OtherFiles, EmptyFiles
    <3> QED
      BY <1>1, <1>2, <2>1, <3>1, <3>2
  <2> QED
    BY <2>1
<1> QED
  BY <1>3, <1>4, ReachableIs

\* One step of the log is one step of the abstract log, or none.
LEMMA LogStep ==
  ASSUME FramingWhole, TypeInv, LockInv, DurableInv, TypeInv', DurableInv', AckedDurable',
         [Next]_vars
  PROVE  [Log!Next]_(Log!vars)
<1> DEFINE S == {r \in acked : Reachable(r)}
<1>0. acked \in SUBSET Records /\ \A r : Durable(r) => r \in delivered \/ Reachable(r)
  BY DurableReachable DEF TypeInv, TypeOK
<1>1. ASSUME NEW w \in Writers, Account(w) PROVE Log!Next
  <2>1. PICK r : r = rec[w]
    OBVIOUS
  <2>2. /\ acked' = acked \cup {r} /\ UNCHANGED <<disk, delivered>> /\ pc[w] = "account"
    BY <1>1, <2>1 DEF Account
  <2>3. r \in Records /\ r \notin acked /\ Durable(r)
    BY <2>1, <2>2 DEF DurableInv, TypeInv
  <2>4. \A x : Reachable(x)' <=> Reachable(x)
    BY <2>2 DEF Reachable, Named
  <2>5. S' = {x \in acked' : Reachable(x)}
    BY <2>4
  <2>6. Log!Accept(r)
    <3>1. Reachable(r) => S' = S \cup {r}
      BY <2>2, <2>5
    <3>2. ~Reachable(r) => S' = S /\ r \in delivered
      BY <1>0, <2>2, <2>3, <2>5
    <3> QED
      BY <2>2, <2>3, <3>1, <3>2 DEF Log!Accept
  <2> QED
    BY <2>3, <2>6 DEF Log!Next
<1>2. CASE Delivers
  <2>1. PICK x : x = disk[Current].data[replay.pos]
    OBVIOUS
  <2>2. delivered' = delivered \cup {x} /\ UNCHANGED <<disk, acked>>
    BY <1>2, <2>1, DeliveredIs DEF Delivers, ReplayRecord
  <2>3. x \in Records
    BY <1>2, <2>1, DeliveredIs, ReadableIs, Types
  <2>4. \A y : Reachable(y)' <=> Reachable(y)
    BY <2>2 DEF Reachable, Named
  <2>5. S' = S
    BY <2>2, <2>4
  <2>6. Log!Deliver(x)
    BY <2>2, <2>5 DEF Log!Deliver
  <2> QED
    BY <2>3, <2>6 DEF Log!Next
<1>3. CASE acked' = acked /\ delivered' = delivered
  <2>1. S' \subseteq S
    BY <1>3, NothingComesBack
  <2>2. \A r \in acked' : r \in delivered' \/ Reachable(r)'
    BY DEF AckedDurable
  <2>3. S \ S' \subseteq delivered
    BY <1>3, <2>2
  <2>4. PICK G : G = S \ S'
    OBVIOUS
  <2>5. G \in SUBSET S /\ Log!Retire(G)
    BY <1>3, <2>1, <2>3, <2>4 DEF Log!Retire
  <2> QED
    BY <2>5 DEF Log!Next
<1> QED
  BY <1>1, <1>2, <1>3, AckedMove, DeliveredGrows

\* The log implements the abstract one as long as no failing call leaves junk in a file
\* or fails its recovery: what Write acknowledged is kept until a replay delivered it,
\* across rotations, failed fsyncs and renames, deletions and restarts (Write's and
\* Replay's contracts, wal.go:166-168).
THEOREM LogImplemented == ASSUME FramingWhole PROVE Spec => ImplementsLog
<1>1. Init => Log!Init
  <2> SUFFICES ASSUME Init PROVE Log!Init
    OBVIOUS
  <2>1. acked = {} /\ delivered = {}
    BY DEF Init
  <2> QED
    BY <2>1 DEF Log!Init
<1>2. TypeInv /\ LockInv /\ DurableInv /\ TypeInv' /\ DurableInv' /\ AckedDurable' /\ [Next]_vars
      => [Log!Next]_(Log!vars)
  BY LogStep
<1> QED
  BY <1>1, <1>2, TypeInvCorrect, LockInvCorrect, DurableInvCorrect, NothingAckedLost, PTL
  DEF Spec, ImplementsLog, Log!Spec
=============================================================================
