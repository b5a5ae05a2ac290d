-------------------------------- MODULE Wal --------------------------------
(***************************************************************************)
(* The disk write-ahead log of internal/wal/wal.go: concurrent Write with  *)
(* segment rotation, Replay, the retention cleanup, Close, and a restart   *)
(* after a crash at any point.  Critical sections of fileWAL.mu are single *)
(* steps; activeSegment.mu is held over several steps, so it is a lock.    *)
(*                                                                         *)
(* A segment file holds a sequence of whole records and Junk, the bytes    *)
(* that are not a whole record: a torn write, or a footer left in the      *)
(* middle of the file by a seal that failed.  Records are framed by their  *)
(* length, so nothing after Junk can be read as it was written.            *)
(*                                                                         *)
(* Segments are numbered in the order of their creation, which is that of  *)
(* their modification times: only one file is unsealed at a time, so they  *)
(* get their footers in that order, a recovered one behind all the others. *)
(***************************************************************************)
EXTENDS Integers, Sequences, FiniteSets, FiniteSetsExt, Functions

CONSTANTS
  Writers,            \* goroutines calling Write
  Records,            \* what they write, each record once
  Size,               \* [Records -> Nat]: encoded length of a record
  FooterSize,         \* segmentFooterSize
  SegmentBytes,       \* Config.SegmentBytes
  MaxBytes,           \* Config.MaxBytes
  MaxReplayFailures,  \* Config.MaxReplayFailures
  MaxSegment,         \* bound: segment files ever created
  MaxRestarts,        \* bound: process restarts
  MaxFaults,          \* bound: failing calls, I/O or handler
  Faults,             \* which kinds of call may fail, a subset of FaultKinds
  Closer,             \* the goroutine calling Close
  Junk, None

FaultKinds == {"write", "sync", "footer", "rename", "open", "handler", "recover"}

ASSUME WalAssumption ==
  /\ IsFiniteSet(Records) /\ IsFiniteSet(Writers)
  /\ Size \in [Records -> Nat \ {0}]
  /\ Closer \notin Writers
  /\ Junk \notin Records
  /\ {FooterSize, SegmentBytes, MaxBytes, MaxRestarts, MaxFaults} \subseteq Nat
  /\ {MaxReplayFailures, MaxSegment} \subseteq Nat \ {0}
  /\ Faults \subseteq FaultKinds
  /\ None \notin Nat \cup Records \cup Writers \cup {Closer}

Segments == 1..MaxSegment
Procs == Writers \cup {Closer}

VARIABLES
  disk,      \* segment -> its file: name, data, synced prefix, footer
  active,    \* fileWAL.active: a segment or None
  opened,    \* segments whose os.File is open for writing
  holder,    \* segment -> who holds activeSegment.mu, or None
  bytes,     \* fileWAL.bytes
  closed,    \* fileWAL.closed
  pc,        \* process -> where it is in Write or Close
  seg,       \* process -> the activeSegment pointer it has read
  rec,       \* writer -> the record of its current or last Write
  fresh,     \* records no Write has been called with yet
  replay,    \* Replay: segments still to do, position, attempt
  up,        \* the process is running
  restarts,  \* restarts so far
  faults,    \* failed calls so far
  acked,     \* history: records whose Write returned nil
  delivered  \* history: records for which the replay handler returned nil

mem == <<active, opened, holder, bytes, closed, pc, seg, rec, replay>>
history == <<acked, delivered>>
vars == <<disk, mem, fresh, up, restarts, faults, history>>
-----------------------------------------------------------------------------
NoFile == [name |-> "absent", data |-> <<>>, synced |-> 0, footer |-> -1]
Removed == [NoFile EXCEPT !.name = "removed"]
NewFile == [NoFile EXCEPT !.name = "log"]
Idle == [segs |-> {}, pos |-> 1, attempt |-> 0]

\* Whole records in a file, and how many of them framing by length can reach.
WholeRecords(f) == {i \in DOMAIN f.data : f.data[i] # Junk}
RecordCount(f) == Cardinality(WholeRecords(f))
ReadableCount(f) == Min({i \in DOMAIN f.data : f.data[i] = Junk} \cup {Len(f.data) + 1}) - 1
Readable(f) == {f.data[i] : i \in 1..ReadableCount(f)}

\* activeSegment.written counts whole records only; a footer adds FooterSize.
Written(f) == SumFunction([i \in WholeRecords(f) |-> Size[f.data[i]]])
FileSize(f) == Written(f) + (IF f.footer >= 0 THEN FooterSize ELSE 0)
TotalSize(d, S) == SumFunction([s \in S |-> FileSize(d[s])])

Named(n) == {s \in Segments : disk[s].name = n}

\* nextSeq plus the clock in the name: a file name never comes back.
Unused(d) == {s \in Segments : d[s].name = "absent"}

\* One more call fails, of a kind this configuration lets fail.
Fail(kind) ==
  /\ kind \in Faults
  /\ faults < MaxFaults
  /\ faults' = faults + 1

Goto(p, l) == pc' = [pc EXCEPT ![p] = l]
Unlock(s) == holder' = [holder EXCEPT ![s] = None]
SetFile(s, f) == disk' = [disk EXCEPT ![s] = f]

\* An operation ends early: Write returns an error, Close ignores one.
End(p) == Goto(p, IF p = Closer THEN "closed" ELSE "idle")
\* Mutant: an error path returns without the unlock.
AbortKeepsLock(p) == End(p) /\ UNCHANGED holder

Abort(p) == End(p) /\ Unlock(seg[p])
-----------------------------------------------------------------------------
\* New on an empty directory: one empty active segment.
Init ==
  /\ disk = [s \in Segments |-> IF s = 1 THEN NewFile ELSE NoFile]
  /\ active = 1
  /\ opened = {1}
  /\ holder = [s \in Segments |-> None]
  /\ bytes = 0
  /\ closed = FALSE
  /\ pc = [p \in Procs |-> "idle"]
  /\ seg = [p \in Procs |-> None]
  /\ rec = [w \in Writers |-> None]
  /\ fresh = Records
  /\ replay = Idle
  /\ up = TRUE
  /\ restarts = 0
  /\ faults = 0
  /\ acked = {}
  /\ delivered = {}

\* Mutant: the capacity is not checked.
BeginWriteUnchecked(w, r) ==
  /\ pc[w] = "idle" /\ ~closed /\ r \in fresh
  /\ rec' = [rec EXCEPT ![w] = r]
  /\ fresh' = fresh \ {r}
  /\ Goto(w, "load")
  /\ UNCHANGED <<disk, active, opened, holder, bytes, closed, seg, replay, faults, history>>

\* Write's entry: refused when closed or at capacity (a refusal changes nothing).
BeginWrite(w, r) ==
  /\ pc[w] = "idle"
  /\ ~closed
  /\ bytes < MaxBytes
  /\ r \in fresh
  /\ rec' = [rec EXCEPT ![w] = r]
  /\ fresh' = fresh \ {r}
  /\ Goto(w, "load")
  /\ UNCHANGED <<disk, active, opened, holder, bytes, closed, seg, replay, faults, history>>

\* Close's entry: only the first call passes the compare-and-swap.
BeginClose ==
  /\ pc[Closer] = "idle"
  /\ closed' = TRUE
  /\ Goto(Closer, "load")
  /\ UNCHANGED <<disk, active, opened, holder, bytes, seg, rec, fresh, replay, faults, history>>

\* Read w.active under w.mu, before and (a writer) after a rotation.
Load(p) ==
  /\ pc[p] \in {"load", "reload"}
  /\ IF active = None
     THEN End(p) /\ UNCHANGED seg
     ELSE /\ seg' = [seg EXCEPT ![p] = active]
          /\ Goto(p, IF pc[p] = "load" THEN "lock" ELSE "relock")
  /\ UNCHANGED <<disk, active, opened, holder, bytes, closed, rec, fresh, replay, faults, history>>

NeedsRotation(w) ==
  Written(disk[seg[w]]) + Size[rec[w]] + FooterSize > SegmentBytes

\* active.mu.Lock(): Close goes on to seal, Write decides on a rotation, and does
\* not decide again when it locks the segment it has just opened.
Lock(p) ==
  /\ pc[p] \in {"lock", "relock"}
  /\ holder[seg[p]] = None
  /\ holder' = [holder EXCEPT ![seg[p]] = p]
  /\ Goto(p, IF p = Closer \/ (pc[p] = "lock" /\ NeedsRotation(p)) THEN "seal" ELSE "write")
  /\ UNCHANGED <<disk, active, opened, bytes, closed, seg, rec, fresh, replay, faults, history>>

\* Mutant: a segment already sealed by another goroutine is sealed again.
SealFooterTwice(p) ==
  /\ pc[p] = "seal"
  /\ SetFile(seg[p], [disk[seg[p]] EXCEPT !.footer = RecordCount(disk[seg[p]]),
                                          !.synced = Len(disk[seg[p]].data)])
  /\ opened' = opened \ {seg[p]}
  /\ Goto(p, "publish")
  /\ UNCHANGED <<active, holder, bytes, closed, seg, rec, fresh, replay, faults, history>>

\* sealActiveSegment up to f.Close(): footer and fsync; all of it fails on a
\* segment whose file another goroutine has sealed and closed meanwhile.
SealFooter(p) ==
  /\ pc[p] = "seal"
  /\ LET f == disk[seg[p]] IN
     \/ /\ seg[p] \notin opened
        /\ Abort(p)
        /\ UNCHANGED <<disk, opened, faults>>
     \/ /\ seg[p] \in opened
        /\ SetFile(seg[p], [f EXCEPT !.footer = RecordCount(f), !.synced = Len(f.data)])
        /\ opened' = opened \ {seg[p]}
        /\ Goto(p, "publish")
        /\ UNCHANGED <<holder, faults>>
     \/ /\ seg[p] \in opened
        /\ Fail("footer")
        /\ SetFile(seg[p], [f EXCEPT !.data = Append(@, Junk)])
        /\ Abort(p)
        /\ UNCHANGED opened
  /\ UNCHANGED <<active, bytes, closed, seg, rec, fresh, replay, history>>

\* The rest of sealActiveSegment: rename to .sealed, index, drop w.active.
Publish(p) ==
  /\ pc[p] = "publish"
  /\ \/ /\ disk' = [disk EXCEPT ![seg[p]].name = "sealed"]
        /\ active' = IF active = seg[p] THEN None ELSE active
        /\ IF p = Closer THEN Abort(p) ELSE Goto(p, "open") /\ UNCHANGED holder
        /\ UNCHANGED faults
     \/ /\ Fail("rename")
        /\ Abort(p)
        /\ UNCHANGED <<disk, active>>
  /\ UNCHANGED <<opened, bytes, closed, seg, rec, fresh, replay, history>>

\* openNewActive, then the unlock of the old segment.
OpenNew(w) ==
  /\ pc[w] = "open"
  /\ \/ /\ Unused(disk) # {}
        /\ LET s == Min(Unused(disk)) IN
           /\ SetFile(s, NewFile)
           /\ active' = s
           /\ opened' = opened \cup {s}
        /\ Goto(w, "reload")
        /\ Unlock(seg[w])
        /\ UNCHANGED faults
     \/ /\ Fail("open")
        /\ Abort(w)
        /\ UNCHANGED <<disk, active, opened>>
  /\ UNCHANGED <<bytes, closed, seg, rec, fresh, replay, history>>

\* Mutants: the append goes through a stale pointer; the append is not followed by
\* an fsync.
WriteRecordStale(w) ==
  /\ pc[w] = "write"
  /\ SetFile(seg[w], [disk[seg[w]] EXCEPT !.data = Append(@, rec[w])])
  /\ Goto(w, "sync")
  /\ UNCHANGED <<active, opened, holder, bytes, closed, seg, rec, fresh, replay, faults, history>>

WriteRecordUnsynced(w) ==
  /\ pc[w] = "write"
  /\ IF seg[w] \in opened
     THEN /\ SetFile(seg[w], [disk[seg[w]] EXCEPT !.data = Append(@, rec[w])])
          /\ Goto(w, "account") /\ Unlock(seg[w])
     ELSE Abort(w) /\ UNCHANGED disk
  /\ UNCHANGED <<active, opened, bytes, closed, seg, rec, fresh, replay, faults, history>>

\* f.Write(encoded): whole, or refused by a closed file, or torn.
WriteRecord(w) ==
  /\ pc[w] = "write"
  /\ LET Put(e) == disk' = [disk EXCEPT ![seg[w]].data = Append(@, e)] IN
     \/ /\ seg[w] \notin opened
        /\ Abort(w)
        /\ UNCHANGED <<disk, faults>>
     \/ /\ seg[w] \in opened
        /\ Put(rec[w])
        /\ Goto(w, "sync")
        /\ UNCHANGED <<holder, faults>>
     \/ /\ seg[w] \in opened
        /\ Fail("write")
        /\ Put(Junk)
        /\ Abort(w)
  /\ UNCHANGED <<active, opened, bytes, closed, seg, rec, fresh, replay, history>>

\* f.Sync() and the unlock.
Sync(w) ==
  /\ pc[w] = "sync"
  /\ Unlock(seg[w])
  /\ \/ /\ disk' = [disk EXCEPT ![seg[w]].synced = Len(disk[seg[w]].data)]
        /\ Goto(w, "account")
        /\ UNCHANGED faults
     \/ /\ Fail("sync")
        /\ Goto(w, "idle")
        /\ UNCHANGED disk
  /\ UNCHANGED <<active, opened, bytes, closed, seg, rec, fresh, replay, history>>

\* w.bytes.Add(n), and Write returns nil.
Account(w) ==
  /\ pc[w] = "account"
  /\ bytes' = bytes + Size[rec[w]]
  /\ acked' = acked \cup {rec[w]}
  /\ Goto(w, "idle")
  /\ UNCHANGED <<disk, active, opened, holder, closed, seg, rec, fresh, replay, faults, delivered>>
-----------------------------------------------------------------------------
\* Replay: the sealed segments not done.
ReplayStart ==
  /\ ~closed
  /\ replay = Idle
  /\ Named("sealed") # {}
  /\ replay' = [Idle EXCEPT !.segs = Named("sealed")]
  /\ UNCHANGED <<disk, active, opened, holder, bytes, closed, pc, seg, rec, fresh, faults, history>>

\* Mutant: the newest segment first.
Newest == Max(replay.segs)

\* sort.Slice by CreatedAt: the oldest first.
Current == Min(replay.segs)
ReplayFile == disk[Current]
AtRecord == replay.segs # {} /\ replay.pos <= ReplayFile.footer

\* A recovery has counted what it framed behind the first Junk, under a checksum of its own.
CountsJunk(f) == f.footer = Len(f.data) /\ ReadableCount(f) < f.footer

\* readSegment hands one record to the handler, which accepts it; what a recovery has
\* counted as a record may decode, into something nobody wrote.
ReplayRecord ==
  /\ AtRecord
  /\ \/ /\ replay.pos <= ReadableCount(ReplayFile)
        /\ delivered' = delivered \cup {ReplayFile.data[replay.pos]}
     \/ /\ replay.pos > ReadableCount(ReplayFile)
        /\ CountsJunk(ReplayFile)
        /\ UNCHANGED delivered
  /\ replay' = [replay EXCEPT !.pos = @ + 1]
  /\ UNCHANGED <<disk, active, opened, holder, bytes, closed, pc, seg, rec, fresh, faults, acked>>

\* Mutants: a refused record is skipped; one attempt too many.
ReplayFailSkips ==
  /\ AtRecord
  /\ Fail("handler")
  /\ replay' = [replay EXCEPT !.pos = @ + 1]
  /\ UNCHANGED <<disk, active, opened, holder, bytes, closed, pc, seg, rec, fresh, history>>

ReplayFailOnceMore ==
  /\ AtRecord
  /\ IF replay.pos <= ReadableCount(ReplayFile) THEN Fail("handler") ELSE UNCHANGED faults
  /\ replay' = IF replay.attempt < MaxReplayFailures
               THEN [replay EXCEPT !.pos = 1, !.attempt = @ + 1] ELSE Idle
  /\ UNCHANGED <<disk, active, opened, holder, bytes, closed, pc, seg, rec, fresh, history>>

\* readSegment fails, at the handler or at a record it cannot read: the segment is
\* read again from its first record, or Replay returns the error.
ReplayFail ==
  /\ AtRecord
  /\ \/ /\ replay.pos <= ReadableCount(ReplayFile)
        /\ Fail("handler")
     \/ /\ replay.pos > ReadableCount(ReplayFile)
        /\ UNCHANGED faults
  /\ \/ /\ replay.attempt + 1 < MaxReplayFailures
        /\ replay' = [replay EXCEPT !.pos = 1, !.attempt = @ + 1]
     \/ replay' = Idle   \* attempts exhausted, or the context was cancelled
  /\ UNCHANGED <<disk, active, opened, holder, bytes, closed, pc, seg, rec, fresh, history>>

\* Mutant: the segment is counted as replayed, and not renamed.
ReplayDoneForgets ==
  /\ replay.segs # {}
  /\ replay.pos > ReplayFile.footer
  /\ replay' = [Idle EXCEPT !.segs = replay.segs \ {Current}]
  /\ UNCHANGED <<disk, active, opened, holder, bytes, closed, pc, seg, rec, fresh, faults, history>>

\* The whole segment is through: rename to .done; a failed rename is ignored.
ReplayDone ==
  /\ replay.segs # {}
  /\ replay.pos > ReplayFile.footer
  /\ \/ /\ disk' = [disk EXCEPT ![Current].name = "done"]
        /\ UNCHANGED faults
     \/ Fail("rename") /\ UNCHANGED disk
  /\ replay' = [Idle EXCEPT !.segs = replay.segs \ {Current}]
  /\ UNCHANGED <<active, opened, holder, bytes, closed, pc, seg, rec, fresh, history>>

\* Mutant: deleted segments stay in the counter.
CleanupKeepsBytes ==
  /\ \E S \in SUBSET Named("done") :
       /\ S # {}
       /\ disk' = [s \in Segments |-> IF s \in S THEN Removed ELSE disk[s]]
  /\ UNCHANGED <<active, opened, holder, bytes, closed, pc, seg, rec, fresh, replay, faults, history>>

\* cleanup: the done segments past Retention, those os.Remove fails on excepted.
Cleanup ==
  /\ \E S \in SUBSET Named("done") :
       /\ S # {}
       /\ disk' = [s \in Segments |-> IF s \in S THEN Removed ELSE disk[s]]
       /\ bytes' = bytes - TotalSize(disk, S)
  /\ UNCHANGED <<active, opened, holder, closed, pc, seg, rec, fresh, replay, faults, history>>
-----------------------------------------------------------------------------
\* The process dies: what was not fsynced may be lost, from the end.
Crash ==
  /\ up
  /\ restarts < MaxRestarts
  /\ up' = FALSE
  /\ \E k \in UNION {0..Len(disk[s].data) : s \in Segments} :
       disk' = [s \in Segments |->
                 IF disk[s].name = "log"
                 THEN [disk[s] EXCEPT !.data =
                         SubSeq(@, 1, Max({disk[s].synced, Min({k, Len(@)})}))]
                 ELSE disk[s]]
  /\ UNCHANGED <<mem, fresh, restarts, faults, history>>

\* Mutant: the last record of a recovered segment is dropped.
RecoverDropsLast(f, framed) ==
  LET n == ReadableCount(f) - 1 IN
  IF f.name # "log" THEN f
  ELSE IF n <= 0 THEN Removed
  ELSE [name |-> "sealed", data |-> SubSeq(f.data, 1, n), synced |-> n, footer |-> n]

\* sealRecoveredSegment: keep what is framed as records, and seal.  Behind the records
\* that can be read it may frame one more out of Junk and the bytes that follow (it
\* looks at lengths only).  A segment with none is removed.
Recover(f, framed) ==
  LET n == ReadableCount(f) + (IF framed /\ ReadableCount(f) < Len(f.data) THEN 1 ELSE 0) IN
  IF f.name # "log" THEN f
  ELSE IF n = 0 THEN Removed
  ELSE [name |-> "sealed", data |-> SubSeq(f.data, 1, n), synced |-> n, footer |-> n]

\* New: scan the directory, then open an active segment.  A segment that cannot
\* be sealed, whatever the error, is removed (the removal is taken to succeed).
Restart ==
  /\ ~up
  /\ \E lost \in SUBSET Named("log"), framed \in SUBSET Named("log") :
       /\ IF lost = {} THEN UNCHANGED faults ELSE Fail("recover")
       /\ LET scanned == [s \in Segments |->
                            IF s \in lost THEN Removed
                            ELSE Recover(disk[s], s \in framed)]
              new == Min(Unused(scanned))
          IN
          /\ Unused(scanned) # {}
          /\ disk' = [scanned EXCEPT ![new] = NewFile]
          /\ bytes' = TotalSize(scanned, Segments)
          /\ active' = new
          /\ opened' = {new}
  /\ up' = TRUE
  /\ restarts' = restarts + 1
  /\ holder' = [s \in Segments |-> None]
  /\ closed' = FALSE
  /\ pc' = [p \in Procs |-> "idle"]
  /\ seg' = [p \in Procs |-> None]
  /\ rec' = [w \in Writers |-> None]
  /\ replay' = Idle
  /\ UNCHANGED <<fresh, history>>
-----------------------------------------------------------------------------
Step(p) == Load(p) \/ Lock(p) \/ SealFooter(p) \/ Publish(p)

\* One step of a Write that has passed its entry.
WriteStep(w) == Step(w) \/ OpenNew(w) \/ WriteRecord(w) \/ Sync(w) \/ Account(w)

Replay == ReplayStart \/ ReplayRecord \/ ReplayFail \/ ReplayDone

\* Every goroutine has come to its end.
Stopped ==
  /\ closed
  /\ \A p \in Procs : pc[p] \in {"idle", "closed"}
  /\ replay = Idle
  /\ UNCHANGED vars

Alive == up /\ UNCHANGED <<up, restarts>>
Running ==
  /\ Alive
  /\ \/ \E w \in Writers : (\E r \in Records : BeginWrite(w, r)) \/ WriteStep(w)
     \/ BeginClose \/ Step(Closer)
     \/ Replay
     \/ Cleanup

Next == Running \/ Crash \/ Restart \/ (up /\ Stopped)

Spec == Init /\ [][Next]_vars

\* The goroutines keep running, and so does a Replay once it has been called; nothing
\* is assumed of who calls it, or ever calls it again.
Fairness ==
  /\ \A w \in Writers : WF_vars(Alive /\ WriteStep(w))
  /\ WF_vars(Alive /\ Step(Closer))
  /\ WF_vars(Alive /\ (ReplayRecord \/ ReplayFail \/ ReplayDone))
-----------------------------------------------------------------------------
FileName == {"absent", "log", "sealed", "done", "removed"}
Entry == Records \cup {Junk}

TypeOK ==
  /\ disk \in [Segments -> [name : FileName, data : Seq(Entry), synced : Nat, footer : Int]]
  /\ active \in Segments \cup {None}
  /\ opened \in SUBSET Segments
  /\ holder \in [Segments -> Procs \cup {None}]
  /\ bytes \in Int
  /\ closed \in BOOLEAN
  /\ pc \in [Procs -> {"idle", "load", "lock", "seal", "publish", "open", "reload",
                       "relock", "write", "sync", "account", "closed"}]
  /\ seg \in [Procs -> Segments \cup {None}]
  /\ rec \in [Writers -> Records \cup {None}]
  /\ fresh \in SUBSET Records
  /\ replay \in [segs : SUBSET Segments, pos : Nat, attempt : 0..(MaxReplayFailures - 1)]
  /\ up \in BOOLEAN
  /\ restarts \in Nat
  /\ faults \in Nat
  /\ acked \in SUBSET Records
  /\ delivered \in SUBSET Records

\* A record Write acknowledged is never lost: a replay has delivered it, or it can
\* still be read from a file a replay or a recovery will open (Write's contract,
\* wal.go:166).
Reachable(r) == \E s \in Named("log") \cup Named("sealed") : r \in Readable(disk[s])
AckedDurable == \A r \in acked : r \in delivered \/ Reachable(r)

\* A segment is marked done, and so may be deleted, only after the handler accepted
\* every record in it (Replay's contract, wal.go:168).
DoneWasDelivered ==
  \A s \in Named("done") : \A i \in WholeRecords(disk[s]) : disk[s].data[i] \in delivered

\* Writers that raced for a rotation never leave two unsealed files, whichever of
\* them sealed and opened (sealActiveLocked's comment, wal.go:547-551).
OneActiveFile == Cardinality(Named("log")) <= 1

\* A writer still holding the pointer of a sealed segment never changes its file.
SealedImmutable ==
  [][\A s \in Named("sealed") \cup Named("done") :
       disk[s]'.name = "removed" \/ [disk[s]' EXCEPT !.name = ""] = [disk[s] EXCEPT !.name = ""]]_vars

\* Replay never overtakes: a record is first delivered only after every readable
\* record of an older segment, and of the same segment before it.
ReplayInOrder ==
  \A s, t \in Named("sealed") \cup Named("done") : \A j \in 1..ReadableCount(disk[t]) :
    disk[t].data[j] \in delivered =>
      \A i \in 1..ReadableCount(disk[s]) :
        s < t \/ (s = t /\ i < j) => disk[s].data[i] \in delivered

\* The capacity check is made before the write it admits: concurrent writers can
\* pass MaxBytes together, by no more than the record each of them wrote last.
LastWritten == SumFunction([w \in Writers |-> IF rec[w] = None THEN 0 ELSE Size[rec[w]]])
BoundedOvershoot ==
  [][up /\ bytes' > bytes /\ up' => bytes' < MaxBytes + LastWritten]_vars

\* When no writer is between its write and its accounting, Bytes() is no more than the
\* files hold (wal.go:170): no I/O error, seal or deletion leaves phantom bytes behind
\* that would refuse writes for good.  It can be less, by the footers.
BytesNotAbove ==
  (up /\ \A p \in Procs : pc[p] \in {"idle", "closed"}) =>
    bytes <= TotalSize(disk, {s \in Segments : disk[s].name \notin {"absent", "removed"}})

\* Every Write and Close that has begun returns: the two mutexes never deadlock
\* (wal.go:366-369).
OperationsReturn ==
  \A p \in Procs : pc[p] \notin {"idle", "closed"} ~> (pc[p] \in {"idle", "closed"} \/ ~up)

\* A Replay that has been called returns, whatever fails; and unless a call has failed
\* it confirms every segment it has begun with, while writers rotate and Close runs
\* beside it (wal.go:636-640).
ReplayReturns ==
  /\ replay # Idle ~> replay = Idle \/ ~up
  /\ \A s \in Segments :
       s \in replay.segs ~> disk[s].name # "sealed" \/ faults > 0 \/ ~up

\* The log implements the abstract one.
Log == INSTANCE DurableLog WITH stored <- {r \in acked : Reachable(r)}
ImplementsLog == Log!Spec
=============================================================================
