--------------------------- MODULE ConfigManager ---------------------------
(***************************************************************************)
(* internal/config: the sources of rule-set configurations (Nacos, a file, *)
(* the built-in default), the manager's current snapshot, and the history  *)
(* of compiled rule sets.  Each source has a goroutine that waits for its  *)
(* changes and one of the manager's that consumes its snapshots; the       *)
(* channel and the hands between the two are one queue.                    *)
(*                                                                         *)
(* A snapshot is a name for the YAML a source may hold, and Content gives  *)
(* the rule sets in it, each of which compiles or does not; Broken is what *)
(* a source that cannot be read pushes.  Snapshots are told apart by their *)
(* sums only.                                                              *)
(***************************************************************************)
EXTENDS RuleManager

CONSTANTS
  Sources,     \* configured sources by falling priority, without the default
  Snapshots, Content,
  NoConfig,    \* the default source's snapshot
  Broken,
  MD5,         \* snapshot -> what computeMD5 makes of it, a djb2 sum
  TooBig,      \* snapshots and puts whose YAML is over MaxBytesPerVersion
  Capacity,    \* HistoryConfig.Capacity
  MaxVersion,  \* bound: versions of a rule set
  QueueLen,    \* bound: snapshots between a source and its consumer
  MaxChanges   \* bound: changes of the sources

Nacos == "nacos"
File == "file"

\* A rule set as a snapshot's YAML has it; Compile refuses some.
Yamls == [name : Names, version : 1..MaxVersion, match : SUBSET Kinds, compiles : BOOLEAN]

ASSUME ConfigAssumption ==
  /\ Sources \in {<<Nacos, File>>, <<Nacos>>, <<File>>}
  /\ \A snap \in Snapshots : Content[snap] \in Seq(Yamls)
  /\ NoConfig \in Snapshots /\ Content[NoConfig] = <<>>
  /\ Broken \notin Snapshots
  /\ {Capacity, QueueLen, MaxVersion} \subseteq Nat \ {0} /\ MaxChanges \in Nat

VARIABLES
  store,      \* source -> what Nacos or the file holds
  fileEvent,  \* fsnotify has an event the watcher has not read
  watched,    \* fsnotify's watch is on the file at the path
  notified,   \* what the Nacos client last passed to its callback, Broken at first
  warmup,     \* ListenConfig's first read: "start", what it has read, "sent"
  pushed,     \* source -> snapshots on their way to its consumer
  changes,
  current,    \* config.Manager.current
  buf, idx    \* History: records from newest to oldest; name -> version -> position

sourceVars == <<store, fileEvent, watched, notified, warmup, pushed, changes>>
historyVars == <<buf, idx>>
configVars == <<sourceVars, current, historyVars>>

SourceSet == ToSet(Sources)
RuleSetOf(entry) == RuleSet(entry.name, entry.version, entry.match)

\* Start: the first source with a valid snapshot, else the default.
Chosen(held) ==
  LET valid == {i \in DOMAIN Sources : held[Sources[i]] # Broken}
  IN IF valid = {} THEN NoConfig ELSE held[Sources[Min(valid)]]

ConfigInit ==
  /\ store \in [SourceSet -> Snapshots \cup {Broken}]
  /\ fileEvent = FALSE
  /\ watched = TRUE
  /\ notified = Broken
  /\ warmup = IF Nacos \in SourceSet THEN "start" ELSE "sent"
  /\ pushed = [s \in SourceSet |-> <<>>]
  /\ changes = 0
  /\ current = Chosen(store)
  /\ buf = <<>>
  /\ idx = [n \in Names |-> [v \in 1..MaxVersion |-> 0]]
-----------------------------------------------------------------------------
Push(s, snap) ==
  /\ Len(pushed[s]) < QueueLen
  /\ pushed' = [pushed EXCEPT ![s] = Append(@, snap)]

\* Somebody changes a source.  A file written in place raises an event while it is
\* watched; one that is replaced takes the watch with it, and of the two ways to do so
\* the watcher heeds the rename but not the removal (source.go:130).
Change(s, snap) ==
  /\ changes < MaxChanges
  /\ snap # store[s]
  /\ store' = [store EXCEPT ![s] = snap]
  /\ changes' = changes + 1
  /\ \/ s # File /\ UNCHANGED <<fileEvent, watched>>
     \/ s = File /\ fileEvent' = (fileEvent \/ watched) /\ UNCHANGED watched
     \/ s = File /\ fileEvent' \in {fileEvent, fileEvent \/ watched} /\ watched' = FALSE
  /\ UNCHANGED <<notified, warmup, pushed>>

\* The Nacos client notices a content it has not passed on yet, the first one too:
\* OnChange sends it.
NacosNotify ==
  /\ Nacos \in SourceSet
  /\ store[Nacos] \notin {notified, Broken}
  /\ notified' = store[Nacos]
  /\ Push(Nacos, store[Nacos])
  /\ UNCHANGED <<store, fileEvent, watched, warmup, changes>>

\* ListenConfig's warm-up reads the content and sends it, in a goroutine of its own.
WarmupRead ==
  /\ warmup = "start"
  /\ warmup' = store[Nacos]
  /\ UNCHANGED <<store, fileEvent, watched, notified, pushed, changes>>

WarmupSend ==
  /\ warmup \notin {"start", "sent"}
  /\ Push(Nacos, warmup)
  /\ warmup' = "sent"
  /\ UNCHANGED <<store, fileEvent, watched, notified, changes>>

\* The file watcher: after an event the file is read and pushed whole.  One change
\* may raise several events.
FileRefresh ==
  /\ fileEvent
  /\ fileEvent' \in BOOLEAN
  /\ Push(File, store[File])
  /\ UNCHANGED <<store, watched, notified, warmup, changes>>

Changes == \E s \in SourceSet, snap \in Snapshots \cup {Broken} : Change(s, snap)
Watchers == NacosNotify \/ WarmupRead \/ WarmupSend \/ FileRefresh
-----------------------------------------------------------------------------
\* consume: a valid snapshot that differs becomes current before it is applied.
Take(s) ==
  /\ pushed[s] # <<>>
  /\ pushed' = [pushed EXCEPT ![s] = Tail(@)]
  /\ UNCHANGED <<store, fileEvent, watched, notified, warmup, changes, historyVars>>

Changed(snap) == snap # Broken /\ MD5[snap] # MD5[current]
-----------------------------------------------------------------------------
Shift(positions) == [v \in DOMAIN positions |-> IF positions[v] = 0 THEN 0 ELSE positions[v] + 1]
Forget(positions, r) == [positions EXCEPT ![r.name][r.version] = 0]

\* Mutant: the positions of the other names are not moved.
SaveNewShiftsOwn(r) ==
  /\ buf' = SubSeq(<<r>> \o buf, 1, Min({Len(buf) + 1, Capacity}))
  /\ idx' = [(IF Len(buf) = Capacity THEN Forget(idx, Last(buf)) ELSE idx)
               EXCEPT ![r.name] = [Shift(@) EXCEPT ![r.version] = 1]]

\* Mutant: the evicted record stays in the index.
SaveNewKeepsIndex(r) ==
  /\ buf' = SubSeq(<<r>> \o buf, 1, Min({Len(buf) + 1, Capacity}))
  /\ idx' = [[n \in Names |-> Shift(idx[n])] EXCEPT ![r.name][r.version] = 1]

\* A record of a new version goes to the front, the others move, the oldest leaves.
SaveNew(r) ==
  LET kept == IF Len(buf) = Capacity THEN Forget(idx, Last(buf)) ELSE idx IN
  /\ buf' = SubSeq(<<r>> \o buf, 1, Min({Len(buf) + 1, Capacity}))
  /\ idx' = [[n \in Names |-> Shift(kept[n])] EXCEPT ![r.name][r.version] = 1]

\* History.Save of a YAML that is not too big: a version that is there is overwritten
\* where it stands.
Save(r) ==
  LET pos == idx[r.name][r.version] IN
  IF pos = 0 THEN SaveNew(r) ELSE buf' = [buf EXCEPT ![pos] = r] /\ UNCHANGED idx

\* History.Latest: of the name's records the one nearest to the front.
HasHistory(n) == \E v \in 1..MaxVersion : idx[n][v] # 0
Latest(n) == buf[Min({idx[n][v] : v \in 1..MaxVersion} \ {0})]
-----------------------------------------------------------------------------
ConfigTypeOK ==
  /\ store \in [SourceSet -> Snapshots \cup {Broken}]
  /\ fileEvent \in BOOLEAN /\ watched \in BOOLEAN
  /\ notified \in Snapshots \cup {Broken}
  /\ warmup \in Snapshots \cup {Broken, "start", "sent"}
  /\ pushed \in [SourceSet -> Seq(Snapshots \cup {Broken})]
  /\ changes \in 0..MaxChanges
  /\ current \in Snapshots
  /\ buf \in Seq(RuleSets(MaxVersion))
  /\ idx \in [Names -> [1..MaxVersion -> 0..Capacity]]

\* The history's index is exactly where its records are, through overwriting, moving
\* and eviction: a rollback gets the version it asks for (history.go:98-121).
HistoryIndexed ==
  /\ Len(buf) <= Capacity
  /\ \A i \in DOMAIN buf : idx[buf[i].name][buf[i].version] = i
  /\ \A n \in Names, v \in 1..MaxVersion :
       idx[n][v] # 0 => buf[idx[n][v]].name = n /\ buf[idx[n][v]].version = v
=============================================================================
