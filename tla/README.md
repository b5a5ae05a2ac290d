# A formal model of prom-gw

prom-gw is a gateway in front of Kafka: Prometheus servers send it remote-write
requests, it applies rule sets to their samples and hands one message per sample to
Kafka, with a write-ahead log on the local disk for the time Kafka does not answer.
These modules model the parts of it that keep state and run concurrently, TLC checks
them on small instances, and TLAPS proves their safety properties for every instance.

`tlc -workers 2 -config X.cfg M` runs a configuration, `tlapm M.tla` checks the proofs
of the modules named `...Proofs` and of `DataLemmas`. `PROJECT.json` maps every definition to
the lines it models, and lists the runs, the hazards and the findings.

## 1. Inventory

### The data path

```
HTTP handlers (one goroutine per request)
  receiver: recover > request id > global limit > token > business limit > handleWrite
  decoder, parser                      pure, per request
  ruleengine.Manager.Process > router.Router.Process > ruleengine.Pipeline.Process
  sink.Pipeline.Submit                 refuses when the buffer is full or stopped
        | channel (BufferCap)
  sink.Pipeline worker (one)           the only caller of Send
  sink.AdapterSink.Send --Normal-----> kafkasink.Producer.Send
        |                                    | channel (BufferCap)
        +------Degraded---> wal.Write        flusher > franz-go client > broker
                              ^
  AdapterSink monitor: probe, and drainWAL (wal.Replay > Producer.SendSync)
```

The control path installs rule sets: configuration sources (Nacos, a file, a built-in
default) push snapshots to `config.Manager`, whose callback in `main.go` compiles them
and calls `ruleengine.Manager.SetRuleSet`; the admin API does so too.

| component | state it keeps | operations | hard behaviour |
|---|---|---|---|
| write-ahead log (`internal/wal`) | segment files and their names, active segment, byte counter, closed flag | `Write`, `Replay`, cleanup, `Close`, `New` | concurrent writers racing for a rotation, a crash between any two file operations, calls that fail half way, replay attempts |
| sink pipeline (`internal/sink/pipeline.go`) | channel, stop flag, worker | `Submit`, `Stop`, the worker loop | `Submit` between its two selects while `Stop` closes the channel |
| adapter sink (`internal/sink/sink.go`) | Normal/Degraded, counters, drain signal | `Send`, monitor, probe, `drainWAL`, `Close` | state read before use, a drain cut off by its time limit, late answers, close during a drain |
| Kafka producer (`internal/kafkasink`) | channel, records in the client, closed flag | `Send`, `SendSync`, flusher, callback, `Close` | success reported before delivery, delivery timeout, close timeout |
| assembly (`cmd/prom-gw/main.go`) | the order of the deferred calls | start, shutdown, SIGHUP | shutdown order, crash and restart on the same directory |
| rule pipeline (`ruleengine/pipeline.go`, `stage.go`) | installed rules; two buffers per batch | `Process`, `SetRules` | two buffers shared by all stages, a stage that panics, a dispatch that fails in the middle |
| rule manager, router | pipelines by name, routing table | `SetRuleSet`, `Process` | a request routed by one version and processed by another |
| stateful stages (`downsample`, `deadvalue`) | buckets and last values by series, one set for each compiled rule set | `ingest`, `check` | requests interleaving sample by sample, late samples, units, eviction, a retry of a body already seen |
| configuration | current snapshot, history, each source's last | `consume`, `ApplySnapshot`, history | several sources pushing at once, partial application |
| admin API | none of its own | put, reload, rollback, lists | check and act in separate critical sections |
| receiver | limits and limiters by business | middleware, `handleWrite`, `UpdateBusinessLimits` | a limiter of the old limits stored after the reload has cleared the cache |
| authentication (`config/token.go`) | the token table | `Verify`, `Reload`, `BusinessLimits` | a refused file must change nothing |
| decoder, parser | none | decode, `Parse` | which points of a body become samples |
| observability, tools | counters, traces | | nothing reads them back |

### What makes each part correct

* **WAL**: a record whose `Write` returned nil is delivered by a replay or readable
  after the next start; a segment is confirmed, and so deleted, only after the handler
  took all of it; one unsealed file at a time; a sealed file never changes; replay keeps
  the order; the capacity is passed by a bounded amount; no operation hangs.
* **Sink pipeline**: the queue is what was accepted and not taken, in order; after
  `Stop` nothing is accepted and everything accepted has been sent.
* **Adapter, producer, assembly**: an accepted message is in memory, in the WAL, at the
  broker, or dropped for a cause the code reports; the worker never meets a closed sink;
  a shutdown ends and leaves nothing in memory; the degraded state ends.
* **Rule pipeline**: the stages compose: what is sent is what they let through.
* **Stateful stages**: whatever the interleaving of requests, a sample is judged by the one
  of its series last let through, and an aggregate is that of the samples of one interval,
  each counted once and emitted once.
* **Receiver**: a reload of the token file takes effect for every request after it.
* **The whole way in**: a body answered with 200 was handed to the sink, but for what
  repeats another one (and, as the code is, but for what the sink once refused).
* **Control path**: what is installed is what the last configuration that compiles says.

## 2. The modules

| module | extends / instantiates | models |
|---|---|---|
| `DurableLog` | | what a log in front of a receiver promises: three sets, no files |
| `Wal`, `MCWal` | instantiates `DurableLog` | `internal/wal/wal.go` |
| `SinkPipeline` | | `internal/sink/pipeline.go` |
| `KafkaProducer` | | `internal/kafkasink/producer.go`; the client and the broker are external |
| `AdapterSink` | extends `KafkaProducer` | `internal/sink/sink.go`, and the WAL as `Send` and the drain see it |
| `Gateway`, `MCGateway` | extends `SinkPipeline`, `AdapterSink`; instantiates `DurableLog` | the data path as `cmd/prom-gw/main.go` builds, stops and restarts it |
| `RuleBuffers` | | one batch in `ruleengine/pipeline.go` |
| `RuleManager` | | `ruleengine/manager.go` and `router/router.go` |
| `ConfigManager` | extends `RuleManager` | `internal/config`: sources, `consume`, the history |
| `ControlPlane`, `MCControlPlane` | extends `ConfigManager` | the callback of `main.go` and `admin/service.go` over the two managers |
| `Receiver` | | `receiver/server.go`, `receiver/business_rl.go`, `config/token.go`, the SIGHUP branch of `main.go` |
| `StatefulStages` | | `ruleengine/deadvalue.go`, `ruleengine/downsample.go` |
| `Ingest`, `MCIngest` | extends `Receiver`, `StatefulStages` | a request from the middleware through `parser.go` and the stages of `Pipeline.Process` to its answer, and retries |
| `SortedSets` | | a finite set of numbers in ascending order, by the rank of each |
| `WalProofs`, `SinkPipelineProofs`, `RuleBuffersProofs`, `ControlPlaneProofs`, `IngestProofs` | extend the module, `DataLemmas` and `TLAPS` | theorems |
| `DeliveryProofs`, `ReplayProofs` | extend `Gateway`, `SinkPipelineProofs` | theorems about the whole data path |
| `DataLemmas` | extends `SortedSets` | facts about the operators on finite sets: minimum, maximum, sums, order |

Every component module has an operator per variable group (`pipeVars`, `prodVars`,
`wal`, ...), so that a composing module can say what an action leaves alone. A definition
marked `Mutant` is not part of any specification: it is the code with a plausible mistake
in it, and each property is broken by one of them.

### Wal

| state | code |
|---|---|
| `disk[s]`: `name`, `data`, `synced`, `footer` | a segment file: `.log`, `.sealed`, `.done`, removed; its records in order; how many an fsync covers; the record count in its footer, -1 when it has none |
| `active`, `bytes`, `closed` | `fileWAL.active`, `.bytes`, `.closed` |
| `opened` | segments whose `os.File` is open |
| `holder[s]` | who holds `activeSegment.mu`, a lock held over several steps |
| `pc`, `seg`, `rec` | each goroutine's place in `Write` or `Close`, the segment pointer it has read, the record it writes |
| `replay` | `Replay`'s segments left, position, attempt |
| `acked`, `delivered` | history: `Write` returned nil; the handler returned nil |

`Write` is `BeginWrite`, `Load`, `Lock`, then (when the record does not fit) `SealFooter`,
`Publish`, `OpenNew`, `Load`, `Lock`, then `WriteRecord`, `Sync`, `Account`. `Close` is
`BeginClose`, `Load`, `Lock`, `SealFooter`, `Publish`. What the code does under `fileWAL.mu`
is one step. Each call to the file system has a failing variant behind `Fail(kind)`; the
constant `Faults` chooses the kinds. A torn write and a footer written by a seal that
failed leave `Junk`: records are framed by their length, so nothing behind it can be read.
`Crash` keeps of an unsealed file at least its synced prefix; `Restart` is `New`, with
`Recover` for `sealRecoveredSegment`, which looks at lengths only: behind the readable records
it may count one more that it has framed out of `Junk`, and a replay then fails at that one or
hands over something nobody wrote (`CountsJunk`). `Replay` goes by modification times, which
is the order of creation: only one file is unsealed at a time, and a recovered one is sealed
behind all the others. The encoding and the disk-usage metric are left out.

### SinkPipeline, KafkaProducer, AdapterSink, Gateway

`Submit` is two steps because it reads `stopCh` in one select and sends in the next, and
`Stop` is two because it closes the two channels one after the other: a handler in between
finds a closed channel and panics, which the receiver's middleware turns into a 500. The
one worker is the only caller of `Send` in the program, so `send` and `cur` are single
variables. `Send` reads the state once (`SendLoad`) and then acts on what it read.

`recordFailure` is called only by `Send` having read Normal and `recordSuccess` only by the
monitor in Degraded, so their counters and compare-and-swaps never run together and each is
one step. A probe (`MonitorProbe`) is a success when `Produce` took it. `drainWAL` is the
record `drain`: the segments of the snapshot left, the record in hand, the attempt, whether
it waits for an answer. `DrainTimeout` leaves the envelope behind with nobody listening.

In `AdapterSink` the WAL is segments of acknowledged records, all of one size: the active
one, the sealed ones, and the number in `.done` files, which count against the capacity
until the cleanup deletes them. `Wal` is checked against the same abstract log, so the
abbreviation stands on its refinement.

`Gateway!Shutdown` is main's deferred calls in their order: `CloseBegin` only after
`Stop` has returned. `Restart` is a crash (or an exit) and the next start in one step:
memory is lost, `wal.New` seals what was active, nothing is replayed, and main runs the WAL
sink alone when Kafka does not answer the first ping. `fate` is history: why an accepted
message was dropped, where the code reports a reason. The broker is up while it answers within
`RecordDeliveryTimeout` and `RecordRetries`, and goes down and comes back at will; a record in the
client may fail while it is down. A record in `Refused` fails whenever it comes: the receiver takes
bodies larger than `ProducerBatchMaxBytes`, and a topic may not exist. `CloseTimeout` is a plain
timer, so the end of a shutdown may lose what is in flight with the broker up as well.
`WalError` is the one difference between the two modes in `Send`'s answers: the adapter translates
the WAL's errors, the WAL sink alone returns them as they are, and the worker takes them for errors
like any other.

### RuleBuffers

A slice is a buffer and a length, as in Go. The six stages appear by the shape of what they
return: a selection written over `dst`, rewritten or not (`WriteOut`), their input
(`PassThrough`), a slice of their own (`Downsample`), or a panic after n samples (`Panic`).
Which samples they keep is open. `expected` is what the same stages would give with a
buffer each.

### RuleManager, ConfigManager, ControlPlane

`SetRuleSet` is `SetRules` and `Rebuild` under `rulesMu`; a request takes no lock, loads
the table (`RequestBegin`) and sends its buckets one after the other. A match is the set of
kinds of samples it accepts, so prefixes and exact names differ only by their sets.
`ConfigManager` has the file watcher, the Nacos client's callback (`NacosNotify`) and the
warm-up goroutine's read and send; the source's channel and the hands on both its ends are
one bounded queue. A file written in place raises an event; one that is replaced takes the watch
with it (`watched`), and of the ways to do so the watcher heeds the rename, not the removal.
Snapshots are compared by their sums (`MD5`, a djb2 sum of the text). `History` is `buf` and `idx`, with `Save`'s overwriting, shifting and
eviction; what is over `MaxBytesPerVersion` (`TooBig`) it refuses, which fails a put and is
ignored for a source's snapshot. `ControlPlane` gives each actor (main at start, a consumer for each source, admin
requests) a job and runs the jobs one critical section at a time: `ApplySnapshot` saves one
rule set per step, then sets `current`, then the callback installs. `Start` applies its
snapshot before any watcher, consumer or server runs (`Started`). A snapshot is current before it
is known to compile: a rejected one stays current and leaves the rules alone. `brought` is
history: name by name, what the last snapshot that compiles has for it.

### Receiver, StatefulStages, Ingest

| state | code |
|---|---|
| `tokens`, `limits`, `limiters` | `LocalTokenAuthenticator.tokens`, `rlCfg.configs`, `rlCfg.limiters` |
| `hup` | where the SIGHUP branch is; the keys `sync.Map.Range` must still visit, and may |
| `request[h]` | what a handler's goroutine has in its local variables: the business, the limits it read, the generation of rules it loaded, the samples before and behind it in the stage it is at |
| `lru[g]`, `open[g]` | the state of the two stages in generation g of the rule set |
| `sent`, `accepted`, `refused` | bodies the sink has taken; history: answered 200; answered 503 |

`businessLimiter` is three steps (`LookUp`, `ReadLimits`, `StoreLimiter`), since nothing is
locked between them; `UpdateBusinessLimits` is `StoreLimits` and a `DeleteLimiter` per key,
since `Range` is not a snapshot: a key stored while it runs is visited or not. Whether a
limiter lets a request pass is a choice. Every sample is one step of its stage, as
its critical section is, so two requests interleave sample by sample. A compiled version of the
rules is a generation, whose stages start empty while older requests go on in theirs; `Swap` loads
another one, a new one or, as a rollback or a reload does, one that has been there, with its state.
Values are numbers or NaN (Prometheus' stale markers), timestamps whole numbers on both sides of the
epoch.

A client that is not answered 200 sends the same body again: a `Receive` with that body, at
any later time. `raced`, `late`, `recency`, `kept`, `emitted` and a bucket's `members` are
history: the properties compare the code's state with them. A body belongs to one business
(`Sender`), because series keys hash the business.

What the code does here that a reader might not expect, and the model has: of a time series
only the first point is taken (`parser.go:112`); the message sent for a sample is the
client's whole body, not the sample, so aggregates never leave the gateway
(`pipeline.go:233`); `downsample` stamps its output in seconds, which a `deadvalue` behind it
compares with a window in milliseconds; a bucket is closed only by the next sample of
its series, and never leaves the map, so `max_series` is never freed, and the open buckets
stay with a rule set that is swapped out.

The Nacos client is taken to call back with the first content as well as with each later
one (`notified` is `Broken` at first). A push is applied whichever source it comes from:
the priorities hold at start only.

## 3. Runs

| run | instance | shows |
|---|---|---|
| `wal_faults` | 2 writers, 3 records of sizes 1, 1, 2, segments of 3, capacity 4, 1 crash, 1 fault of any of 7 kinds; 1.10 M states | one unsealed file, sealed files never change, done means delivered, replay order, the byte counter never above the files |
| `wal_live` | 2 writers and `Close`, same records, capacity 2, 1 crash or a record of the second writer, 1 fault of sync, rename, open, handler; 0.16 M | no acknowledged record is lost, `DurableLog` is implemented, the capacity is passed by one record per writer at most, every operation returns, a replay that was called ends and confirms what it began with |
| `gateway_safety` | 2 handlers, 4 messages, one of them refused by Kafka, a queue of 2, channel and client of 1, 1 outage, 1 drain cut off, 1 WAL error, 1 restart; 0.85 M (symmetric) | conservation, the queue's order, shutdown order, nothing left in memory, no loss while healthy |
| `gateway_live` | 1 handler, 3 messages, one refused, 1 outage, 1 drain cut off; 67 k | the queue is drained, Degraded ends once the broker is back for good, a shutdown completes, the WAL with the drain implements `DurableLog` |
| `gateway_catchup` | as `gateway_live`, nothing refused, no drain cut off | violated: finding |
| `gateway_outage` | as `gateway_safety`, a queue of 1, nothing refused, no restart | violated: finding |
| `rule_buffers` | 3 samples, 3 stages, 2 aggregations; 0.16 M | nothing let through is lost; exact while no stage drops a sample |
| `rule_stale` | 2 samples, 2 stages | violated: finding |
| `control_plane` | both sources, 3 snapshots, 1 change, 1 admin request, 1 request, history of 2; 1.78 M | history index, routing table, rejected snapshots, what a lone source brings is what runs at rest |
| `ingest` | 2 requests at a time, 4 in all (3 with downsample), 6 bodies of 2 businesses, 3 token files, 2 reloads, 2 generations; 0.51 M (symmetric) | a reload takes effect, the LRU and the buckets are exact, an interval is emitted once, of accepted bodies only what was refused before is missing |
| `ingest_retry` | as `ingest` | violated: finding |
| `control_nacos` | Nacos alone, 1 change | violated: finding |

Why the bounds are enough. Three records in segments that hold two small or one large one
make both kinds of rotation and a replay over several segments; two writers are what a race
for a rotation needs, and `Close` is a third party to it. Capacities of 1 make a full channel,
a full client buffer and a blocked flusher the ordinary case; the queue of two in
`gateway_safety` is what an order can be wrong in. Four messages are one each for
the queue, the worker, the channel and the client, or two for the queue and a full channel and
client ahead of it once one of them is through. One
fault, one outage, one crash: each is placed at every step, and the properties are about what
a single one leaves behind. Three stages are needed to have an output in the first buffer,
a panic or a drop before it and a reader after it; three samples let a stage drop a
strict part and keep an order. A history of two is full after one snapshot of two rule sets,
so that every later save evicts.

The two halves of `ingest` (`OneOfTheTwo`): under a rule set without stages, tokens are
reloaded while empty bodies come in; under one with stages, samples come in and the receiver
lets each request straight through. A limiter only decides whether a request goes on,
so the halves share no state but the request, and the theorems of `IngestProofs` hold of
the whole. Four requests are what it takes for a value to be let through, repeated, pushed out of an
LRU of two by two other series, and sent again. The first three interleave; the
fourth comes when they are over and is one of their bodies once more (`Resends`). An interval of two seconds and samples from 3 s
before the epoch to 5 s after it make late samples, closed buckets and the interval on both sides
of the epoch common; one series has a NaN behind a number in one interval, another only NaN, and a
rule set with downsample has one bucket for each series in its scope. Two reloads are a limiter of the old limits stored behind the first and deleted by
the second.

`wal_live` leaves out torn writes, failing footers and failing recoveries, and has either the
crash or a second writer's record (`LiveSpec`); `wal_faults` has both. With them
`AckedDurable` does not hold: a record acknowledged behind `Junk` in the same segment cannot
be read back, and `scanSegments` deletes a segment it cannot seal, whatever the error.
`wal_faults` includes them for every other property. `PROJECT.json` lists both as hazards.

### Fairness

Weak fairness for each goroutine by itself: the worker, the flusher, the monitor with its
drain, `Stop` once begun, `Close` once begun, each writer that has passed `Write`'s entry.
The Go scheduler runs a runnable goroutine and a ticker ticks. The client answers every record
it holds because franz-go is configured with `RecordDeliveryTimeout`. In `Wal` a replay that was called
keeps running; nothing is assumed of who calls it or whether it is called again, since the monitor
drains only on the way from Degraded to Normal and at `Close`. So `ReplayReturns` promises something of the
segments a replay began with and nothing of those sealed later. `DegradedEnds` is claimed only of a broker that
is back for good: in an outage the adapter may or may not turn Normal, depending on whether the channel takes the
probes. Nothing is assumed of handlers, the broker, the retention
cleanup, administrators or whoever asks for a shutdown, and no liveness is claimed of
the control path.

## 4. Findings

* **`gateway_catchup`**: what is in the WAL's active segment when Kafka returns stays there
  while the adapter is Normal; so does everything after a drain that failed or was cut off,
  and a start replays nothing. The design document says the WAL catches up after recovery.
* **`gateway_outage`**: `Send` succeeds once an envelope is on the producer's channel. In an
  outage longer than the delivery timeout such records fail and are only counted, where
  `sink.go` promises a retry from memory and WAL. Shorter outages lose nothing.
* **`rule_stale`**: when a stage's output lies in the first buffer, `Process` continues with
  the whole buffer, not with the output; after an earlier stage has dropped samples, stale ones
  come back. `ExactUnlessShortened` says that this is the only way to differ.
* **`control_nacos`**: the warm-up's content, read before a newer push, can be delivered
  after it, and the older configuration stays until the next change.
* **`ingest_retry`**: a batch the sink refuses is answered 503, and the design document counts on the client to
  send it again ("5xx must be retryable", at-least-once: lines 1170 and 1192 of the design document under
  `docs/superpowers/specs`). But `deadvalue` has the batch's samples as let through, drops the same samples when
  they come again (`deadvalue.go:31` intends that for a resend), and the retry is answered 200 with nothing sent.
  `OnlyRefusedMissing` says that nothing else goes missing.

Three properties of passing runs name a case they do not cover: `LimiterCurrent` without `raced` (a limiter of the
old limits survives the reload until the next one), `IntervalOnce` without `late` (a late sample makes the
aggregates of an interval come out twice) and `MatchedUnlessSwapped` without its window (a request crosses an
installation) are violated. Nothing in the repository promises the contrary, so the exceptions are stated and
have no run.

Smaller observations have no run:

* Infinities that repeat are dropped, where a comment (`deadvalue.go:26`) says NaN and Inf never are.
* Two rule sets without a match are both accepted and the one whose name sorts last gets all the samples,
  where a comment (`manager.go:127`) says the second is refused.
* A file push replaces a snapshot of Nacos: the priorities of `source.go:336` hold only at start.
* A reload whose snapshot has the name returns success and installs nothing, since `ApplySnapshot` does not
  call `SetRuleSet`; a snapshot that was rejected stays `Current()`, and a reload then fails on it.
* `main.go:305` says that when one rule set of a snapshot does not compile the others go on; `ApplySnapshot`,
  which is called before, rejects the snapshot as a whole.
* A message that meets a full WAL is dropped by the worker after its client was answered 200, where the design
  document's table (line 1166) has 503 for it.
* Beyond `p99_max_samples` a bucket keeps its first values, where `downsample.go:18` announces reservoir sampling;
  `AggregatesExact` speaks of the percentiles' values only up to that number. A NaN that comes first in a bucket
  stays its maximum and minimum. Before the epoch the division truncates upwards, so an interval ends at its name,
  where `downsample.go:5` has it begin there (`Within`).
* A record that Kafka refuses for good and that was written to the WAL stops every drain at its segment.

## 5. Proofs

Every invariant, every action property and both refinements that the runs check are theorems,
for every value of the constants. What remains to TLC is liveness.

`WalProofs`, for any writers, records, sizes, capacities, replay attempts, crashes and failing calls
(`WalAssumption`). The theorems rest on a tower of invariants, each of which uses those before it:

* `TypeCorrect` (`TypeOK`), from `TypeInv`.
* `OneActive` (`OneActiveFile`) and `Immutable` (`SealedImmutable`), from `LockInv`. Neither is inductive: a writer
  that has read the segment pointer before a rotation still holds it afterwards. `ProcInv` says who may hold
  `activeSegment.mu` and what each place in `Write` and `Close` knows of its segment, `FileInv` that only the
  active file is unsealed, `NameInv` that files are created in order and that a replay has sealed ones.
* `FootInv`: the footer of a sealed file counts the whole records before it, so reading by the footer
  reads all that can be read, or a recovery has counted one more that it framed out of junk (`FootOK`).
* `DoneDelivered` (`DoneWasDelivered`), from `ReplayInv`: what a replay has passed of the segment it is at was
  delivered, or is nobody's record (`CountsJunk`).
* `DeliveredInOrder` (`ReplayInOrder`), from `OrderInv` (older segments the replay has left are delivered in
  full) and `UniqueInv`: a record is with the caller, in one writer's hands or at one place on disk, and one in an
  unsealed file was never delivered. Without the second a record might be delivered first by way
  of another copy.
* `BytesBounded` (`BytesNotAbove`), from `BytesInv`: the counter plus what writers have written and not yet
  counted is at most what the files hold. The property alone says nothing of a writer between the two.
* `Overshoot` (`BoundedOvershoot`), from `OvershootInv`: while a writer is inside `Write` the counter is below the
  capacity plus the last records of those outside.
* `NothingAckedLost` (`AckedDurable`) and `LogImplemented` (`ImplementsLog`), from `DurableInv`: what is not
  fsynced is not acknowledged, and what is acknowledged is in a readable place. Their hypothesis is
  `FramingWhole`: the calls that fail are not the write of a record, the write of a footer by a seal, or a recovery,
  for these lose acknowledged records (section 3). A failing fsync, rename, open or handler is covered.
  The refinement maps `Account` to `Accept`, `ReplayRecord` to `Deliver`, and every other step to a `Retire` of the
  records that can no longer be read after it, which are delivered ones, or to a stutter when there are none.

`SinkPipelineProofs`, for any handlers, messages and capacity, assuming only that the capacity is
positive and `Nothing` is not a message:

* `PipeTyped`: the type invariant.
* `QueueSuffix`: `QueueIsSuffix` is inductive as it stands, given the types. The two steps
  that matter are the append of an accepted message and the worker's receive.
* `FinalAfterStop`: the action property `NothingAfterStop`, from `StopClosesChannel` (once
  `Stop` waits the channel is closed): a handler that had passed the first select cannot
  get a message in.

`DeliveryProofs`, for any instance of the whole data path, restarts and outages included:

* `ShutdownInvariant`: the inductive invariant `ShutdownInv`. Neither property below is
  inductive: that the worker meets no closed sink depends on `Close` beginning only after
  `Stop` has returned, which depends on the worker's having left, which depends on the queue
  being empty and closed. The conjuncts are these links: `PipeStoppedFirst`,
  `QueueDrained`, `SinkClosedByClose`, `DrainsOver`, and `FateIsReported` for what the worker
  records. One lemma per disjunct of `Next` shows that it is kept.
* `WorkerNeverMeetsClosedSink` (`SinkOutlivesPipeline`) and `ShutdownIsComplete`
  (`ShutdownLeavesNothing`).
* `NothingAcceptedAfterStop` (`NothingAfterStop`): once `Stop` has returned the worker has left, so the channel is
  closed, and a handler still between its two selects gets nothing in.
* `GatewayTyped` (`TypeOK`), from `TypeInv`. The types are not inductive by themselves: that
  `failCount` stays within its threshold rests on `Send` counting a failure only after it has
  read Normal, and the monitor a success only while Degraded (`CountersOK`); that a drain reads
  an existing segment rests on its staying within the snapshot it took while others append to the
  log (`DrainOK`).
* `QueueKept`: `QueueIsSuffix` for the whole gateway. The lemmas of `SinkPipelineProofs` cover every
  step but a restart.
* `LossHasCause`: `BlameOK` puts each kind of loss down to the counter of its cause. A record fails unheard only
  after an outage, a restart or the closing of the producer, or because Kafka refuses it; a `Send` answers with an
  error only after a failed WAL write or a restart.

`ReplayProofs`, on top of it:

* `ReplayIsExact`: the invariant `ReplayInv` of a replay under way. An answer of the producer is only an
  `ack`, so the danger is one that belongs to a record an earlier attempt gave up on. The invariant
  says that at most one envelope is awaited, that it is that of the record the drain is at, that
  none is left once the answer is there or the drain has stopped waiting, and that the broker has
  every record before that one. It is about positions in two queues, so each thing that
  happens to these has a lemma (`FlusherMoves`, `ProduceHeard`, `AnswerHeard`,
  `AbandonHeard`).
* `NothingVanishes` (`Conservation`): no step takes a message from everywhere (`KafkaKeeps`,
  `DrainKeeps`, `WorkerKeeps` and so on). The two hard cases are a segment marked done
  (`RetiredIsDelivered`) and an awaited record that fails (`WantedInWal`), both from `ReplayInv`.
* `HealthyLosesNothing` (`NoLossWhileHealthy`), from `Conservation`, which says that an accepted message is
  somewhere or was dropped, `BlameOK`, which rules out the drops that need a fault, and `ShutdownInv`, which rules
  out the closed sink.
* `GatewayImplementsLog` (`ImplementsLog`): `LogStep` maps a WAL write to `Accept`, an
  acknowledgement of the broker to `Deliver`, a segment marked done to `Retire` and everything else, a
  restart included, to a stutter. `Accept` is for a new record only, so `OnceInv` (`HandedOnce`)
  follows each message from a handler's hand to its one place in the order of acceptance.

`ControlPlaneProofs`, for any sources, snapshots, history capacity and administrators (the
assumptions are `ConfigAssumption` and `ControlAssumption`):

* `RollbackGetsItsVersion`: `HistoryIndexed`. It is not inductive: a position in the index
  must also be one of the buffer's (`IndexBelow`), and what is saved must be a rule set, so
  `ControlInv` adds the types of the sources' queues (`SourcesOK`) and of what a job still has
  to save or install (`JobsOK`, by the step it is at). The work is in two lemmas about `Save`:
  overwriting moves nothing (`OverwriteKeepsHistory`), and a new record moves every other one
  by one place and evicts at most the last (`SaveNewKeepsHistory`). One lemma per action
  follows.
* `TypeCorrect` (`TypeOK`) and `RoutedAsMatched` (`MatchedUnlessSwapped`), from `RulesInv`: whenever no
  installation is between its halves, the table is that of the rules. The lemmas about `RouteTable` rest on
  `SortedIs`: a set of numbers in order of rank has each of its elements once.
* `RejectedNeverInstalled` (`RejectedStaysOut`), from `LoadInv`: until the first admin request each job is
  one of the callback's; what it has saved of its snapshot compiles, and what it has still to install is the
  end of the list of a snapshot that compiles as a whole.
* `ConvergesToOneSource` (`OneSourceConverges`), from `OneInv`: the start-up is over before a lone source works;
  what either is at is the current snapshot (`OnCurrent`); what is installed with what is left to install over it
  (`Target`) is what the snapshots that compile have brought so far (`With`). A rejected snapshot leaves both sides
  alone, and one that names a rule set twice installs the later of the two. The hypothesis `SumsDistinct` says that no two
  snapshots have the same djb2 sum: with equal sums the second is taken for no news, and what runs is the first. Only this
  theorem needs it.

`RuleBuffersProofs`, for any batch size, number of stages, aggregations and samples:

* `TypeCorrect` (`TypeOK`), `NothingOverwritten` (`NothingLost`) and `ExactWhileWhole`
  (`ExactUnlessShortened`), from `BufferInv`: a stage never writes to the buffer its input is in
  (`SlicesOK`), what was sent are the first samples of the last input (`SentOK`), and what stages with a
  buffer each would give lies in the input of the next stage, and is all of it as long as none
  has dropped a sample (`ExpectedOK`). `Through` copies the samples a stage lets through by their
  positions in order; the lemma about it and `SortedIs` do the work for every kind of stage.

`IngestProofs`, for any number of requests, bodies, tokens, reloads, series, stages in any order
and capacities (the assumptions are `ReceiverAssumption`, `StagesAssumption`,
`IngestAssumption`):

* `TypeCorrect`: `TypeOK`. A request's record has other fields at each place it can be at
  (`RequestOK`, `PipelineOK`), so the proof goes place by place; `AdvanceType` is the lemma that
  every way on keeps a sample in hand.
* `ReloadTakesEffect` (`LimiterCurrent`), from `LimiterInv`: the property speaks of the time
  between reloads only. The invariant says of a reload under way that a stale limiter is one
  `Range` must still visit, and of a request about to store that its rate is of the
  reload it has counted.
* `LruExact` (`LastLetThrough`), from `LruInv`: the history has no series twice and remembers a
  sample of each; the LRU is its first `LruCap` places. `SeenKeepsList` and
  `UsedMirrors` show that both lists move alike, in the three cases of a series at hand,
  forgotten, or new.
* `AcceptedKept` (`OnlyRefusedMissing`), from `CarryInv`: for each sample a stage remembers, for each one a
  request has dropped and for each one of a body answered 200 there is a sample it repeats, whose body is
  sent, refused, or carried by a request that still holds that sample. `CoveredStays` says that
  this outlives any step that keeps what one request carries or sends it.
* `EmittedOnce` (`IntervalOnce`), from `OnceInv`: of a series without late samples the emitted
  intervals all lie before the open one, which is that of the newest sample.

* `BucketsExact` (`AggregatesExact`), from `AggInv`: a bucket's count, sum, extremes and kept values are those of
  the samples it took, NaN among them or not (`Exact`, of which `OfInterval`, `SumExact`, `ExtremesExact` and
  `ValuesExact` are the parts). `AddExact` shows that one more sample of its interval keeps that, part by
  part; `InInterval` that the samples' seconds lie within the interval on either side of the epoch.

`DataLemmas` has what these need of `Min`, `Max`, `SumFunctionOnSet` and `Sorted`. An induction over the
subsets of a finite set is made by its smallest counterexample (`SubsetInduction`, for a set of subsets in
place of a predicate), because the provers cannot instantiate the library's induction theorems. For the same reason
the models order a set by rank (`SortedSets`) and sum over a domain, where the community modules'
operators on sequences are recursive.

Only model-checked, all of it liveness under fairness, which is out of the prover's reach: `ReplayReturns`
and `OperationsReturn` of the log; `AcceptedIsTaken`, `DegradedEnds` and `ShutdownCompletes` of the data path.
The five findings are counterexamples of TLC's.

## 6. Not modelled

Of the receiver: headers, snappy and protobuf (a body decodes or is refused), request
ids, traces, and the token bucket's clock. Tokens of the local table have no expiry, so its
403 cannot happen. Labels, regular expressions and templates are data: a series is a key,
a scope is a set of series, and what `relabel`, `enrich`, `filter` and `route` compute is seen only as the shape of
what they return (`RuleBuffers`). The parser sets a fresh array of labels for each sample; `enrich`
reads a label and writes the array in one request, so no other request sees it. Averages and
percentiles are functions of accumulators that are modelled.

Of the log: that removing a file fails, and that a rename or a removal is undone by a power loss because the
directory is not synced.

Metrics and traces are never read back. The rule file watcher
has no caller. `Flush`, `Ping` after the start, `config.Manager.Close`, a failing
`ListenConfig` and the persisted snapshot (no caller) are left out. The parts of `admin`,
`router` and `config` not mapped are wire formats, listings and validation of single fields.

## 7. Plan

Done: the data path (`Wal`, `SinkPipeline` to `Gateway`), the rule pipeline's buffers,
the control path, and the way in (`Receiver`, `StatefulStages`, `Ingest`), and the proofs of all their
safety properties.

What would come next:

1. `control_plane` with two administrators putting the same version: the version check and the
   save are two critical sections, and the model has both; nothing in the repository
   says what the second put should get.
2. `RuleBuffers` as a refinement: stages with a buffer each as the abstract specification, which the shared
   buffers implement as long as no stage drops a sample.
3. An abstract history for `ConfigManager` (the newest versions by name, without positions), implemented by
   `buf` and `idx`.
4. `Gateway` over `Wal` itself in place of the segments of `AdapterSink`, with the fault kinds of one call at a
   time; the product of both is beyond a run of some minutes, so this would be for the proofs.
