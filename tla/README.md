# A formal model of pingtrace

TLA+ modules for `pingtrace` (the prober of this repository), TLC configurations
that check them on small instances, and theorems about them checked with TLAPS.
Paths are relative to the repository; `prober.cpp:344` is `src/prober/prober.cpp`,
line 344, and the repository's own `README.md` is meant where a line number
follows the name.

    tlc -workers 2 -config MCStoreCrash.cfg MCSegmentStore
    tlapm WorkerPoolProofs.tla

A configuration belongs to the module of its name, except that `MCStoreCrash`,
`MCStoreTwice` and `MCStoreTruncated` configure `MCSegmentStore`, `MCPoolBurst`
configures `MCWorkerPool`, and `MCPipelineGap` configures `MCPipeline`.

## 1. The system

`pingtrace run` is one process. Its main thread schedules probes, a pool of
workers carries them out, one writer thread records the results and derives
events and rollups from them, and one tracer thread runs traceroutes. Three
blocking queues connect them. `verify`, `export` and `analyze` are separate
processes on the same storage directory, and `discover` edits the configuration
the next run will load.

      main thread                 workers (2..64)            writer thread
    +--------------+   jobs     +----------------+ samples  +---------------------+
    | Scheduler    |----------->| probe, stamp,  |--------->| SegmentWriter, seal |
    | gap check    |            | push           |   +----->| RollupWriter        |
    +--------------+            +----------------+   |      | AddressRegistry     |
           |                        gap markers      |      | EventDetector/Log   |
           +-----------------------------------------+      +---------------------+
                                                                      | traces
    on stop: close jobs, join workers, close samples,                 v
    join writer, close traces, join tracer                       tracer thread

| Component | State | Operations | Correct when |
|---|---|---|---|
| Blocking queue (`util/queue.hpp`) | `q_`, `closed_`, mutex, condition variable | `push`, `pop`, `close` | no wakeup lost; every item once and in order; `nullopt` only when closed and drained; `close` lets every consumer go |
| Scheduler (`scheduler.cpp`, `prober.cpp:569-630`) | heap of due times, last readings of the two clocks | `collect_due`, sleep, gap check | a target once per call; missed slots skipped; no bursts; every suspension reported in one marker |
| Worker pool sizing (`prober.cpp:560-565`) | workers, waiting jobs | probe, pop | the queue keeps up with the scheduler |
| Prober threads (`prober.cpp`) | the three queues, what each thread holds, the stop flag | `worker_loop`, `writer_loop`, `trace_loop`, shutdown | every job's result written once; shutdown returns and loses nothing; outages are reported and traced |
| Outage detector, event log (`events.cpp`) | a record per target, id counter, `events.csv` | `add`, `reset_after_gap`, `finalize`, `append` | the log says what the probes said; one trace per outage; ids number on |
| Segment store (`storage/segment_writer.cpp`, `seal.cpp`, `index.cpp`, `segment_reader.cpp`) | `.part` and `.zst` files, `index.csv`, stdio buffer | open, append, flush, rotate, seal, recover, retain, rebuild; by two processes | what was flushed survives kills and failures; segments are listed; nothing twice; recovery ends |
| Rollups (`rollup.cpp`) | a bucket per minute and target, `rollup/*.csv` | `add`, `flush_completed`, `finalize` | every sample counted once; only the latest minutes at risk; the figures are those of the samples |
| Address registry (`storage/address_registry.cpp`) | two maps, `next_id_`, `addresses.csv` | `load`, `id_for`, `addr_for` | ids resolve to the right router for ever |
| ICMP and TCP probes (`prober/icmp_probe.cpp`, `tcp_probe.cpp`) | none | `ping`, `tcp_ping` | the result says what the answer said |
| Record codec (`storage/record_codec.cpp`) | none | encode, decode | round trip, up to the edges of each field |
| Traceroute and discover (`traceroute.cpp`, `discover.cpp`) | `config.json` | sweep, append targets | a responder becomes one target; the ids of others stay |
| Configuration (`config.cpp`) | `config.json` | load | a target keeps its identity |
| Export (`exporter.cpp`) | none of its own | a window over index and segments, a row per record | one row per probe of the window, which tells what became of it |
| Analyze (`analyzer.cpp`) | none of its own | `load_rollups`, `aggregate`, ladder | sums are those of the samples, of the right target |
| Dashboard, time, log, scripts | - | - | presentation, see section 8 |

What is hard here, and tested by hand at best:

- **Interleavings**: notifications after the unlock; results that overtake one
  another between two workers; the gap marker, which is pushed by another thread
  than the results it separates; the order of closes and joins; a `verify` or an
  `export` in the directory of a running prober.
- **Kills** between any two file operations of writing, sealing, indexing,
  recovering and retaining, recovery included; of the prober and of a `verify`
  beside it; and between the creation of a CSV file and the first flush into it.
- **Failures** that are logged and otherwise ignored: opening `events.csv`,
  `index.csv`, `addresses.csv`, a rollup file, a segment; writing a `.zst`.
- **Clocks and durations**: the wall clock may jump or be set back, the loop may
  be late, two clocks are read one after the other, a timeout may be longer than
  the interval.
- **Edges**: the largest round trip and offset that fit their bytes, the value
  that stands for "not available", identifiers that run out.
- **Long histories**: outages, gaps, shutdowns and restarts of the detector;
  configurations that are edited between runs whose records refer to them.

`PROJECT.json` lists the hazards one by one, each at its line and with the
properties that cover it.

## 2. Modules

| Module | Models | Uses |
|---|---|---|
| `ClosableQueue` | what a queue promises: an abstract closable FIFO | |
| `BlockingQueue` | `util/queue.hpp` with lock, unlock, wait and notify as steps of their own | implements `ClosableQueue` |
| `EventDetector` | `events.cpp`, driven as the writer thread drives it, over restarts | |
| `EventHistory` | what a history of samples deserves in the log, said without counters | `EventDetector` |
| `SegmentStore` | the storage directory and the process that writes it | |
| `StoreBeside` | a second process, `verify` or `export`, in that directory | composed with `SegmentStore` |
| `Scheduler` | `scheduler.cpp` and the loop of `run_prober` | |
| `WorkerPool` | the workers the scheduler feeds, and how long jobs wait | composed with `Scheduler` |
| `Pipeline` | the threads of one run and their queues | `EventHistory`/`EventDetector` as the writer's detector; `ClosableQueue` for its queue |
| `Rollup` | `rollup.cpp` and the sums of `analyze` | |
| `AddressRegistry` | `address_registry.cpp` over restarts | |
| `Probing` | pure operators: results of probes, hops of a traceroute, bytes of a record | |
| `Recording` | the way from `config.json` over probes and stored bytes to `export` and `analyze` | composes `AddressRegistry` and `Probing` |
| `MC*` | instances for TLC: the constants a `.cfg` cannot write, and why they suffice | one each |
| `*Proofs` | theorems about the module of the name: `BlockingQueue`, `EventDetector` (with `EventHistory`), `Pipeline`, `Recording` (with `AddressRegistry` and `Probing`), `Rollup`, `SegmentStore` (with `StoreBeside`), `WorkerPool` (with `Scheduler`) | one each |
| `DataLemmas` | facts the proofs share: least and greatest numbers, induction and recursion on finite sets, the order of a finite set, sums | |

Each module has an action for each operation or step of a thread, with the
operation's name where it has one. Under "Slips the code could contain" are
altered forms of single definitions (a missing reset, a swapped order, an
off-by-one); each is known to break the property it was written for, which shows
that the property depends on the code being as it is. They are part of no
specification.

### How state and actions correspond to the code

**BlockingQueue.** `Push` is the locked part of `push()`, `NotifyOne` what
follows the unlock; `pop()` is `PopItem`, `PopNullopt` or `Wait`, which are one
step each because the mutex is held, and a waiting consumer is `woken` (by a
notification or spuriously) before it looks again. `Close` and `NotifyAll` are
the two halves of `close()`. Producers have been joined before the close, as in
`run_prober` (`prober.cpp:632-637`): `Join`.

**EventDetector.** `st` is `state_`, `counter` and `events` the log, `requests`
the trace queue's history. `Sample` is `add()` with one alternative for each of
its paths; `Gap` is the marker's branch of the writer loop; `Stop`,
`FinalizeOutage` and `Finalized` are the shutdown; `Restart` comes after a stop
or, as a crash, at any point, and `KilledCreatingLog` is a kill between the creation
of `events.csv` and its first flush (`events.cpp:29-36`): the file is `headless`,
no header is written to it any more, and `CountRows` skips its first row instead.
`hist` records what the detector was told.
`EventHistory` defines outages on that history directly (a maximal run of
failures not broken by a success, gap or restart reaches the threshold; it ends
at the next success or at shutdown) and `LogMatchesHistory` compares.

**SegmentStore.** Files are functions from the start in their name to what a reader
would see: absent, unreadable, or the records. `pc` is what the process does next,
and every file operation that can be told apart after a kill is a step: `SealWrite`,
`SealLog`, `SealRemove` for `seal_part`; `RecoverPart`, `RemoveExpired`, `Rebuild`
for the start; `OpenSegment`, `Sample`, `Rotate`, `Stop` for the writer. `Crash` is
a kill: it leaves part of the file being written and the buffer's records or a
prefix of them, and of `index.csv`, as it is created or rewritten, no line or some.
`SealWriteFails`, `IndexFails`, `RemoveFails`, `OpenFails` are the error paths.
Record counts are recomputed from the length by every reader, so the stored count is
left out.

**StoreBeside.** `First` is any step of `SegmentStore`; the second process has a
program counter of its own, `step`. Its `Visit` starts a `verify`, which lists
the parts it finds, or an `export`; `VisitorReads`, `VisitorWrites`,
`VisitorLogs` and `VisitorRemoves` are its `seal_part`, and `VisitorLoads`,
`VisitorScans`, `VisitorCuts` and `VisitorRewrites` are `rebuild()`, which reads
everything, truncates `index.csv` and then writes it. `SealGone` is the first
process finding a part gone. `VisitorKilled` is a kill of the second process at any
point (`verify` has no handler for Ctrl+C, `cli.cpp:126-142`); `TornFiles` is what
that leaves of a `.zst`, which is truncated before it is written (`seal.cpp:28`), or
of the index.

**Scheduler.** `Collect` is one round of the loop in `collect_due`, so that a
loop that does not end is a behaviour. `Sleep` takes as long as asked or longer
(a slow machine); the wall clock is `mono + drift`, and `Suspend` moves `drift`
at any point, also between the two readings.

**WorkerPool.** `jobs` is the queue with the time of each push, `free_at` when
each worker is done. `Probe(w)` is the `pop()` of the worker that comes free
first, with its probe: it holds the worker for `Answer` or for `Timeout`. A
`SchedulerStep` is any step of `Scheduler`, taken once no worker that is free
finds a job, so that a job waits for workers and not for the machine.

**Pipeline.** `main` is where the main thread is; each worker starts, takes a
job, stamps the result and pushes it in separate steps. The writer's steps are
`Sample`, `Gap`, `Stop`, `FinalizeOutage` of `EventDetector` conjoined with the
queue's. `WriterDies` is the early return of `prober.cpp:297` and `353`. It is one run,
from its start to its return: kills are those of `EventDetector`, and `headless` stays
false.

**Rollup.** A bucket that does not exist is one that counts nothing. `Sample` is
`add()` with the beginning of `flush_completed()`, `Finalize` the beginning of
`finalize()`; each `write_minute()` is a step, `WriteMinute`, in the order of the
maps, and the next sample waits for the last (`writing`). `files` says of the file of
each date whether it is absent, empty, or has a first line; `Crash` is a kill at any
point, also inside a flush, and `CrashCreating` one between the creation of a file and
its first flush. A bucket keeps the round trips it was given, and a row their count,
least, greatest and average. `Aggregate` is what `analyze` makes of several rows.

**AddressRegistry.** `file` is what `load()` reads of `addresses.csv`, `created`
whether the file is absent, empty, or has a first line, `recorded` the ids in raw
records with the router each stood for. `Store` is the append of `id_for()`, and
`KilledCreating` a kill between the creation of the file and its first flush.

**Probing.** `Ping` and `TcpPing` translate an answer of the network into a
result, `Hops` those of a traceroute into its hops, and `encode_record` and
`decode_record` a result into twelve bytes and back. The width of a byte is the
constant `Byte`, so that the largest values of two and four bytes are small
numbers.

**Recording.** `config` is `config.json`; `StartRun` loads it, and a target's id
is its position in it (`prober.cpp:508-541`). `Probe` is a worker's probe and
the writer's part in it: the router's id from the registry, the raw record, the
rollup row. `Discover` appends targets and `Edit` is the user's. `ExportRow` is
what `export` writes for a raw record, `Shown` the sum that the ladder of
`analyze` shows for a name.

## 3. Runs

All runs use model values or small numbers and take between a second and about
two minutes with two TLC workers.

| Run (`.cfg`) | Checks | Instance, and why it is enough |
|---|---|---|
| `MCBlockingQueue` | `TypeOK`, `NoLostWakeup`, `Delivery`, `NulloptIsFinal`, `ImplementsClosableQueue` (with liveness) | 2 producers with 2 items each, 2 consumers: both may sleep while both items come, and one item may be stolen before its wakeup |
| `MCEventDetector` | `TypeOK`, `LogMatchesHistory`, `OneTracePerOutage`, `IdsAreRowNumbers` | 3 targets, the fewest that can share a fault; threshold 2; 6 steps of history: two outages, or one that opens while the other targets fail, with a gap, a shutdown, a crash, a kill that leaves `events.csv` empty, or a failed append in it |
| `MCStoreCrash` | `TypeOK`, `FlushedStaysOnDisk`, `FlushedIsExported`, `OneSegmentPerRecord`, `CleanStopKeepsEverything`, `VerifyRepairs`, `RetentionKeepsRecent`, `RecoveryCompletes` | 3 records, times 2 to 6 with segments and a retention of 2, two faults, each a kill or one of the four failures: two rotations, a restart in the slot of a sealed segment, a recovery that is killed or fails, a segment that expires |
| `MCStoreBeside` | `LosesOnlyWhatItRaces`, `VerifyAloneRepairs`, `WindowMissesLateOnly` | one `verify` or `export` beside a run or another `verify`; 2 records stamped up to 1 early, segments of 3, no retention, times 3 to 6, one kill, of either process: the part can grow, be sealed or be removed between any two steps of the second process |
| `MCWorkerPool` | `PoolTypeOK`, `NoBurstUntilLate`, `GapsAddUp`, `CollectedOnce`, `NoCatchingUp`, `QueueKeepsUp` | 3 targets of interval 4, delays up to 5, so that slots are missed; two suspensions of two lengths; 3 workers, probes of 1 or of the timeout, 4: all workers can be busy for an interval. Threads are symmetric |
| `MCPipeline` | `TypeOK`, `EachJobOnce`, `NothingLostIfHealthy`, `AllOutagesReported`, `UsesClosableQueue`, `ShutdownCompletes` | 2 workers, either of which may get no handle, 3 jobs, a suspension, threshold 2, an early return of the writer: results overtake each other, also over the suspension, so that an outage can end by a result stamped before its start, and one opens while the queue is drained |
| `MCRollup` | `TypeOK`, `EverySampleCounted`, `OnlyRecentPending`, `SummaryIsTrue` | 2 targets, 2 minutes of 2 ticks in one file, 3 samples stamped up to 1 early with two round trips, failures and a kill, also inside a flush or as the file is created: a minute can hold two samples of one target and be followed by a late one, and the row of a later minute can become the first line of the file |
| `MCRecording` | `RecordingTypeOK`, `IdsAreStable`, `ExportTellsProbe`, `AnalyzeTellsApart` | an ICMP, a hop and a TCP target, 3 routers, 2 runs, 2 probes and 2 changes of the configuration, before, between or after them; an append that fails, or a kill that leaves `addresses.csv` empty; bytes of 8 values, and answers on both sides of every edge |

The bounds (`Max...` in every module) only stop counters and clocks; each is the
guard of an action, or ends in a stuttering action (`Exhausted`, `Ended`,
`Terminated`, `Returned`), so that a deadlock TLC reports is one of the code.
`MCRecording` alone does not look for deadlocks: its components never wait for
one another, and it ends where probes, starts and edits are used up.

### Disagreements between the code and what is said of it

These runs state what a comment or the documentation says and end in a
counterexample. `PROJECT.json` quotes the lines.

| Run | Says | What happens |
|---|---|---|
| `MCStoreTwice` | export has one row per attempt (`README.md:280`) | a kill between the index row and the removal of the part: two rows for the file, and its records are exported twice |
| `MCStoreTruncated` | a seal that fails leaves the part intact (`seal.hpp:11-12`) | the next segment in the slot is opened under the part's name and truncates it |
| `MCPoolBurst` | packets never leave in a burst (`README.md:128-129`) | with a timeout above the interval jobs wait for workers, and packets of different targets leave closer together than their phases are |
| `MCPipelineGap` | failures before and after a gap are not merged (`events.hpp:53-54`) | a result overtakes the marker |

Beside each stands what does hold: `FlushedIsExported` and `VerifyRepairs` (a
rebuild exports everything once), `FlushedStaysOnDisk` (unless a `.zst` could not
be written), `NoBurstUntilLate` and `QueueKeepsUp`, and `AllOutagesReported` (the
log is right about the order in which the writer was told).

### Weak points that conditions in the properties mark

Each condition says how far a weakness of the code reaches. It was found by
stating the property without it and having TLC refute that.

- The CSV files get their header when they do not exist, and their readers skip the
  first line whatever it is. A kill between the creation of the file and the first
  flush leaves it empty, and the next row becomes the line that is skipped:
  - `events.csv` (`events.cpp:16-36`): the next start counts one row too few, and one
    id comes twice, in two rows that follow each other; `IdsAreRowNumbers` says so,
    and that no more than that happens;
  - `rollup/*.csv` (`rollup.cpp:62-72`, `analyzer.cpp:64-66`): the sums miss that row,
    which may be of a later minute than those lost in the kill. `EverySampleCounted`
    and `SummaryIsTrue` except it with the lost ones (`spoilt`);
  - `addresses.csv` (`address_registry.cpp:32-35`, `58-62`): the id of that row, though
    saved, resolves to nothing and is given to another router by the next run.
    `IdsAreStable` excepts it with those that could not be saved (`unsaved`);
  - `index.csv` (`index.cpp:26-36`): the first segment is not listed, as after a
    rewrite that was cut short.
- `IdsAreRowNumbers` ends at the first failed append: the row's id is used up
  (`events.cpp:29`), the next start counts rows, and an id is repeated.
- `LogMatchesHistory` takes "local" as the code has it, three quarters of the
  targets (`events.cpp:99`); `README.md:318` speaks of every target.
- `FlushedIsExported` ends when the creation of `index.csv` or a rewrite is cut
  short by a kill (`index.cpp:26-36`, `95`): the rows that are missing stay missing
  until `verify`.
- `LosesOnlyWhatItRaces`: a `verify` beside a run can write a `.zst` from a part
  it read before the run added to it, over the run's own, and the records flushed
  in between are gone. Nothing keeps the two apart (`cli.cpp:137-140`). And if it is
  killed as it writes such a `.zst`, all that the run had sealed into it is gone, also
  what was flushed long before the `verify` began, because the part it would be sealed
  from again has been removed (`Torn`). With a part that is there, and about to be
  sealed again, nothing is lost (`SealedAgain`).
- `WindowMissesLateOnly` allows a window to miss samples that are out of order,
  because `end_utc` is the time of the last arrival (`prober.cpp:359`) and the
  export skips by it (`exporter.cpp:57`). It speaks of one visit if a second process was
  killed: a `verify` that is killed after its `.zst` of an open segment leaves that
  file, and an `export` that has found no rows may read it and rewrite the index with
  what it held then, over the row the run appended when it sealed the segment.
- `NothingLostIfHealthy` excepts the early return of the writer
  (`prober.cpp:353`), of which nobody else takes notice.
- `NoBurstUntilLate` ends at the first iteration that is late by an interval:
  from then on the targets fire together, and nothing spreads them again.
- `QueueKeepsUp` needs a worker for every target and no timeout above an
  interval; otherwise the queue grows as long as targets time out.
- `EverySampleCounted`: a late sample makes a second row of its minute
  (`rollup.cpp:41`); the sums over the rows are right.
- `OnlyRecentPending`: a late sample flushes by its own time, so that a newer minute
  stays pending beside its own. How much newer is bounded by the disorder of the
  samples. In the midst of a flush what was pending when it began is at risk as well.
- `IdsAreStable` excepts ids that could not be saved
  (`address_registry.cpp:63`): the next run gives them to other routers. Its
  theorem also assumes that the 16 bits of an id do not run out.
- `ExportTellsProbe`: a TCP round trip in the last half tenth below the end of
  the range rounds up to the value for "not available" and is shown without a
  time (`tcp_probe.cpp:61-66`).
- `AnalyzeTellsApart` holds until a user edits the configuration: ids are
  positions in the file, and the sums of a later target continue those of an
  earlier one. It excepts targets that share a name, which a second `discover`
  after a change of route produces (`discover.cpp:68-96`).
- The theorems about `collect_due` assume positive intervals; `config.cpp:74`
  lets 0 through, and then `collect_due` does not return.

Noticed beside the properties: `discover` adds the destination itself, where
`discover.hpp:9-11` speaks of the intermediate hops, and rewrites `config.json` in
place; `types.hpp` says that `src_id` is an index into the segment's address
table, while it is an id of `addresses.csv`.

## 4. Fairness

Safety properties are checked without fairness. Liveness assumes:

- `BlockingQueue` and `ClosableQueue`: weak fairness of each thread's steps. A
  thread that holds or waits for the mutex gets it in the end; a waiting thread is
  not assumed to wake spuriously. With it `ImplementsClosableQueue` includes that
  after a close every item is taken and every consumer let go.
- `Pipeline`: weak fairness of the main thread's joins, of every worker, of the
  writer and of the tracer. A probe ends by its timeout and a traceroute by its
  limits on hops and time. Nothing obliges anyone to press Ctrl+C; `ShutdownCompletes`
  begins when the loop has seen the flag.
- `SegmentStore` (`FairSpec`): a process that was started goes on; samples need
  not come, and nobody is obliged to start or stop it. `RecoveryCompletes` is
  about a started process; the kills that can interrupt it are finitely many.

## 5. Assumptions of the models

- A kill is a kill of the process: what has been written to a file is there, and
  what is in the stdio buffer is lost but for a prefix that happened to be
  written. Loss of power is not promised by the documentation and not modelled;
  `seal.cpp` writes the `.zst` without an fsync before it removes the part.
- Where two processes share the directory, a file that one has open can be read
  and written but not removed by the other, as Windows has it for files opened
  without a sharing mode for deletion.
- A row of a CSV file, with the header if it is the first, is buffered and goes to
  the file in one write when the file is closed: a kill comes before it or after.
- The clock goes on between two processes that follow each other: two segments
  are not opened at one instant.
- Times are integers; the scheduler's `double`s are whole milliseconds.
- The monotonic clock stands still in a suspension, which is the case the gap
  check is written for (`prober.cpp:582-583`). Whether `QueryPerformanceCounter`
  does is the machine's affair.
- A trace or probe outcome is any of those possible: the models decide
  nondeterministically.
- The test hook `--simulate-gap-ms` is left out.

## 6. Proofs

TLAPS proves, for every value of the constants that satisfies the modules'
assumptions:

**BlockingQueueProofs** (any producers and consumers). The inductive invariant
`IInv` adds to the type invariant that the closer's position agrees with
`closed` (`CloserAgrees`) and that nobody sleeps after `notify_all`
(`NobodySleepsAfterClose`). `NoLostWakeup` is not inductive without them: it says
that when an item is queued and a consumer sleeps, someone awake or a pending
notification takes care of it, and the close adds a second kind of wakeup.
`Delivery` is proved as a step lemma on top: a push appends to the end of
`taken \o q` and a pop moves the boundary. `RefinesClosableQueue` maps every step
to a step of `ClosableQueue` or a stutter.

**EventDetectorProofs** (any targets, thresholds, clocks and restarts).
`TypeCorrect` needs no strengthening, but each path of `add()` has its own lemma;
the clamps (`GapStart`, the comparison in `close_outage`) are what keeps times from
becoming negative. `IdsNumberOn`: `IdsAreRowNumbers` with the type invariant is
inductive, because `LogEvent` is the only operation that touches either side, a row
that is not written sets `dropped` for good, and a restart counts rows. In a file
without a header the ids are those of a file with one up to some row and one behind
from there on (`NumberedBut`); the first restart after its first row sets where, and
the later ones leave it.

`LogTellsHistory` and `TracesMatchOutages` are `LogMatchesHistory` and
`OneTracePerOutage`. Their invariant `HInv` reads the history in the record of each
target: a target that is in no outage has had as many failures as it counts since
its run began, and none of its runs has come to the threshold (`HealthyRecord`); one
that is has the beginning, the opening and the counts of an outage that is not over
(`Describes`). It needs that a run has one beginning (`OneBeginning`), that an
outage is open for a target at most once (`OneOutage`), and that what the history
says of its first steps stays when it grows. The rows and the traces are then
compared as sequences that are in order and complete, which determines them; no
sequence is computed.

**WorkerPoolProofs** (any numbers of targets and threads, any intervals). First the
scheduler alone. `CollectInv` adds that what was collected in this call is due later
than `now` (`OutIsDueLater`) and that a target is due later than it was last
collected (`LastIsBeforeDue`); then `CollectedOnce` and `NoCatchingUp` follow. Both
need `Positive`, that no interval is 0: with interval 0 the new due time is `now`
again. `GapInv` says, besides `GapsAddUp`, that the markers add up to the difference
of the clocks kept from the last comparison, and that what came since is nothing or
more than the threshold. That `Earliest`, the minimum of the due times, exists rests
on `LeastNat`.

`PacketsAreSpread` is `NoBurstUntilLate`. `SpreadInv` says that until an iteration
takes an interval due times are those of the start, whole intervals later
(`OnSlots`), that an iteration leaves nothing due (`NothingLeftDue`), and that what
it has collected became due since the one before (`OutInWindow`). Two targets of one
iteration in time would then have phases closer than an interval divided by the
number of targets (`TooClose`). The theorem assumes `RoomForAll`, a unit of time for
each target, since the phases of the model are whole numbers and would coincide
otherwise, where those of the code are `double`s.

`PoolSchedules`: the pool is a refinement of the scheduler, since `Probe` leaves its
variables alone; `PoolIsOnTime` carries the scheduler's theorems over.
`JobsDoNotPileUp` is `QueueKeepsUp`, for as many workers as targets and no timeout
above an interval. Its invariant `KeepsUp` does not count busy workers but gives each
target one of its own (`Fits`): a worker is busy no longer than a timeout after the
last slot its target was served in, jobs wait in the order of their slots, and a
target whose job waits has a later slot as its due time. A job that is taken goes to
the worker that is free first, and the workers of two targets change places.

**SegmentStoreProofs** (any lengths of segments and retention, any disorder of
samples, any number of kills and failures). `FlushedSurvives` is
`FlushedStaysOnDisk` for every instance. It is not inductive by itself, because
sealing removes a part in the end. `IInv` adds:

- `SealedFirst`: a part that is about to be removed holds nothing that is not in
  its `.zst` or retired (`Behind`), whatever has failed before;
- `ZstIsOlder`: a `.zst` beside a readable part was sealed from it, so that the
  part can be sealed again over it, and a kill that tears the `.zst` costs nothing;
- `Care`: a part that is not behind is in somebody's care: it is being written or
  sealed, waits for the recovery that is under way, or the process is down and
  the next start will find it. This is where a failed write of a `.zst` breaks the
  argument, and where the theorem has its condition;
- `Times`: a segment is opened later than all that exist, so that one opened beside
  a sealed one of its slot, under its own time, does not take the name of another.
  One opened under the name of the slot may replace a part, but by `Care` only one
  that is behind, unless a `.zst` could not be written (`MCStoreTruncated`).

`StoreTypes` is the type invariant: a row is written for a segment that begins at a
time there is, and a rebuild's sorted rows are a rearrangement (`Sorted`).

`RecordsAreApart` is `OneSegmentPerRecord`, under any failures. `OInv` says that
the files of two starts share no record (`FilesApart`), that each ascends
(`FilesAscend`), and that what is in the buffer or in hand is later than all on disk
(`MemoryIsLater`), so that a flush can neither repeat a record nor disturb the order.

`RecoveredIsExported` and `RepairedByVerify` tie the files to the index with `XInv`:
while no operation has failed and no rewrite was cut short, a segment with records is
listed unless its part is still there (`Known`), a part is not removed before its row
is written (`JobListed`), and a part that can be read is somebody's to seal
(`PartsInHand`). A rebuild lists what there is, whatever was listed before, which is
why `VerifyRepairs` has fewer conditions.

`CleanStopsExport` is `CleanStopKeepsEverything`. `NoFaults` says what is so until
the first kill or failure: no segment has two rows (`RowsApart`) or a row without
its file (`ListedThere`), nobody's part lies about (`PartIsOurs`), a segment is not
listed before it is sealed (`NewRow`), and every sample taken is in a file, in
memory or retired (`NoneLost`).

`RecentIsRetained` is `RetentionKeepsRecent`, and assumes `LongRetention`: a segment
with the disorder of the samples is not longer than the retention, if there is one.
The code compares minutes with days and `config.cpp` checks neither; with a segment
longer than the retention, its file could be removed before its slot is over, and a
new segment take the name that a row of the index still has, with the old times.
`RInv` says that a row reaches as
far as the records of its segment but for the disorder (`RowsReach`), that the same
holds of what is sealed and written (`JobReach`, `RunReach`), and that a name that is
listed is not given again while it could matter (`Fresh`, `ListedTimes`).

The proofs about a second process, for any number of its visits, share `CInv` and
`OInv` with those about one: both are shown to be kept by `Moves`, the steps of the
first process including that of finding a part gone, and again by each step of
`Second`. What is true of one process only (`ZstIsOlder`, `JobReadable`) is not
used. `LossesAreRaced` is `LosesOnlyWhatItRaces`. Its invariant `VInv`, with
`PartsInHand`, says of each record that was flushed and is neither retired nor
exposed that it has a segment where it is safe from both processes: a part there
that can be read holds it, and it is sealed or that part is in care (`Safe`); and if
the second process is sealing the segment, it will write the record, and has written
it before it removes the part (`HeldSafe`). That the writing of what was read long
ago repeats no record takes `HeldApart`: what is held is older than all that is in
memory (`Old`), so that no other segment can get it meanwhile, and `HeldThere`: its
name is that of a segment that was there, so that none is opened under it. A kill of
the second process that tears a `.zst` leaves a record safe or puts it at risk
(`KilledSafe`): if the part is there and holds it, `PartsInHand` has the part sealed
again. With `CInv` and `OInv` these give `RecordsStayApart` too, under any failures.
`AloneVerifyRepairs` is `VerifyAloneRepairs`, from `PartsInHand`, which a second
process cannot disturb because it only removes parts, and `AloneIdle`, that a
command which was alone at its start and had no visit since has no second process
beside it.

`WindowMissesOnlyLate` is `WindowMissesLateOnly`, until a `.zst` or the index fails
to be written, and until the second process is killed; parts that cannot be removed
or opened, and kills of the first process, do no harm. It speaks of rows that either
process may write, on the strength of what it read some steps earlier, and its
invariant `WInv` is the largest of the project:

- what a row has to reach is what the files of its segment hold and what the second
  process is about to write there (`Owed`). Either the rows of the segment reach it
  (`Told`), or its part is still there and about to be sealed, with a new row
  (`Coming`, `RowsTold`);
- the same holds of the rows a rebuild has prepared and not yet written
  (`PlannedTold`), over all that happens in between. That needs `Due` segments,
  whose `.zst` lacks records of their part (`Stale`) or may come to, to be kept
  track of: a verify has each in its list (`StaleListed`), one that is written and
  was not there when the verify began has no `.zst` yet and no row in what is
  prepared (`ActiveNew`), and the others have a row both in the index and in what is
  prepared (`DueHasRow`), so that it is the row, and not its absence, that makes the
  export read them;
- whoever removes a part has sealed it whole (`JobSealed`, `HeldWhole`) and told its
  records (`JobTold`, `HeldTold`); a part that can be read is somebody's to seal or
  bears a name that no segment gets again (`PartNamed`, `Named`), which is where
  `LongRetention` comes in: a file that expired before its slot is over would free
  the name.

Its hypotheses are needed. TLC refutes the property if the index can fail:
`seal_part` ignores what comes of `append` and removes the part (`seal.cpp:95-99`),
so that an older row of the segment, with an earlier end, is all that is left; if
the `.zst` can, after three faults; and if a segment is longer than the retention.

**PipelineProofs** (any number of workers, jobs and suspensions). `JobsAreKept`
is `EachJobOnce`: the ids in the two queues, at the workers and behind the writer
are all that were issued and none is at two places (`Placed`), which needs that
none is twice in one queue (`Apart`) or at two workers (`WorkersApart`), and that
only markers have no id (`Marked`, `WorkersHoldJobs`). `NothingIsLost` adds the
order of closes and joins (`SInv`): a worker returns when the jobs are closed and
drained, unless it has no handle (`JobsDrained`); the samples are closed when all
workers are gone, and the writer ends when they are drained (`SamplesDrained`);
and a writer that has not returned early has written what it took (`AllWritten`).
`SamplesAreAQueue` is the refinement `UsesClosableQueue`.

`DetectorIsDriven` is a second refinement: the threads together behave, for the
detector's variables, as `EventDetector` told any stamps. With it the theorems of
`EventDetectorProofs` hold of the whole process: `OutagesAreReported`, which is
`AllOutagesReported`, adds that the tracer ends when all traces are run and the
writer when no outage is open (`TracesDrained`), and `PipelineTypes` that stamps, job
numbers and suspensions stay in their ranges (`InBounds`, `Flags`).

**RollupProofs** (any finite set of targets, any length of a minute, samples as late
as may be, any number of stops, kills and failures). `RollupTypes`,
`EverySampleIsCounted` and `SummaryIsTold` rest on one invariant, `TInv`: for every
minute that is not spoilt and every target, rows and bucket together are a `Tally` of
the samples. They count each once (`Counted`); each round trip is in the bucket or
between the extremes of rows, and each extreme is a round trip (`Bounded`); and if
all are available, the sum of the rows' averages, each weighted by its answers, is
off from the sum of the times by at most half a unit for each answer that is in a row
(`Averaged`). A sample adds one to each side; a flush moves a bucket to a row and
rounds it once. A row that becomes the first line of a file spoils its minute and
target, and no other.

`OnlyRecentMinutesAtRisk` is `OnlyRecentPending`. Its invariant `PInv` says that no
sample is stamped later than the clock or more than `Jitter` before one that came
earlier (`OnTime`), that a bucket is of the minute of a sample (`Known`), and that
outside a flush none is before that of the latest sample (`Young`).

**RecordingProofs** (any routers, targets and answers, any width of an id and of a
byte, any number of starts, probes, discovers and edits). First the registry alone.
`SavedIdsResolve` assumes that `next_id_` does not come back to 0 (`NoWrap`). `IInv`
adds that the rows below the first line ascend (`RowsAscend`), so that the last row
of an id is its only one; that a run knows the address of every row
(`RowsAreKnown`); and that an id in use was saved for its address or is unsaved
(`UsedAreSaved`). `RegistryIsDriven` is a refinement: every step of the whole is one
of the registry or leaves it alone, so that this holds of the whole
(`RoutersResolve`).

`RecordingTypes` is the type invariant, with what a target, an answer and a row are
(`DataTypes`). It rests on `RoundTrip`, that a record is read from its twelve bytes
as it was written if its values fit them, on `ResultIsTold`, that the result of a
probe tells of its answer and fits, and on `HopsType` and `DiscoverAppends`, that
responders are addresses and a discover changes no target that is there.

`TargetsAreToldApart` is `AnalyzeTellsApart`. Its invariant says that each row of the
rollups is that of its probe (`RowsAreTrue`), and, until a user edits, that the targets
probed or loaded have their places in the file still (`IdsAreKept`); then the rows
of an id and of a name are those of one target (`OwnRows`).

`ExportIsTrue` is `ExportTellsProbe`. A record is true (`RecordIsTrue`) if its bytes
are those of its probe, its segment's table has the name, and its router's id was given
to that router, of whom none has the id 0 (`RoutersAreNumbered`). A step of any actor
leaves it true, since numbers are only added; that the id resolves is then
`IdsAreStable`.

These theorems have hypotheses where the code has no check: `TargetsFit`, that there are
not more targets than ids of 16 bits (`config.cpp:65`); `NoWrap`; and
`OffsetsFit`, that no probe ends later than four bytes of milliseconds, 49 days,
after its segment began. All hold in the run, whose bytes of 8 values bring the ends
of the range of a round trip within reach.

## 7. What is only model-checked

- Liveness: `ShutdownCompletes`, `RecoveryCompletes` and the liveness part of
  `ImplementsClosableQueue` are beyond the prover.

- `WindowMissesLateOnly` where the second process is killed.

All other safety invariants and action properties the passing runs check are proved;
those of `MCStoreBeside` for any number of visits, kills and failures, as far as the
theorem says.

## 8. What is not modelled, and why

- The live dashboard, the tables of `analyze`, log lines, and the formatting and
  parsing of times: presentation, on which no state depends.
- The parsing of arguments and of JSON, and the defaults of the configuration.
  What it lets through is an input of the models.
- Sockets, ICMP handles and name resolution: Windows I/O. What the program makes
  of an answer is in `Probing`.
- The times of a traceroute's hops, and the moment at which a trace is abandoned
  on shutdown: a trace ends, and that is what the pipeline needs.
- The percentiles of a rollup row, which nothing in the program reads.
- Errors of a stream after its file was opened: a write to `events.csv`, `index.csv`,
  `addresses.csv`, a rollup or a part that fails in the midst, as on a full disk. The
  code does not look for them, but for the `.zst`, whose failed write is modelled.
- The header and the compression: a file can be read or cannot.
- The target filter of `export`: a condition on each row.
- The PowerShell scripts: they read exported files and keep no state.

## 9. What is left

- `MCStoreBeside` with failures. With two kills, and with two visits, it has been
  checked once (4.0 and 6.4 million states); those instances are beyond what a run
  should take, and so is `MCRecording` with three starts (4.7 million), also checked.
- A negative `min_outage_ms`, which suppresses every outage (`events.cpp:113`), is
  covered by `LogTellsHistory`, for any value, and by no run. A wall clock that is set
  back comes in `MCPipeline` only as results that overtake each other.
