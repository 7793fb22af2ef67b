# din: a TLA+ verification project

din takes vehicle telemetry over HTTP, writes it to a NATS JetStream write-ahead
log (WAL) and moves it from there into a DuckLake table (`raw_events`) that
downstream consumers read as a change feed.  What it owes its devices and its
consumers is at-least-once delivery under crashes, redelivery, lost replies and
bad rows, and a lake whose maintenance never deletes what a live reader needs.
This project models the parts of the program that carry that promise, checks
them with TLC on small instances and proves their safety properties with TLAPS
for every instance.

## The system's parts

| Part | Source | Module |
| --- | --- | --- |
| parquet sink: fetch loop, `Run`, flush workers, `isolate`, drain, restart | `internal/sink/sink.go` | `Sink`, `Bisect`, `Isolate`, `AtLeastOnce` |
| sink backpressure: `inflight`, `flushed`, `applyBackpressure` | `internal/sink/sink.go` | `SinkMemory` |
| zero-progress watchdog: `commitFailFirst`, `recordCommitFailure`, `fatal` | `internal/sink/sink.go` | `CommitWatchdog` |
| lake writer: `WriteBundle`, `ErrPoisonRow`, commit retry | `internal/lake/writer.go` | outcomes in `Sink` and `Isolate` |
| snapshot expiry and the consumer floor | `internal/lake/maintain.go`, `consumer.go` | `LakeExpiry` |
| process wiring: consumer configuration, boot order | `cmd/din/main.go` | the broker part of `Sink`, `WalLayout` |
| ingest handlers, blob split, WAL publisher, retries of the device | `internal/handler`, `split`, `stream/publisher.go` | `Ingest` |
| cloudevent conversion, attestation | `internal/convert`, `fpvalidate`, `attest` | outcomes in `Ingest` |
| WAL streams, partition routing, rescale | `internal/stream/stream.go`, `subjects.go` | `WalLayout` |
| decode bridge | `internal/decodestream` | `Bridge`, `Signals` |
| rate limiter | `internal/server/middleware.go` | `RateLimiter` |
| filesystem object store | `internal/fsstore` | `FsStore`, `ObjectStore` |
| bootstrap, table layout, backfill | `internal/lake/lake.go`, `ddl.go`, `backfill.go` | `LakeLayout` |
| rewrite, merge, file cleanup, orphan sweep | `internal/lake/maintain.go` | `LakeFiles`, `MergeRamp` |
| row encoding, object store clients, blob encryption, configuration, embedded NATS | `internal/lake/row.go`, `s3client`, `objstore`, `blobcrypt`, `config`, `natsembed` | not modelled |

How they interact: a handler answers 200 only after JetStream accepted the
event; one sink per WAL partition pulls the partition's messages, batches them,
commits each batch to the lake in one transaction and acks what it committed; a
maintainer merges the lake's files and expires its snapshots behind the slowest
live consumer; the decode bridge is a second consumer of the WAL and republishes
decoded signals to streams of their own.

## The modules and the code

**`Bisect`** holds the bookkeeping of one `isolate` pass: `isolateState`'s two
counters and the call stack of `isolateRange`.  The recursion visits contiguous
ranges from left to right, so the stack is a left edge and the sequence of right
edges of the calls that have not returned.

**`Isolate`** is one pass over one bundle.  Every `WriteBundle` call is one step
whose outcome the writer chooses (commit, rejection of a row with or without
`ErrPoisonRow`, failure for no fault of the rows, commit with a lost reply); what
follows (ack, terminate, split, return) is the code's.

**`Sink`** is the whole sink of a partition.  `Fetch`/`FetchExit` are
`fetchLoop`; `RunReceive`, `RunTick`, `RunFatal`, `RunLoopEnds`, `RunDrain`,
`RunReturn` are the select loop and the shutdown of `Run`; `FlushReady` and
`Enqueue` are the functions of those names; `TakeJob` to `IsolateEnds` are a
worker in `flush`, `ackAll`, `isolate` and `isolateRange` (through `Bisect`).
Write and ack are separate steps, so another worker, the broker or a crash may
come between them.  The broker is external: it delivers, redelivers when
`AckWait` lapses, gives up after `MaxDeliver`, and outlives the process.  Time is
left out: an age trigger may fire at any moment.

**`AtLeastOnce`** is what the sink promises, without saying how: rows are stored
in transactions, a message leaves the WAL because it is stored or because it is
dropped, and a good message is dropped only after the lake has accepted
something.  `Sink!KeepsPromise` instantiates it with a refinement mapping.

**`SinkMemory`** keeps only sizes.  `enqueue` sends a bundle and then adds it to
`inflight`, `flushDone` subtracts and then signals; the four statements are four
steps that interleave with everyone else's.

**`CommitWatchdog`** runs `recordCommitFailure` statement by statement (read the
clock, load, compare-and-swap or compare) against the stores that clear
`commitFailFirst`.  Instants are kept as ages, which makes the state space
finite without bounding time.

**`LakeExpiry`** has the catalog's snapshots, `din_consumer_progress`, and one
maintainer whose cycle reads the floor, freezes the cutoff, merges for a long
time and expires.  Writers, consumers and the clock act between any two steps.
`RecordConsumerProgress` may name any snapshot at any time, also the first time and
also one further back, as the code allows.  The history variable `guarded` has the
consumers that the cycle under way must not hurt: those whose rows its floor was
read from, and those that reported since without leaving behind a snapshot that
retention reaches (`Unreached`).  A consumer that first reports, returns or moves
back behind such a snapshot while a cycle runs is guarded from the next reading of
the floor on.

**`Ingest`** is the path from a device's POST to the WAL.  Every attempt of the
device has a handler of its own: `Convert` or `Parse`, then three loops over the
events (`Split`, `Submit`, `Await`), then `Answer`.  A device that gives up sends
the next attempt while the old handler runs on, its context cancelled
(`HungUp`).  `Deliver`, `Lose` and `Forget` are the stream: it stores, drops a
duplicate id, refuses when full, loses a message or an ack, lets the duplicate
window lapse.  An event is reduced to what the code tells apart: a bad VIN, a
fingerprint that does not convert, one over `max_payload`, one that `MarshalJSON`
fails on, and whether the
device gave it an id of its own (a default filled in by
`ValidateHeadersAndSetDefaults` differs from attempt to attempt).  The signer of an
attestation is its source, a contract that confirms or denies, or one at which the
ERC-1271 call fails every time.

**`WalLayout`** has pods that boot with the partition count they read
(`checkStaleStreams`, then one `CreateOrUpdateStream` per step), publish and
drain, and an operator who follows `docs/wal-partition-rescale.md`.

**`Bridge`** is `runPartition` on two pods that share the durable consumer, with
JetStream's redelivery between any two statements.  **`Signals`** is what
`submitSignals` does to one message's signals: `pruneFutureAndDuplicateSignals`,
then `processSignal` index by index.  Timestamp 0 is the zero `time.Time`, which a
signal without a timestamp has and which `lastTime` has when there is no triple.

**`RateLimiter`** is one shard: a bounded map of token buckets, beside an ideal
limiter that never forgets.

**`FsStore`** is `PutObject`, one step per system call, any of which may fail, with
concurrent uploads and a machine crash.  The filesystem promises what POSIX does:
bytes are safe once the file was fsynced, an entry once its directory was, and a
new directory only once its parent was, which the code never does.  `maybe` has the
names an entry may show after a crash (any rename since the last fsync, or none of
them), `rooted` the directories that cannot be lost.  The chain of directories that
`MkdirAll` makes counts as one; `Init` lets every directory be new or old.
**`ObjectStore`** is what a caller of `split.ObjectStore` can rely on, and what
`FsStore` is shown to implement: an object appears whole and in one step (`Publish`),
an upload is answered (`Ack`) once it is on disk (`Settle`) or the disk has refused
(`Hamper`), and a crash takes back only what has not settled, or what lies in a
directory that is not firm.

**`LakeLayout`** interleaves boots and maintenance cycles (`tryEnsureSchema`,
`reassertLayout`: three reads, then up to two ALTERs) with a backfill that may
fail or be killed at every step and is rerun.

**`LakeFiles`** has the bytes in object storage and what the catalog says of them:
writers put a file before they commit it, the steps of `Cycle` supersede, schedule
and remove, readers fetch what they planned, and the catalog may be restored to an
earlier state, after which the operator follows
`docs/catalog-backup-restore.md`.  **`MergeRamp`** is the cap on the files of one
merge call: `mergeCeiling`, the doubling, the halving on an out-of-memory error,
the restart after four failed cycles.

**`Front`** (`Ingest`, `Signals`, `RateLimiter`, `WalLayout`, `Bridge`) and
**`Storage`** (`FsStore`, `LakeLayout`, `LakeFiles`, `MergeRamp`) put parts that share
no state side by side: a variable `focus` says which of them a behaviour runs.
Every constant of a part is a constant of the composition, so a theorem about the
composition holds for all of its values.

`MCIsolate`, `MCSink`, `MCFront` and `MCStorage` only supply values for the
constants, symmetry and, in `MCStorage`, two scopes (below).

Definitions whose comment begins with "Variant" are mutations of the definition
that follows them.  No specification uses one: each is the plausible mistake that
a property must be able to detect.

## What the runs check

`isolate` (58 thousand states; every bundle of one to three rows, bundles of up
to six rows that are uniform but for one row, a probe limit of 3).  A message is
acked only after a commit of its row; the bisection writes no row twice unless a
commit's reply was lost; a message is terminated only on evidence; an outage
costs at most `isolateProbeLimit` writes; with the writer up, a pass settles what
can be settled, always shrinks a small bundle and pays O(log n) commits for one
bad row; the pass ends.  A bundle of three rows already has every shape of
split; the larger ones are there for the logarithm and for the short-circuit.

`sink` (1.8 million states; two messages of any kind, two workers, two
deliveries each, one fault).  Redelivery may come at any moment, also while the
message is in the process, so two workers may hold the same message.  Nothing is
forgotten before it is stored, nothing good is dropped without evidence, no
delivery leaves two rows, and each step is one that `AtLeastOnce` allows.  Two
messages are enough for a bundle with a good and a bad row; one fault (crash,
shutdown, timeout, lost reply, failed write) is enough to meet each of them at
every point, and the proofs below lift the bound.

`sink_live` (three deliveries, one fault): every message the writer can persist
is persisted, in spite of a poison neighbour and a fault.  It assumes that
`AckWait` outlasts a message's stay in the process, and more deliveries than
faults: without either the broker's delivery budget can run out, which
`MaxDeliver` accepts by design.

`watchdog` (two workers, a window of five ticks, delays of at most one tick): a
streak never outlives a commit by more than the delay; `fatal` is posted only
after a window without commits, give or take the delay; a writer whose
connections are durably poisoned is always replaced.

`memory` (two workers, a queue of two, footprints of one and two, seven
messages): the tally is exact whatever the order of `enqueue` and `flushDone`;
what the sink holds stays below the ceiling but for one message;
`applyBackpressure` always returns, although `flushDone` drops tokens.  Seven
messages fill the buffer, the queue and both workers and leave some over.

`expiry` (0.5 million states; two consumers, three snapshots, four ticks, one fault):
a cycle drops no snapshot that a consumer it counted as live has yet to consume,
although the floor is read long before the expiry that relies on it, nor one of a
consumer that appears, returns or moves back later, unless retention was already
giving it up; nothing is expired before its
retention; a consumer that stopped reporting does not hold expiry back for ever.
The settings respect `validateMaintenance` (staleness below retention).

`front` (0.7 million states).  *Ingest*: seventeen payloads of up to two events,
three attempts, two faults.  A status code never says more than is true: 200 means
that every event (but a fingerprint with a bad VIN, which is dropped by design) is
in the WAL with its blob, 500 leaves out only what failed to split or to validate
(and, behind an event that cannot be marshaled, anything), and 400 and
413, which a device does not retry, are earned by the payload and never the work
of a passing fault.  An event with its own id is stored once per lapse of the
duplicate window, although handlers of abandoned attempts publish late.  The
device gets a final answer, unless its payload is one of three kinds that are
answered 500 for ever (`Hopeless`).  Two events are enough for a failure before and one
after a success; two faults make three attempts overlap.  *WalLayout*: two pods,
one to three partitions, two rescales; no backlog is left in a stream the pods of
the configured count do not consume.  *Bridge*: two pods, a message with two names
and one with none, two deliveries; an acked message has all its names published.
*Signals*: every sorted batch of up to three signals over four instants, one of
them in the future, or without a timestamp, with a pairing window of two; the result is compared with a
reference that knows no order of processing.  *RateLimiter*: three remotes, a map
of two, a burst of three; an eviction is invisible to the evicted, except when no
bucket is full, where it may only give tokens back.

`storage` (0.8 million states).  *FsStore*: three uploads to two keys of a directory
that is new or old, and a crash; a refinement.  *LakeLayout*: a backfill over two
prefixes with three files, in two scopes: a lake with one maintainer, two runs and
two faults, or a new lake with a second pod, one run and one fault; every file is
registered, none twice, and the table's layout always comes back.  *LakeFiles*, also in two scopes: three files and a reader, or two files, a
reader and a restore; no bytes are removed that a reader has planned, a writer is
about to commit, a restored catalog has forgotten or a snapshot shows.
*MergeRamp*: a backlog of 34 files, memory for 1, 32 or 100, an operator's pin or a
derived ceiling, four faults (enough for the restart after four strikes); the backlog
is always worked off.  The scopes (`InScope` of `MCStorage`) keep the run small where
all of it together is not; the safety properties are proved without them.

The durations of `LakeFiles` are small but keep the relations the configuration
is chosen for: the grace is at least the longest read, and the orphan retention at
least the longest write, the age of a restored state and the time until the sweep
is frozen, together.  With any of them broken the property fails.

Four runs show the code and its comments disagreeing; each is a violation of
what the comment says:

- `isolate_large`: the short-circuit is said to fire only in an outage
  (`sink.go:91`).  A bundle of 2^8 rows or more whose first row is poison spends
  all eight probes on ranges holding that row, so a healthy writer is given up on.
- `watchdog_poison`: a poison-heavy but healthy period must never trip a restart
  (`sink.go:621`).  Two bundles of nothing but rejected rows, a window apart and
  with no commit between them, do.
- `memory_pod`: the pod total is said to stay bounded whatever the partition
  count (`sink.go:125`).  The pipelining floor of 3x per sink undoes the division.
- `expiry_cursor`: expiry is said to spare the snapshot at the slowest live
  cursor (`README.md:39`).  The query protects only what comes after it.

Reading the code for these models brought up some more places where it and its
comments part, or where a promise has an exception.  No run is devoted to them:

- `publisher.go:102` speaks of a joined error whose precedence is preserved; the
  code returns the error of the lowest failing index, and `PermanentIsEarned`
  depends on that (joining the errors is its mutant).  A 413 may still hide the
  retryable failure of an event *behind* the oversized one.
- Three kinds of payload are answered 500, which invites a retry, on every attempt:
  an attestation whose ERC-1271 call always fails (no contract there, a revert:
  `attest.go:251`), one over the split threshold whose `data_base64` does not decode,
  and an event that cannot be marshaled (`publisher.go:165`).  `DeviceServed` leaves
  them out by name.
- `fsstore.go:8-9`: "an acked write survives a crash".  An error of the directory's
  fsync is dropped (`fsstore.go:98-101`), and the entries of directories that
  `MkdirAll` makes are never fsynced (`fsstore.go:64`); in both cases a crash may undo
  an answered upload.  `ObjectStore` allows these two losses and no other.
- `location.go:36-38` speaks of sufficiently close timestamps.  While `lastTime` is
  zero no gap is measured, so a coordinate without a timestamp is joined with one of
  any time; `Near` says so.
- The repository's `README.md:39` covers every live consumer.  One
  whose first report, or whose report after a silence, comes between the reading of
  the floor and the expiry is not counted by that cycle, and may lose a snapshot
  behind it that is past retention.
- `backfill.go:45` says idempotent.  A file that a merge has taken out of
  `ducklake_list_files` is registered again by a rerun; `BackfillExact` states the
  exception.
- `lake.go:543` says the race with the maintainer is closed.  A maintainer that read
  "no pause" before the first heartbeat and the specs after the RESET still
  re-partitions the table in the window; the batch fails and a rerun recovers.
- A catalog restored to an earlier state names files whose cleanup has happened
  since (`dangling` in `LakeFiles`): the grace does not cover the age of a backup.  A
  reader that plans such a file gets an error; its bytes are not among those the
  property protects, since they were gone before the plan.
- A latitude may be paired with an older longitude inside the window (the sort puts
  a latitude first, so a lone longitude waits for it), and an early HDOP may split a
  near pair; the reference of `Signals`
  therefore demands a location only for a batch with one good pair.
- A rolling grow of the partition count that is rolled back while old pods run
  leaves streams that those pods do not check again: the guard runs at boot.

Deadlock checking is off where the system may stop: a finished isolate pass, a
WAL with nothing left to deliver, a bounded supply of messages, faults or
uploads, a device that has its answer.

## Fairness

Weak fairness throughout: a goroutine that can run does run (the Go scheduler);
a `WriteBundle` call returns because `FlushTimeout` bounds its context; the
ticker keeps firing; JetStream redelivers what is not acked; a stopped pod is
restarted by its supervisor; maintenance cycles follow each other on a ticker and
each step is bounded by `maintStepTimeout`; time passes.  A handler goes on (its
waits end with `publishAckTimeout` and `erc1271CallTimeout`), the stream handles
what reaches it, the device retries and reads its answers; a pod's boot and
cycle, a running backfill and the merge loop go on.  No action of the environment
that does harm (crash, lost reply, cancellation, a rerun, a kill) is fair.

## What is proved

Every safety property of the passing runs is also a theorem: the run checks the
definition on a small instance, the theorem states the same definition for every
value of the constants.  A proof module extends its specification and shows an
inductive invariant.  For the instances in `Front` and `Storage` a step of the
composition is a step of one part and leaves the others as they are (`FrontSteps`,
`StorageSteps`), so the invariant of a part is one of the whole.

- `BisectProofs`: facts about ranges.  The right edges increase towards the
  bottom of the stack; returning, committing and splitting keep that; the
  midpoint of a range of two rows or more lies strictly inside it.
- `IsolateProofs`: for every bundle and every probe limit, `TypeOK`,
  `AckedIsStored`, `OncePerPass`, `TermedOnEvidence`.  `OncePerPass` is not
  inductive as it stands; the strengthening (`Untouched`) says that a row at or
  right of the left edge is stored only as often as its commits were ambiguous,
  and is neither acked nor terminated.  Then what a pass achieves and costs:
  - `OutageProbes`, an invariant of its own;
  - `CompletePass`: everything left of the left edge is settled as its kind
    demands (`Settled`), and the edge is past the last row when the stack is
    empty (`LastEdge`);
  - `SmallBundleProgress`: while nothing is settled every write has at least
    halved the range, so `a` writes leave fewer than 2^(ProbeLimit - a) rows
    (`Shrinking`), and one row is left before the probes run out;
  - `LogarithmicProbes`: a range that holds the bad row has `Left` halvings to
    go, and the writes done and owed stay within two for each (`Narrowing`).

  The prover knows no law of 2^n.  `PowerIsCount` takes it from the library's
  cardinality of SUBSET: 2^n is the number of subsets of 1..n; doubling and
  growth follow.
- `SinkProofs`: for every number of messages, workers, deliveries and faults and
  every limit, `TypeOK`, `AckedIsStored`, `DropsHaveEvidence`,
  `OneRowPerDelivery` and the refinement `Spec => KeepsPromise`.  The invariant
  adds what each worker knows at its step (`WorkerInv`: a worker about to ack has
  stored what it acks; a pass that counted a commit stored something) and that no
  delivery in the process carries a number the broker has not reached
  (`CopiesKnown`).  `OneRowPerDelivery` needs a second one: a delivery is in one
  place of the process only (`Separate`: the channel, the buffer, one queued
  bundle or one worker), and one that is still to be written has no row but those
  of its ambiguous commits.
- `GuardProofs`, what keeps a sink within its memory and its pod alive.
  `SinkMemory`: for any finite number of workers, any
  footprints and any limits, `TypeOK`, `TallyExact`, `CeilingHolds`.  What the
  workers hold is a sum over a finite set, folded by the library; the sum changes
  by one summand when one worker does.  The invariant says what `Run` knows at each
  of its statements: before it takes a message, the sink is under its ceiling.
  `CommitWatchdog`: for any number of workers and any window, `WatchdogTypeOK`,
  `StreakIsRecent`, `FatalMeansStarved`.  The invariant bounds the age of a
  loaded streak as well as of the shared one.
- `LakeExpiryProofs`: for any number of consumers and snapshots and any setting,
  `TypeOK`, `LiveLosesNothing`, `RetentionKept`.  The invariant says that snapshots
  are minted in the past (`Clock`), that what a guarded consumer has yet to see is
  beyond the floor that was read or too new for the horizon that will be
  (`FloorHolds`), and that nothing it has yet to see is older than the frozen cutoff,
  which is itself past retention (`CutoffHolds`).
- `MessageProofs`, what becomes of one message.
  - `Ingest`: for every set of payloads, any number of events, attempts and
    faults, `AnswerIsTrue`, `PermanentIsEarned`, `StoredOncePerWindow`.  None is
    inductive.  The invariant says how far each handler's loop has taken each event
    (`Stages`), what an outcome says of its event (`Kinds`), that nothing is published
    before its blob is stored (`Blobbed`), and that an ack, and an id in the duplicate
    window, stand for a stored message (`Held`); the answers follow from these
    (`Deserved`: the outcomes behind each status code), and stay true because the WAL and the blobs only grow.  Copies are counted against
    lapses of the window (`Counted`): an id in the window is worth one copy more.
  - `Signals`: for batches of any length, any timestamps and any pairing window,
    `DecodeMatchesReference`.  The loop of `dropPruned` is a recursive function; that it
    keeps the other signals, in order, is a monotone map from what it returns to what
    it was given (`Picks`).  So pruning leaves a sorted batch with one signal for each
    name and time (`Cleaned`: the last of a run of equals).  The loop over it takes out
    only coordinates it has passed (`Scanned`), all of them but the parts of the
    triple under construction (`OthersHeld`), which lie in the window that `lastTime`
    opens or have no timestamp (`TripleHeld`, `Within`).  A location is made of what is taken out, so no part is used
    twice (`Locations`), and a lone good pair is joined or still in the triple
    (`PairKept`): neither a gap nor a repeat closes the triple between its parts.
- `FrontProofs`, one section per part of `Front`:
  - `RateLimiter`, `EvictionInvisible`: inductive together with the types and the
    finiteness of the map;
  - `WalLayout`, `NothingStranded`: once a pod of the configured count has made its
    first stream, every other layout is shut out; before that the unpartitioned
    stream may still appear (`LayoutHeld`);
  - `Bridge`, `AckedIsPublished`: a publish counted as done is in the decoded
    stream, and a worker acks only what has all of its publishes done.
- `StorageProofs`, one section per part of `Storage`:
  - `LakeLayout`, `BackfillExact`: what a run still has to register was not
    registered when it read the catalog and, but for merged files, is not now;
    what it has gone past is in the table (`WorkExact`);
  - `FsStore`, `StoreImplements`: the refinement of `ObjectStore`; the invariant
    says that what a directory names, or may name after a crash, was fsynced before it
    was renamed there (`StoreWhole`), and what each upload has behind it at its step
    (`StoreAt`: one about to return is on disk, or its fsync of the directory failed);
  - `LakeFiles`, `BytesOutliveTheirUse`, for any number of files and readers.  A file
    that a reader planned is visible, or was retired after the plan was made, so it is
    younger than the grace (`ReadersSafe`); a file a writer holds, or one a restore
    has lost, is younger than the orphan retention until the sweep is frozen
    (`WritersSafe`, `ForgottenSafe`).

The assumptions are the named `ASSUME`s of the modules: a payload has at least
one event and at most `MaxEvents`, an attestation exactly one, limits are positive,
`QueryGap` (the time between the two queries of `expireCutoff`) is at most the
retention, and a sink has
finitely many workers and a largest message (JetStream's `max_payload`).  A
module that is instantiated states its assumptions as an operator, `Configured`,
which `Front` and `Storage` assume of their instances: partition counts are
positive, a burst is a number, an upload has a key and a key a directory, a listed
file is under one prefix and listed once, the pairing window of `Signals` is not empty,
and in `LakeFiles` the windows cover the durations they are there for and
the catalog is restored at most once.  The last is needed: a file
that was registered again after one restore is older than its catalog entry, and
TLC finds a second restore, to a state before that entry, that leaves it an orphan
old enough to be swept before anyone freezes the sweep.

The provers cannot instantiate an induction principle, so the few facts that need
induction over numbers or finite sets get it from a least counterexample
(`LeastExists`) or a closed set of subsets: the induction predicate becomes a set.
A leaf that Zenon proves names it: the time an SMT leaf takes to translate grows
with their number in a module.

Only model-checked: liveness (`PassEnds`, `HealthyIsStored`, `PressureEnds`,
`BrokenIsReplaced`, `ExpiryProceeds`, `DeviceIsServed`, `LayoutRestored`,
`MergeConverges`), which is out of the prover's reach.

## Not modelled, and why

- The instants of the age triggers in `Sink` (any moment is allowed) and the
  relation between `MaxAgeHard`, `FlushTimeout` and `AckWait` (the constant
  `AckWaitCovers` covers both cases).
- The pool of pinned connections and the conflict retry inside one `WriteBundle`
  call: only the outcome of the call reaches the sink.
- What the NATS client does inside `PublishMsgAsync` (it blocks when its window of
  pending acks is full), and the headers of a message.
- The chain of directories above an object, short writes and the order of a listing
  in `fsstore`.
- Metrics, logging and the gauges polled in the background; `reportConsumerHealth`
  only reports.
- Field-by-field row encoding, the payload decoders of model-garage, AWS and RPC
  adapters, signatures, AES-GCM, reading the environment, starting a NATS server,
  listeners and TLS: no protocol state of their own.
- `lake.Open` before the table exists for the model: loading extensions, the write
  options, the encryption check.  They run once, in order, and fail the boot.
- What DuckLake and JetStream do inside: a merge that makes progress with one file
  per call, a commit that is atomic, a stream that keeps what it acked are
  assumptions of the models, taken from how the code uses them.
- The order in which signals reach consumers of the decoded streams after a nak:
  the code promises none.
- The death of a WAL message by `MaxDeliver` or `MaxAge` is configured behaviour: the
  properties that meet it name it as an exception.
