--------------------------------- MODULE Sink ---------------------------------
(***************************************************************************)
(* The parquet sink of one WAL partition: JetStream delivers messages, the  *)
(* Run goroutine batches them, flush workers commit the batches to the lake *)
(* and ack what they committed.  A bundle that fails is isolated (Bisect).  *)
(* The WAL (external) redelivers what is not acked in time and outlives the *)
(* process; the process may be stopped, or may crash, at any point.         *)
(*                                                                         *)
(* Time is left out: a trigger that depends on age may fire at any moment.  *)
(* So is size: how applyBackpressure bounds memory is module SinkMemory.    *)
(***************************************************************************)
EXTENDS Bisect, FiniteSets

CONSTANTS
  Msg,               \* the messages of the partition's stream
  Worker,            \* the flush workers
  MaxRowsPerFlush,   \* rows at which the buffer must be handed off
  JobsCap,           \* capacity of the jobs channel (Workers * 8)
  FetchBatch,        \* capacity of the msgs channel
  MaxDeliver,        \* deliveries after which the broker gives up
  PoisonThreshold,   \* poisonRedeliveryThreshold
  ProbeLimit,        \* isolateProbeLimit
  AckWaitCovers,     \* AckWait outlasts the time a message spends in the process
  MaxFaults          \* bound: everything that goes wrong around the sink

ASSUME SinkAssumption ==
  /\ MaxRowsPerFlush \in Nat \ {0}
  /\ JobsCap \in Nat \ {0}
  /\ FetchBatch \in Nat \ {0}
  /\ MaxDeliver \in Nat \ {0}
  /\ PoisonThreshold \in Nat
  /\ ProbeLimit \in Nat \ {0}
  /\ AckWaitCovers \in BOOLEAN
  /\ MaxFaults \in Nat

\* What becomes of a message's row: stored; rejected and tagged ErrPoisonRow;
\* rejected every time without a tag; or never decoded by ParseMsg.
Kinds == {"healthy", "poison", "stubborn", "garbled"}

\* One delivery of a message: n is its NumDelivered.
Copy == [msg : Msg, n : 1 .. MaxDeliver]

VARIABLES
  kind,       \* the payload of each message
  status,     \* the consumer's view of each message
  delivered,  \* how often each message has been delivered
  rows,       \* how many rows of raw_events each delivery has left
  ambiguous,  \* commits of each delivery that landed yet returned an error
  run,        \* where Run stands
  ctxDone,    \* Run's context is canceled
  fetching,   \* the fetch loop is alive
  msgs,       \* the channel between the fetch loop and Run
  buffer,     \* the accumulation buffer
  jobs,       \* the channel between Run and the workers
  cancelled,  \* workerCtx is canceled
  failing,    \* commitFailFirst # 0
  fatal,      \* the fatal channel holds an error
  pc, job, iso, alive,  \* of each worker: step, bundle, isolate pass, fctx
  faults      \* how much has gone wrong so far

wal == <<kind, status, delivered>>
lake == <<rows, ambiguous>>
loop == <<run, ctxDone, fetching, msgs, buffer, cancelled>>
streak == <<failing, fatal>>
workers == <<pc, job, iso, alive>>
vars == <<wal, lake, loop, jobs, streak, workers, faults>>

NoPass == Pass(1, <<>>, 0, 0)

\* A shutdown (with its drain deadline), a crash, a restart by the watchdog, a
\* timeout, or a write that fails for no fault of its rows.
Fault == faults < MaxFaults /\ faults' = faults + 1

Init ==
  /\ kind \in [Msg -> Kinds]
  /\ status = [m \in Msg |-> "pending"]
  /\ delivered = [m \in Msg |-> 0]
  /\ rows = [c \in Copy |-> 0]
  /\ ambiguous = [c \in Copy |-> 0]
  /\ run = "select" /\ ctxDone = FALSE /\ fetching = TRUE
  /\ msgs = <<>> /\ buffer = <<>> /\ jobs = <<>>
  /\ cancelled = FALSE /\ failing = FALSE /\ fatal = FALSE
  /\ pc = [w \in Worker |-> "idle"]
  /\ job = [w \in Worker |-> <<>>]
  /\ iso = [w \in Worker |-> NoPass]
  /\ alive = [w \in Worker |-> TRUE]
  /\ faults = 0
-------------------------------------------------------------------------------
\* The broker (external).

Open == {"pending", "outstanding", "stranded"}

\* Ack and Term are final; on a settled message they do nothing.
Ack(S) == [m \in Msg |-> IF m \in S /\ status[m] \in Open THEN "acked" ELSE status[m]]
Term(S) == [m \in Msg |-> IF m \in S /\ status[m] \in Open THEN "termed" ELSE status[m]]

\* The process still has a delivery of the message in hand.
Holds(seq, m) == \E i \in DOMAIN seq : seq[i].msg = m
InProcess(m) ==
  \/ Holds(msgs, m) \/ Holds(buffer, m)
  \/ \E i \in DOMAIN jobs : Holds(jobs[i], m)
  \/ \E w \in Worker : Holds(job[w], m)

\* AckWait passes: the message is redelivered, unless it used its deliveries.
AckWaitLapses(m) ==
  /\ status[m] = "outstanding"
  /\ AckWaitCovers => ~InProcess(m)
  /\ status' = [status EXCEPT ![m] =
                  IF delivered[m] < MaxDeliver THEN "pending" ELSE "stranded"]
  /\ UNCHANGED <<kind, delivered, lake, loop, jobs, streak, workers, faults>>

-------------------------------------------------------------------------------
\* The fetch loop.

\* Fetch returns a message and the loop forwards it to Run.  msgs stands for
\* the channel and for what the loop has fetched but not yet sent.
Fetch(m) ==
  /\ fetching
  /\ status[m] = "pending"
  /\ status' = [status EXCEPT ![m] = "outstanding"]
  /\ delivered' = [delivered EXCEPT ![m] = @ + 1]
  /\ Len(msgs) < FetchBatch
  /\ msgs' = Append(msgs, [msg |-> m, n |-> delivered[m] + 1])
  /\ UNCHANGED <<kind, lake, run, ctxDone, fetching, buffer, cancelled, jobs,
                 streak, workers, faults>>

\* The loop ends and closes msgs: its context is done, and what it has not
\* sent is lost to this process, or maxConsecutiveFetchErrs is reached.
FetchExit ==
  /\ fetching
  /\ \/ /\ ctxDone
        /\ \E k \in 0 .. Len(msgs) : msgs' = SubSeq(msgs, 1, k)
        /\ UNCHANGED faults
     \/ Fault /\ UNCHANGED msgs
  /\ fetching' = FALSE
  /\ UNCHANGED <<wal, lake, run, ctxDone, buffer, cancelled, jobs, streak, workers>>

-------------------------------------------------------------------------------
\* The Run goroutine.

\* Variant: the buffer is not cleared after the hand-off.
EnqueueKeepsBuffer(buf) ==
  /\ buf # <<>>
  /\ Len(jobs) < JobsCap
  /\ jobs' = Append(jobs, buf)
  /\ buffer' = buf

\* enqueue, which never blocks the select loop: hand the buffer off if the
\* jobs channel has a free slot.
Enqueue(buf) ==
  /\ buf # <<>>
  /\ Len(jobs) < JobsCap
  /\ jobs' = Append(jobs, buf)
  /\ buffer' = <<>>

\* flushReady(false) and applyBackpressure: the buffer goes once a trigger is
\* met and a slot is free, and must go once it is full; otherwise it stays.
FlushReady(buf) ==
  \/ Enqueue(buf)
  \/ /\ Len(buf) < MaxRowsPerFlush \/ Len(jobs) = JobsCap
     /\ buffer' = buf
     /\ UNCHANGED jobs

\* A message arrives: an undecodable one is terminated (the broker may not
\* hear of it), any other is buffered.
RunReceive ==
  /\ run = "select"
  /\ msgs # <<>>
  /\ msgs' = Tail(msgs)
  /\ LET c == Head(msgs)
     IN  \/ /\ kind[c.msg] = "garbled"
            /\ status' \in {status, Term({c.msg})}
            /\ FlushReady(buffer)
         \/ /\ kind[c.msg] # "garbled"
            /\ FlushReady(Append(buffer, c))
            /\ UNCHANGED status
  /\ UNCHANGED <<kind, delivered, lake, run, ctxDone, fetching, cancelled, streak,
                 workers, faults>>

\* Variant: no age trigger, only a full buffer is flushed.
RunTickWhenFull ==
  /\ run = "select"
  /\ Len(buffer) >= MaxRowsPerFlush
  /\ Enqueue(buffer)
  /\ UNCHANGED <<wal, lake, run, ctxDone, fetching, msgs, cancelled, streak,
                 workers, faults>>

\* The ticker fires and an age trigger is met.
RunTick ==
  /\ run = "select"
  /\ Enqueue(buffer)
  /\ UNCHANGED <<wal, lake, run, ctxDone, fetching, msgs, cancelled, streak,
                 workers, faults>>

\* The writer is reported durably broken: stop the workers, close jobs, return.
RunFatal ==
  /\ run = "select"
  /\ fatal
  /\ run' = "closed"
  /\ cancelled' = TRUE
  /\ Fault
  /\ UNCHANGED <<wal, lake, ctxDone, fetching, msgs, buffer, jobs, streak, workers>>

\* The process is asked to stop.
Cancel ==
  /\ run = "select"
  /\ ~ctxDone
  /\ Fault
  /\ ctxDone' = TRUE
  /\ UNCHANGED <<wal, lake, run, fetching, msgs, buffer, cancelled, jobs, streak, workers>>

\* msgs is closed and drained: the select loop ends.
RunLoopEnds ==
  /\ run = "select"
  /\ ~fetching
  /\ msgs = <<>>
  /\ run' = "drain"
  /\ UNCHANGED <<wal, lake, ctxDone, fetching, msgs, buffer, cancelled, jobs, streak,
                 workers, faults>>

\* flushReady(true) and close(jobs).  The blocking enqueue waits for a slot
\* until the drain deadline, and then leaves the buffer behind.
RunDrain ==
  /\ run = "drain"
  /\ run' = "closed"
  /\ \/ buffer = <<>> /\ UNCHANGED <<buffer, jobs>>
     \/ Enqueue(buffer)
     \/ buffer # <<>> /\ Len(jobs) = JobsCap /\ UNCHANGED <<buffer, jobs>>
  /\ UNCHANGED <<wal, lake, ctxDone, fetching, msgs, cancelled, streak, workers, faults>>

\* The drain deadline passes, or has passed, while the workers are still busy.
DrainDeadline ==
  /\ run = "closed"
  /\ ~cancelled
  /\ cancelled' = TRUE
  /\ UNCHANGED <<wal, lake, run, ctxDone, fetching, msgs, buffer, jobs, streak,
                 workers, faults>>

\* Every worker has left its loop over the closed channel: Run returns.
RunReturn ==
  /\ run = "closed"
  /\ jobs = <<>>
  /\ \A w \in Worker : pc[w] = "idle"
  /\ run' = "stopped"
  /\ UNCHANGED <<wal, lake, ctxDone, fetching, msgs, buffer, cancelled, jobs, streak,
                 workers, faults>>

\* A new process: everything but the WAL and the lake starts over.
FreshProcess ==
  /\ run' = "select" /\ ctxDone' = FALSE /\ fetching' = TRUE
  /\ msgs' = <<>> /\ buffer' = <<>> /\ jobs' = <<>>
  /\ cancelled' = FALSE /\ failing' = FALSE /\ fatal' = FALSE
  /\ pc' = [w \in Worker |-> "idle"]
  /\ job' = [w \in Worker |-> <<>>]
  /\ iso' = [w \in Worker |-> NoPass]
  /\ alive' = [w \in Worker |-> TRUE]
  /\ UNCHANGED <<wal, lake>>

Restart == run = "stopped" /\ FreshProcess /\ UNCHANGED faults

Crash ==
  /\ run # "stopped"
  /\ Fault
  /\ FreshProcess

-------------------------------------------------------------------------------
\* The flush workers.

\* The flush context: FlushTimeout has not fired, the workers are not canceled.
Alive(w) == alive[w] /\ ~cancelled

Whole(w) == 1 .. Len(job[w])
Copies(w, I) == {job[w][i] : i \in I}
Messages(w, I) == {job[w][i].msg : i \in I}

\* Variant: a rejected row does not fail the transaction.
AcceptableAny(w, I) == \E m \in Messages(w, I) : kind[m] = "healthy"

\* WriteBundle is one transaction: it commits only if it rejects no row.
Acceptable(w, I) == \A m \in Messages(w, I) : kind[m] = "healthy"

Bump(f, C) == [c \in Copy |-> IF c \in C THEN f[c] + 1 ELSE f[c]]

TakeJob(w) ==
  /\ pc[w] = "idle"
  /\ jobs # <<>>
  /\ jobs' = Tail(jobs)
  /\ job' = [job EXCEPT ![w] = Head(jobs)]
  /\ pc' = [pc EXCEPT ![w] = "flush"]
  /\ alive' = [alive EXCEPT ![w] = TRUE]
  /\ UNCHANGED <<wal, lake, loop, streak, iso, faults>>

ContextEnds(w) ==
  /\ pc[w] # "idle"
  /\ alive[w]
  /\ alive' = [alive EXCEPT ![w] = FALSE]
  /\ Fault
  /\ UNCHANGED <<wal, lake, loop, jobs, streak, pc, job, iso>>

\* WriteBundle over the rows I of the bundle, in a live context: it commits;
\* it rejects a row; or it fails although every row may be fine, perhaps after
\* the commit took effect.
WriteCommits(w, I) ==
  /\ Alive(w)
  /\ Acceptable(w, I)
  /\ rows' = Bump(rows, Copies(w, I))
  /\ UNCHANGED <<ambiguous, faults>>
WriteRejects(w, I) ==
  /\ Alive(w)
  /\ ~Acceptable(w, I)
  /\ UNCHANGED <<lake, faults>>
WriteFaults(w, I) ==
  /\ Alive(w)
  /\ Fault
  /\ \/ UNCHANGED lake
     \/ /\ Acceptable(w, I)
        /\ rows' = Bump(rows, Copies(w, I))
        /\ ambiguous' = Bump(ambiguous, Copies(w, I))

\* The bundle commits whole; its messages are acked next.
FlushCommits(w) ==
  /\ pc[w] = "flush"
  /\ WriteCommits(w, Whole(w))
  /\ failing' = FALSE
  /\ pc' = [pc EXCEPT ![w] = "ackAll"]
  /\ UNCHANGED <<wal, loop, jobs, fatal, job, iso, alive>>

\* recordCommitFailure: the first failure opens the streak, a later one may
\* find that it spans CommitFailureWindow.
RecordCommitFailure ==
  /\ failing' = TRUE
  /\ fatal' \in IF failing THEN {fatal, TRUE} ELSE {fatal}

\* The bundle fails: isolate it.
FlushFails(w) ==
  /\ pc[w] = "flush"
  /\ \/ WriteRejects(w, Whole(w))
     \/ WriteFaults(w, Whole(w))
     \/ ~Alive(w) /\ UNCHANGED <<lake, faults>>
  /\ RecordCommitFailure
  /\ pc' = [pc EXCEPT ![w] = "isolate"]
  /\ iso' = [iso EXCEPT ![w] = IsolateStart(Len(job[w]))]
  /\ UNCHANGED <<wal, loop, jobs, job, alive>>

\* The worker is done with its bundle and goes back to the channel.
WorkerDone(w) ==
  /\ pc' = [pc EXCEPT ![w] = "idle"]
  /\ job' = [job EXCEPT ![w] = <<>>]
  /\ iso' = [iso EXCEPT ![w] = NoPass]

\* ackAll: an ack that fails to reach the broker is only logged.
AckAll(w) ==
  /\ pc[w] = "ackAll"
  /\ \E S \in SUBSET Messages(w, Whole(w)) : status' = Ack(S)
  /\ WorkerDone(w)
  /\ UNCHANGED <<kind, delivered, lake, loop, jobs, streak, alive, faults>>

\* A call of isolateRange is about to check the context and the short-circuit.
InRange(w) == pc[w] = "isolate" /\ ~Finished(iso[w])

\* isolateRange returns before writing: context done, or short-circuit.
IsolateReturns(w) ==
  /\ InRange(w)
  /\ ~Alive(w) \/ GaveUp(iso[w], ProbeLimit)
  /\ iso' = [iso EXCEPT ![w] = Return(@)]
  /\ UNCHANGED <<wal, lake, loop, jobs, streak, pc, job, alive, faults>>

RangeCommits(w) ==
  /\ InRange(w)
  /\ ~GaveUp(iso[w], ProbeLimit)
  /\ WriteCommits(w, Span(iso[w]))
  /\ failing' = FALSE
  /\ pc' = [pc EXCEPT ![w] = "ackRange"]
  /\ UNCHANGED <<wal, loop, jobs, fatal, job, iso, alive>>

\* Variant: the whole bundle is acked after a range of it committed.
AckRangeBundle(w) ==
  /\ pc[w] = "ackRange"
  /\ \E S \in SUBSET Messages(w, Whole(w)) : status' = Ack(S)
  /\ iso' = [iso EXCEPT ![w] = Commit(@)]
  /\ pc' = [pc EXCEPT ![w] = "isolate"]
  /\ UNCHANGED <<kind, delivered, lake, loop, jobs, streak, job, alive, faults>>

AckRange(w) ==
  /\ pc[w] = "ackRange"
  /\ \E S \in SUBSET Messages(w, Span(iso[w])) : status' = Ack(S)
  /\ iso' = [iso EXCEPT ![w] = Commit(@)]
  /\ pc' = [pc EXCEPT ![w] = "isolate"]
  /\ UNCHANGED <<kind, delivered, lake, loop, jobs, streak, job, alive, faults>>

\* Variant: the redelivery count alone is evidence.
EvidenceByCount(w, tagged) == tagged \/ job[w][iso[w].lo].n >= PoisonThreshold

\* Evidence that the single row of the range is itself the problem.
Evidence(w, tagged) ==
  \/ tagged
  \/ iso[w].committed > 0 /\ job[w][iso[w].lo].n >= PoisonThreshold

\* After an error: a single row is terminated on evidence (unless the Term, or
\* the message's metadata, is lost); a longer range is split.
OnError(w, tagged) ==
  \/ /\ Hi(iso[w]) - iso[w].lo = 1
     /\ iso' = [iso EXCEPT ![w] = Fail(@)]
     /\ \/ UNCHANGED status
        \/ Evidence(w, tagged) /\ status' = Term(Messages(w, Span(iso[w])))
  \/ /\ Hi(iso[w]) - iso[w].lo > 1
     /\ iso' = [iso EXCEPT ![w] = Split(@)]
     /\ UNCHANGED status

\* The range fails: the writer tags the row it rejects if that row is poison,
\* and tags nothing when the fault is not a row's.
RangeFails(w) ==
  /\ InRange(w)
  /\ ~GaveUp(iso[w], ProbeLimit)
  /\ \/ /\ WriteRejects(w, Span(iso[w]))
        /\ OnError(w, kind[job[w][iso[w].lo].msg] = "poison")
     \/ /\ WriteFaults(w, Span(iso[w]))
        /\ OnError(w, FALSE)
  /\ UNCHANGED <<kind, delivered, loop, jobs, streak, pc, job, alive>>

IsolateEnds(w) ==
  /\ pc[w] = "isolate"
  /\ Finished(iso[w])
  /\ WorkerDone(w)
  /\ UNCHANGED <<wal, lake, loop, jobs, streak, alive, faults>>

Work(w) ==
  \/ TakeJob(w) \/ FlushCommits(w) \/ FlushFails(w) \/ AckAll(w)
  \/ IsolateReturns(w) \/ RangeCommits(w) \/ AckRange(w) \/ RangeFails(w)
  \/ IsolateEnds(w)

RunStep ==
  \/ RunReceive \/ RunTick \/ RunFatal \/ RunLoopEnds \/ RunDrain \/ RunReturn
  \/ Restart

Next ==
  \/ \E m \in Msg : Fetch(m) \/ AckWaitLapses(m)
  \/ FetchExit \/ Cancel \/ Crash \/ DrainDeadline
  \/ RunStep
  \/ \E w \in Worker : Work(w) \/ ContextEnds(w)

Spec == Init /\ [][Next]_vars

\* Every goroutine keeps being scheduled, the ticker keeps firing until an age
\* trigger is met, the broker redelivers, a stopped process is restarted.
Fairness ==
  /\ WF_vars(RunStep)
  /\ WF_vars(FetchExit /\ ctxDone)
  /\ \A m \in Msg : WF_vars(Fetch(m)) /\ WF_vars(AckWaitLapses(m))
  /\ \A w \in Worker : WF_vars(Work(w))

FairSpec == Spec /\ Fairness
-------------------------------------------------------------------------------
\* Some row of raw_events holds the message.
Stored(m) == \E c \in Copy : c.msg = m /\ rows[c] > 0

Bundles == Seq(Copy)

\* The types of the sink's channels, buffers and workers, and of the broker's ledger.
TypeOK ==
  /\ kind \in [Msg -> Kinds]
  /\ status \in [Msg -> Open \cup {"acked", "termed"}]
  /\ delivered \in [Msg -> 0 .. MaxDeliver]
  /\ rows \in [Copy -> Nat] /\ ambiguous \in [Copy -> Nat]
  /\ run \in {"select", "drain", "closed", "stopped"}
  /\ ctxDone \in BOOLEAN /\ fetching \in BOOLEAN /\ cancelled \in BOOLEAN
  /\ failing \in BOOLEAN /\ fatal \in BOOLEAN
  /\ msgs \in Bundles /\ buffer \in Bundles /\ jobs \in Seq(Bundles)
  /\ pc \in [Worker -> {"idle", "flush", "ackAll", "isolate", "ackRange"}]
  /\ job \in [Worker -> Bundles]
  /\ iso \in [Worker -> AnyPass]
  /\ alive \in [Worker -> BOOLEAN]
  /\ faults \in 0 .. MaxFaults

\* The broker is told to forget a message only once a row of it is committed,
\* whatever the order of commits, acks, redeliveries, shutdowns and crashes
\* ("ack after commit", flush and isolateRange).
AckedIsStored == \A m \in Msg : status[m] = "acked" => Stored(m)

\* A message that could be persisted, or was never shown to be poison, is
\* dropped only after PoisonThreshold deliveries and while the writer was
\* committing other rows (isolateRange's evidence rule): an outage drops nothing.
DropsHaveEvidence ==
  \A m \in Msg :
    status[m] = "termed" /\ kind[m] \in {"healthy", "stubborn"} =>
      /\ delivered[m] >= PoisonThreshold
      /\ \E other \in Msg : Stored(other)

\* One delivery leaves at most one row, plus one for each commit of it that
\* took effect and yet returned an error: neither the bisection, nor two
\* workers, nor the drain ever write a delivery twice.
OneRowPerDelivery == \A c \in Copy : rows[c] <= 1 + ambiguous[c]

\* The sink seen from outside: what the WAL holds, what the lake stores.
bad == {m \in Msg : kind[m] # "healthy"}
held == {m \in Msg : status[m] \in Open}
stored == {m \in Msg : Stored(m)}
dropped == {m \in Msg : status[m] = "termed"}

Promise == INSTANCE AtLeastOnce
  WITH bad <- bad, held <- held, stored <- stored, dropped <- dropped

\* Step by step the sink does only what the abstract specification allows: rows
\* never disappear, no message leaves the WAL unless it is stored or dropped,
\* and messages are dropped one at a time (flush, isolateRange, add).
KeepsPromise == Promise!Spec

\* With fewer faults than deliveries, and an AckWait that covers a message's
\* stay in the process, every message the writer can persist is persisted:
\* a poison neighbour, a lost ack, a timeout, a shutdown or a crash only delays
\* it (flush, isolate, Run's drain and the consumer's redelivery together).
HealthyIsStored == \A m \in Msg : kind[m] = "healthy" => <>Stored(m)
===============================================================================
