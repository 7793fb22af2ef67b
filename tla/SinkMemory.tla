------------------------------ MODULE SinkMemory ------------------------------
(***************************************************************************)
(* The memory of one sink: the footprint of the accumulation buffer, of the *)
(* bundles queued in jobs and of the bundles the workers are committing,    *)
(* the inflight tally the Run goroutine and the workers share, and          *)
(* applyBackpressure, which blocks Run while buffer + inflight is at the    *)
(* ceiling.  enqueue sends a bundle first and adds it to the tally second:  *)
(* a worker may take, commit and release the bundle in between.             *)
(***************************************************************************)
EXTENDS Integers, Sequences, FiniteSets, Functions

CONSTANTS
  Worker,            \* the flush workers
  JobsCap,           \* capacity of the jobs channel (Workers * 8)
  Footprint,         \* the footprints a message may have (bufferedFootprint)
  MaxBytesPerFlush,  \* Config.MaxBytesPerFlush; MaxBufferedBytes is unset
  PodSinks,          \* sinks of the process, one per WAL partition
  MaxMessages        \* bound: messages received

ASSUME MemoryAssumption ==
  /\ JobsCap \in Nat \ {0}
  /\ IsFiniteSet(Worker)
  /\ Footprint \subseteq Nat \ {0}
  /\ \E size \in Footprint : \A other \in Footprint : other <= size
  /\ MaxBytesPerFlush \in Nat \ {0}
  /\ PodSinks \in Nat
  /\ MaxMessages \in Nat

\* applyDefaults: the pod's budget divided among its sinks, but never below
\* what keeps a sink pipelining.
MaxBufferedBytes ==
  LET budget == 4 * MaxBytesPerFlush
      share == IF PodSinks > 1 THEN budget \div PodSinks ELSE budget
      floor == 3 * MaxBytesPerFlush
  IN  IF share < floor THEN floor ELSE share

\* The capacity of the flushed channel.
TokenCap == Cardinality(Worker)

VARIABLES
  run,       \* where Run stands
  then,      \* where Run goes on once the bundle it sent is in the tally
  ctxDone,   \* Run's context is canceled
  buffer,    \* footprint of the buffer, 0 if there is none
  jobs,      \* footprints of the queued bundles
  busy,      \* footprint of the bundle each worker has, 0 if none
  released,  \* the worker has left the tally and has yet to signal
  inflight,  \* the shared tally
  flushed,   \* tokens in the flushed channel
  received   \* messages received so far

vars == <<run, then, ctxDone, buffer, jobs, busy, released, inflight, flushed, received>>

Init ==
  /\ run = "select" /\ then = "select" /\ ctxDone = FALSE
  /\ buffer = 0 /\ jobs = <<>>
  /\ busy = [w \in Worker |-> 0]
  /\ released = [w \in Worker |-> FALSE]
  /\ inflight = 0 /\ flushed = 0 /\ received = 0
-------------------------------------------------------------------------------
\* The Run goroutine.

\* enqueue, up to the send; the tally comes next, and then Run goes on at label.
Send(label) ==
  /\ buffer > 0
  /\ Len(jobs) < JobsCap
  /\ jobs' = Append(jobs, buffer)
  /\ run' = "tally" /\ then' = label
  /\ UNCHANGED <<ctxDone, buffer, busy, released, inflight, flushed, received>>

\* Variant: the bundle is not counted.
TallyNothing ==
  /\ run = "tally"
  /\ buffer' = 0
  /\ run' = then
  /\ UNCHANGED <<then, ctxDone, jobs, busy, released, inflight, flushed, received>>

\* The rest of enqueue: the bundle is counted, the buffer is gone.
Tally ==
  /\ run = "tally"
  /\ inflight' = inflight + buffer
  /\ buffer' = 0
  /\ run' = then
  /\ UNCHANGED <<then, ctxDone, jobs, busy, released, flushed, received>>

\* A message arrives and is added to the buffer.
Receive(size) ==
  /\ run = "select"
  /\ received < MaxMessages
  /\ received' = received + 1
  /\ buffer' = buffer + size
  /\ run' = "ready"
  /\ UNCHANGED <<then, ctxDone, jobs, busy, released, inflight, flushed>>

\* flushReady(false) after a message: a trigger fires and a slot is free, or not.
FlushReady ==
  /\ run = "ready"
  /\ \/ Send("pressure")
     \/ /\ run' = "pressure"
        /\ UNCHANGED <<then, ctxDone, buffer, jobs, busy, released, inflight, flushed,
                       received>>

\* The ticker: an age trigger fires and a slot is free.
RunTick == run = "select" /\ Send("select")

\* Variant: only the tally is held against the ceiling.
UnderCeilingTally == inflight < MaxBufferedBytes

\* The test of applyBackpressure.
UnderCeiling == buffer + inflight < MaxBufferedBytes

\* Under the ceiling Run returns to its loop; at the ceiling it hands the buffer
\* off, if it can, and waits.
Pressure ==
  /\ run = "pressure"
  /\ \/ /\ UnderCeiling
        /\ run' = "select"
        /\ UNCHANGED <<then, ctxDone, buffer, jobs, busy, released, inflight, flushed,
                       received>>
     \/ ~UnderCeiling /\ Send("wait")
     \/ /\ ~UnderCeiling
        /\ buffer = 0 \/ Len(jobs) = JobsCap
        /\ run' = "wait"
        /\ UNCHANGED <<then, ctxDone, buffer, jobs, busy, released, inflight, flushed,
                       received>>

\* Variant: Run goes on without a token.
WaitNot ==
  /\ run = "wait"
  /\ flushed' = flushed - 1
  /\ run' = "pressure"
  /\ UNCHANGED <<then, ctxDone, buffer, jobs, busy, released, inflight, received>>

\* Run waits for a worker to finish a bundle, or for its context.
Wait ==
  /\ run = "wait"
  /\ \/ /\ flushed > 0
        /\ flushed' = flushed - 1
        /\ run' = "pressure"
     \/ /\ ctxDone
        /\ run' = "select"
        /\ UNCHANGED flushed
  /\ UNCHANGED <<then, ctxDone, buffer, jobs, busy, released, inflight, received>>

Cancel ==
  /\ ~ctxDone
  /\ ctxDone' = TRUE
  /\ UNCHANGED <<run, then, buffer, jobs, busy, released, inflight, flushed, received>>
-------------------------------------------------------------------------------
\* The workers.

TakeJob(w) ==
  /\ busy[w] = 0
  /\ jobs # <<>>
  /\ jobs' = Tail(jobs)
  /\ busy' = [busy EXCEPT ![w] = Head(jobs)]
  /\ UNCHANGED <<run, then, ctxDone, buffer, released, inflight, flushed, received>>

\* Variant: the worker does not signal.
FlushDoneSilent(w) ==
  /\ busy[w] > 0
  /\ inflight' = inflight - busy[w]
  /\ busy' = [busy EXCEPT ![w] = 0]
  /\ UNCHANGED <<run, then, ctxDone, buffer, jobs, released, flushed, received>>

\* The bundle is committed and acked, or given up: its footprint leaves the
\* tally, then a token is sent unless the channel is full.
FlushDone(w) ==
  \/ /\ busy[w] > 0 /\ ~released[w]
     /\ inflight' = inflight - busy[w]
     /\ released' = [released EXCEPT ![w] = TRUE]
     /\ UNCHANGED <<run, then, ctxDone, buffer, jobs, busy, flushed, received>>
  \/ /\ released[w]
     /\ flushed' = IF flushed < TokenCap THEN flushed + 1 ELSE flushed
     /\ busy' = [busy EXCEPT ![w] = 0]
     /\ released' = [released EXCEPT ![w] = FALSE]
     /\ UNCHANGED <<run, then, ctxDone, buffer, jobs, inflight, received>>

RunStep ==
  \/ \E size \in Footprint : Receive(size)
  \/ FlushReady \/ RunTick \/ Tally \/ Pressure \/ Wait

Work(w) == TakeJob(w) \/ FlushDone(w)

Next == RunStep \/ Cancel \/ \E w \in Worker : Work(w)

Spec == Init /\ [][Next]_vars

\* Run keeps being scheduled; every flush ends, because FlushTimeout bounds it.
FairSpec == Spec /\ WF_vars(RunStep) /\ \A w \in Worker : WF_vars(Work(w))
-------------------------------------------------------------------------------
Total(f) == FoldFunction(+, 0, f)

\* What the queue and the workers hold and have not released.
Queued == Total(jobs) + Total([w \in Worker |-> IF released[w] THEN 0 ELSE busy[w]])

\* What the sink holds; a bundle that was sent and not yet counted is one bundle.
Resident == IF run = "tally" THEN Queued ELSE buffer + Queued

Largest == CHOOSE size \in Footprint : \A other \in Footprint : other <= size

\* The types of the accounting: no empty bundle is queued, and the flushed channel
\* holds no more tokens than it has room for.
TypeOK ==
  /\ run \in {"select", "ready", "tally", "pressure", "wait"}
  /\ then \in {"select", "pressure", "wait"}
  /\ ctxDone \in BOOLEAN
  /\ buffer \in Nat /\ jobs \in Seq(Nat \ {0})
  /\ busy \in [Worker -> Nat] /\ released \in [Worker -> BOOLEAN]
  /\ inflight \in Int
  /\ flushed \in 0 .. TokenCap
  /\ received \in 0 .. MaxMessages

\* The shared tally is exact at every step, but for a bundle enqueue has sent and
\* not yet counted: whatever the order in which Run and the workers touch it,
\* nothing leaks into or out of it.
TallyExact == inflight = Queued - (IF run = "tally" THEN buffer ELSE 0)

\* Backpressure bounds what the sink holds: until it is told to stop, buffer,
\* queue and commits in progress together stay under MaxBufferedBytes, but for
\* the one message that reached it.
CeilingHolds == ~ctxDone => Resident < MaxBufferedBytes + Largest

\* Backpressure is released: flushDone may drop a token when the channel is full,
\* but never the last one, so Run always gets back to its loop.
PressureEnds == run \in {"pressure", "wait"} ~> run = "select"

\* The pod's sinks together stay within the pod's budget of 4 * MaxBytesPerFlush:
\* its PodSinks sinks are independent, so all may be where this one is.
PodTotalBounded ==
  ~ctxDone => PodSinks * Resident < 4 * MaxBytesPerFlush + PodSinks * Largest
===============================================================================
