------------------------------ MODULE SinkProofs ------------------------------
(***************************************************************************)
(* Safety of the sink, for every number of messages and workers and every   *)
(* value of the limits.                                                    *)
(*                                                                         *)
(* The argument: rows never disappear, so a message that is stored stays    *)
(* stored; a worker that is about to ack has just stored what it acks; a    *)
(* pass that has counted a commit has stored something; and no delivery in  *)
(* the process carries a number the broker has not reached yet.            *)
(***************************************************************************)
EXTENDS Sink, BisectProofs

\* Every delivery of the sequence is one the broker has made, d counting them.
Known(seq, d) == \A i \in 1 .. Len(seq) : seq[i].n <= d[seq[i].msg]

\* Every queued bundle has rows, and the broker has delivered them.
QueueKnown(q, d) == \A i \in 1 .. Len(q) : Known(q[i], d) /\ q[i] # <<>>

\* Every copy of a message, wherever it is held, is one the server delivered.
CopiesKnown ==
  /\ Known(msgs, delivered)
  /\ Known(buffer, delivered)
  /\ QueueKnown(jobs, delivered)
  /\ \A w \in Worker : Known(job[w], delivered)

\* What worker w knows of the lake at each of its steps.
WorkerInv(w) ==
  /\ pc[w] = "idle" => iso[w] = NoPass
  /\ pc[w] # "idle" => job[w] # <<>>
  /\ iso[w] \in Passes(Len(job[w]))
  /\ Increasing(iso[w].lo, iso[w].ends)
  /\ iso[w].committed < iso[w].lo
  /\ iso[w].committed > 0 => \E m \in Msg : Stored(m)
  /\ pc[w] = "ackAll" => \A m \in Messages(w, Whole(w)) : Stored(m)
  /\ pc[w] = "ackRange" => /\ ~Finished(iso[w])
                           /\ \A m \in Messages(w, Span(iso[w])) : Stored(m)

\* A message waiting for delivery has a delivery left.
Deliverable == \A m \in Msg : status[m] = "pending" => delivered[m] < MaxDeliver

\* The two promises, and what makes them stable.
Settled == AckedIsStored /\ DropsHaveEvidence /\ Deliverable

\* The inductive invariant of the sink.
IInv ==
  /\ TypeOK
  /\ CopiesKnown
  /\ \A w \in Worker : WorkerInv(w)
  /\ Settled

\* Stored, with its witness spelled out.
LEMMA RowsGrow ==
  ASSUME TypeOK, rows' \in [Copy -> Nat], \A c \in Copy : rows'[c] >= rows[c]
  PROVE  \A m \in Msg : Stored(m) => Stored(m)'
<1> SUFFICES ASSUME NEW m \in Msg, Stored(m) PROVE Stored(m)'
  BY Zenon
<1>1. PICK c \in Copy : c.msg = m /\ rows[c] > 0
  BY Zenon DEF Stored
<1>2. rows[c] \in Nat /\ rows'[c] \in Nat /\ rows'[c] >= rows[c]
  BY Zenon DEF TypeOK
<1>3. rows'[c] > 0
  BY <1>1, <1>2
<1> QED
  BY <1>1, <1>3, Zenon DEF Stored

\* A commit of the copies C stores their messages and loses nothing.
LEMMA CommitStores ==
  ASSUME TypeOK, NEW C \in SUBSET Copy, rows' = Bump(rows, C)
  PROVE  /\ rows' \in [Copy -> Nat]
         /\ \A m \in Msg : Stored(m) => Stored(m)'
         /\ \A c \in C : Stored(c.msg)'
<1>1. rows \in [Copy -> Nat]
  BY Zenon DEF TypeOK
<1>2. rows' \in [Copy -> Nat]
  BY <1>1 DEF Bump
<1>3. ASSUME NEW c \in Copy
      PROVE  rows'[c] >= rows[c] /\ (c \in C => rows'[c] > 0)
  <2>1. rows[c] \in Nat
    BY <1>1, Zenon
  <2>2. rows'[c] = IF c \in C THEN rows[c] + 1 ELSE rows[c]
    BY Zenon DEF Bump
  <2> QED
    BY <2>1, <2>2
<1>4. \A m \in Msg : Stored(m) => Stored(m)'
  BY <1>2, <1>3, RowsGrow, Zenon
<1>5. \A c \in C : Stored(c.msg)'
  BY <1>3, Zenon DEF Stored
<1> QED
  BY <1>2, <1>4, <1>5, Zenon

\* The copies and messages of a range of worker w's bundle.
LEMMA BundleParts ==
  ASSUME TypeOK, NEW w \in Worker, NEW I \in SUBSET Whole(w)
  PROVE  /\ job[w] \in Seq(Copy)
         /\ Len(job[w]) \in Nat
         /\ \A i \in I : job[w][i] \in Copy /\ job[w][i].msg \in Msg
         /\ Copies(w, I) \in SUBSET Copy
         /\ Messages(w, I) \in SUBSET Msg
         /\ \A m \in Messages(w, I) : \E c \in Copies(w, I) : c.msg = m
<1>1. job[w] \in Seq(Copy)
  BY Zenon DEF TypeOK, Bundles
<1>2. Len(job[w]) \in Nat /\ \A i \in 1 .. Len(job[w]) : job[w][i] \in Copy
  BY <1>1
<1>3. \A i \in I : job[w][i] \in Copy /\ job[w][i].msg \in Msg
  BY <1>2, Zenon DEF Whole, Copy
<1> QED
  BY <1>1, <1>2, <1>3, Zenon DEF Copies, Messages

\* A worker whose own state is untouched keeps its invariant while rows grow.
LEMMA WorkerFrame ==
  ASSUME NEW w \in Worker, WorkerInv(w), TypeOK,
         pc'[w] = pc[w], job'[w] = job[w], iso'[w] = iso[w],
         \A m \in Msg : Stored(m) => Stored(m)'
  PROVE  WorkerInv(w)'
<1>1. Messages(w, Whole(w))' = Messages(w, Whole(w))
  BY Zenon DEF Messages, Whole
<1>2. Messages(w, Span(iso[w]))' = Messages(w, Span(iso[w]))
  BY Zenon DEF Messages, Span, Hi
<1>3. Messages(w, Whole(w)) \in SUBSET Msg
  BY BundleParts, Zenon
<1>4. ~Finished(iso[w]) => Messages(w, Span(iso[w])) \in SUBSET Msg
  <2> SUFFICES ASSUME ~Finished(iso[w]) PROVE Messages(w, Span(iso[w])) \in SUBSET Msg
    BY Zenon
  <2>1. Len(job[w]) \in Nat
    BY BundleParts, Zenon
  <2>2. Span(iso[w]) \in SUBSET Whole(w)
    BY <2>1, OpenCall, Zenon DEF WorkerInv, Whole
  <2> QED
    BY <2>2, BundleParts, Zenon
<1>5. Finished(iso[w])' = Finished(iso[w])
  BY Zenon DEF Finished
<1> QED
  BY <1>1, <1>2, <1>3, <1>4, <1>5, Zenon DEF WorkerInv

\* Acking stored messages keeps both promises about settled messages.
LEMMA AckKeeps ==
  ASSUME IInv, NEW S \in SUBSET Msg, \A m \in S : Stored(m),
         status' = Ack(S), UNCHANGED <<kind, delivered, rows>>
  PROVE  /\ status' \in [Msg -> Open \cup {"acked", "termed"}]
         /\ Settled'
<1>1. status \in [Msg -> Open \cup {"acked", "termed"}]
  BY Zenon DEF IInv, TypeOK
<1>2. \A m \in Msg : Stored(m)' <=> Stored(m)
  BY Zenon DEF Stored
<1>3. \A m \in Msg : status'[m] = IF m \in S /\ status[m] \in Open
                                THEN "acked" ELSE status[m]
  BY Zenon DEF Ack
<1>4. status' \in [Msg -> Open \cup {"acked", "termed"}]
  BY <1>1, Zenon DEF Ack
<1>5. AckedIsStored'
  BY <1>2, <1>3, Zenon DEF IInv, Settled, AckedIsStored
<1>6. DropsHaveEvidence' /\ Deliverable'
  BY <1>2, <1>3, Zenon DEF IInv, Settled, DropsHaveEvidence, Deliverable
<1> QED
  BY <1>4, <1>5, <1>6, Zenon DEF Settled

\* Terminating with evidence keeps them too, while rows may grow.
LEMMA TermKeeps ==
  ASSUME IInv, NEW S \in SUBSET Msg,
         \A m \in S : \/ kind[m] \notin {"healthy", "stubborn"}
                      \/ delivered[m] >= PoisonThreshold /\ \E o \in Msg : Stored(o),
         status' \in {status, Term(S)}, UNCHANGED <<kind, delivered>>,
         \A m \in Msg : Stored(m) => Stored(m)'
  PROVE  /\ status' \in [Msg -> Open \cup {"acked", "termed"}]
         /\ Settled'
<1>1. status \in [Msg -> Open \cup {"acked", "termed"}]
  BY Zenon DEF IInv, TypeOK
<1>2. \A m \in Msg : status'[m] = status[m] \/ (m \in S /\ status'[m] = "termed")
  BY Zenon DEF Term
<1>3. status' \in [Msg -> Open \cup {"acked", "termed"}]
  BY <1>1, Zenon DEF Term
<1>4. AckedIsStored'
  BY <1>2, Zenon DEF IInv, Settled, AckedIsStored
<1>5. DropsHaveEvidence' /\ Deliverable'
  BY <1>2, Zenon DEF IInv, Settled, DropsHaveEvidence, Deliverable
<1> QED
  BY <1>3, <1>4, <1>5, Zenon DEF Settled

-------------------------------------------------------------------------------
\* What moving deliveries between the channels and the buffer preserves.

\* Appending a delivered copy keeps a sequence of delivered copies.
LEMMA KnownAppend ==
  ASSUME NEW seq \in Seq(Copy), NEW d, Known(seq, d), NEW c \in Copy, c.n <= d[c.msg]
  PROVE  Append(seq, c) \in Seq(Copy) /\ Known(Append(seq, c), d) /\ Append(seq, c) # <<>>
<1>1. Len(Append(seq, c)) = Len(seq) + 1 /\ Len(seq) \in Nat
  OBVIOUS
<1>2. \A i \in 1 .. Len(seq) + 1 :
         Append(seq, c)[i] = IF i = Len(seq) + 1 THEN c ELSE seq[i]
  OBVIOUS
<1> QED
  BY <1>1, <1>2 DEF Known

\* So does receiving the first one.
LEMMA KnownTail ==
  ASSUME NEW seq \in Seq(Copy), NEW d, Known(seq, d), seq # <<>>
  PROVE  /\ Tail(seq) \in Seq(Copy) /\ Known(Tail(seq), d)
         /\ Head(seq) \in Copy /\ Head(seq).n <= d[Head(seq).msg]
<1>1. Len(Tail(seq)) = Len(seq) - 1 /\ Len(seq) \in Nat \ {0} /\ Head(seq) = seq[1]
  OBVIOUS
<1>2. \A i \in 1 .. Len(seq) - 1 : Tail(seq)[i] = seq[i + 1]
  OBVIOUS
<1>3. \A i \in 1 .. Len(seq) - 1 : i + 1 \in 1 .. Len(seq)
  BY <1>1
<1> QED
  BY <1>1, <1>2, <1>3 DEF Known

\* So does taking a range of them.
LEMMA KnownSubSeq ==
  ASSUME NEW seq \in Seq(Copy), NEW d, Known(seq, d), NEW k \in 0 .. Len(seq)
  PROVE  SubSeq(seq, 1, k) \in Seq(Copy) /\ Known(SubSeq(seq, 1, k), d)
<1>1. Len(SubSeq(seq, 1, k)) = k /\ k \in Nat /\ Len(seq) \in Nat /\ k <= Len(seq)
  OBVIOUS
<1>2. \A i \in 1 .. k : SubSeq(seq, 1, k)[i] = seq[i] /\ i \in 1 .. Len(seq)
  BY <1>1
<1>3. SubSeq(seq, 1, k) \in Seq(Copy)
  BY <1>1
<1> QED
  BY <1>1, <1>2, <1>3, Zenon DEF Known

\* Enqueueing a bundle keeps the bundles of the queue well formed.
LEMMA QueueAppend ==
  ASSUME NEW q \in Seq(Bundles), NEW d, QueueKnown(q, d),
         NEW b \in Bundles, Known(b, d), b # <<>>
  PROVE  Append(q, b) \in Seq(Bundles) /\ QueueKnown(Append(q, b), d)
<1>1. Len(Append(q, b)) = Len(q) + 1 /\ Len(q) \in Nat
  OBVIOUS
<1>2. \A i \in 1 .. Len(q) + 1 :
         Append(q, b)[i] = IF i = Len(q) + 1 THEN b ELSE q[i]
  OBVIOUS
<1> QED
  BY <1>1, <1>2 DEF QueueKnown

\* So does taking one off the queue.
LEMMA QueueTail ==
  ASSUME NEW q \in Seq(Bundles), NEW d, QueueKnown(q, d), q # <<>>
  PROVE  /\ Tail(q) \in Seq(Bundles) /\ QueueKnown(Tail(q), d)
         /\ Head(q) \in Bundles /\ Known(Head(q), d) /\ Head(q) # <<>>
<1>1. Len(Tail(q)) = Len(q) - 1 /\ Len(q) \in Nat \ {0} /\ Head(q) = q[1]
  OBVIOUS
<1>2. \A i \in 1 .. Len(q) - 1 : Tail(q)[i] = q[i + 1]
  OBVIOUS
<1>3. \A i \in 1 .. Len(q) - 1 : i + 1 \in 1 .. Len(q)
  BY <1>1
<1> QED
  BY <1>1, <1>2, <1>3 DEF QueueKnown

\* The empty channels and buffers of a fresh process.
LEMMA KnownEmpty ==
  ASSUME NEW d
  PROVE  Known(<<>>, d) /\ QueueKnown(<<>>, d)
BY DEF Known, QueueKnown

\* FlushReady and Enqueue, of a buffer that holds known deliveries.
LEMMA FlushReadyKeeps ==
  ASSUME TypeOK, CopiesKnown, NEW buf \in Bundles, Known(buf, delivered),
         FlushReady(buf) \/ Enqueue(buf)
  PROVE  /\ buffer' \in Bundles /\ Known(buffer', delivered)
         /\ jobs' \in Seq(Bundles) /\ QueueKnown(jobs', delivered)
<1>1. jobs \in Seq(Bundles) /\ QueueKnown(jobs, delivered)
  BY Zenon DEF TypeOK, CopiesKnown
<1>2. CASE Enqueue(buf)
  <2>1. buf # <<>> /\ jobs' = Append(jobs, buf) /\ buffer' = <<>>
    BY <1>2, Zenon DEF Enqueue
  <2>2. <<>> \in Bundles
    BY DEF Bundles
  <2> QED
    BY <1>1, <2>1, <2>2, QueueAppend, KnownEmpty, Zenon
<1>3. CASE buffer' = buf /\ UNCHANGED jobs
  BY <1>1, <1>3, Zenon
<1> QED
  BY <1>2, <1>3, Zenon DEF FlushReady

-------------------------------------------------------------------------------
\* Steps of the broker, the fetch loop and Run.

\* The sink begins in the invariant.
LEMMA InitInv == Init => IInv
<1> SUFFICES ASSUME Init PROVE IInv
  BY Zenon
<1>1. /\ NoPass \in AnyPass /\ NoPass \in Passes(0)
      /\ NoPass.lo = 1 /\ NoPass.ends = <<>> /\ NoPass.committed = 0
  BY DEF NoPass, Pass, AnyPass, Passes
<1>2. TypeOK
  <2>1. <<>> \in Bundles /\ <<>> \in Seq(Bundles)
    BY DEF Bundles
  <2>2. /\ status \in [Msg -> Open \cup {"acked", "termed"}]
        /\ delivered \in [Msg -> 0 .. MaxDeliver]
        /\ rows \in [Copy -> Nat] /\ ambiguous \in [Copy -> Nat]
        /\ faults \in 0 .. MaxFaults
    BY SinkAssumption DEF Init, Open
  <2>3. /\ pc \in [Worker -> {"idle", "flush", "ackAll", "isolate", "ackRange"}]
        /\ job \in [Worker -> Bundles]
        /\ iso \in [Worker -> AnyPass]
        /\ alive \in [Worker -> BOOLEAN]
    BY <1>1, <2>1, Zenon DEF Init
  <2>4. /\ kind \in [Msg -> Kinds]
        /\ run \in {"select", "drain", "closed", "stopped"}
        /\ msgs \in Bundles /\ buffer \in Bundles /\ jobs \in Seq(Bundles)
    BY <2>1, Zenon DEF Init
  <2>5. /\ ctxDone \in BOOLEAN /\ fetching \in BOOLEAN /\ cancelled \in BOOLEAN
        /\ failing \in BOOLEAN /\ fatal \in BOOLEAN
    BY Zenon DEF Init
  <2> QED
    BY <2>2, <2>3, <2>4, <2>5, Zenon DEF TypeOK
<1>3. CopiesKnown
  BY KnownEmpty, Zenon DEF Init, CopiesKnown
<1>4. ASSUME NEW w \in Worker PROVE WorkerInv(w)
  <2>1. iso[w] = NoPass /\ job[w] = <<>> /\ pc[w] = "idle" /\ Len(<<>>) = 0
    BY Zenon DEF Init
  <2> QED
    BY <1>1, <2>1 DEF WorkerInv, Increasing
<1>5. Settled
  BY SinkAssumption DEF Init, Settled, AckedIsStored, DropsHaveEvidence, Deliverable
<1> QED
  BY <1>2, <1>3, <1>4, <1>5, Zenon DEF IInv

\* A step that leaves the workers and the lake alone.
LEMMA LoopStep ==
  ASSUME IInv, TypeOK', UNCHANGED <<delivered, rows, pc, job, iso>>,
         Known(msgs', delivered), Known(buffer', delivered),
         QueueKnown(jobs', delivered),
         Settled'
  PROVE  IInv'
<1>1. \A m \in Msg : Stored(m) => Stored(m)'
  BY Zenon DEF Stored
<1>2. \A w \in Worker : WorkerInv(w)'
  BY <1>1, WorkerFrame, Zenon DEF IInv
<1>3. CopiesKnown'
  BY Zenon DEF IInv, CopiesKnown
<1> QED
  BY <1>2, <1>3, Zenon DEF IInv

\* A step that settles nothing keeps what is known of settled messages.
LEMMA SettledFrame ==
  ASSUME IInv, UNCHANGED <<kind, status, delivered>>,
         \A m \in Msg : Stored(m) => Stored(m)'
  PROVE  Settled'
BY Zenon DEF IInv, Settled, AckedIsStored, DropsHaveEvidence, Deliverable

\* A lapsed ack wait keeps the invariant.
LEMMA LapseKeeps ==
  ASSUME IInv, NEW m \in Msg, AckWaitLapses(m)
  PROVE  IInv'
<1>1. /\ \A o \in Msg : \/ status'[o] = status[o]
                        \/ status'[o] = "stranded"
                        \/ (status'[o] = "pending" /\ delivered[o] < MaxDeliver)
      /\ status' \in [Msg -> Open \cup {"acked", "termed"}]
  BY Zenon DEF AckWaitLapses, IInv, TypeOK, Open
<1>2. UNCHANGED <<kind, delivered, lake, loop, jobs, streak, workers, faults>>
  BY Zenon DEF AckWaitLapses
<1>3. TypeOK'
  BY <1>1, <1>2, Zenon DEF IInv, TypeOK, lake, loop, streak, workers
<1>4. \A o \in Msg : Stored(o)' <=> Stored(o)
  BY <1>2, Zenon DEF Stored, lake
<1>5. Settled'
  BY <1>1, <1>2, <1>4, Zenon
     DEF IInv, Settled, AckedIsStored, DropsHaveEvidence, Deliverable
<1> QED
  BY <1>2, <1>3, <1>5, LoopStep, Zenon DEF IInv, CopiesKnown, lake, loop, workers

\* A fetched message keeps the invariant.
LEMMA FetchKeeps ==
  ASSUME IInv, NEW m \in Msg, Fetch(m)
  PROVE  IInv'
<1> DEFINE c == [msg |-> m, n |-> delivered[m] + 1]
<1>1. /\ status[m] = "pending"
      /\ status' = [status EXCEPT ![m] = "outstanding"]
      /\ delivered' = [delivered EXCEPT ![m] = @ + 1]
      /\ msgs' = Append(msgs, c)
      /\ UNCHANGED <<kind, lake, run, ctxDone, fetching, buffer, cancelled, jobs,
                     streak, workers, faults>>
  BY Zenon DEF Fetch
<1>2. /\ TypeOK
      /\ status \in [Msg -> Open \cup {"acked", "termed"}]
      /\ delivered \in [Msg -> 0 .. MaxDeliver]
      /\ msgs \in Seq(Copy) /\ buffer \in Seq(Copy) /\ jobs \in Seq(Seq(Copy))
      /\ \A w \in Worker : job[w] \in Seq(Copy)
  BY Zenon DEF IInv, TypeOK, Bundles
<1>3. delivered[m] \in Nat /\ delivered[m] < MaxDeliver /\ MaxDeliver \in Nat
  BY <1>1, <1>2, SinkAssumption DEF IInv, Settled, Deliverable
<1>4. /\ delivered' \in [Msg -> 0 .. MaxDeliver]
      /\ delivered'[m] = delivered[m] + 1
      /\ \A o \in Msg : delivered[o] <= delivered'[o]
  BY <1>1, <1>2, <1>3
<1>5. c \in Copy /\ c.n <= delivered'[c.msg]
  BY <1>3, <1>4 DEF Copy
<1>6. ASSUME NEW seq \in Seq(Copy), Known(seq, delivered)
      PROVE  Known(seq, delivered')
  <2> SUFFICES ASSUME NEW i \in 1 .. Len(seq)
               PROVE  seq[i].n <= delivered'[seq[i].msg]
    BY Zenon DEF Known
  <2>1. seq[i] \in Copy
    OBVIOUS
  <2>2. /\ seq[i].n \in Nat /\ seq[i].msg \in Msg
        /\ seq[i].n <= delivered[seq[i].msg]
    BY <1>6, <2>1 DEF Known, Copy
  <2>3. delivered[seq[i].msg] \in Nat /\ delivered'[seq[i].msg] \in Nat
    BY <1>2, <1>4, <2>2
  <2> QED
    BY <1>4, <2>2, <2>3
<1>7. CopiesKnown'
  <2>1. Known(msgs', delivered') /\ msgs' \in Seq(Copy)
    BY Zenon, <1>1, <1>2, <1>5, <1>6, KnownAppend DEF IInv, CopiesKnown
  <2>2. Known(buffer', delivered') /\ \A w \in Worker : Known(job'[w], delivered')
    BY Zenon, <1>1, <1>2, <1>6 DEF IInv, CopiesKnown, workers
  <2>3. QueueKnown(jobs', delivered')
    <3>1. \A i \in 1 .. Len(jobs) : jobs[i] \in Seq(Copy)
      BY <1>2
    <3> QED
      BY Zenon, <1>1, <1>6, <3>1 DEF IInv, CopiesKnown, QueueKnown
  <2> QED
    BY <2>1, <2>2, <2>3, Zenon DEF CopiesKnown
<1>8. TypeOK'
  <2>1. msgs' \in Bundles
    BY <1>1, <1>2, <1>5, <1>6, KnownAppend, Zenon DEF IInv, CopiesKnown, Bundles
  <2>2. status' \in [Msg -> Open \cup {"acked", "termed"}]
    BY <1>1, <1>2, Zenon DEF Open
  <2> QED
    BY <1>1, <1>2, <1>4, <2>1, <2>2, Zenon DEF TypeOK, lake, streak, workers
<1>9. \A o \in Msg : Stored(o)' <=> Stored(o)
  BY <1>1, Zenon DEF Stored, lake
<1>10. Settled'
  <2>1. \A o \in Msg : \/ status'[o] = "outstanding"
                       \/ (status'[o] = status[o] /\ delivered'[o] = delivered[o])
    BY <1>1, <1>2, Zenon
  <2> QED
    BY <1>1, <1>9, <2>1, Zenon DEF IInv, Settled, AckedIsStored, DropsHaveEvidence, Deliverable
<1>11. \A w \in Worker : WorkerInv(w)'
  BY <1>1, <1>2, <1>9, WorkerFrame, Zenon DEF IInv, workers
<1> QED
  BY <1>7, <1>8, <1>10, <1>11, Zenon DEF IInv

\* Spending a fault keeps the budget a natural number.
LEMMA FaultType ==
  ASSUME TypeOK, Fault
  PROVE  faults' \in 0 .. MaxFaults
BY SinkAssumption DEF TypeOK, Fault

\* The end of the fetch loop keeps the invariant.
LEMMA FetchExitKeeps == IInv /\ FetchExit => IInv'
<1> SUFFICES ASSUME IInv, FetchExit PROVE IInv'
  BY Zenon
<1>1. /\ fetching' = FALSE
      /\ UNCHANGED <<wal, lake, run, ctxDone, buffer, cancelled, jobs, streak, workers>>
  BY Zenon DEF FetchExit
<1>2. TypeOK /\ msgs \in Seq(Copy) /\ Known(msgs, delivered)
  BY Zenon DEF IInv, TypeOK, CopiesKnown, Bundles
<1>3. msgs' \in Seq(Copy) /\ Known(msgs', delivered)
  BY Zenon, <1>2, KnownSubSeq DEF FetchExit
<1>4. faults' \in 0 .. MaxFaults
  BY <1>2, FaultType, Zenon DEF FetchExit, TypeOK
<1>5. TypeOK'
  BY Zenon, <1>1, <1>2, <1>3, <1>4 DEF TypeOK, Bundles, wal, lake, streak, workers
<1>6. Settled'
  BY <1>1, SettledFrame, Zenon DEF Stored, wal, lake
<1> QED
  BY <1>1, <1>3, <1>5, <1>6, LoopStep, Zenon DEF IInv, CopiesKnown, wal, lake, workers

\* Buffering a message, and the flush it may cause, keeps the invariant.
LEMMA ReceiveKeeps == IInv /\ RunReceive => IInv'
<1> SUFFICES ASSUME IInv, RunReceive PROVE IInv'
  BY Zenon
<1> DEFINE c == Head(msgs)
<1>1. /\ msgs # <<>> /\ msgs' = Tail(msgs)
      /\ UNCHANGED <<kind, delivered, lake, run, ctxDone, fetching, cancelled, streak,
                     workers, faults>>
  BY Zenon DEF RunReceive
<1>2. /\ TypeOK /\ CopiesKnown
      /\ msgs \in Seq(Copy) /\ Known(msgs, delivered)
      /\ buffer \in Seq(Copy) /\ Known(buffer, delivered)
  BY Zenon DEF IInv, TypeOK, CopiesKnown, Bundles
<1>3. /\ msgs' \in Seq(Copy) /\ Known(msgs', delivered)
      /\ c \in Copy /\ c.n <= delivered[c.msg]
  BY <1>1, <1>2, KnownTail, Zenon
<1>4. \/ /\ kind[c.msg] = "garbled"
         /\ status' \in {status, Term({c.msg})}
         /\ FlushReady(buffer)
      \/ FlushReady(Append(buffer, c)) /\ UNCHANGED status
  BY Zenon DEF RunReceive
<1> HIDE DEF c
<1>5. /\ buffer' \in Bundles /\ Known(buffer', delivered)
      /\ jobs' \in Seq(Bundles) /\ QueueKnown(jobs', delivered)
  <2>1. CASE FlushReady(buffer)
    BY <1>2, <2>1, FlushReadyKeeps, Zenon DEF Bundles
  <2>2. CASE FlushReady(Append(buffer, c))
    <3>1. Append(buffer, c) \in Bundles /\ Known(Append(buffer, c), delivered)
      BY <1>2, <1>3, KnownAppend, Zenon DEF Bundles
    <3> QED
      BY <1>2, <2>2, <3>1, FlushReadyKeeps, Zenon
  <2> QED
    BY <1>4, <2>1, <2>2, Zenon
<1>6. \A m \in Msg : Stored(m) => Stored(m)'
  BY <1>1, Zenon DEF Stored, lake
<1>7. status' \in [Msg -> Open \cup {"acked", "termed"}] /\ Settled'
  <2>1. CASE UNCHANGED status
    BY <1>1, <1>2, <1>6, <2>1, SettledFrame, Zenon DEF TypeOK
  <2>2. CASE kind[c.msg] = "garbled" /\ status' \in {status, Term({c.msg})}
    <3> DEFINE S == {c.msg}
    <3>1. S \in SUBSET Msg /\ \A m \in S : kind[m] \notin {"healthy", "stubborn"}
      BY <1>3, <2>2, Zenon DEF Copy
    <3>2. status' \in {status, Term(S)}
      BY <2>2, Zenon
    <3> HIDE DEF S
    <3> QED
      BY Zenon, <1>1, <1>6, <3>1, <3>2, TermKeeps
  <2> QED
    BY <1>4, <2>1, <2>2, Zenon
<1>8. TypeOK'
  BY <1>1, <1>2, <1>3, <1>5, <1>7, Zenon DEF TypeOK, Bundles, lake, streak, workers
<1> QED
  BY <1>1, <1>3, <1>5, <1>7, <1>8, LoopStep, Zenon DEF lake, workers

\* The steps of Run that move at most the buffer.
LEMMA RunKeeps ==
  ASSUME IInv,
         RunTick \/ RunFatal \/ RunLoopEnds \/ RunDrain \/ RunReturn \/ Cancel \/ DrainDeadline
  PROVE  IInv'
<1>1. UNCHANGED <<wal, lake, fetching, msgs, streak, workers>>
  BY Zenon DEF RunTick, RunFatal, RunLoopEnds, RunDrain, RunReturn, Cancel, DrainDeadline
<1>2. /\ TypeOK /\ CopiesKnown
      /\ buffer \in Bundles /\ Known(buffer, delivered) /\ Known(msgs, delivered)
      /\ jobs \in Seq(Bundles) /\ QueueKnown(jobs, delivered)
  BY Zenon DEF IInv, TypeOK, CopiesKnown
<1>3. Enqueue(buffer) \/ UNCHANGED <<buffer, jobs>>
  BY Zenon DEF RunTick, RunFatal, RunLoopEnds, RunDrain, RunReturn, Cancel, DrainDeadline
<1>4. /\ buffer' \in Bundles /\ Known(buffer', delivered)
      /\ jobs' \in Seq(Bundles) /\ QueueKnown(jobs', delivered)
  BY <1>2, <1>3, FlushReadyKeeps, Zenon
<1>5. Fault \/ UNCHANGED faults
  BY Zenon DEF RunTick, RunFatal, RunLoopEnds, RunDrain, RunReturn, Cancel, DrainDeadline
<1>6. faults' \in 0 .. MaxFaults
  BY <1>2, <1>5, FaultType, Zenon DEF TypeOK
<1>7. run' \in {"select", "drain", "closed", "stopped"}
  BY <1>2, Zenon DEF RunTick, RunFatal, RunLoopEnds, RunDrain, RunReturn, Cancel, DrainDeadline,
              TypeOK
<1>8. ctxDone' \in BOOLEAN /\ cancelled' \in BOOLEAN
  BY Zenon, <1>2 DEF RunTick, RunFatal, RunLoopEnds, RunDrain, RunReturn, Cancel, DrainDeadline,
              TypeOK
<1>9. TypeOK'
  BY <1>1, <1>2, <1>4, <1>6, <1>7, <1>8, Zenon DEF TypeOK, wal, lake, streak, workers
<1>10. Settled'
  BY <1>1, SettledFrame, Zenon DEF Stored, wal, lake
<1> QED
  BY <1>1, <1>2, <1>4, <1>9, <1>10, LoopStep, Zenon DEF wal, lake, workers

\* A restart or a crash keeps the invariant: only the server and the lake survive.
LEMMA RestartKeeps == IInv /\ (Restart \/ Crash) => IInv'
<1> SUFFICES ASSUME IInv, Restart \/ Crash PROVE IInv'
  BY Zenon
<1>1. FreshProcess /\ (Fault \/ UNCHANGED faults)
  BY Zenon DEF Restart, Crash
<1>2. TypeOK /\ faults' \in 0 .. MaxFaults
  BY <1>1, FaultType, Zenon DEF IInv, TypeOK
<1>3. /\ NoPass \in AnyPass /\ NoPass \in Passes(0)
      /\ NoPass.lo = 1 /\ NoPass.ends = <<>> /\ NoPass.committed = 0
  BY DEF NoPass, Pass, AnyPass, Passes
<1>4. <<>> \in Bundles /\ <<>> \in Seq(Bundles) /\ Len(<<>>) = 0
  BY DEF Bundles
<1>5. /\ pc' = [w \in Worker |-> "idle"]
      /\ job' = [w \in Worker |-> <<>>]
      /\ iso' = [w \in Worker |-> NoPass]
      /\ msgs' = <<>> /\ buffer' = <<>> /\ jobs' = <<>>
      /\ UNCHANGED <<wal, lake>>
  BY <1>1, Zenon DEF FreshProcess
<1>6. TypeOK'
  <2>1. /\ run' = "select"
        /\ ctxDone' \in BOOLEAN /\ fetching' \in BOOLEAN /\ cancelled' \in BOOLEAN
        /\ failing' \in BOOLEAN /\ fatal' \in BOOLEAN
        /\ alive' \in [Worker -> BOOLEAN]
    BY Zenon, <1>1 DEF FreshProcess
  <2> QED
    BY <1>2, <1>3, <1>4, <1>5, <2>1, Zenon DEF TypeOK, wal, lake
<1>7. CopiesKnown'
  BY <1>5, KnownEmpty, Zenon DEF CopiesKnown
<1>8. ASSUME NEW w \in Worker PROVE WorkerInv(w)'
  <2>1. iso'[w] = NoPass /\ job'[w] = <<>> /\ pc'[w] = "idle"
    BY <1>5, Zenon
  <2> QED
    BY <1>3, <1>4, <2>1 DEF WorkerInv, Increasing
<1>9. Settled'
  BY <1>5, SettledFrame, Zenon DEF Stored, wal, lake
<1> QED
  BY <1>6, <1>7, <1>8, <1>9, Zenon DEF IInv

-------------------------------------------------------------------------------
\* Steps of the workers.

\* A step of worker w: the other workers are as they were.
LEMMA WorkerStep ==
  ASSUME IInv, NEW w \in Worker, TypeOK', UNCHANGED <<delivered, msgs, buffer>>,
         QueueKnown(jobs', delivered),
         \A v \in Worker \ {w} :
            pc'[v] = pc[v] /\ job'[v] = job[v] /\ iso'[v] = iso[v],
         Known(job'[w], delivered), WorkerInv(w)',
         \A m \in Msg : Stored(m) => Stored(m)',
         Settled'
  PROVE  IInv'
<1>1. \A v \in Worker : WorkerInv(v)'
  BY WorkerFrame, Zenon DEF IInv
<1>2. CopiesKnown'
  BY Zenon DEF IInv, CopiesKnown
<1> QED
  BY <1>1, <1>2, Zenon DEF IInv

\* The passes of a bundle are passes, and the empty one is a pass of any bundle.
LEMMA PassTypes ==
  ASSUME NEW n \in Nat
  PROVE  /\ Passes(n) \subseteq AnyPass
         /\ NoPass \in Passes(n) /\ Increasing(NoPass.lo, NoPass.ends)
         /\ NoPass.lo = 1 /\ NoPass.committed = 0
<1>1. Seq(1 .. n + 1) \subseteq Seq(Nat)
  <2> SUFFICES ASSUME NEW q \in Seq(1 .. n + 1) PROVE q \in Seq(Nat)
    BY Zenon
  <2>1. Len(q) \in Nat /\ q \in [1 .. Len(q) -> 1 .. n + 1]
    OBVIOUS
  <2>2. q \in [1 .. Len(q) -> Nat]
    BY <2>1
  <2> QED
    BY <2>1, <2>2
<1>2. Passes(n) \subseteq AnyPass
  BY <1>1 DEF Passes, AnyPass
<1>3. NoPass.lo = 1 /\ NoPass.ends = <<>> /\ NoPass.committed = 0
  BY Zenon DEF NoPass, Pass
<1>4. NoPass \in Passes(n)
  BY DEF NoPass, Pass, Passes
<1> QED
  BY <1>2, <1>3, <1>4 DEF Increasing

\* A worker that takes a bundle keeps the invariant.
LEMMA TakeJobKeeps ==
  ASSUME IInv, NEW w \in Worker, TakeJob(w)
  PROVE  IInv'
<1>1. /\ pc[w] = "idle" /\ jobs # <<>>
      /\ jobs' = Tail(jobs)
      /\ job' = [job EXCEPT ![w] = Head(jobs)]
      /\ pc' = [pc EXCEPT ![w] = "flush"]
      /\ alive' = [alive EXCEPT ![w] = TRUE]
      /\ UNCHANGED <<wal, lake, loop, streak, iso, faults>>
  BY Zenon DEF TakeJob
<1>2. /\ TypeOK /\ jobs \in Seq(Bundles) /\ QueueKnown(jobs, delivered)
      /\ pc \in [Worker -> {"idle", "flush", "ackAll", "isolate", "ackRange"}]
      /\ job \in [Worker -> Bundles] /\ alive \in [Worker -> BOOLEAN]
  BY Zenon DEF IInv, TypeOK, CopiesKnown
<1>3. /\ jobs' \in Seq(Bundles) /\ QueueKnown(jobs', delivered)
      /\ Head(jobs) \in Bundles /\ Known(Head(jobs), delivered) /\ Head(jobs) # <<>>
  BY <1>1, <1>2, QueueTail, Zenon
<1>4. job'[w] = Head(jobs) /\ pc'[w] = "flush" /\ iso'[w] = NoPass
  BY <1>1, <1>2, Zenon DEF IInv, WorkerInv
<1>5. TypeOK'
  <2>1. /\ pc' \in [Worker -> {"idle", "flush", "ackAll", "isolate", "ackRange"}]
        /\ job' \in [Worker -> Bundles] /\ alive' \in [Worker -> BOOLEAN]
    BY <1>1, <1>2, <1>3, Zenon
  <2> QED
    BY <1>1, <1>2, <1>3, <2>1, Zenon DEF TypeOK, wal, lake, loop, streak
<1>6. WorkerInv(w)'
  <2>1. Len(Head(jobs)) \in Nat
    BY <1>3 DEF Bundles
  <2>2. /\ NoPass \in Passes(Len(Head(jobs))) /\ Increasing(NoPass.lo, NoPass.ends)
        /\ NoPass.lo = 1 /\ NoPass.committed = 0
    BY <2>1, PassTypes, Zenon
  <2> QED
    BY <1>3, <1>4, <2>2 DEF WorkerInv
<1>7. \A m \in Msg : Stored(m) => Stored(m)'
  BY <1>1, Zenon DEF Stored, lake
<1>8. Settled'
  BY <1>1, <1>7, SettledFrame, Zenon DEF wal
<1> QED
  BY <1>1, <1>2, <1>3, <1>4, <1>5, <1>6, <1>7, <1>8, WorkerStep, Zenon DEF wal, loop

\* A worker that stops with its context keeps the invariant.
LEMMA ContextEndsKeeps ==
  ASSUME IInv, NEW w \in Worker, ContextEnds(w)
  PROVE  IInv'
<1>1. /\ alive' = [alive EXCEPT ![w] = FALSE] /\ Fault
      /\ UNCHANGED <<wal, lake, loop, jobs, streak, pc, job, iso>>
  BY Zenon DEF ContextEnds
<1>2. TypeOK /\ alive \in [Worker -> BOOLEAN]
  BY Zenon DEF IInv, TypeOK
<1>3. faults' \in 0 .. MaxFaults /\ alive' \in [Worker -> BOOLEAN]
  BY <1>1, <1>2, FaultType, Zenon
<1>4. TypeOK'
  BY <1>1, <1>2, <1>3, Zenon DEF TypeOK, wal, lake, loop, streak
<1>5. Settled'
  BY <1>1, SettledFrame, Zenon DEF Stored, wal, lake
<1> QED
  BY <1>1, <1>4, <1>5, LoopStep, Zenon DEF IInv, CopiesKnown, wal, lake, loop

\* What a write of the rows I leaves behind, committed, rejected or failed.
LEMMA WriteKeeps ==
  ASSUME TypeOK, NEW w \in Worker, NEW I \in SUBSET Whole(w),
         \/ WriteCommits(w, I)
         \/ WriteRejects(w, I)
         \/ WriteFaults(w, I)
         \/ UNCHANGED <<lake, faults>>
  PROVE  /\ rows' \in [Copy -> Nat] /\ ambiguous' \in [Copy -> Nat]
         /\ faults' \in 0 .. MaxFaults
         /\ \A m \in Msg : Stored(m) => Stored(m)'
         /\ WriteCommits(w, I) => \A m \in Messages(w, I) : Stored(m)'
<1>1. /\ Copies(w, I) \in SUBSET Copy
      /\ \A m \in Messages(w, I) : \E c \in Copies(w, I) : c.msg = m
  BY BundleParts, Zenon
<1>2. rows' = Bump(rows, Copies(w, I)) \/ UNCHANGED rows
  BY Zenon DEF WriteCommits, WriteRejects, WriteFaults, lake
<1>3. ambiguous' = Bump(ambiguous, Copies(w, I)) \/ UNCHANGED ambiguous
  BY Zenon DEF WriteCommits, WriteRejects, WriteFaults, lake
<1>4. Fault \/ UNCHANGED faults
  BY Zenon DEF WriteCommits, WriteRejects, WriteFaults
<1>5. ambiguous' \in [Copy -> Nat]
  BY <1>3 DEF TypeOK, Bump
<1>6. faults' \in 0 .. MaxFaults
  BY <1>4, FaultType, Zenon DEF TypeOK
<1>7. CASE rows' = Bump(rows, Copies(w, I))
  BY <1>1, <1>5, <1>6, <1>7, CommitStores, Zenon
<1>8. CASE UNCHANGED rows /\ ~WriteCommits(w, I)
  BY <1>5, <1>6, <1>8, Zenon DEF Stored, TypeOK
<1> QED
  BY <1>2, <1>7, <1>8, Zenon DEF WriteCommits

\* The state of worker w, as its steps find it.
LEMMA WorkerState ==
  ASSUME IInv, NEW w \in Worker
  PROVE  /\ TypeOK /\ WorkerInv(w) /\ QueueKnown(jobs, delivered)
         /\ Known(job[w], delivered)
         /\ pc \in [Worker -> {"idle", "flush", "ackAll", "isolate", "ackRange"}]
         /\ job \in [Worker -> Bundles] /\ iso \in [Worker -> AnyPass]
         /\ job[w] \in Seq(Copy) /\ Len(job[w]) \in Nat
         /\ job[w] # <<>> => Len(job[w]) \in Nat \ {0}
         /\ ~Finished(iso[w]) => Span(iso[w]) \in SUBSET Whole(w)
<1>1. /\ TypeOK /\ WorkerInv(w) /\ QueueKnown(jobs, delivered)
      /\ Known(job[w], delivered)
  BY Zenon DEF IInv, CopiesKnown
<1>2. /\ pc \in [Worker -> {"idle", "flush", "ackAll", "isolate", "ackRange"}]
      /\ job \in [Worker -> Bundles] /\ iso \in [Worker -> AnyPass]
  BY <1>1, Zenon DEF TypeOK
<1>3. job[w] \in Seq(Copy)
  BY <1>2, Zenon DEF Bundles
<1>4. Len(job[w]) \in Nat /\ (job[w] # <<>> => Len(job[w]) \in Nat \ {0})
  BY <1>3
<1>5. ~Finished(iso[w]) => Span(iso[w]) \in SUBSET Whole(w)
  BY <1>1, <1>4, OpenCall, Zenon DEF WorkerInv, Whole
<1> QED
  BY <1>1, <1>2, <1>3, <1>4, <1>5, Zenon

\* The commit of a whole bundle keeps the invariant.
LEMMA FlushCommitsKeeps ==
  ASSUME IInv, NEW w \in Worker, FlushCommits(w)
  PROVE  IInv'
<1>1. /\ pc[w] = "flush"
      /\ WriteCommits(w, Whole(w))
      /\ failing' = FALSE
      /\ pc' = [pc EXCEPT ![w] = "ackAll"]
      /\ UNCHANGED <<wal, loop, jobs, fatal, job, iso, alive>>
  BY Zenon DEF FlushCommits
<1>2. /\ TypeOK /\ WorkerInv(w) /\ QueueKnown(jobs, delivered)
      /\ Known(job[w], delivered)
      /\ pc \in [Worker -> {"idle", "flush", "ackAll", "isolate", "ackRange"}]
  BY WorkerState, Zenon
<1>3. /\ rows' \in [Copy -> Nat] /\ ambiguous' \in [Copy -> Nat]
      /\ faults' \in 0 .. MaxFaults
      /\ \A m \in Msg : Stored(m) => Stored(m)'
      /\ \A m \in Messages(w, Whole(w)) : Stored(m)'
  BY <1>1, <1>2, WriteKeeps, Zenon
<1>4. /\ pc'[w] = "ackAll" /\ \A v \in Worker \ {w} : pc'[v] = pc[v]
      /\ pc' \in [Worker -> {"idle", "flush", "ackAll", "isolate", "ackRange"}]
  BY <1>1, <1>2, Zenon
<1>5. TypeOK'
  BY Zenon, <1>1, <1>2, <1>3, <1>4 DEF TypeOK, wal, loop
<1>6. WorkerInv(w)'
  <2>1. Messages(w, Whole(w))' = Messages(w, Whole(w))
    BY <1>1, Zenon DEF Messages, Whole
  <2> QED
    BY <1>1, <1>2, <1>3, <1>4, <2>1, Zenon DEF WorkerInv
<1>7. Settled'
  BY <1>1, <1>3, SettledFrame, Zenon DEF wal
<1> QED
  BY <1>1, <1>2, <1>3, <1>4, <1>5, <1>6, <1>7, WorkerStep, Zenon DEF wal, loop

\* A failed flush of a whole bundle keeps the invariant.
LEMMA FlushFailsKeeps ==
  ASSUME IInv, NEW w \in Worker, FlushFails(w)
  PROVE  IInv'
<1> DEFINE start == IsolateStart(Len(job[w]))
<1>1. /\ pc[w] = "flush"
      /\ pc' = [pc EXCEPT ![w] = "isolate"]
      /\ iso' = [iso EXCEPT ![w] = start]
      /\ UNCHANGED <<wal, loop, jobs, job, alive>>
  BY Zenon DEF FlushFails
<1>2. /\ TypeOK /\ WorkerInv(w) /\ QueueKnown(jobs, delivered)
      /\ Known(job[w], delivered)
      /\ pc \in [Worker -> {"idle", "flush", "ackAll", "isolate", "ackRange"}]
      /\ iso \in [Worker -> AnyPass]
      /\ Len(job[w]) \in Nat /\ (job[w] # <<>> => Len(job[w]) \in Nat \ {0})
  BY WorkerState, Zenon
<1>3. /\ rows' \in [Copy -> Nat] /\ ambiguous' \in [Copy -> Nat]
      /\ faults' \in 0 .. MaxFaults
      /\ \A m \in Msg : Stored(m) => Stored(m)'
  <2>1. \/ WriteRejects(w, Whole(w))
        \/ WriteFaults(w, Whole(w))
        \/ UNCHANGED <<lake, faults>>
    BY Zenon DEF FlushFails
  <2> QED
    BY <1>2, <2>1, WriteKeeps, Zenon
<1>4. failing' \in BOOLEAN /\ fatal' \in BOOLEAN
  BY Zenon, <1>2 DEF FlushFails, RecordCommitFailure, TypeOK
<1>5. job[w] # <<>> /\ Len(job[w]) \in Nat \ {0}
  BY <1>1, <1>2, Zenon DEF WorkerInv
<1>6. /\ start \in Passes(Len(job[w])) /\ start \in AnyPass
      /\ start.lo = 1 /\ start.committed = 0
      /\ Increasing(start.lo, start.ends)
  BY <1>5, StartFields, PassTypes, Zenon
<1> HIDE DEF start
<1>7. /\ pc'[w] = "isolate" /\ iso'[w] = start
      /\ \A v \in Worker \ {w} : pc'[v] = pc[v] /\ iso'[v] = iso[v]
      /\ pc' \in [Worker -> {"idle", "flush", "ackAll", "isolate", "ackRange"}]
      /\ iso' \in [Worker -> AnyPass]
  BY <1>1, <1>2, <1>6, Zenon
<1>8. TypeOK'
  BY <1>1, <1>2, <1>3, <1>4, <1>7, Zenon DEF TypeOK, wal, loop
<1>9. WorkerInv(w)'
  BY <1>1, <1>5, <1>6, <1>7 DEF WorkerInv
<1>10. Settled'
  BY <1>1, <1>3, SettledFrame, Zenon DEF wal
<1> QED
  BY <1>1, <1>2, <1>3, <1>7, <1>8, <1>9, <1>10, WorkerStep, Zenon DEF wal, loop

\* The worker gives up its bundle, having acked what was stored or nothing.
LEMMA DoneKeeps ==
  ASSUME IInv, NEW w \in Worker, WorkerDone(w),
         UNCHANGED <<kind, delivered, lake, loop, jobs, streak, alive, faults>>,
         status' \in [Msg -> Open \cup {"acked", "termed"}], Settled'
  PROVE  IInv'
<1>1. /\ TypeOK /\ QueueKnown(jobs, delivered)
      /\ pc \in [Worker -> {"idle", "flush", "ackAll", "isolate", "ackRange"}]
      /\ job \in [Worker -> Bundles] /\ iso \in [Worker -> AnyPass]
  BY WorkerState, Zenon
<1>2. /\ NoPass \in AnyPass /\ NoPass \in Passes(0)
      /\ NoPass.lo = 1 /\ NoPass.committed = 0
      /\ Increasing(NoPass.lo, NoPass.ends)
  BY PassTypes, Zenon
<1>3. <<>> \in Bundles /\ Len(<<>>) = 0 /\ Known(<<>>, delivered)
  BY KnownEmpty DEF Bundles
<1>4. /\ pc'[w] = "idle" /\ job'[w] = <<>> /\ iso'[w] = NoPass
      /\ \A v \in Worker \ {w} :
           pc'[v] = pc[v] /\ job'[v] = job[v] /\ iso'[v] = iso[v]
      /\ pc' \in [Worker -> {"idle", "flush", "ackAll", "isolate", "ackRange"}]
      /\ job' \in [Worker -> Bundles] /\ iso' \in [Worker -> AnyPass]
  BY <1>1, <1>2, <1>3, Zenon DEF WorkerDone
<1>5. TypeOK'
  BY <1>1, <1>4, Zenon DEF TypeOK, lake, loop, streak
<1>6. WorkerInv(w)'
  BY <1>2, <1>3, <1>4 DEF WorkerInv
<1>7. \A m \in Msg : Stored(m) => Stored(m)'
  BY Zenon DEF Stored, lake
<1> QED
  BY <1>1, <1>3, <1>4, <1>5, <1>6, <1>7, WorkerStep, Zenon DEF loop

\* Acking a committed bundle keeps the invariant.
LEMMA AckAllKeeps ==
  ASSUME IInv, NEW w \in Worker, AckAll(w)
  PROVE  IInv'
<1>1. TypeOK /\ WorkerInv(w)
  BY WorkerState, Zenon
<1>2. PICK S \in SUBSET Messages(w, Whole(w)) : status' = Ack(S)
  BY Zenon DEF AckAll
<1>3. S \in SUBSET Msg /\ \A m \in S : Stored(m)
  BY <1>1, <1>2, BundleParts, Zenon DEF AckAll, WorkerInv
<1>4. status' \in [Msg -> Open \cup {"acked", "termed"}] /\ Settled'
  BY <1>2, <1>3, AckKeeps, Zenon DEF AckAll, lake
<1> QED
  BY <1>4, DoneKeeps, Zenon DEF AckAll

\* The end of an isolation pass keeps the invariant.
LEMMA IsolateEndsKeeps ==
  ASSUME IInv, NEW w \in Worker, IsolateEnds(w)
  PROVE  IInv'
<1>1. TypeOK
  BY Zenon DEF IInv
<1>2. status' \in [Msg -> Open \cup {"acked", "termed"}] /\ Settled'
  BY <1>1, SettledFrame, Zenon DEF IsolateEnds, Stored, wal, lake, TypeOK
<1> QED
  BY <1>2, DoneKeeps, Zenon DEF IsolateEnds, wal

\* A call of the pass returns or splits; a commit is counted only if it stored.
LEMMA PassKeeps ==
  ASSUME IInv, NEW w \in Worker, pc[w] # "idle", ~Finished(iso[w]),
         pc' = [pc EXCEPT ![w] = "isolate"],
         NEW p, iso' = [iso EXCEPT ![w] = p],
         \/ p \in {Return(iso[w]), Fail(iso[w]), Commit(iso[w])}
         \/ p = Split(iso[w]) /\ Hi(iso[w]) - iso[w].lo # 1,
         p = Commit(iso[w]) => \E m \in Msg : Stored(m)',
         UNCHANGED <<kind, delivered, loop, jobs, streak, job, alive>>,
         rows' \in [Copy -> Nat], ambiguous' \in [Copy -> Nat],
         faults' \in 0 .. MaxFaults,
         \A m \in Msg : Stored(m) => Stored(m)',
         status' \in [Msg -> Open \cup {"acked", "termed"}], Settled'
  PROVE  IInv'
<1>1. /\ TypeOK /\ WorkerInv(w) /\ QueueKnown(jobs, delivered)
      /\ Known(job[w], delivered)
      /\ pc \in [Worker -> {"idle", "flush", "ackAll", "isolate", "ackRange"}]
      /\ iso \in [Worker -> AnyPass]
      /\ Len(job[w]) \in Nat
  BY WorkerState, Zenon
<1>2. /\ p \in Passes(Len(job[w]))
      /\ Increasing(p.lo, p.ends)
      /\ p.committed < p.lo
      /\ p.committed = iso[w].committed \/ p = Commit(iso[w])
  <2>1. CASE p \in {Return(iso[w]), Fail(iso[w]), Commit(iso[w])}
    BY Zenon, <1>1, <2>1, ReturnFields DEF WorkerInv
  <2>2. CASE p = Split(iso[w]) /\ Hi(iso[w]) - iso[w].lo # 1
    BY Zenon, <1>1, <2>2, SplitFields DEF WorkerInv
  <2> QED
    BY Zenon, <2>1, <2>2
<1>3. p \in AnyPass
  BY <1>1, <1>2, PassTypes, Zenon
<1>4. p.committed > 0 => \E m \in Msg : Stored(m)'
  BY <1>1, <1>2, Zenon DEF WorkerInv
<1>5. /\ pc'[w] = "isolate" /\ iso'[w] = p
      /\ \A v \in Worker \ {w} : pc'[v] = pc[v] /\ iso'[v] = iso[v]
      /\ pc' \in [Worker -> {"idle", "flush", "ackAll", "isolate", "ackRange"}]
      /\ iso' \in [Worker -> AnyPass]
  BY <1>1, <1>3, Zenon
<1>6. TypeOK'
  BY <1>1, <1>5, Zenon DEF TypeOK, loop, streak
<1>7. WorkerInv(w)'
  BY Zenon, <1>1, <1>2, <1>4, <1>5 DEF WorkerInv
<1> QED
  BY <1>1, <1>5, <1>6, <1>7, WorkerStep, Zenon DEF loop

\* A frame of isolate that returns keeps the invariant.
LEMMA IsolateReturnsKeeps ==
  ASSUME IInv, NEW w \in Worker, IsolateReturns(w)
  PROVE  IInv'
<1>1. TypeOK /\ pc \in [Worker -> {"idle", "flush", "ackAll", "isolate", "ackRange"}]
  BY WorkerState, Zenon
<1>2. /\ pc[w] = "isolate" /\ ~Finished(iso[w])
      /\ iso' = [iso EXCEPT ![w] = Return(iso[w])]
      /\ UNCHANGED <<wal, lake, loop, jobs, streak, pc, job, alive, faults>>
  BY Zenon DEF IsolateReturns, InRange
<1>3. pc' = [pc EXCEPT ![w] = "isolate"]
  BY <1>1, <1>2, Zenon
<1>4. \A m \in Msg : Stored(m)' <=> Stored(m)
  BY <1>2, Zenon DEF Stored, lake
<1>5. Settled'
  BY <1>2, <1>4, SettledFrame, Zenon DEF wal
<1>6. /\ rows' \in [Copy -> Nat] /\ ambiguous' \in [Copy -> Nat]
      /\ faults' \in 0 .. MaxFaults
      /\ status' \in [Msg -> Open \cup {"acked", "termed"}]
  BY <1>1, <1>2, Zenon DEF TypeOK, wal, lake
<1>7. Return(iso[w]) = Commit(iso[w]) => \E m \in Msg : Stored(m)'
  <2>1. /\ Len(job[w]) \in Nat /\ iso[w] \in Passes(Len(job[w]))
        /\ Increasing(iso[w].lo, iso[w].ends)
    BY WorkerState, Zenon DEF WorkerInv
  <2>2. iso[w].attempts \in Nat
    BY <1>2, <2>1, OpenCall, Zenon
  <2>3. Return(iso[w]).attempts = iso[w].attempts /\ Commit(iso[w]).attempts = iso[w].attempts + 1
    BY Zenon DEF Return, Commit, Pass
  <2> QED
    BY <2>2, <2>3
<1> QED
  BY Zenon, <1>2, <1>3, <1>4, <1>5, <1>6, <1>7, PassKeeps DEF wal

\* The commit of a range keeps the invariant.
LEMMA RangeCommitsKeeps ==
  ASSUME IInv, NEW w \in Worker, RangeCommits(w)
  PROVE  IInv'
<1>1. /\ pc[w] = "isolate" /\ ~Finished(iso[w])
      /\ WriteCommits(w, Span(iso[w]))
      /\ failing' = FALSE
      /\ pc' = [pc EXCEPT ![w] = "ackRange"]
      /\ UNCHANGED <<wal, loop, jobs, fatal, job, iso, alive>>
  BY Zenon DEF RangeCommits, InRange
<1>2. /\ TypeOK /\ WorkerInv(w) /\ QueueKnown(jobs, delivered)
      /\ Known(job[w], delivered)
      /\ pc \in [Worker -> {"idle", "flush", "ackAll", "isolate", "ackRange"}]
      /\ Span(iso[w]) \in SUBSET Whole(w)
  BY <1>1, WorkerState, Zenon
<1>3. /\ rows' \in [Copy -> Nat] /\ ambiguous' \in [Copy -> Nat]
      /\ faults' \in 0 .. MaxFaults
      /\ \A m \in Msg : Stored(m) => Stored(m)'
      /\ \A m \in Messages(w, Span(iso[w])) : Stored(m)'
  BY <1>1, <1>2, WriteKeeps, Zenon
<1>4. /\ pc'[w] = "ackRange" /\ \A v \in Worker \ {w} : pc'[v] = pc[v]
      /\ pc' \in [Worker -> {"idle", "flush", "ackAll", "isolate", "ackRange"}]
  BY <1>1, <1>2, Zenon
<1>5. TypeOK'
  BY Zenon, <1>1, <1>2, <1>3, <1>4 DEF TypeOK, wal, loop
<1>6. WorkerInv(w)'
  <2>1. /\ Messages(w, Span(iso[w]))' = Messages(w, Span(iso[w]))
        /\ Finished(iso[w])' = Finished(iso[w])
    BY <1>1, Zenon DEF Messages, Span, Hi, Finished
  <2> QED
    BY Zenon, <1>1, <1>2, <1>3, <1>4, <2>1 DEF WorkerInv
<1>7. Settled'
  BY <1>1, <1>3, SettledFrame, Zenon DEF wal
<1> QED
  BY Zenon, <1>1, <1>2, <1>3, <1>4, <1>5, <1>6, <1>7, WorkerStep DEF wal, loop

\* Acking a committed range keeps the invariant.
LEMMA AckRangeKeeps ==
  ASSUME IInv, NEW w \in Worker, AckRange(w)
  PROVE  IInv'
<1>1. /\ pc[w] = "ackRange"
      /\ iso' = [iso EXCEPT ![w] = Commit(iso[w])]
      /\ pc' = [pc EXCEPT ![w] = "isolate"]
      /\ UNCHANGED <<kind, delivered, lake, loop, jobs, streak, job, alive, faults>>
  BY Zenon DEF AckRange
<1>2. TypeOK /\ WorkerInv(w) /\ ~Finished(iso[w])
  BY <1>1, WorkerState, Zenon DEF WorkerInv
<1>3. /\ Span(iso[w]) \in SUBSET Whole(w)
      /\ Messages(w, Span(iso[w])) \in SUBSET Msg
      /\ \A m \in Messages(w, Span(iso[w])) : Stored(m)
  BY <1>1, <1>2, WorkerState, BundleParts, Zenon DEF WorkerInv
<1>4. PICK S \in SUBSET Messages(w, Span(iso[w])) : status' = Ack(S)
  BY Zenon DEF AckRange
<1>5. S \in SUBSET Msg /\ \A m \in S : Stored(m)
  BY <1>3, <1>4, Zenon
<1>6. status' \in [Msg -> Open \cup {"acked", "termed"}] /\ Settled'
  BY <1>1, <1>4, <1>5, AckKeeps, Zenon DEF lake
<1>7. \A m \in Msg : Stored(m)' <=> Stored(m)
  BY <1>1, Zenon DEF Stored, lake
<1>8. \E m \in Msg : Stored(m)'
  <2>1. iso[w].lo \in Span(iso[w])
    <3>1. /\ Len(job[w]) \in Nat /\ iso[w] \in Passes(Len(job[w]))
          /\ Increasing(iso[w].lo, iso[w].ends)
      BY <1>2, WorkerState, Zenon DEF WorkerInv
    <3>2. /\ iso[w].lo \in 1 .. Len(job[w]) + 1 /\ Hi(iso[w]) \in 1 .. Len(job[w]) + 1
          /\ iso[w].lo < Hi(iso[w])
      BY <1>2, <3>1, OpenCall, Zenon
    <3> QED
      BY <3>1, <3>2 DEF Span
  <2>2. job[w][iso[w].lo].msg \in Messages(w, Span(iso[w]))
    BY <2>1, Zenon DEF Messages
  <2> QED
    BY <1>3, <1>7, <2>2, Zenon
<1>9. /\ rows' \in [Copy -> Nat] /\ ambiguous' \in [Copy -> Nat]
      /\ faults' \in 0 .. MaxFaults
  BY <1>1, <1>2, Zenon DEF TypeOK, lake
<1> QED
  BY Zenon, <1>1, <1>2, <1>6, <1>7, <1>8, <1>9, PassKeeps

\* A range of one row, and the delivery in it.
LEMMA SingleRow ==
  ASSUME IInv, NEW w \in Worker, ~Finished(iso[w]), Hi(iso[w]) - iso[w].lo = 1
  PROVE  LET c == job[w][iso[w].lo]
         IN  /\ c \in Copy /\ c.msg \in Msg /\ c.n <= delivered[c.msg]
             /\ Messages(w, Span(iso[w])) = {c.msg}
<1>1. /\ WorkerInv(w) /\ Known(job[w], delivered)
      /\ Len(job[w]) \in Nat /\ job[w] \in Seq(Copy)
  BY WorkerState, Zenon
<1>2. /\ iso[w].lo \in 1 .. Len(job[w]) + 1 /\ Hi(iso[w]) \in 1 .. Len(job[w]) + 1
      /\ iso[w].lo < Hi(iso[w])
  BY <1>1, OpenCall, Zenon DEF WorkerInv
<1>3. Span(iso[w]) = {iso[w].lo} /\ iso[w].lo \in 1 .. Len(job[w])
  BY <1>1, <1>2 DEF Span
<1>4. job[w][iso[w].lo] \in Copy
  BY <1>1, <1>3
<1>5. job[w][iso[w].lo].n <= delivered[job[w][iso[w].lo].msg]
  BY <1>1, <1>3, Zenon DEF Known
<1>6. job[w][iso[w].lo].msg \in Msg
  BY <1>4, Zenon DEF Copy
<1>7. Messages(w, Span(iso[w])) = {job[w][iso[w].lo].msg}
  BY Zenon, <1>3 DEF Messages
<1> QED
  BY <1>4, <1>5, <1>6, <1>7, Zenon

\* What Evidence establishes against the one row of the range.
LEMMA SingleEvidence ==
  ASSUME IInv, NEW w \in Worker, ~Finished(iso[w]), Hi(iso[w]) - iso[w].lo = 1,
         NEW tagged \in BOOLEAN, tagged => kind[job[w][iso[w].lo].msg] = "poison",
         Evidence(w, tagged)
  PROVE  LET m == job[w][iso[w].lo].msg
         IN  \/ kind[m] \notin {"healthy", "stubborn"}
             \/ (delivered[m] >= PoisonThreshold /\ \E o \in Msg : Stored(o))
<1>1. CASE tagged
  BY <1>1, Zenon
<1>2. CASE iso[w].committed > 0 /\ job[w][iso[w].lo].n >= PoisonThreshold
  <2>1. PICK c \in Copy : /\ c = job[w][iso[w].lo] /\ c.msg \in Msg
                          /\ c.n <= delivered[c.msg]
    BY SingleRow, Zenon
  <2>2. c.n \in Nat /\ PoisonThreshold \in Nat /\ delivered[c.msg] \in Nat
    <3>1. delivered \in [Msg -> 0 .. MaxDeliver]
      BY Zenon DEF IInv, TypeOK
    <3> QED
      BY SMTT(30), <2>1, <3>1, SinkAssumption DEF Copy
  <2>3. delivered[c.msg] >= PoisonThreshold
    BY SMTT(30), <1>2, <2>1, <2>2
  <2>4. \E o \in Msg : Stored(o)
    BY Zenon, <1>2, WorkerState DEF WorkerInv
  <2> QED
    BY SMTT(30), <2>1, <2>3, <2>4
<1> QED
  BY <1>1, <1>2, Zenon DEF Evidence

\* A failed write moves the pass on without counting a commit.
LEMMA FailIsNoCommit ==
  ASSUME IInv, NEW w \in Worker, ~Finished(iso[w])
  PROVE  Fail(iso[w]) # Commit(iso[w]) /\ Split(iso[w]) # Commit(iso[w])
<1>1. WorkerInv(w) /\ Len(job[w]) \in Nat
  BY WorkerState, Zenon
<1>2. /\ iso[w].lo \in 1 .. Len(job[w]) + 1 /\ Hi(iso[w]) \in 1 .. Len(job[w]) + 1
      /\ iso[w].lo < Hi(iso[w]) /\ iso[w].committed \in 0 .. Len(job[w])
  BY <1>1, OpenCall, Zenon DEF WorkerInv
<1>3. /\ Fail(iso[w]).committed = iso[w].committed
      /\ Commit(iso[w]).committed = iso[w].committed + (Hi(iso[w]) - iso[w].lo)
      /\ Split(iso[w]).lo = iso[w].lo
      /\ Commit(iso[w]).lo = Hi(iso[w])
  BY Zenon DEF Fail, Commit, Split, Pass
<1>4. iso[w].lo # Hi(iso[w])
  BY <1>1, <1>2
<1>5. iso[w].committed # iso[w].committed + (Hi(iso[w]) - iso[w].lo)
  BY <1>1, <1>2
<1> QED
  BY <1>3, <1>4, <1>5, Zenon

\* The row of a range that failed alone is terminated, on evidence, or left.
LEMMA SingleSettles ==
  ASSUME IInv, NEW w \in Worker, ~Finished(iso[w]), Hi(iso[w]) - iso[w].lo = 1,
         NEW tagged \in BOOLEAN, tagged => kind[job[w][iso[w].lo].msg] = "poison",
         \/ UNCHANGED status
         \/ Evidence(w, tagged) /\ status' = Term(Messages(w, Span(iso[w]))),
         UNCHANGED <<kind, delivered>>, \A m \in Msg : Stored(m) => Stored(m)'
  PROVE  status' \in [Msg -> Open \cup {"acked", "termed"}] /\ Settled'
<1>1. CASE UNCHANGED status
  BY <1>1, WorkerState, SettledFrame, Zenon DEF TypeOK
<1>2. CASE Evidence(w, tagged) /\ status' = Term(Messages(w, Span(iso[w])))
  <2>1. Messages(w, Span(iso[w])) \in SUBSET Msg
    BY SingleRow, Zenon
  <2>2. \A m \in Messages(w, Span(iso[w])) :
           \/ kind[m] \notin {"healthy", "stubborn"}
           \/ (delivered[m] >= PoisonThreshold /\ \E o \in Msg : Stored(o))
    BY Zenon, <1>2, SingleRow, SingleEvidence
  <2> QED
    BY Zenon, <1>2, <2>1, <2>2, TermKeeps
<1> QED
  BY <1>1, <1>2, Zenon

\* The failure of a range, split or terminated, keeps the invariant.
LEMMA RangeFailsKeeps ==
  ASSUME IInv, NEW w \in Worker, RangeFails(w)
  PROVE  IInv'
<1>1. /\ pc[w] = "isolate" /\ ~Finished(iso[w])
      /\ UNCHANGED <<kind, delivered, loop, jobs, streak, pc, job, alive>>
      /\ WriteRejects(w, Span(iso[w])) \/ WriteFaults(w, Span(iso[w]))
  BY Zenon DEF RangeFails, InRange
<1>2. PICK tagged \in BOOLEAN :
        OnError(w, tagged) /\ (tagged => kind[job[w][iso[w].lo].msg] = "poison")
  BY Zenon DEF RangeFails
<1>3. /\ pc \in [Worker -> {"idle", "flush", "ackAll", "isolate", "ackRange"}]
      /\ TypeOK /\ Span(iso[w]) \in SUBSET Whole(w)
  BY <1>1, WorkerState, Zenon
<1>4. /\ rows' \in [Copy -> Nat] /\ ambiguous' \in [Copy -> Nat]
      /\ faults' \in 0 .. MaxFaults
      /\ \A m \in Msg : Stored(m) => Stored(m)'
  BY <1>1, <1>3, WriteKeeps, Zenon
<1>5. pc' = [pc EXCEPT ![w] = "isolate"]
  BY <1>1, <1>3, Zenon
<1>6. CASE Hi(iso[w]) - iso[w].lo = 1
  <2>1. /\ iso' = [iso EXCEPT ![w] = Fail(iso[w])]
        /\ \/ UNCHANGED status
           \/ Evidence(w, tagged) /\ status' = Term(Messages(w, Span(iso[w])))
    BY <1>2, <1>6 DEF OnError
  <2>2. status' \in [Msg -> Open \cup {"acked", "termed"}] /\ Settled'
    BY Zenon, <1>1, <1>2, <1>4, <1>6, <2>1, SingleSettles
  <2> QED
    BY Zenon, <1>1, <1>4, <1>5, <2>1, <2>2, FailIsNoCommit, PassKeeps
<1>7. CASE Hi(iso[w]) - iso[w].lo > 1
  <2>1. iso' = [iso EXCEPT ![w] = Split(iso[w])] /\ UNCHANGED status
    BY <1>2, <1>7 DEF OnError
  <2>2. status' \in [Msg -> Open \cup {"acked", "termed"}] /\ Settled'
    BY <1>1, <1>3, <1>4, <2>1, SettledFrame, Zenon DEF TypeOK
  <2>3. Hi(iso[w]) - iso[w].lo # 1
    BY <1>7
  <2> QED
    BY Zenon, <1>1, <1>4, <1>5, <2>1, <2>2, <2>3, FailIsNoCommit, PassKeeps
<1> QED
  BY <1>2, <1>6, <1>7, Zenon DEF OnError

\* Every step of the sink keeps the invariant.
LEMMA NextInv == IInv /\ [Next]_vars => IInv'
<1> SUFFICES ASSUME IInv, [Next]_vars PROVE IInv'
  BY Zenon
<1>1. ASSUME NEW m \in Msg, Fetch(m) \/ AckWaitLapses(m) PROVE IInv'
  BY <1>1, FetchKeeps, LapseKeeps, Zenon
<1>2. CASE FetchExit \/ Cancel \/ Crash \/ DrainDeadline
  BY <1>2, FetchExitKeeps, RunKeeps, RestartKeeps, Zenon
<1>3. CASE RunStep
  BY <1>3, ReceiveKeeps, RunKeeps, RestartKeeps, Zenon DEF RunStep
<1>4. ASSUME NEW w \in Worker, Work(w) \/ ContextEnds(w) PROVE IInv'
  BY Zenon, <1>4, TakeJobKeeps, FlushCommitsKeeps, FlushFailsKeeps, AckAllKeeps,
     IsolateReturnsKeeps, RangeCommitsKeeps, AckRangeKeeps, RangeFailsKeeps,
     IsolateEndsKeeps, ContextEndsKeeps DEF Work
<1>5. CASE UNCHANGED vars
  <2>1. TypeOK' /\ Settled'
    BY <1>5, SettledFrame, Zenon DEF vars, wal, lake, loop, streak, workers, IInv, TypeOK, Stored
  <2> QED
    BY <1>5, <2>1, LoopStep, Zenon DEF vars, wal, lake, loop, workers, IInv, CopiesKnown
<1> QED
  BY <1>1, <1>2, <1>3, <1>4, <1>5, Zenon DEF Next

\* The sink's variables keep their types: in particular no message is
\* delivered more often than MaxDeliver and every pass stays a pass.
THEOREM TypeCorrect == Spec => []TypeOK
<1>1. IInv => TypeOK
  BY Zenon DEF IInv
<1> QED
  BY <1>1, InitInv, NextInv, PTL DEF Spec

\* flush and isolateRange ack only what is committed, for any number of
\* messages, workers, redeliveries, restarts and crashes.
THEOREM AcksAreDurable == Spec => []AckedIsStored
<1>1. IInv => AckedIsStored
  BY Zenon DEF IInv, Settled
<1> QED
  BY <1>1, InitInv, NextInv, PTL DEF Spec

\* No outage drops a message: add and terminatePoison need a row that cannot be
\* decoded or stored, or the redelivery threshold and a writer that commits.
THEOREM DropsNeedEvidence == Spec => []DropsHaveEvidence
<1>1. IInv => DropsHaveEvidence
  BY Zenon DEF IInv, Settled
<1> QED
  BY <1>1, InitInv, NextInv, PTL DEF Spec
-----------------------------------------------------------------------------
(***************************************************************************)
(* What the sink promises those around it.  To the readers of the lake: a   *)
(* delivery leaves one row, because it is in one place of the process only  *)
(* and the pass that writes it moves past it.  To the WAL: every step of    *)
(* the sink is a step that AtLeastOnce allows, or leaves what AtLeastOnce   *)
(* sees unchanged.                                                          *)
(***************************************************************************)

\* The deliveries in a sequence.
Content(seq) == {seq[i] : i \in 1 .. Len(seq)}

\* No delivery is in the sequence twice.
Distinct(seq) == \A i, j \in 1 .. Len(seq) : seq[i] = seq[j] => i = j

\* No delivery is in both sequences.
Apart(s, t) == Content(s) \cap Content(t) = {}

\* A delivery is in one place of the process only: in the msgs channel ms, in
\* the buffer buf, in a bundle of the jobs channel js or in a worker's hands.
Separate(ms, buf, js, jb) ==
  /\ Distinct(ms) /\ Distinct(buf) /\ Apart(ms, buf)
  /\ \A k \in 1 .. Len(js) : Distinct(js[k]) /\ Apart(ms, js[k]) /\ Apart(buf, js[k])
  /\ \A k, l \in 1 .. Len(js) : k # l => Apart(js[k], js[l])
  /\ \A w \in Worker : /\ Distinct(jb[w]) /\ Apart(ms, jb[w]) /\ Apart(buf, jb[w])
                       /\ \A k \in 1 .. Len(js) : Apart(js[k], jb[w])
  /\ \A v, w \in Worker : v # w => Apart(jb[v], jb[w])

\* The rows of worker w's bundle that no write of it has committed for good.
Unwritten(w) ==
  {i \in Whole(w) : \/ pc[w] = "flush"
                    \/ pc[w] = "isolate" /\ i >= iso[w].lo
                    \/ pc[w] = "ackRange" /\ i >= Hi(iso[w])}

\* Every row the delivery has left is one its writer could not know of.
Clean(c) == rows[c] <= ambiguous[c]

\* What is still to be written is clean, and so is what is still to come.
Unrecorded ==
  /\ \A c \in Content(msgs) \cup Content(buffer) : Clean(c)
  /\ \A k \in 1 .. Len(jobs) : \A c \in Content(jobs[k]) : Clean(c)
  /\ \A w \in Worker : \A i \in Unwritten(w) : Clean(job[w][i])
  /\ \A c \in Copy : c.n > delivered[c.msg] => Clean(c)

\* The inductive invariant for single writes.
OnceInv == Separate(msgs, buffer, jobs, job) /\ Unrecorded /\ OneRowPerDelivery

\* An empty sequence holds no delivery.
LEMMA ContentEmpty == Content(<<>>) = {} /\ Distinct(<<>>)
BY DEF Content, Distinct

\* Appending adds one delivery.
LEMMA ContentAppend ==
  ASSUME NEW seq \in Seq(Copy), NEW c \in Copy
  PROVE  /\ Content(Append(seq, c)) = Content(seq) \cup {c}
         /\ Distinct(seq) /\ c \notin Content(seq) => Distinct(Append(seq, c))
<1>1. Len(Append(seq, c)) = Len(seq) + 1 /\ Len(seq) \in Nat
  OBVIOUS
<1>2. \A i \in 1 .. Len(seq) + 1 :
         Append(seq, c)[i] = IF i = Len(seq) + 1 THEN c ELSE seq[i]
  OBVIOUS
<1>3. Content(Append(seq, c)) = Content(seq) \cup {c}
  BY <1>1, <1>2 DEF Content
<1> QED
  BY <1>1, <1>2, <1>3 DEF Content, Distinct

\* Taking the head off removes it and nothing else.
LEMMA ContentTail ==
  ASSUME NEW seq \in Seq(Copy), seq # <<>>
  PROVE  /\ Content(Tail(seq)) \subseteq Content(seq)
         /\ Head(seq) \in Content(seq)
         /\ Distinct(seq) => Distinct(Tail(seq)) /\ Head(seq) \notin Content(Tail(seq))
<1>1. Len(Tail(seq)) = Len(seq) - 1 /\ Len(seq) \in Nat \ {0} /\ Head(seq) = seq[1]
  OBVIOUS
<1>2. \A i \in 1 .. Len(seq) - 1 : Tail(seq)[i] = seq[i + 1] /\ i + 1 \in 1 .. Len(seq)
  BY <1>1
<1> QED
  BY <1>1, <1>2 DEF Content, Distinct

\* A prefix holds no more than the sequence.
LEMMA ContentPrefix ==
  ASSUME NEW seq \in Seq(Copy), NEW k \in 0 .. Len(seq)
  PROVE  /\ Content(SubSeq(seq, 1, k)) \subseteq Content(seq)
         /\ Distinct(seq) => Distinct(SubSeq(seq, 1, k))
<1>1. Len(SubSeq(seq, 1, k)) = k /\ k \in Nat /\ Len(seq) \in Nat /\ k <= Len(seq)
  OBVIOUS
<1>2. \A i \in 1 .. k : SubSeq(seq, 1, k)[i] = seq[i] /\ i \in 1 .. Len(seq)
  BY <1>1
<1> QED
  BY <1>1, <1>2, Zenon DEF Content, Distinct

\* Every delivery in the sequence is one the broker has made.
LEMMA ContentKnown ==
  ASSUME NEW seq \in Seq(Copy), Known(seq, delivered), NEW c \in Content(seq)
  PROVE  c \in Copy /\ c.n <= delivered[c.msg]
BY DEF Content, Known

\* A new delivery is put into msgs.
LEMMA SeparateFetch ==
  ASSUME NEW ms \in Seq(Copy), NEW buf, NEW js, NEW jb, Separate(ms, buf, js, jb),
         NEW c \in Copy, c \notin Content(ms), c \notin Content(buf),
         \A k \in 1 .. Len(js) : c \notin Content(js[k]),
         \A w \in Worker : c \notin Content(jb[w])
  PROVE  Separate(Append(ms, c), buf, js, jb)
<1>1. /\ Content(Append(ms, c)) = Content(ms) \cup {c}
      /\ Distinct(Append(ms, c))
  BY ContentAppend, Zenon DEF Separate
<1> QED
  BY <1>1, Zenon DEF Separate, Apart

\* msgs loses some of its deliveries.
LEMMA SeparateShrink ==
  ASSUME NEW ms, NEW buf, NEW js, NEW jb, Separate(ms, buf, js, jb),
         NEW ns, Distinct(ns), Content(ns) \subseteq Content(ms)
  PROVE  Separate(ns, buf, js, jb)
BY Zenon DEF Separate, Apart

\* The first of msgs moves to the buffer.
LEMMA SeparateReceive ==
  ASSUME NEW ms \in Seq(Copy), NEW buf \in Seq(Copy), NEW js, NEW jb,
         Separate(ms, buf, js, jb), ms # <<>>
  PROVE  Separate(Tail(ms), Append(buf, Head(ms)), js, jb)
<1>1. Head(ms) \in Copy
  OBVIOUS
<1>2. /\ Content(Tail(ms)) \subseteq Content(ms) /\ Head(ms) \in Content(ms)
      /\ Distinct(Tail(ms)) /\ Head(ms) \notin Content(Tail(ms))
  BY ContentTail, Zenon DEF Separate
<1>3. Head(ms) \notin Content(buf)
  BY <1>2, Zenon DEF Separate, Apart
<1>4. /\ Content(Append(buf, Head(ms))) = Content(buf) \cup {Head(ms)}
      /\ Distinct(Append(buf, Head(ms)))
  BY <1>1, <1>3, ContentAppend, Zenon DEF Separate
<1> QED
  BY <1>2, <1>4, Zenon DEF Separate, Apart

\* The buffer becomes the last bundle of the queue.
LEMMA SeparateEnqueue ==
  ASSUME NEW ms, NEW buf \in Bundles, NEW js \in Seq(Bundles), NEW jb,
         Separate(ms, buf, js, jb)
  PROVE  Separate(ms, <<>>, Append(js, buf), jb)
<1>1. Len(Append(js, buf)) = Len(js) + 1 /\ Len(js) \in Nat
  OBVIOUS
<1>2. \A k \in 1 .. Len(js) + 1 :
         Append(js, buf)[k] = IF k = Len(js) + 1 THEN buf ELSE js[k]
  OBVIOUS
<1>3. \A k \in 1 .. Len(js) + 1 : k # Len(js) + 1 => k \in 1 .. Len(js)
  BY <1>1
<1> HIDE DEF Bundles
<1>4. Apart(ms, <<>>) /\ Distinct(<<>>) /\ \A s : Apart(<<>>, s)
  BY ContentEmpty, Zenon DEF Apart
<1>5. \A s, t : Apart(s, t) => Apart(t, s)
  BY Zenon DEF Apart
<1> QED
  BY <1>1, <1>2, <1>3, <1>4, <1>5 DEF Separate

\* The first bundle of the queue goes to worker w.
LEMMA SeparateTake ==
  ASSUME NEW ms, NEW buf, NEW js \in Seq(Bundles), NEW jb, NEW w \in Worker,
         jb \in [Worker -> Bundles], Separate(ms, buf, js, jb), js # <<>>
  PROVE  Separate(ms, buf, Tail(js), [jb EXCEPT ![w] = Head(js)])
<1> DEFINE new == [jb EXCEPT ![w] = Head(js)]
<1>1. Len(Tail(js)) = Len(js) - 1 /\ Len(js) \in Nat \ {0} /\ Head(js) = js[1]
  OBVIOUS
<1>2. \A k \in 1 .. Len(js) - 1 : /\ Tail(js)[k] = js[k + 1] /\ k + 1 \in 1 .. Len(js)
                                  /\ k + 1 # 1
  BY <1>1
<1>3. 1 \in 1 .. Len(js)
  BY <1>1
<1>4. \A v \in Worker : new[v] = IF v = w THEN js[1] ELSE jb[v]
  BY <1>1, Zenon
<1>5. \A s, t : Apart(s, t) => Apart(t, s)
  BY Zenon DEF Apart
<1>6. \A k, l \in 1 .. Len(js) - 1 : k # l => k + 1 # l + 1
  BY <1>1
<1> HIDE DEF new
<1>7. /\ \A k \in 1 .. Len(Tail(js)) : /\ Distinct(Tail(js)[k]) /\ Apart(ms, Tail(js)[k])
                                       /\ Apart(buf, Tail(js)[k])
      /\ \A k, l \in 1 .. Len(Tail(js)) : k # l => Apart(Tail(js)[k], Tail(js)[l])
  BY <1>1, <1>2, <1>6, Zenon DEF Separate
<1>8. ASSUME NEW v \in Worker
      PROVE  /\ Distinct(new[v]) /\ Apart(ms, new[v]) /\ Apart(buf, new[v])
             /\ \A k \in 1 .. Len(Tail(js)) : Apart(Tail(js)[k], new[v])
  BY <1>1, <1>2, <1>3, <1>4 DEF Separate
<1>9. ASSUME NEW u \in Worker, NEW v \in Worker, u # v
      PROVE  Apart(new[u], new[v])
  BY <1>3, <1>4, <1>5, <1>9, Zenon DEF Separate
<1>10. Separate(ms, buf, Tail(js), new)
  BY <1>7, <1>8, <1>9, Zenon DEF Separate
<1> QED
  BY <1>10, Zenon DEF new

\* A worker puts its bundle away.
LEMMA SeparateDone ==
  ASSUME NEW ms, NEW buf, NEW js, NEW jb, NEW w \in Worker,
         jb \in [Worker -> Bundles], Separate(ms, buf, js, jb)
  PROVE  Separate(ms, buf, js, [jb EXCEPT ![w] = <<>>])
<1> DEFINE new == [jb EXCEPT ![w] = <<>>]
<1>1. \A v \in Worker : new[v] = IF v = w THEN <<>> ELSE jb[v]
  BY Zenon
<1> HIDE DEF new
<1>2. \A s : Apart(s, <<>>) /\ Apart(<<>>, s) /\ Distinct(<<>>)
  BY ContentEmpty, Zenon DEF Apart
<1>3. Separate(ms, buf, js, new)
  BY <1>1, <1>2, Zenon DEF Separate
<1> QED
  BY <1>3, Zenon DEF new

-------------------------------------------------------------------------------
\* Steps that move deliveries and leave the lake alone.

\* It holds of an idle sink.
LEMMA InitOnce == Init => OnceInv
<1> SUFFICES ASSUME Init PROVE OnceInv
  BY Zenon
<1>1. /\ msgs = <<>> /\ buffer = <<>> /\ jobs = <<>> /\ Len(<<>>) = 0
      /\ \A w \in Worker : job[w] = <<>> /\ pc[w] = "idle"
      /\ \A c \in Copy : rows[c] = 0 /\ ambiguous[c] = 0
  BY Zenon DEF Init
<1>2. Separate(msgs, buffer, jobs, job)
  BY <1>1, ContentEmpty DEF Separate, Apart
<1>3. Unrecorded
  BY <1>1, ContentEmpty DEF Unrecorded, Clean, Unwritten
<1> QED
  BY <1>1, <1>2, <1>3 DEF OnceInv, OneRowPerDelivery

\* A fresh process holds nothing.
LEMMA FreshOnce ==
  ASSUME OnceInv, FreshProcess
  PROVE  OnceInv'
<1>1. /\ msgs' = <<>> /\ buffer' = <<>> /\ jobs' = <<>> /\ Len(<<>>) = 0
      /\ \A w \in Worker : job'[w] = <<>> /\ pc'[w] = "idle"
      /\ UNCHANGED <<delivered, rows, ambiguous>>
  BY Zenon DEF FreshProcess, wal, lake
<1>2. Separate(msgs, buffer, jobs, job)'
  BY <1>1, ContentEmpty DEF Separate, Apart
<1>3. Unrecorded'
  BY <1>1, ContentEmpty DEF Unrecorded, Clean, Unwritten, OnceInv
<1> QED
  BY <1>1, <1>2, <1>3, Zenon DEF OnceInv, OneRowPerDelivery

\* A step of the fetch loop or of Run: the workers and the lake stay as they are.
LEMMA LoopOnce ==
  ASSUME OnceInv, UNCHANGED <<delivered, rows, ambiguous, pc, job, iso>>,
         Separate(msgs', buffer', jobs', job),
         \A c \in Content(msgs') \cup Content(buffer') : Clean(c),
         \A k \in 1 .. Len(jobs') : \A c \in Content(jobs'[k]) : Clean(c)
  PROVE  OnceInv'
<1>1. \A w \in Worker : Unwritten(w)' = Unwritten(w)
  BY Zenon DEF Unwritten, Whole
<1>2. \A c : Clean(c)' <=> Clean(c)
  BY Zenon DEF Clean
<1>3. Unrecorded'
  BY <1>1, <1>2, Zenon DEF OnceInv, Unrecorded
<1> QED
  BY <1>3, Zenon DEF OnceInv, OneRowPerDelivery

\* flushReady and enqueue move the buffer buf or leave it.
LEMMA FlushReadyOnce ==
  ASSUME TypeOK, NEW ms, NEW buf \in Bundles, Separate(ms, buf, jobs, job),
         \A c \in Content(buf) : Clean(c),
         \A k \in 1 .. Len(jobs) : \A c \in Content(jobs[k]) : Clean(c),
         FlushReady(buf) \/ Enqueue(buf)
  PROVE  /\ Separate(ms, buffer', jobs', job)
         /\ \A c \in Content(buffer') : Clean(c)
         /\ \A k \in 1 .. Len(jobs') : \A c \in Content(jobs'[k]) : Clean(c)
<1>1. jobs \in Seq(Bundles)
  BY Zenon DEF TypeOK
<1>2. CASE Enqueue(buf)
  <2>1. jobs' = Append(jobs, buf) /\ buffer' = <<>>
    BY <1>2, Zenon DEF Enqueue
  <2>2. Len(jobs') = Len(jobs) + 1 /\ Len(jobs) \in Nat
    BY <1>1, <2>1
  <2>3. \A k \in 1 .. Len(jobs) + 1 :
          jobs'[k] = IF k = Len(jobs) + 1 THEN buf ELSE jobs[k]
    BY <1>1, <2>1
  <2>4. \A k \in 1 .. Len(jobs') : \A c \in Content(jobs'[k]) : Clean(c)
    BY <2>2, <2>3
  <2> QED
    BY <1>1, <2>1, <2>4, SeparateEnqueue, ContentEmpty, Zenon
<1>3. CASE buffer' = buf /\ UNCHANGED jobs
  BY <1>3, Zenon
<1> QED
  BY <1>2, <1>3, Zenon DEF FlushReady

\* Fetch brings in a delivery that is nowhere else and has left no row.
LEMMA FetchOnce ==
  ASSUME IInv, OnceInv, NEW m \in Msg, Fetch(m)
  PROVE  OnceInv'
<1> DEFINE c == [msg |-> m, n |-> delivered[m] + 1]
<1>1. /\ msgs' = Append(msgs, c) /\ delivered' = [delivered EXCEPT ![m] = @ + 1]
      /\ UNCHANGED <<rows, ambiguous, buffer, jobs, pc, job, iso>> /\ status[m] = "pending"
  BY Zenon DEF Fetch, lake, workers
<1>2. /\ msgs \in Seq(Copy) /\ buffer \in Seq(Copy) /\ jobs \in Seq(Seq(Copy))
      /\ \A w \in Worker : job[w] \in Seq(Copy)
      /\ delivered \in [Msg -> 0 .. MaxDeliver] /\ delivered[m] < MaxDeliver
  BY <1>1, Zenon DEF IInv, TypeOK, Bundles, Settled, Deliverable
<1>3. c \in Copy /\ c.msg = m /\ c.n = delivered[m] + 1 /\ c.n > delivered[c.msg]
  BY <1>2, SinkAssumption DEF Copy
<1>4. /\ Known(msgs, delivered) /\ Known(buffer, delivered)
      /\ \A w \in Worker : Known(job[w], delivered)
      /\ \A k \in 1 .. Len(jobs) : Known(jobs[k], delivered) /\ jobs[k] \in Seq(Copy)
  BY <1>2 DEF IInv, CopiesKnown, QueueKnown
<1>5. ~(c.n <= delivered[c.msg])
  BY <1>2, <1>3
<1> HIDE DEF c
<1>6. /\ c \notin Content(msgs) /\ c \notin Content(buffer)
      /\ \A k \in 1 .. Len(jobs) : c \notin Content(jobs[k])
      /\ \A w \in Worker : c \notin Content(job[w])
  BY <1>2, <1>4, <1>5, ContentKnown, Zenon
<1>7. Separate(msgs', buffer', jobs', job')
  BY <1>1, <1>2, <1>3, <1>6, SeparateFetch, Zenon DEF OnceInv
<1>8. Content(msgs') = Content(msgs) \cup {c} /\ Clean(c)
  BY <1>1, <1>2, <1>3, ContentAppend, Zenon DEF OnceInv, Unrecorded
<1>9. \A d : Clean(d)' <=> Clean(d)
  BY <1>1, Zenon DEF Clean
<1>10. \A w \in Worker : Unwritten(w)' = Unwritten(w)
  BY <1>1, Zenon DEF Unwritten, Whole
<1>11. \A d \in Copy : d.n > delivered'[d.msg] => d.n > delivered[d.msg]
  BY <1>1, <1>2 DEF Copy
<1>12. Unrecorded'
  BY <1>1, <1>8, <1>9, <1>10, <1>11, Zenon DEF OnceInv, Unrecorded
<1> QED
  BY <1>1, <1>7, <1>12, Zenon DEF OnceInv, OneRowPerDelivery

\* FetchExit drops what it has not sent; a received message is buffered, or
\* terminated and gone, and the buffer may be handed off with it.
LEMMA MoveOnce ==
  ASSUME IInv, OnceInv,
         FetchExit \/ RunReceive \/ RunTick \/ RunDrain
  PROVE  OnceInv'
<1>1. /\ TypeOK /\ msgs \in Seq(Copy) /\ buffer \in Seq(Copy) /\ jobs \in Seq(Bundles)
      /\ buffer \in Bundles
  BY Zenon DEF IInv, TypeOK, Bundles
<1>2. /\ Separate(msgs, buffer, jobs, job)
      /\ \A c \in Content(msgs) \cup Content(buffer) : Clean(c)
      /\ \A k \in 1 .. Len(jobs) : \A c \in Content(jobs[k]) : Clean(c)
  BY Zenon DEF OnceInv, Unrecorded
<1>3. CASE FetchExit
  <2>1. /\ UNCHANGED <<delivered, rows, ambiguous, pc, job, iso, buffer, jobs>>
        /\ msgs' = msgs \/ \E k \in 0 .. Len(msgs) : msgs' = SubSeq(msgs, 1, k)
    BY <1>3, Zenon DEF FetchExit, wal, lake, workers
  <2>2. Distinct(msgs') /\ Content(msgs') \subseteq Content(msgs)
    BY <1>1, <1>2, <2>1, ContentPrefix, Zenon DEF Separate
  <2>3. Separate(msgs', buffer, jobs, job)
    BY <1>2, <2>2, SeparateShrink, Zenon
  <2> QED
    BY <1>2, <2>1, <2>2, <2>3, LoopOnce, Zenon
<1>4. CASE RunReceive
  <2>1. /\ UNCHANGED <<delivered, rows, ambiguous, pc, job, iso>>
        /\ msgs # <<>> /\ msgs' = Tail(msgs)
        /\ FlushReady(buffer) \/ FlushReady(Append(buffer, Head(msgs)))
    BY <1>4, Zenon DEF RunReceive, lake, workers
  <2>2. /\ Content(msgs') \subseteq Content(msgs) /\ Head(msgs) \in Content(msgs)
        /\ Distinct(msgs') /\ Head(msgs) \in Copy
    BY <1>1, <1>2, <2>1, ContentTail DEF Separate
  <2>3. CASE FlushReady(buffer)
    <3>1. Separate(msgs', buffer, jobs, job)
      BY <1>2, <2>2, SeparateShrink, Zenon
    <3> QED
      BY <1>1, <1>2, <2>1, <2>2, <2>3, <3>1, FlushReadyOnce, LoopOnce, Zenon
  <2>4. CASE FlushReady(Append(buffer, Head(msgs)))
    <3>1. Separate(msgs', Append(buffer, Head(msgs)), jobs, job)
      BY <1>1, <1>2, <2>1, SeparateReceive, Zenon
    <3>2. /\ Append(buffer, Head(msgs)) \in Bundles
          /\ \A c \in Content(Append(buffer, Head(msgs))) : Clean(c)
      BY <1>1, <1>2, <2>2, ContentAppend DEF Bundles
    <3> QED
      BY <1>1, <1>2, <2>1, <2>2, <2>4, <3>1, <3>2, FlushReadyOnce, LoopOnce, Zenon
  <2> QED
    BY <2>1, <2>3, <2>4, Zenon
<1>5. CASE RunTick \/ RunDrain
  <2>1. /\ UNCHANGED <<delivered, rows, ambiguous, pc, job, iso, msgs>>
        /\ Enqueue(buffer) \/ UNCHANGED <<buffer, jobs>>
    BY <1>5, Zenon DEF RunTick, RunDrain, wal, lake, workers
  <2>2. CASE Enqueue(buffer)
    BY <1>1, <1>2, <2>1, <2>2, FlushReadyOnce, LoopOnce, Zenon
  <2>3. CASE UNCHANGED <<buffer, jobs>>
    BY <1>2, <2>1, <2>3, LoopOnce, Zenon
  <2> QED
    BY <2>1, <2>2, <2>3, Zenon
<1> QED
  BY <1>3, <1>4, <1>5, Zenon

-------------------------------------------------------------------------------
\* Steps of the workers.

\* TakeJob: the bundle it takes is clean and all of it is to be written.
LEMMA TakeOnce ==
  ASSUME IInv, OnceInv, NEW w \in Worker, TakeJob(w)
  PROVE  OnceInv'
<1>1. /\ jobs # <<>> /\ jobs' = Tail(jobs) /\ job' = [job EXCEPT ![w] = Head(jobs)]
      /\ pc' = [pc EXCEPT ![w] = "flush"]
      /\ UNCHANGED <<delivered, rows, ambiguous, msgs, buffer, iso>>
  BY Zenon DEF TakeJob, wal, lake, loop
<1>2. /\ jobs \in Seq(Bundles) /\ job \in [Worker -> Bundles]
      /\ pc \in [Worker -> {"idle", "flush", "ackAll", "isolate", "ackRange"}]
  BY Zenon DEF IInv, TypeOK
<1>3. Separate(msgs', buffer', jobs', job')
  BY <1>1, <1>2, SeparateTake, Zenon DEF OnceInv
<1>4. \A c : Clean(c)' <=> Clean(c)
  BY <1>1, Zenon DEF Clean
<1>5. Len(jobs') = Len(jobs) - 1 /\ Len(jobs) \in Nat \ {0} /\ Head(jobs) = jobs[1]
  BY <1>1, <1>2
<1>6. \A k \in 1 .. Len(jobs') : jobs'[k] = jobs[k + 1] /\ k + 1 \in 1 .. Len(jobs)
  BY <1>1, <1>2, <1>5
<1>7. \A k \in 1 .. Len(jobs) : \A c \in Content(jobs[k]) : Clean(c)
  BY Zenon DEF OnceInv, Unrecorded
<1>8. \A k \in 1 .. Len(jobs') : \A c \in Content(jobs'[k]) : Clean(c)'
  BY <1>4, <1>6, <1>7, Zenon
<1>9. ASSUME NEW v \in Worker, NEW i \in Unwritten(v)' PROVE Clean(job[v][i])'
  <2>1. CASE v = w
    <3>1. job'[w] = jobs[1] /\ i \in 1 .. Len(jobs[1]) /\ 1 \in 1 .. Len(jobs)
      BY <1>1, <1>2, <1>5, <2>1 DEF Unwritten, Whole
    <3>2. job'[v][i] \in Content(jobs[1])
      BY <2>1, <3>1, Zenon DEF Content
    <3> QED
      BY <1>4, <1>7, <3>1, <3>2, Zenon
  <2>2. CASE v # w
    <3>1. job'[v] = job[v] /\ pc'[v] = pc[v]
      BY <1>1, <1>2, <2>2, Zenon
    <3>2. i \in Unwritten(v)
      BY <1>1, <3>1, Zenon DEF Unwritten, Whole
    <3> QED
      BY <1>4, <3>1, <3>2, Zenon DEF OnceInv, Unrecorded
  <2> QED
    BY <2>1, <2>2, Zenon
<1>10. Unrecorded'
  BY <1>1, <1>4, <1>8, <1>9, Zenon DEF OnceInv, Unrecorded
<1> QED
  BY <1>1, <1>3, <1>10, Zenon DEF OnceInv, OneRowPerDelivery

\* A worker that is done keeps nothing to write.
LEMMA DoneOnce ==
  ASSUME IInv, OnceInv, NEW w \in Worker, WorkerDone(w),
         UNCHANGED <<delivered, rows, ambiguous, msgs, buffer, jobs>>
  PROVE  OnceInv'
<1>1. /\ job \in [Worker -> Bundles] /\ iso \in [Worker -> AnyPass]
      /\ pc \in [Worker -> {"idle", "flush", "ackAll", "isolate", "ackRange"}]
  BY Zenon DEF IInv, TypeOK
<1>2. Separate(msgs', buffer', jobs', job')
  BY <1>1, SeparateDone, Zenon DEF OnceInv, WorkerDone
<1>3. \A c : Clean(c)' <=> Clean(c)
  BY Zenon DEF Clean
<1>4. ASSUME NEW v \in Worker, NEW i \in Unwritten(v)' PROVE Clean(job[v][i])'
  <2>1. pc'[w] = "idle"
    BY <1>1, Zenon DEF WorkerDone
  <2>2. v # w
    BY <1>4, <2>1, Zenon DEF Unwritten
  <2>3. job'[v] = job[v] /\ pc'[v] = pc[v] /\ iso'[v] = iso[v]
    BY <1>1, <2>2, Zenon DEF WorkerDone
  <2>4. i \in Unwritten(v)
    BY <2>3, Zenon DEF Unwritten, Whole
  <2> QED
    BY <1>3, <2>3, <2>4, Zenon DEF OnceInv, Unrecorded
<1>5. Unrecorded'
  BY <1>3, <1>4, Zenon DEF OnceInv, Unrecorded
<1> QED
  BY <1>2, <1>5, Zenon DEF OnceInv, OneRowPerDelivery

\* A commit of clean rows: no delivery gets a row too many, and only the rows
\* of the commit stop being clean.
LEMMA CommitClean ==
  ASSUME IInv, OnceInv, NEW w \in Worker, NEW I \in SUBSET Whole(w),
         \A i \in I : Clean(job[w][i]), WriteCommits(w, I)
  PROVE  /\ OneRowPerDelivery'
         /\ \A c \in Copy \ Copies(w, I) : Clean(c) => Clean(c)'
<1> DEFINE C == Copies(w, I)
<1>1. rows \in [Copy -> Nat] /\ ambiguous \in [Copy -> Nat]
  BY Zenon DEF IInv, TypeOK
<1>2. \A c \in Copy : rows[c] <= 1 + ambiguous[c]
  BY Zenon DEF OnceInv, OneRowPerDelivery
<1>3. \A c \in C : rows[c] <= ambiguous[c]
  BY Zenon DEF Copies, Clean
<1>4. rows' = Bump(rows, C) /\ ambiguous' = ambiguous
  BY Zenon DEF WriteCommits
<1>5. \A c \in Copy : rows'[c] = IF c \in C THEN rows[c] + 1 ELSE rows[c]
  BY <1>4, Zenon DEF Bump
<1> HIDE DEF C
<1>6. \A c \in Copy : rows'[c] <= 1 + ambiguous'[c]
  BY <1>1, <1>2, <1>3, <1>4, <1>5
<1>7. \A c \in Copy \ C : Clean(c) => Clean(c)'
  BY <1>4, <1>5, Zenon DEF Clean
<1> QED
  BY <1>6, <1>7, Zenon DEF OneRowPerDelivery, C

\* A write that returned an error leaves every clean delivery clean, whether it
\* took effect or not.
LEMMA FailClean ==
  ASSUME IInv, OnceInv, NEW w \in Worker, NEW I \in SUBSET Whole(w),
         WriteRejects(w, I) \/ WriteFaults(w, I) \/ UNCHANGED lake
  PROVE  OneRowPerDelivery' /\ \A c \in Copy : Clean(c) => Clean(c)'
<1> DEFINE C == Copies(w, I)
<1>1. rows \in [Copy -> Nat] /\ ambiguous \in [Copy -> Nat]
  BY Zenon DEF IInv, TypeOK
<1>2. \A c \in Copy : rows[c] <= 1 + ambiguous[c]
  BY Zenon DEF OnceInv, OneRowPerDelivery
<1>3. \/ UNCHANGED <<rows, ambiguous>>
      \/ rows' = Bump(rows, C) /\ ambiguous' = Bump(ambiguous, C)
  BY Zenon DEF WriteRejects, WriteFaults, lake
<1> HIDE DEF C
<1>4. CASE UNCHANGED <<rows, ambiguous>>
  BY <1>2, <1>4, Zenon DEF OneRowPerDelivery, Clean
<1>5. CASE rows' = Bump(rows, C) /\ ambiguous' = Bump(ambiguous, C)
  <2>1. \A c \in Copy :
          /\ rows'[c] = IF c \in C THEN rows[c] + 1 ELSE rows[c]
          /\ ambiguous'[c] = IF c \in C THEN ambiguous[c] + 1 ELSE ambiguous[c]
    BY <1>5, Zenon DEF Bump
  <2> QED
    BY <1>1, <1>2, <2>1 DEF OneRowPerDelivery, Clean
<1> QED
  BY <1>3, <1>4, <1>5, Zenon

\* A step of worker w after which every clean copy outside the rows I of its
\* bundle is still clean, and none of I is left to write.
LEMMA WorkOnce ==
  ASSUME IInv, OnceInv, NEW w \in Worker, NEW I \in SUBSET Whole(w),
         UNCHANGED <<delivered, msgs, buffer, jobs, job>>, OneRowPerDelivery',
         \A c \in Copy \ Copies(w, I) : Clean(c) => Clean(c)',
         \A v \in Worker \ {w} : pc'[v] = pc[v] /\ iso'[v] = iso[v],
         Unwritten(w)' \subseteq Unwritten(w) \ I
  PROVE  OnceInv'
<1>1. /\ msgs \in Seq(Copy) /\ buffer \in Seq(Copy) /\ jobs \in Seq(Seq(Copy))
      /\ \A v \in Worker : job[v] \in Seq(Copy)
  BY Zenon DEF IInv, TypeOK, Bundles
<1>2. Separate(msgs, buffer, jobs, job) /\ Unrecorded
  BY Zenon DEF OnceInv
<1>3. Copies(w, I) \subseteq Content(job[w])
  BY Zenon DEF Copies, Content, Whole
<1>4. \A c \in Content(msgs) \cup Content(buffer) : c \in Copy /\ c \notin Copies(w, I)
  <2>1. Content(msgs) \subseteq Copy /\ Content(buffer) \subseteq Copy
    BY <1>1 DEF Content
  <2>2. Apart(msgs, job[w]) /\ Apart(buffer, job[w])
    BY <1>2, Zenon DEF Separate
  <2> QED
    BY <1>3, <2>1, <2>2, Zenon DEF Apart
<1>5. ASSUME NEW k \in 1 .. Len(jobs), NEW c \in Content(jobs[k])
      PROVE  c \in Copy /\ c \notin Copies(w, I)
  <2>1. jobs[k] \in Seq(Copy)
    BY <1>1
  <2>2. c \in Copy
    BY <2>1 DEF Content
  <2> QED
    BY <1>2, <1>3, <2>2, Zenon DEF Separate, Apart
<1>6. ASSUME NEW v \in Worker, NEW i \in Unwritten(v)' PROVE Clean(job[v][i])'
  <2>1. i \in Unwritten(v) /\ (v = w => i \notin I) /\ i \in 1 .. Len(job[v])
    <3>1. CASE v = w
      BY <3>1, Zenon DEF Unwritten, Whole
    <3>2. CASE v # w
      BY <3>2, Zenon DEF Unwritten, Whole
    <3> QED
      BY <3>1, <3>2, Zenon
  <2>2. job[v][i] \in Copy /\ job[v][i] \in Content(job[v])
    BY <1>1, <2>1 DEF Content
  <2>3. job[v][i] \notin Copies(w, I)
    <3>1. CASE v = w
      BY <1>2, <2>1, <3>1, Zenon DEF Separate, Distinct, Copies, Whole
    <3>2. CASE v # w
      BY <1>2, <1>3, <2>2, <3>2, Zenon DEF Separate, Apart
    <3> QED
      BY <3>1, <3>2, Zenon
  <2> QED
    BY <1>2, <2>1, <2>2, <2>3, Zenon DEF Unrecorded
<1>7. ASSUME NEW c \in Copy, c.n > delivered[c.msg] PROVE Clean(c)'
  <2>1. Known(job[w], delivered) /\ job[w] \in Seq(Copy) /\ delivered \in [Msg -> 0 .. MaxDeliver]
    BY <1>1, Zenon DEF IInv, CopiesKnown, TypeOK
  <2>2. c.n \in Nat /\ delivered[c.msg] \in Nat
    BY <2>1, SinkAssumption DEF Copy
  <2>3. c \notin Content(job[w])
    BY <1>7, <2>1, <2>2, ContentKnown
  <2> QED
    BY <1>2, <1>3, <1>7, <2>3, Zenon DEF Unrecorded
<1>8. Unrecorded'
  BY <1>2, <1>4, <1>5, <1>6, <1>7, Zenon DEF Unrecorded
<1> QED
  BY <1>2, <1>8, Zenon DEF OnceInv

\* A write that covers what is left of the bundle, or its current range.
LEMMA CommitOnce ==
  ASSUME IInv, OnceInv, NEW w \in Worker, FlushCommits(w) \/ RangeCommits(w)
  PROVE  OnceInv'
<1>1. /\ pc \in [Worker -> {"idle", "flush", "ackAll", "isolate", "ackRange"}]
      /\ WorkerInv(w) /\ Len(job[w]) \in Nat
      /\ ~Finished(iso[w]) => Span(iso[w]) \in SUBSET Whole(w)
  BY WorkerState, Zenon
<1>2. CASE FlushCommits(w)
  <2>1. /\ pc[w] = "flush" /\ WriteCommits(w, Whole(w)) /\ pc' = [pc EXCEPT ![w] = "ackAll"]
        /\ UNCHANGED <<delivered, msgs, buffer, jobs, job, iso>>
    BY <1>2, Zenon DEF FlushCommits, wal, loop
  <2>2. \A i \in Whole(w) : Clean(job[w][i])
    BY <2>1, Zenon DEF OnceInv, Unrecorded, Unwritten
  <2>3. /\ OneRowPerDelivery'
        /\ \A c \in Copy \ Copies(w, Whole(w)) : Clean(c) => Clean(c)'
    BY <2>1, <2>2, CommitClean, Zenon
  <2>4. Unwritten(w)' = {} /\ \A v \in Worker \ {w} : pc'[v] = pc[v] /\ iso'[v] = iso[v]
    BY <1>1, <2>1, Zenon DEF Unwritten
  <2> QED
    BY <2>1, <2>3, <2>4, WorkOnce, Zenon
<1>3. CASE RangeCommits(w)
  <2> DEFINE I == Span(iso[w])
  <2>1. /\ pc[w] = "isolate" /\ ~Finished(iso[w]) /\ WriteCommits(w, I)
        /\ pc' = [pc EXCEPT ![w] = "ackRange"]
        /\ UNCHANGED <<delivered, msgs, buffer, jobs, job, iso>>
    BY <1>3, Zenon DEF RangeCommits, InRange, wal, loop
  <2>2. iso[w].lo \in Nat /\ Hi(iso[w]) \in Nat /\ iso[w].lo < Hi(iso[w]) /\ I \in SUBSET Whole(w)
    BY <1>1, <2>1, OpenCall DEF WorkerInv
  <2>3. \A i \in I : i >= iso[w].lo /\ i < Hi(iso[w]) /\ i \in Whole(w)
    BY <2>2 DEF Span
  <2>4. \A i \in I : Clean(job[w][i])
    BY <2>1, <2>3, Zenon DEF OnceInv, Unrecorded, Unwritten
  <2>5. /\ OneRowPerDelivery'
        /\ \A c \in Copy \ Copies(w, I) : Clean(c) => Clean(c)'
    BY <2>1, <2>2, <2>4, CommitClean, Zenon
  <2>6. \A v \in Worker \ {w} : pc'[v] = pc[v] /\ iso'[v] = iso[v]
    BY <1>1, <2>1, Zenon
  <2>7. Unwritten(w)' = {i \in Whole(w) : i >= Hi(iso[w])}
    BY <1>1, <2>1, Zenon DEF Unwritten, Whole
  <2>8. Unwritten(w)' \subseteq Unwritten(w) \ I
    BY <1>1, <2>1, <2>2, <2>3, <2>7 DEF Unwritten, Whole
  <2> QED
    BY <2>1, <2>2, <2>5, <2>6, <2>8, WorkOnce, Zenon
<1> QED
  BY <1>2, <1>3, Zenon

\* A step of worker w that leaves every clean delivery clean.
LEMMA KeepOnce ==
  ASSUME IInv, OnceInv, NEW w \in Worker,
         UNCHANGED <<delivered, msgs, buffer, jobs, job>>, OneRowPerDelivery',
         \A c \in Copy : Clean(c) => Clean(c)',
         \A v \in Worker \ {w} : pc'[v] = pc[v] /\ iso'[v] = iso[v],
         Unwritten(w)' \subseteq Unwritten(w)
  PROVE  OnceInv'
<1>1. {} \in SUBSET Whole(w) /\ Unwritten(w)' \subseteq Unwritten(w) \ {}
  BY Zenon
<1> QED
  BY <1>1, WorkOnce, Zenon

\* A write that fails leaves its rows to be written; a single row is given up.
LEMMA FailOnce ==
  ASSUME IInv, OnceInv, NEW w \in Worker, FlushFails(w) \/ RangeFails(w)
  PROVE  OnceInv'
<1>1. /\ pc \in [Worker -> {"idle", "flush", "ackAll", "isolate", "ackRange"}]
      /\ iso \in [Worker -> AnyPass] /\ WorkerInv(w) /\ Len(job[w]) \in Nat
      /\ ~Finished(iso[w]) => Span(iso[w]) \in SUBSET Whole(w)
  BY WorkerState, Zenon
<1>2. CASE FlushFails(w)
  <2>1. /\ pc[w] = "flush"
        /\ WriteRejects(w, Whole(w)) \/ WriteFaults(w, Whole(w)) \/ UNCHANGED lake
        /\ pc' = [pc EXCEPT ![w] = "isolate"]
        /\ iso' = [iso EXCEPT ![w] = IsolateStart(Len(job[w]))]
        /\ UNCHANGED <<delivered, msgs, buffer, jobs, job>>
    BY <1>2, Zenon DEF FlushFails, wal, loop
  <2>2. OneRowPerDelivery' /\ \A c \in Copy : Clean(c) => Clean(c)'
    BY <2>1, FailClean, Zenon
  <2>3. Unwritten(w)' \subseteq Unwritten(w)
    BY <2>1, Zenon DEF Unwritten, Whole
  <2>4. \A v \in Worker \ {w} : pc'[v] = pc[v] /\ iso'[v] = iso[v]
    BY <1>1, <2>1, Zenon
  <2> QED
    BY <2>1, <2>2, <2>3, <2>4, KeepOnce, Zenon
<1>3. CASE RangeFails(w)
  <2>1. /\ pc[w] = "isolate" /\ ~Finished(iso[w])
        /\ WriteRejects(w, Span(iso[w])) \/ WriteFaults(w, Span(iso[w]))
        /\ \E tagged \in BOOLEAN : OnError(w, tagged)
        /\ UNCHANGED <<delivered, msgs, buffer, jobs, job, pc>>
    BY Zenon, <1>3 DEF RangeFails, InRange, loop
  <2>2. /\ iso[w].lo \in Nat /\ Hi(iso[w]) \in Nat /\ iso[w].lo < Hi(iso[w])
        /\ Span(iso[w]) \in SUBSET Whole(w)
    BY <1>1, <2>1, OpenCall DEF WorkerInv
  <2>3. OneRowPerDelivery' /\ \A c \in Copy : Clean(c) => Clean(c)'
    BY <2>1, <2>2, FailClean, Zenon
  <2>4. PICK p \in {Fail(iso[w]), Split(iso[w])} : iso' = [iso EXCEPT ![w] = p]
    BY <2>1, Zenon DEF OnError
  <2>5. p.lo \in Nat /\ p.lo >= iso[w].lo
    BY <2>2, <2>4 DEF Fail, Split, Pass
  <2>6. iso'[w] = p /\ \A v \in Worker \ {w} : iso'[v] = iso[v]
    BY <1>1, <2>4, Zenon
  <2>7. Unwritten(w)' \subseteq Unwritten(w)
    BY <1>1, <2>1, <2>2, <2>5, <2>6 DEF Unwritten, Whole
  <2> QED
    BY <2>1, <2>3, <2>6, <2>7, KeepOnce, Zenon
<1> QED
  BY <1>2, <1>3, Zenon

\* Steps of a pass that write nothing.
LEMMA PassOnce ==
  ASSUME IInv, OnceInv, NEW w \in Worker, IsolateReturns(w) \/ AckRange(w)
  PROVE  OnceInv'
<1>1. /\ pc \in [Worker -> {"idle", "flush", "ackAll", "isolate", "ackRange"}]
      /\ iso \in [Worker -> AnyPass] /\ WorkerInv(w) /\ Len(job[w]) \in Nat
  BY WorkerState, Zenon
<1>2. /\ UNCHANGED <<delivered, rows, ambiguous, msgs, buffer, jobs, job>>
      /\ pc[w] \in {"isolate", "ackRange"}
      /\ ~Finished(iso[w]) /\ pc' = [pc EXCEPT ![w] = "isolate"]
      /\ \E p \in {Return(iso[w]), Commit(iso[w])} : iso' = [iso EXCEPT ![w] = p]
  <2>1. CASE IsolateReturns(w)
    BY <1>1, <2>1, Zenon DEF IsolateReturns, InRange, wal, lake, loop
  <2>2. CASE AckRange(w)
    BY <1>1, <2>2, Zenon DEF AckRange, WorkerInv, lake, loop
  <2> QED
    BY <2>1, <2>2, Zenon
<1>3. iso[w].lo \in Nat /\ Hi(iso[w]) \in Nat /\ iso[w].lo < Hi(iso[w])
  BY <1>1, <1>2, OpenCall DEF WorkerInv
<1>4. PICK p \in {Return(iso[w]), Commit(iso[w])} : iso' = [iso EXCEPT ![w] = p]
  BY <1>2, Zenon
<1>5. /\ iso'[w].lo = Hi(iso[w]) /\ pc'[w] = "isolate"
      /\ \A v \in Worker \ {w} : pc'[v] = pc[v] /\ iso'[v] = iso[v]
  BY <1>1, <1>2, <1>4 DEF Return, Commit, Pass
<1>6. Unwritten(w)' \subseteq Unwritten(w)
  BY <1>1, <1>2, <1>3, <1>5 DEF Unwritten, Whole
<1>7. OneRowPerDelivery' /\ \A c \in Copy : Clean(c) => Clean(c)'
  BY <1>2, Zenon DEF OnceInv, OneRowPerDelivery, Clean
<1> QED
  BY <1>2, <1>5, <1>6, <1>7, KeepOnce, Zenon

\* Steps that touch neither the deliveries nor the lake.
LEMMA IdleOnce ==
  ASSUME OnceInv, UNCHANGED <<delivered, rows, ambiguous, msgs, buffer, jobs, pc, job, iso>>
  PROVE  OnceInv'
BY LoopOnce, Zenon DEF OnceInv, Unrecorded

\* Every step keeps it.
LEMMA NextOnce == IInv /\ OnceInv /\ [Next]_vars => OnceInv'
<1> SUFFICES ASSUME IInv, OnceInv, [Next]_vars PROVE OnceInv'
  BY Zenon
<1> USE DEF wal, lake, loop, streak, workers
<1>1. ASSUME NEW m \in Msg, Fetch(m) \/ AckWaitLapses(m) PROVE OnceInv'
  BY <1>1, FetchOnce, IdleOnce, Zenon DEF AckWaitLapses
<1>2. CASE Cancel \/ DrainDeadline \/ RunFatal \/ RunLoopEnds \/ RunReturn
  BY <1>2, IdleOnce, Zenon DEF Cancel, DrainDeadline, RunFatal, RunLoopEnds, RunReturn
<1>3. CASE Crash \/ Restart
  BY <1>3, FreshOnce, Zenon DEF Crash, Restart
<1>4. CASE FetchExit \/ RunReceive \/ RunTick \/ RunDrain
  BY <1>4, MoveOnce, Zenon
<1>5. ASSUME NEW w \in Worker, Work(w) \/ ContextEnds(w) PROVE OnceInv'
  <2>1. CASE ContextEnds(w)
    BY <2>1, IdleOnce, Zenon DEF ContextEnds
  <2>2. CASE AckAll(w) \/ IsolateEnds(w)
    BY <2>2, DoneOnce, Zenon DEF AckAll, IsolateEnds
  <2> QED
    BY <1>5, <2>1, <2>2, TakeOnce, CommitOnce, FailOnce, PassOnce, Zenon DEF Work
<1>6. CASE UNCHANGED vars
  BY <1>6, IdleOnce, Zenon DEF vars
<1> QED
  BY <1>1, <1>2, <1>3, <1>4, <1>5, <1>6, Zenon DEF Next, RunStep

\* One delivery leaves at most one row, plus one for each commit of it that took
\* effect and yet returned an error: for any bundle size, number of workers and
\* split of a bundle by isolateRange, and across restarts and crashes.
THEOREM DeliveriesWriteOnce == Spec => []OneRowPerDelivery
<1>1. OnceInv => OneRowPerDelivery
  BY Zenon DEF OnceInv
<1> QED
  BY <1>1, InitInv, NextInv, InitOnce, NextOnce, PTL DEF Spec

-------------------------------------------------------------------------------
\* The sink implements AtLeastOnce.

\* What the mapping shows of a write: nothing, or a transaction of good messages.
LEMMA WriteRefines ==
  ASSUME TypeOK, NEW w \in Worker, NEW I \in SUBSET Whole(w),
         \/ WriteCommits(w, I)
         \/ WriteRejects(w, I)
         \/ WriteFaults(w, I)
         \/ UNCHANGED lake
  PROVE  \/ stored' = stored
         \/ /\ stored' = stored \cup Messages(w, I)
            /\ Messages(w, I) \in SUBSET Msg
            /\ Messages(w, I) \cap bad = {}
<1>1. /\ Copies(w, I) \in SUBSET Copy
      /\ Messages(w, I) \in SUBSET Msg
      /\ \A m \in Messages(w, I) : \E c \in Copies(w, I) : c.msg = m
  BY BundleParts, Zenon
<1>2. CASE UNCHANGED rows
  BY <1>2, Zenon DEF stored, Stored
<1>3. CASE rows' = Bump(rows, Copies(w, I)) /\ Acceptable(w, I)
  <2>1. /\ \A m \in Msg : Stored(m) => Stored(m)'
        /\ \A c \in Copies(w, I) : Stored(c.msg)'
    BY <1>1, <1>3, CommitStores, Zenon
  <2>2. ASSUME NEW m \in Msg, Stored(m)', ~Stored(m)
        PROVE  m \in Messages(w, I)
    <3>1. PICK c \in Copy : c.msg = m /\ rows'[c] > 0
      BY <2>2, Zenon DEF Stored
    <3>2. ~(rows[c] > 0)
      BY <2>2, <3>1, Zenon DEF Stored
    <3>3. c \in Copies(w, I)
      BY <1>3, <3>1, <3>2, Zenon DEF Bump
    <3> QED
      BY <3>1, <3>3, Zenon DEF Copies, Messages
  <2>3. stored' = stored \cup Messages(w, I)
    BY <1>1, <2>1, <2>2, Zenon DEF stored
  <2>4. Messages(w, I) \cap bad = {}
    BY <1>3, Zenon DEF Acceptable, bad
  <2> QED
    BY <1>1, <2>3, <2>4, Zenon
<1> QED
  BY <1>2, <1>3, Zenon DEF WriteCommits, WriteRejects, WriteFaults, lake

\* Dropping one message, as the abstract specification sees it.
LEMMA TermRefines ==
  ASSUME TypeOK, NEW m \in Msg, status' = Term({m}),
         UNCHANGED kind
  PROVE  \/ UNCHANGED <<held, dropped>>
         \/ /\ m \in held /\ held' = held \ {m} /\ dropped' = dropped \cup {m}
<1>1. status \in [Msg -> Open \cup {"acked", "termed"}]
  BY Zenon DEF TypeOK
<1>2. \A o \in Msg : status'[o] = IF o = m /\ status[o] \in Open
                                THEN "termed" ELSE status[o]
  BY Zenon DEF Term
<1>3. CASE status[m] \in Open
  BY <1>2, <1>3, Zenon DEF held, dropped, Open
<1>4. CASE status[m] \notin Open
  BY <1>2, <1>4, Zenon DEF held, dropped, Open
<1> QED
  BY <1>3, <1>4, Zenon

\* Acking stored messages, as the abstract specification sees it.
LEMMA AckRefines ==
  ASSUME TypeOK, NEW S \in SUBSET Msg, \A m \in S : Stored(m), status' = Ack(S)
  PROVE  /\ held' = held \ (S \cap held) /\ UNCHANGED dropped
         /\ S \cap held \subseteq held \cap stored
<1>1. status \in [Msg -> Open \cup {"acked", "termed"}]
  BY Zenon DEF TypeOK
<1>2. \A o \in Msg : status'[o] = IF o \in S /\ status[o] \in Open
                                THEN "acked" ELSE status[o]
  BY Zenon DEF Ack
<1>3. "acked" \notin Open /\ "termed" \notin Open
  BY Zenon DEF Open
<1>4. held' = held \ (S \cap held)
  BY <1>2, <1>3, Zenon DEF held
<1>5. dropped' = dropped
  BY <1>2, <1>3, Zenon DEF dropped, Open
<1> QED
  BY <1>4, <1>5, Zenon DEF held, stored

\* The sink begins as the promise does.
LEMMA InitRefines == Init => Promise!Init
BY DEF Init, Promise!Init, held, stored, dropped, bad, Open, Stored, Copy

\* The steps that neither settle a message nor touch the lake are invisible.
LEMMA QuietRefines ==
  ASSUME IInv, UNCHANGED <<kind, rows>>,
         \A m \in Msg : \/ status'[m] = status[m]
                        \/ (status[m] \in Open /\ status'[m] \in Open)
  PROVE  UNCHANGED Promise!avars
<1>1. "acked" \notin Open /\ "termed" \notin Open
  BY Zenon DEF Open
<1>2. held' = held /\ dropped' = dropped
  BY <1>1, Zenon DEF held, dropped
<1>3. bad' = bad /\ stored' = stored
  BY Zenon DEF bad, stored, Stored
<1> QED
  BY <1>2, <1>3, Zenon DEF Promise!avars

\* A step that writes the rows I and settles nothing.
LEMMA StoreRefines ==
  ASSUME IInv, NEW w \in Worker, NEW I \in SUBSET Whole(w),
         \/ WriteCommits(w, I)
         \/ WriteRejects(w, I)
         \/ WriteFaults(w, I)
         \/ UNCHANGED lake,
         UNCHANGED <<kind, status>>
  PROVE  [Promise!Next]_(Promise!avars)
<1>1. UNCHANGED <<bad, held, dropped>>
  BY Zenon DEF bad, held, dropped
<1>2. CASE stored' = stored
  BY <1>1, <1>2, Zenon DEF Promise!avars
<1>3. CASE /\ stored' = stored \cup Messages(w, I)
           /\ Messages(w, I) \in SUBSET Msg
           /\ Messages(w, I) \cap bad = {}
  <2>1. Promise!Store(Messages(w, I))
    BY <1>1, <1>3, Zenon DEF Promise!Store
  <2> QED
    BY <1>3, <2>1, Zenon DEF Promise!Next
<1> QED
  BY <1>2, <1>3, WriteRefines, Zenon DEF IInv

\* A step that acks stored messages.
LEMMA SettleRefines ==
  ASSUME IInv, NEW S \in SUBSET Msg, \A m \in S : Stored(m), status' = Ack(S),
         UNCHANGED <<kind, rows>>
  PROVE  Promise!Next
<1>1. UNCHANGED <<bad, stored>>
  BY Zenon DEF bad, stored, Stored
<1>2. /\ held' = held \ (S \cap held) /\ UNCHANGED dropped
      /\ S \cap held \subseteq held \cap stored
  BY AckRefines, Zenon DEF IInv
<1>3. Promise!Settle(S \cap held)
  BY <1>1, <1>2, Zenon DEF Promise!Settle
<1> QED
  BY <1>3, Zenon DEF Promise!Next

\* A step that terminates a message, whose row it may also have written.
LEMMA DropRefines ==
  ASSUME IInv, NEW m \in Msg, status' = Term({m}), UNCHANGED kind,
         m \in bad \/ stored # {},
         stored' = stored \/ (stored' = stored \cup {m} /\ m \notin bad)
  PROVE  [Promise!Next]_(Promise!avars)
<1>1. UNCHANGED bad
  BY Zenon DEF bad
<1>2. stored' \in {stored, stored \cup ({m} \ bad)}
  BY Zenon
<1>3. CASE m \in held /\ held' = held \ {m} /\ dropped' = dropped \cup {m}
  <2>1. Promise!Drop(m)
    BY <1>1, <1>2, <1>3, Zenon DEF Promise!Drop
  <2> QED
    BY <2>1, Zenon DEF Promise!Next
<1>4. CASE UNCHANGED <<held, dropped>>
  <2>1. CASE stored' = stored
    BY <1>1, <1>4, <2>1, Zenon DEF Promise!avars
  <2>2. CASE stored' = stored \cup {m} /\ m \notin bad
    <3> DEFINE S == {m}
    <3>1. S \in SUBSET Msg /\ Promise!Store(S)
      BY <1>1, <1>4, <2>2, Zenon DEF Promise!Store
    <3> HIDE DEF S
    <3> QED
      BY <3>1, Zenon DEF Promise!Next
  <2> QED
    BY <2>1, <2>2, Zenon
<1> QED
  BY <1>3, <1>4, TermRefines, Zenon DEF IInv

\* The failure of a range is a drop of its tagged row, or a stutter.
LEMMA RangeFailsRefines ==
  ASSUME IInv, NEW w \in Worker, RangeFails(w)
  PROVE  [Promise!Next]_(Promise!avars)
<1>1. /\ ~Finished(iso[w]) /\ UNCHANGED kind
      /\ WriteRejects(w, Span(iso[w])) \/ WriteFaults(w, Span(iso[w]))
  BY Zenon DEF RangeFails, InRange
<1>2. TypeOK /\ WorkerInv(w) /\ Span(iso[w]) \in SUBSET Whole(w)
  BY <1>1, WorkerState, Zenon
<1>3. PICK tagged \in BOOLEAN :
        OnError(w, tagged) /\ (tagged => kind[job[w][iso[w].lo].msg] = "poison")
  BY Zenon DEF RangeFails
<1>4. CASE UNCHANGED status
  BY <1>1, <1>2, <1>4, StoreRefines, Zenon
<1>5. CASE /\ Hi(iso[w]) - iso[w].lo = 1
           /\ Evidence(w, tagged)
           /\ status' = Term(Messages(w, Span(iso[w])))
  <2>1. PICK m \in Msg : /\ m = job[w][iso[w].lo].msg
                         /\ Messages(w, Span(iso[w])) = {m}
    BY <1>1, <1>5, SingleRow, Zenon
  <2>2. m \in bad \/ stored # {}
    BY <1>1, <1>3, <1>5, <2>1, SingleEvidence, Zenon DEF bad, stored
  <2>3. stored' = stored \/ (stored' = stored \cup {m} /\ m \notin bad)
    <3>1. \/ stored' = stored
          \/ /\ stored' = stored \cup Messages(w, Span(iso[w]))
             /\ Messages(w, Span(iso[w])) \cap bad = {}
      BY <1>1, <1>2, WriteRefines, Zenon
    <3> QED
      BY <2>1, <3>1, Zenon
  <2>4. status' = Term({m})
    BY <1>5, <2>1, Zenon
  <2> QED
    BY <1>1, <2>1, <2>2, <2>3, <2>4, DropRefines, Zenon
<1> QED
  BY <1>3, <1>4, <1>5, Zenon DEF OnError

\* Every step of a worker is a step of the promise, or a stutter.
LEMMA WorkRefines ==
  ASSUME IInv, NEW w \in Worker, Work(w) \/ ContextEnds(w)
  PROVE  [Promise!Next]_(Promise!avars)
<1>1. TypeOK /\ WorkerInv(w) /\ Whole(w) \in SUBSET Whole(w)
  BY WorkerState, Zenon
<1>2. CASE TakeJob(w) \/ IsolateReturns(w) \/ IsolateEnds(w) \/ ContextEnds(w)
  <2>1. UNCHANGED <<wal, lake>>
    BY <1>2, Zenon DEF TakeJob, IsolateReturns, IsolateEnds, ContextEnds
  <2> QED
    BY <2>1, QuietRefines, Zenon DEF wal, lake
<1>3. CASE FlushCommits(w)
  BY <1>1, <1>3, StoreRefines, Zenon DEF FlushCommits, wal
<1>4. CASE FlushFails(w)
  <2>1. \/ WriteRejects(w, Whole(w))
        \/ WriteFaults(w, Whole(w))
        \/ UNCHANGED lake
    BY <1>4, Zenon DEF FlushFails
  <2>2. UNCHANGED <<kind, status>>
    BY <1>4, Zenon DEF FlushFails, wal
  <2> QED
    BY <1>1, <2>1, <2>2, StoreRefines, Zenon
<1>5. CASE AckAll(w)
  <2>1. PICK S \in SUBSET Messages(w, Whole(w)) : status' = Ack(S)
    BY <1>5, Zenon DEF AckAll
  <2>2. S \in SUBSET Msg /\ \A m \in S : Stored(m)
    BY <1>1, <1>5, <2>1, BundleParts, Zenon DEF AckAll, WorkerInv
  <2> QED
    BY <1>5, <2>1, <2>2, SettleRefines, Zenon DEF AckAll, lake
<1>6. CASE RangeCommits(w)
  <2>1. Span(iso[w]) \in SUBSET Whole(w)
    BY <1>6, WorkerState, Zenon DEF RangeCommits, InRange
  <2> QED
    BY <1>6, <2>1, StoreRefines, Zenon DEF RangeCommits, wal
<1>7. CASE AckRange(w)
  <2>1. ~Finished(iso[w]) /\ \A m \in Messages(w, Span(iso[w])) : Stored(m)
    BY <1>1, <1>7, Zenon DEF AckRange, WorkerInv
  <2>2. Span(iso[w]) \in SUBSET Whole(w)
    BY <2>1, WorkerState, Zenon
  <2>3. PICK S \in SUBSET Messages(w, Span(iso[w])) : status' = Ack(S)
    BY <1>7, Zenon DEF AckRange
  <2>4. S \in SUBSET Msg /\ \A m \in S : Stored(m)
    BY <1>1, <2>1, <2>2, <2>3, BundleParts, Zenon
  <2> QED
    BY <1>7, <2>3, <2>4, SettleRefines, Zenon DEF AckRange, lake
<1>8. CASE RangeFails(w)
  BY <1>8, RangeFailsRefines, Zenon
<1> QED
  BY <1>2, <1>3, <1>4, <1>5, <1>6, <1>7, <1>8, Zenon DEF Work

\* Buffering a message is a stutter, but for the drop of an undecodable one.
LEMMA ReceiveRefines == IInv /\ RunReceive => [Promise!Next]_(Promise!avars)
<1> SUFFICES ASSUME IInv, RunReceive PROVE [Promise!Next]_(Promise!avars)
  BY Zenon
<1> DEFINE m == Head(msgs).msg
<1>1. /\ msgs # <<>> /\ UNCHANGED <<kind, rows>>
      /\ \/ kind[m] = "garbled" /\ status' \in {status, Term({m})}
         \/ UNCHANGED status
  BY SMTT(30) DEF RunReceive, lake
<1>2. m \in Msg
  <2>1. Head(msgs) \in Copy
    BY <1>1, KnownTail, Zenon DEF IInv, TypeOK, CopiesKnown, Bundles
  <2> QED
    BY <2>1, Zenon DEF Copy
<1> HIDE DEF m
<1>3. CASE UNCHANGED status
  BY <1>1, <1>3, QuietRefines, Zenon
<1>4. CASE kind[m] = "garbled" /\ status' = Term({m})
  <2>1. m \in bad
    BY <1>2, <1>4, Zenon DEF bad
  <2>2. stored' = stored
    BY <1>1, Zenon DEF stored, Stored
  <2> QED
    BY <1>1, <1>2, <1>4, <2>1, <2>2, DropRefines, Zenon
<1> QED
  BY <1>1, <1>3, <1>4, Zenon

\* Every step of the sink is a step of the promise, or a stutter.
LEMMA NextRefines == IInv /\ [Next]_vars => [Promise!Next]_(Promise!avars)
<1> SUFFICES ASSUME IInv, [Next]_vars PROVE [Promise!Next]_(Promise!avars)
  BY Zenon
<1>1. ASSUME NEW m \in Msg, Fetch(m) \/ AckWaitLapses(m)
      PROVE  [Promise!Next]_(Promise!avars)
  <2>1. status \in [Msg -> Open \cup {"acked", "termed"}]
    BY Zenon DEF IInv, TypeOK
  <2>2. \A o \in Msg : \/ status'[o] = status[o]
                       \/ (status[o] \in Open /\ status'[o] \in Open)
    BY <1>1, <2>1, Zenon DEF Fetch, AckWaitLapses, Open
  <2>3. UNCHANGED <<kind, rows>>
    BY <1>1, Zenon DEF Fetch, AckWaitLapses, lake
  <2> QED
    BY <2>2, <2>3, QuietRefines, Zenon
<1>2. CASE RunReceive
  BY <1>2, ReceiveRefines, Zenon
<1>3. CASE \/ FetchExit \/ Cancel \/ Crash \/ DrainDeadline \/ RunTick \/ RunFatal
           \/ RunLoopEnds \/ RunDrain \/ RunReturn \/ Restart \/ UNCHANGED vars
  <2>1. UNCHANGED <<wal, lake>>
    BY <1>3, Zenon DEF FetchExit, Cancel, Crash, DrainDeadline, RunTick, RunFatal, RunLoopEnds,
                RunDrain, RunReturn, Restart, FreshProcess, vars
  <2> QED
    BY <2>1, QuietRefines, Zenon DEF wal, lake
<1>4. ASSUME NEW w \in Worker, Work(w) \/ ContextEnds(w)
      PROVE  [Promise!Next]_(Promise!avars)
  BY <1>4, WorkRefines, Zenon
<1> QED
  BY <1>1, <1>2, <1>3, <1>4, Zenon DEF Next, RunStep

\* The sink implements AtLeastOnce: every step of flush, isolateRange, add and
\* the loops around them is a step of the abstract promise, or invisible to it.
THEOREM Refinement == Spec => KeepsPromise
<1>1. Spec => []IInv
  BY InitInv, NextInv, PTL DEF Spec
<1>2. []IInv /\ [][Next]_vars => [][Promise!Next]_(Promise!avars)
  BY NextRefines, PTL
<1> QED
  BY <1>1, <1>2, InitRefines, PTL DEF Spec, KeepsPromise, Promise!Spec
===============================================================================
