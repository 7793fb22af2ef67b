------------------------------- MODULE Bridge -------------------------------
(***************************************************************************)
(* The decode bridge (decodestream.Bridge) on one WAL partition: a batch   *)
(* of raw messages is fetched, every message is decoded and its decoded    *)
(* signals or events are published asynchronously, one publish per name,   *)
(* and only then each message is acknowledged, or handed back when one of  *)
(* its publishes failed.  The workers are the pods that share the durable  *)
(* consumer.  JetStream is external: redelivery after AckWait or a nak, up *)
(* to MaxDeliver, and duplicates dropped by message id.                    *)
(***************************************************************************)
EXTENDS Integers, Sequences, FiniteSets

CONSTANTS Workers,
          Names,            \* each raw message's decoded names; none if nothing decodes
          MaxBatch, MaxDeliver,
          MaxFetchRetries,  \* maxDecodeFetchRetries
          MaxFaults

Msgs == DOMAIN Names

VARIABLES
    raw,       \* each raw message: waiting, out (delivered, not acked), acked or shed
    tries,     \* its deliveries
    phase,     \* each worker: idle, submit, finish or down
    stopping,  \* workers whose context is cancelled
    batch,     \* the messages it fetched
    pos,       \* its place in them
    errs,      \* its consecutive fetch errors
    future,    \* its publishes: none, wire, ok or failed
    decoded,   \* the publishes the decoded streams stored
    faults

vars == <<raw, tries, phase, stopping, batch, pos, errs, future, decoded, faults>>

Publishes == UNION {{<<m, n>> : n \in Names[m]} : m \in Msgs}

Init ==
    /\ raw = [m \in Msgs |-> "waiting"]
    /\ tries = [m \in Msgs |-> 0]
    /\ phase = [w \in Workers |-> "idle"]
    /\ stopping = {}
    /\ batch = [w \in Workers |-> <<>>]
    /\ pos = [w \in Workers |-> 1]
    /\ errs = [w \in Workers |-> 0]
    /\ future = [w \in Workers |-> [p \in Publishes |-> "none"]]
    /\ decoded = {}
    /\ faults = 0

Fault == faults < MaxFaults /\ faults' = faults + 1

\* Batches the server may hand out.
Batches == UNION {[1..k -> Msgs] : k \in 1..MaxBatch}

Fetch(w, b) ==
    /\ phase[w] = "idle" /\ w \notin stopping
    /\ \A i, j \in DOMAIN b : i < j => b[i] # b[j]
    /\ \A i \in DOMAIN b : raw[b[i]] = "waiting"
    /\ raw' = [m \in Msgs |-> IF \E i \in DOMAIN b : b[i] = m THEN "out" ELSE raw[m]]
    /\ tries' = [m \in Msgs |-> IF \E i \in DOMAIN b : b[i] = m THEN tries[m] + 1 ELSE tries[m]]
    /\ batch' = [batch EXCEPT ![w] = b]
    /\ pos' = [pos EXCEPT ![w] = 1]
    /\ phase' = [phase EXCEPT ![w] = "submit"]
    /\ errs' = [errs EXCEPT ![w] = 0]
    /\ UNCHANGED <<stopping, future, decoded, faults>>

\* A fetch error is retried; too many in a row end the process.
FetchError(w) ==
    /\ phase[w] = "idle" /\ w \notin stopping
    /\ Fault
    /\ \/ errs[w] + 1 < MaxFetchRetries /\ errs' = [errs EXCEPT ![w] = @ + 1] /\ UNCHANGED phase
       \/ /\ errs[w] + 1 >= MaxFetchRetries
          /\ errs' = [errs EXCEPT ![w] = 0] /\ phase' = [phase EXCEPT ![w] = "down"]
    /\ UNCHANGED <<raw, tries, stopping, batch, pos, future, decoded>>

Last(w) == pos[w] = Len(batch[w])

\* The next message of the batch, or the next phase.
Advance(w, last) ==
    /\ pos' = [pos EXCEPT ![w] = IF Last(w) THEN 1 ELSE @ + 1]
    /\ phase' = [phase EXCEPT ![w] = IF Last(w) THEN last ELSE @]

NoFutures == [p \in Publishes |-> "none"]

\* decodeAndSubmit: one publish per decoded name, some refused on the spot.
decodeAndSubmit(w) ==
    LET m == batch[w][pos[w]] IN
    /\ phase[w] = "submit"
    /\ \E refused \in SUBSET Names[m] :
         /\ IF refused = {} THEN UNCHANGED faults ELSE Fault
         /\ future' = [future EXCEPT ![w] = [p \in Publishes |->
                          IF p[1] # m THEN @[p] ELSE IF p[2] \in refused THEN "failed" ELSE "wire"]]
    /\ Advance(w, "finish")
    /\ UNCHANGED <<raw, tries, stopping, batch, errs, decoded>>

\* Variant: the id leaves the name out, so a message's publishes collapse.
dedupByEvent(m, n) == <<m>>

\* The message id: the raw event's key and the name.
dedupID(m, n) == <<m, n>>

Duplicate(m, n) == \E p \in decoded : dedupID(p[1], p[2]) = dedupID(m, n)

\* A decoded stream takes a publish and acks it; the message or its ack may be
\* lost, and the future then fails when WithPublishAsyncTimeout runs out.
Store(w, m, n) ==
    /\ future[w][<<m, n>>] = "wire"
    /\ \/ /\ decoded' = IF Duplicate(m, n) THEN decoded ELSE decoded \cup {<<m, n>>}
          /\ future' = [future EXCEPT ![w][<<m, n>>] = "ok"]
          /\ UNCHANGED faults
       \/ /\ decoded' \in {decoded, IF Duplicate(m, n) THEN decoded ELSE decoded \cup {<<m, n>>}}
          /\ future' = [future EXCEPT ![w][<<m, n>>] = "failed"]
          /\ Fault
    /\ UNCHANGED <<raw, tries, phase, stopping, batch, pos, errs>>

\* JetStream takes a message back, unless it has been delivered too often.
Back(m) == IF tries[m] < MaxDeliver THEN "waiting" ELSE "shed"

Futures(w, m) == {future[w][<<m, n>>] : n \in Names[m]}

\* awaitFutures: no failure among a message's publishes.
Published(w, m) == Futures(w, m) \subseteq {"ok"}

\* finish: ack when every publish succeeded, else nak; either call may fail and
\* leave the message to AckWait.  A cancelled context ends the wait.
finish(w) ==
    LET m == batch[w][pos[w]] IN
    /\ phase[w] = "finish"
    /\ "wire" \in Futures(w, m) => w \in stopping
    /\ \/ Published(w, m) /\ raw' = [raw EXCEPT ![m] = "acked"] /\ UNCHANGED faults
       \/ /\ ~Published(w, m)
          /\ raw' = [raw EXCEPT ![m] = IF @ = "out" THEN Back(m) ELSE @]
          /\ UNCHANGED faults
       \/ Fault /\ UNCHANGED raw
    /\ Advance(w, "idle")
    /\ batch' = [batch EXCEPT ![w] = IF Last(w) THEN <<>> ELSE @]
    /\ future' = [future EXCEPT ![w] = IF Last(w) THEN NoFutures ELSE @]
    /\ UNCHANGED <<tries, stopping, errs, decoded>>

\* AckWait runs out on a delivered message.
AckWait(m) ==
    /\ raw[m] = "out"
    /\ raw' = [raw EXCEPT ![m] = Back(m)]
    /\ UNCHANGED <<tries, phase, stopping, batch, pos, errs, future, decoded, faults>>

\* Shutdown is asked for; the loop ends before its next fetch.
Cancel(w) ==
    /\ phase[w] # "down" /\ w \notin stopping
    /\ Fault
    /\ stopping' = stopping \cup {w}
    /\ UNCHANGED <<raw, tries, phase, batch, pos, errs, future, decoded>>

\* The loop ends, or the process dies.  What is still on the wire counts as lost;
\* its late arrival could only add to decoded.
Exit(w) ==
    /\ \/ phase[w] = "idle" /\ w \in stopping /\ UNCHANGED faults
       \/ phase[w] # "down" /\ Fault
    /\ phase' = [phase EXCEPT ![w] = "down"]
    /\ batch' = [batch EXCEPT ![w] = <<>>]
    /\ pos' = [pos EXCEPT ![w] = 1]
    /\ future' = [future EXCEPT ![w] = NoFutures]
    /\ errs' = [errs EXCEPT ![w] = 0]
    /\ UNCHANGED <<raw, tries, stopping, decoded>>

Restart(w) ==
    /\ phase[w] = "down"
    /\ phase' = [phase EXCEPT ![w] = "idle"]
    /\ stopping' = stopping \ {w}
    /\ UNCHANGED <<raw, tries, batch, pos, errs, future, decoded, faults>>

Next ==
    \/ \E w \in Workers : \/ \E b \in Batches : Fetch(w, b)
                          \/ FetchError(w) \/ decodeAndSubmit(w) \/ finish(w)
                          \/ Cancel(w) \/ Exit(w) \/ Restart(w)
                          \/ \E p \in Publishes : Store(w, p[1], p[2])
    \/ \E m \in Msgs : AckWait(m)

Spec == Init /\ [][Next]_vars

\* A raw message leaves the bridge's consumer only when each of its decoded names
\* is in the decoded streams (decodestream.go:297-300), whatever redelivery,
\* duplicate suppression or another worker did with it in between; the exception
\* is one JetStream sheds at MaxDeliver.
AckedIsPublished ==
    \A p \in Publishes : raw[p[1]] = "acked" => p \in decoded
=============================================================================
