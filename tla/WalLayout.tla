----------------------------- MODULE WalLayout -----------------------------
(***************************************************************************)
(* The WAL's partition layout across boots: stream.EnsureStreams with its  *)
(* guard against streams of another layout, the routing of subjects to     *)
(* partition streams, the sink's consumer on every stream of the layout,   *)
(* and the operator's rescale (docs/wal-partition-rescale.md).  Pods boot, *)
(* crash and restart on their own, stopped in the middle of a boot too.    *)
(***************************************************************************)
EXTENDS Integers, Sequences, FiniteSets

CONSTANTS Pods,
          Counts,    \* values of NATS_STREAM_PARTITIONS
          Subjects,  \* cloudevent subjects, named by their hash
          MaxRescales

VARIABLES
    count,     \* NATS_STREAM_PARTITIONS in the deployment
    boot,      \* each pod: down, ensuring its streams, or up
    parts,     \* the count each pod read when it started
    made,      \* how many streams its EnsureStreams has gone through
    streams,   \* the WAL streams of the broker
    backlog,   \* messages no sink has persisted yet: stream and subject
    rescales

\* Every partition count is at least one.
Configured == Counts \subseteq Nat \ {0}

vars == <<count, boot, parts, made, streams, backlog, rescales>>

Init ==
    /\ count \in Counts
    /\ boot = [p \in Pods |-> "down"]
    /\ parts = [p \in Pods |-> count]
    /\ made = [p \in Pods |-> 0]
    /\ streams = {}
    /\ backlog = {}
    /\ rescales = 0

\* Partition: hash of the subject modulo the count.
Partition(subject, n) == IF n <= 1 THEN 0 ELSE subject % n

\* StreamNameFor: one partition keeps the name INGEST_RAW.
StreamNameFor(i, n) == IF n <= 1 THEN <<"INGEST_RAW">> ELSE <<"INGEST_RAW", i>>

Layout(n) == {StreamNameFor(i, n) : i \in 0..(n - 1)}

\* Variant: the guard knows only the stream of the unpartitioned layout.
checkStaleSingle(n) == n > 1 => <<"INGEST_RAW">> \notin streams

\* checkStaleStreams: no WAL stream outside the layout.
checkStaleStreams(n) == streams \subseteq Layout(n)

\* A pod starts: a restarted container with the count it had, a new one with the
\* count of the deployment.
Start(p, n) ==
    /\ boot[p] = "down"
    /\ parts' = [parts EXCEPT ![p] = n]
    /\ made' = [made EXCEPT ![p] = 0]
    /\ boot' = [boot EXCEPT ![p] = IF checkStaleStreams(n) THEN "ensuring" ELSE "down"]
    /\ UNCHANGED <<count, streams, backlog, rescales>>

\* The broker refuses a stream whose subjects overlap another's: in.raw.> covers
\* those of every partition.
Overlaps(s) == \E t \in streams : t # s /\ (Len(s) = 1 \/ Len(t) = 1)

\* One CreateOrUpdateStream of the loop; an error ends the boot.
EnsureStream(p) ==
    LET s == StreamNameFor(made[p], parts[p]) IN
    /\ boot[p] = "ensuring"
    /\ made[p] < parts[p]
    /\ \/ /\ ~Overlaps(s)
          /\ streams' = streams \cup {s}
          /\ made' = [made EXCEPT ![p] = @ + 1]
          /\ UNCHANGED boot
       \/ /\ Overlaps(s)
          /\ boot' = [boot EXCEPT ![p] = "down"]
          /\ UNCHANGED <<streams, made>>
    /\ UNCHANGED <<count, parts, backlog, rescales>>

\* A sink is started on every stream of the layout and the pod becomes ready.
Ready(p) ==
    /\ boot[p] = "ensuring"
    /\ made[p] = parts[p]
    /\ boot' = [boot EXCEPT ![p] = "up"]
    /\ UNCHANGED <<count, parts, made, streams, backlog, rescales>>

Stop(p) ==
    /\ boot[p] # "down"
    /\ boot' = [boot EXCEPT ![p] = "down"]
    /\ UNCHANGED <<count, parts, made, streams, backlog, rescales>>

\* An event is published on the subject of its partition; with no stream bound to
\* it the publish fails, and the device is told so.
Publish(p, subject) ==
    LET s == StreamNameFor(Partition(subject, parts[p]), parts[p]) IN
    /\ boot[p] = "up"
    /\ s \in streams
    /\ backlog' = backlog \cup {<<s, subject>>}
    /\ UNCHANGED <<count, boot, parts, made, streams, rescales>>

\* A sink persists a message of a stream it consumes.
Drain(p, m) ==
    /\ boot[p] = "up"
    /\ m \in backlog
    /\ m[1] \in Layout(parts[p])
    /\ backlog' = backlog \ {m}
    /\ UNCHANGED <<count, boot, parts, made, streams, rescales>>

\* The operator changes the count, with the deployment stopped or by a rolling
\* update to a larger one.
Rescale(n) ==
    /\ rescales < MaxRescales
    /\ n # count
    /\ \/ n > count /\ UNCHANGED parts
       \/ (\A p \in Pods : boot[p] = "down") /\ parts' = [p \in Pods |-> n]
    /\ count' = n
    /\ rescales' = rescales + 1
    /\ UNCHANGED <<boot, made, streams, backlog>>

\* The operator deletes a drained stream of the old layout, with din stopped.
Delete(s) ==
    /\ \A p \in Pods : boot[p] = "down"
    /\ s \in streams
    /\ \A m \in backlog : m[1] # s
    /\ streams' = streams \ {s}
    /\ UNCHANGED <<count, boot, parts, made, backlog, rescales>>

Next ==
    \/ \E p \in Pods : \/ Start(p, parts[p]) \/ Start(p, count) \/ EnsureStream(p) \/ Ready(p) \/ Stop(p)
                       \/ \E v \in Subjects : Publish(p, v)
                       \/ \E m \in backlog : Drain(p, m)
    \/ \E n \in Counts : Rescale(n)
    \/ \E s \in streams : Delete(s)

Spec == Init /\ [][Next]_vars

\* Once the pods that run are those of the configured count, every message of the
\* WAL is in a stream they consume: no backlog of an earlier layout waits for
\* MaxAge to discard it (stream.go:41-47), and it is in a stream that exists.
NothingStranded ==
    \A m \in backlog :
        /\ m[1] \in streams
        /\ \A p \in Pods : boot[p] = "up" /\ parts[p] = count => m[1] \in Layout(count)
============================================================================
