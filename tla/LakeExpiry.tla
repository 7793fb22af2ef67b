------------------------------ MODULE LakeExpiry ------------------------------
(***************************************************************************)
(* Snapshot expiry against the consumer floor.  Writers mint snapshots, the *)
(* consumers of the change feed report the snapshot they have consumed, and *)
(* the one maintainer runs cycles: it reads the floor, freezes a cutoff,    *)
(* spends a long time merging files, and then expires every snapshot older  *)
(* than the frozen cutoff.  Everyone acts between any two of its steps.     *)
(***************************************************************************)
EXTENDS Integers, Sequences, FiniteSets

CONSTANTS
  Consumer,      \* the consumers of the change feed
  SnapshotKeep,  \* MaintConfig.SnapshotKeep
  Staleness,     \* MaintConfig.ConsumerStaleness
  QueryGap,      \* the two queries of expireCutoff are at most this far apart
  MaxSnapshots,  \* bound: snapshots ever minted
  MaxTime,       \* bound: the last instant
  MaxFaults      \* bound: failed steps and restarts of the maintainer

ASSUME ExpiryAssumption ==
  /\ SnapshotKeep \in Nat /\ Staleness \in Nat \ {0}
  /\ QueryGap \in 0 .. SnapshotKeep
  /\ MaxSnapshots \in Nat /\ MaxTime \in Nat
  /\ MaxFaults \in Nat

Instants == 0 .. MaxTime

\* Before every instant and every cutoff.
Never == -1 - SnapshotKeep

\* ConsumerFloor's ok = false: below every cursor.
NoFloor == -1

VARIABLES
  now,         \* the clock of the catalog database
  snapTime,    \* the snapshot_time of every snapshot ever minted, by its id
  kept,        \* the ids that are not expired
  cursor,      \* meta.din_consumer_progress: snapshot_id of each consumer
  updatedAt,   \*   and updated_at, Never while there is no row
  phase,       \* where the maintainer's cycle stands
  floor,       \* the floor it has read, NoFloor if no consumer was live
  floorAt,     \*   and when it read it
  cutoff,      \* the cutoff it has frozen, Never if there is none
  faults,      \* failures so far
  guarded,     \* consumers the cycle under way must not hurt
  lost         \* those it hurt: it dropped a snapshot they had not consumed

catalog == <<snapTime, kept>>
progress == <<cursor, updatedAt>>
cycle == <<phase, floor, floorAt, cutoff>>
history == <<guarded, lost>>
vars == <<now, catalog, progress, cycle, faults, history>>

Latest == Len(snapTime)

Registered(c) == updatedAt[c] # Never

\* updated_at > now() - staleness.
Fresh(c) == Registered(c) /\ updatedAt[c] > now - Staleness

Least(S) == CHOOSE x \in S : \A y \in S : x <= y

Fault == faults < MaxFaults /\ faults' = faults + 1

Init ==
  /\ now = 0
  /\ snapTime = <<0>> /\ kept = {1}
  /\ cursor = [c \in Consumer |-> 0]
  /\ updatedAt = [c \in Consumer |-> Never]
  /\ phase = "idle" /\ floor = NoFloor /\ floorAt = 0 /\ cutoff = Never
  /\ faults = 0
  /\ guarded = {} /\ lost = {}
-------------------------------------------------------------------------------
\* A writer, or a maintenance step, commits to the lake.
Mint ==
  /\ Latest < MaxSnapshots
  /\ snapTime' = Append(snapTime, now)
  /\ kept' = kept \cup {Latest + 1}
  /\ UNCHANGED <<now, progress, cycle, faults, history>>

\* Retention reaches no snapshot beyond id before a cutoff could be frozen.
Unreached(id) == \A j \in kept : j > id => snapTime[j] >= now + QueryGap - SnapshotKeep

\* RecordConsumerProgress, one transaction: the row names any snapshot, the first
\* time as later, and may move back.  A cycle that has read the floor knows
\* nothing of a consumer that only now appears, returns or moves back.
RecordConsumerProgress(c, id) ==
  /\ cursor' = [cursor EXCEPT ![c] = id]
  /\ updatedAt' = [updatedAt EXCEPT ![c] = now]
  /\ guarded' = IF Unreached(id) \/ (c \in guarded /\ cursor[c] <= id)
                THEN guarded \cup {c}
                ELSE guarded \ {c}
  /\ UNCHANGED <<now, catalog, cycle, faults, lost>>

\* Time passes, but not long between the two queries of expireCutoff.
Tick ==
  /\ now < MaxTime
  /\ phase = "bound" => now < floorAt + QueryGap
  /\ now' = now + 1
  /\ UNCHANGED <<catalog, progress, cycle, faults, history>>
-------------------------------------------------------------------------------
\* The cycle.

\* Variant: a dead consumer still counts.
ConsumerFloorAll ==
  LET cursors == {cursor[c] : c \in {d \in Consumer : Registered(d)}}
  IN  IF cursors = {} THEN NoFloor ELSE Least(cursors)

\* The lowest cursor among the consumers that reported within Staleness.
ConsumerFloor ==
  LET cursors == {cursor[c] : c \in {d \in Consumer : Fresh(d)}}
  IN  IF cursors = {} THEN NoFloor ELSE Least(cursors)

\* Variant: the floor binds even where retention is more restrictive.
ExpireCutoffFloorOnly ==
  LET retention == now - SnapshotKeep
      beyond == {snapTime[id] : id \in {i \in kept : i > floor}}
  IN  IF floor = NoFloor \/ beyond = {} THEN retention ELSE Least(beyond)

\* The retention horizon, pulled back to the first snapshot beyond the floor.
ExpireCutoff ==
  LET retention == now - SnapshotKeep
      beyond == {snapTime[id] : id \in {i \in kept : i > floor}}
  IN  IF floor = NoFloor \/ beyond = {} \/ Least(beyond) >= retention
      THEN retention
      ELSE Least(beyond)

\* A cycle starts; its first catalog query reads the floor, and with it who is live.
ReadFloor ==
  /\ phase = "idle"
  /\ phase' = "bound"
  /\ floor' = ConsumerFloor
  /\ floorAt' = now
  /\ guarded' = {c \in Consumer : Fresh(c)}
  /\ UNCHANGED <<now, catalog, progress, cutoff, faults, lost>>

\* The second query freezes the cutoff; the merges follow.
FreezeCutoff ==
  /\ phase = "bound"
  /\ phase' = "merge" /\ floor' = NoFloor /\ floorAt' = 0
  /\ cutoff' = ExpireCutoff
  /\ UNCHANGED <<now, catalog, progress, faults, history>>

\* One of the two queries fails: this cycle will not expire.
CutoffFails ==
  /\ phase \in {"idle", "bound"}
  /\ Fault
  /\ phase' = "merge" /\ floor' = NoFloor /\ floorAt' = 0
  /\ cutoff' = Never
  /\ UNCHANGED <<now, catalog, progress, history>>

\* Variant: expiry runs whether or not there is a cutoff.
MergeEndsAlways ==
  /\ phase = "merge"
  /\ phase' = "expire"
  /\ UNCHANGED <<now, catalog, progress, floor, floorAt, cutoff, faults, history>>

\* The flush, rewrite and merge steps are over, whatever came of them: the
\* snapshots they minted are Mint steps.
MergeEnds ==
  /\ phase = "merge"
  /\ phase' = IF cutoff = Never THEN "idle" ELSE "expire"
  /\ UNCHANGED <<now, catalog, progress, floor, floorAt, cutoff, faults, history>>

\* The snapshots ducklake_expire_snapshots(older_than => t) drops (external): it
\* always spares the head.
OlderThan(t) == {id \in kept : id # Latest /\ snapTime[id] < t}

Drop(ids) ==
  /\ kept' = kept \ ids
  /\ lost' = lost \cup {c \in guarded : \E id \in ids : id > cursor[c]}

\* Variant: the retention horizon is evaluated again when the call is made.
ExpireUnfrozen ==
  /\ phase = "expire"
  /\ Drop(OlderThan(now - SnapshotKeep))
  /\ phase' = "idle" /\ cutoff' = Never
  /\ UNCHANGED <<now, snapTime, progress, floor, floorAt, faults, guarded>>

\* The call with the frozen cutoff; the cycle ends.
Expire ==
  /\ phase = "expire"
  /\ Drop(OlderThan(cutoff))
  /\ phase' = "idle" /\ cutoff' = Never
  /\ UNCHANGED <<now, snapTime, progress, floor, floorAt, faults, guarded>>

\* The call fails, the context is canceled, or the process dies.
CycleEnds ==
  /\ phase # "idle"
  /\ Fault
  /\ phase' = "idle" /\ floor' = NoFloor /\ floorAt' = 0 /\ cutoff' = Never
  /\ UNCHANGED <<now, catalog, progress, history>>

Cycle == ReadFloor \/ FreezeCutoff \/ MergeEnds \/ Expire

Next ==
  \/ Mint \/ Tick \/ Cycle \/ CutoffFails \/ CycleEnds
  \/ \E c \in Consumer : \E id \in 0 .. Latest : RecordConsumerProgress(c, id)

Spec == Init /\ [][Next]_vars

\* Maintenance cycles follow one another (Run's ticker) and each step is bounded
\* by maintStepTimeout; time passes.
FairSpec == Spec /\ WF_vars(Cycle) /\ WF_vars(Tick)
-------------------------------------------------------------------------------
\* The types of the catalog, of din_consumer_progress and of the maintainer's cycle.
TypeOK ==
  /\ now \in Instants
  /\ snapTime \in Seq(Instants)
  /\ kept \subseteq 1 .. Latest
  /\ cursor \in [Consumer -> 0 .. Latest]
  /\ updatedAt \in [Consumer -> Instants \cup {Never}]
  /\ phase \in {"idle", "bound", "merge", "expire"}
  /\ floor \in NoFloor .. Latest /\ floorAt \in Instants
  /\ cutoff \in Never .. MaxTime
  /\ phase = "expire" => cutoff # Never
  /\ faults \in 0 .. MaxFaults
  /\ guarded \subseteq Consumer
  /\ lost \subseteq Consumer

\* A cycle expires no snapshot that a consumer which was live when it read the
\* floor has yet to consume, although merges of half an hour lie between and the
\* consumer may have gone stale (expireCutoff, expireSQL).  A consumer that first
\* reports, returns or moves its cursor back after that reading loses nothing
\* either, unless it leaves a snapshot behind that retention is giving up.
LiveLosesNothing == lost = {}

\* No snapshot is expired before it is SnapshotKeep old, whatever the floor.
RetentionKept ==
  [][\A id \in kept \ kept' : snapTime[id] < now - SnapshotKeep]_vars

\* A live consumer has yet to consume a snapshot as old as this one.
HeldBack(id) ==
  \E c \in Consumer : Fresh(c) /\ \E j \in kept : j > cursor[c] /\ snapTime[j] <= snapTime[id]

Expirable(id) ==
  /\ id \in kept /\ id # Latest
  /\ snapTime[id] < now - SnapshotKeep
  /\ ~HeldBack(id)

\* A dead consumer does not wedge the lake: a snapshot past retention that no live
\* consumer holds back is expired in the end (ConsumerFloor's staleness).
ExpiryProceeds == \A id \in 1 .. MaxSnapshots : Expirable(id) ~> ~Expirable(id)

\* Expiry never drops a snapshot at or past the cursor of a live consumer (here:
\* one whose cursor its cycle counted).
CursorIsKept ==
  [][\A c \in guarded : Fresh(c) => \A id \in kept \ kept' : id < cursor[c]]_vars
===============================================================================
