---------------------------- MODULE LakeExpiryProofs ----------------------------
(***************************************************************************)
(* The snapshots maintenance expires are those nobody needs, for any number *)
(* of consumers and snapshots.                                              *)
(***************************************************************************)
EXTENDS LakeExpiry, FiniteSets, WellFoundedInduction, TLAPS

\* A non-empty set of naturals has a least element, and Least finds it.
LEMMA LeastNatural ==
  ASSUME NEW S \in SUBSET Nat, S # {}
  PROVE  Least(S) \in S /\ \A y \in S : Least(S) <= y
<1> DEFINE R == {p \in Nat \X Nat : p[1] < p[2]}
<1>1. IsWellFoundedOn(R, Nat)
  <2>1. R = OpToRel(<, Nat)
    BY Zenon DEF OpToRel
  <2> QED BY <2>1, NatLessThanWellFounded, Zenon
<1>2. \E x \in S : \A y \in S : ~(<<y, x>> \in R)
  BY <1>1, WFMin, Zenon
<1>3. \E x \in S : \A y \in S : x <= y
  <2>1. PICK x \in S : \A y \in S : ~(<<y, x>> \in R)
    BY <1>2, Zenon
  <2>2. ASSUME NEW y \in S PROVE x <= y
    <3>1. <<y, x>> \in Nat \X Nat /\ <<y, x>>[1] = y /\ <<y, x>>[2] = x
      BY Zenon
    <3>2. ~(y < x)
      BY <2>1, <3>1, Zenon
    <3> QED BY <3>2
  <2> QED BY <2>2, Zenon
<1> QED BY <1>3, Zenon DEF Least
-------------------------------------------------------------------------------
\* Snapshots are minted in the past.
Clock ==
  /\ Latest >= 1
  /\ \A i \in 1 .. Latest : snapTime[i] <= now

\* What a guarded consumer has yet to see is beyond the floor, or too new for the
\* retention horizon that will be read.
FloorHolds ==
  phase = "bound" =>
    /\ floorAt <= now /\ now <= floorAt + QueryGap
    /\ \A c \in guarded : \A j \in kept : j > cursor[c] =>
         \/ floor # NoFloor /\ j > floor
         \/ snapTime[j] >= floorAt + QueryGap - SnapshotKeep

\* A frozen cutoff is past retention, and spares what a guarded consumer must see.
CutoffHolds ==
  phase \in {"merge", "expire"} /\ cutoff # Never =>
    /\ cutoff <= now - SnapshotKeep
    /\ \A c \in guarded : \A j \in kept : j > cursor[c] => snapTime[j] >= cutoff

\* The inductive invariant of a maintenance cycle and its consumers.
IndInv == TypeOK /\ Clock /\ FloorHolds /\ CutoffHolds /\ LiveLosesNothing

\* The least time of a set of kept snapshots is one of their times.
LEMMA FloorBound ==
  ASSUME TypeOK
  PROVE  LET beyond == {snapTime[id] : id \in {i \in kept : i > floor}}
         IN  beyond # {} =>
               /\ Least(beyond) \in Instants
               /\ \A id \in kept : id > floor => Least(beyond) <= snapTime[id]
<1> DEFINE beyond == {snapTime[id] : id \in {i \in kept : i > floor}}
<1>1. \A id \in kept : snapTime[id] \in Instants
  BY DEF TypeOK, Latest
<1>2. beyond \subseteq Instants /\ beyond \in SUBSET Nat
  BY <1>1, ExpiryAssumption DEF Instants
<1>3. beyond # {} => Least(beyond) \in beyond /\ \A y \in beyond : Least(beyond) <= y
  BY <1>2, LeastNatural, Zenon
<1> QED BY <1>2, <1>3, Zenon

\* ConsumerFloor is a snapshot id if a consumer is fresh, and then at most the
\* cursor of every fresh one.
LEMMA FloorRead ==
  ASSUME TypeOK
  PROVE  /\ ConsumerFloor \in NoFloor .. Latest
         /\ \A c \in Consumer : Fresh(c) => ConsumerFloor # NoFloor /\ ConsumerFloor <= cursor[c]
<1> DEFINE cursors == {cursor[c] : c \in {d \in Consumer : Fresh(d)}}
<1>1. \A c \in Consumer : cursor[c] \in 0 .. Latest
  BY Zenon DEF TypeOK
<1>2. Latest \in Nat
  BY DEF TypeOK, Latest
<1>3. cursors \subseteq 0 .. Latest /\ cursors \in SUBSET Nat
  BY <1>1, <1>2
<1>4. cursors # {} => Least(cursors) \in cursors /\ \A y \in cursors : Least(cursors) <= y
  BY <1>3, LeastNatural, Zenon
<1>5. ConsumerFloor = IF cursors = {} THEN NoFloor ELSE Least(cursors)
  BY Zenon DEF ConsumerFloor
<1>6. CASE cursors = {}
  BY <1>5, <1>6, <1>2 DEF NoFloor
<1>7. CASE cursors # {}
  <2>1. Least(cursors) \in 0 .. Latest /\ \A y \in cursors : Least(cursors) <= y
    BY <1>3, <1>4, <1>7, Zenon
  <2>2. Least(cursors) \in NoFloor .. Latest /\ Least(cursors) # NoFloor
    BY <1>2, <2>1 DEF NoFloor
  <2> QED BY <1>5, <1>7, <2>1, <2>2, Zenon
<1> QED BY <1>6, <1>7, Zenon

\* What the second query of expireCutoff freezes.
LEMMA CutoffFrozen ==
  ASSUME TypeOK, Clock, FloorHolds, phase = "bound"
  PROVE  /\ ExpireCutoff \in Never .. MaxTime /\ ExpireCutoff # Never
         /\ ExpireCutoff <= now - SnapshotKeep
         /\ \A c \in guarded : \A j \in kept : j > cursor[c] => snapTime[j] >= ExpireCutoff
<1> DEFINE beyond == {snapTime[id] : id \in {i \in kept : i > floor}}
           retention == now - SnapshotKeep
<1>1. /\ now \in Instants /\ now \in Nat /\ floorAt \in Nat /\ floor \in Int /\ Latest \in Nat
      /\ \A j \in kept : j \in Nat /\ snapTime[j] \in Nat
  BY ExpiryAssumption DEF TypeOK, Latest, Instants, NoFloor
<1>2. retention \in Never .. MaxTime /\ retention # Never /\ retention \in Int
  BY <1>1, ExpiryAssumption DEF Instants, Never
<1>3. beyond # {} => /\ Least(beyond) \in Instants
                     /\ \A id \in kept : id > floor => Least(beyond) <= snapTime[id]
  BY FloorBound, Zenon
<1>4. ExpireCutoff = IF floor = NoFloor \/ beyond = {} \/ Least(beyond) >= retention
                     THEN retention ELSE Least(beyond)
  BY Zenon DEF ExpireCutoff
<1>5. /\ ExpireCutoff \in Never .. MaxTime /\ ExpireCutoff # Never /\ ExpireCutoff \in Int
      /\ ExpireCutoff <= retention
  BY <1>1, <1>2, <1>3, <1>4, ExpiryAssumption DEF Instants, Never
<1>6. ASSUME floor # NoFloor, NEW j \in kept, j > floor
      PROVE  ExpireCutoff <= snapTime[j]
  <2>1. beyond # {} /\ Least(beyond) \in Nat /\ Least(beyond) <= snapTime[j]
    BY <1>3, <1>6 DEF Instants
  <2> QED BY <1>1, <1>2, <1>4, <1>6, <2>1
<1>7. retention <= floorAt + QueryGap - SnapshotKeep
  BY <1>1, ExpiryAssumption DEF FloorHolds
<1> HIDE DEF beyond, retention
<1>8. ASSUME NEW c \in guarded, NEW j \in kept, j > cursor[c]
      PROVE  snapTime[j] >= ExpireCutoff
  <2>1. CASE floor # NoFloor /\ j > floor
    BY <1>1, <1>5, <1>6, <2>1
  <2>2. CASE snapTime[j] >= floorAt + QueryGap - SnapshotKeep
    BY <1>1, <1>2, <1>5, <1>7, <2>2, ExpiryAssumption
  <2> QED BY <1>8, <2>1, <2>2, Zenon DEF FloorHolds
<1>9. ExpireCutoff <= now - SnapshotKeep
  BY <1>5 DEF retention
<1> QED BY <1>5, <1>8, <1>9, Zenon
-------------------------------------------------------------------------------
\* The catalog begins in the invariant.
LEMMA InitInv == Init => IndInv
<1> SUFFICES ASSUME Init PROVE IndInv
  BY Zenon
<1>1. snapTime = <<0>> /\ Len(snapTime) = 1 /\ snapTime[1] = 0 /\ snapTime \in Seq(Instants)
  BY ExpiryAssumption DEF Init, Instants
<1>2. TypeOK
  BY <1>1, ExpiryAssumption DEF Init, TypeOK, Instants, Never, NoFloor, Latest
<1>3. Clock
  BY <1>1 DEF Init, Clock, Latest
<1>4. FloorHolds /\ CutoffHolds /\ LiveLosesNothing
  BY Zenon DEF Init, FloorHolds, CutoffHolds, LiveLosesNothing
<1> QED BY <1>2, <1>3, <1>4, Zenon DEF IndInv

\* A new snapshot keeps the invariant.
LEMMA MintInv == IndInv /\ Mint => IndInv'
<1> SUFFICES ASSUME IndInv, Mint PROVE IndInv'
  BY Zenon
<1> USE DEF IndInv
<1>1. /\ Latest \in Nat /\ now \in Nat /\ snapTime \in Seq(Instants) /\ now \in Instants
      /\ Latest' = Latest + 1
      /\ snapTime' \in Seq(Instants)
      /\ snapTime'[Latest + 1] = now
      /\ \A i \in 1 .. Latest : snapTime'[i] = snapTime[i]
  BY ExpiryAssumption DEF Mint, TypeOK, Latest, Instants
<1>2. /\ kept \subseteq 1 .. Latest /\ kept' = kept \cup {Latest + 1}
      /\ UNCHANGED <<now, cursor, updatedAt, phase, floor, floorAt, cutoff, faults, guarded, lost>>
  BY Zenon DEF Mint, TypeOK, progress, cycle, history
<1>3. TypeOK'
  <2>1. kept' \subseteq 1 .. Latest'
    BY <1>1, <1>2
  <2>2. cursor' \in [Consumer -> 0 .. Latest']
    <3>1. 0 .. Latest \subseteq 0 .. Latest'
      BY <1>1
    <3> QED BY <1>2, <3>1, Zenon DEF TypeOK
  <2>3. floor' \in NoFloor .. Latest'
    BY <1>1, <1>2 DEF TypeOK, NoFloor
  <2> QED BY <1>1, <1>2, <2>1, <2>2, <2>3, Zenon DEF TypeOK
<1>4. Clock'
  <2>1. \A i \in 1 .. Latest' : snapTime'[i] <= now'
    <3> SUFFICES ASSUME NEW i \in 1 .. Latest' PROVE snapTime'[i] <= now'
      BY Zenon
    <3>1. CASE i = Latest + 1
      BY <1>1, <1>2, <3>1
    <3>2. CASE i \in 1 .. Latest
      BY <1>1, <1>2, <3>2, Zenon DEF Clock
    <3> QED BY <1>1, <3>1, <3>2
  <2> QED BY <1>1, <1>2, <2>1 DEF Clock
<1>5. FloorHolds'
  <2>1. ASSUME phase = "bound"
        PROVE  now >= floorAt + QueryGap - SnapshotKeep
    BY <1>1, <2>1, ExpiryAssumption DEF TypeOK, FloorHolds, Instants
  <2>2. ASSUME phase = "bound", NEW c \in guarded, NEW j \in kept', j > cursor[c]
        PROVE  \/ floor # NoFloor /\ j > floor
               \/ snapTime'[j] >= floorAt + QueryGap - SnapshotKeep
    <3>1. CASE j \in kept
      BY <1>1, <1>2, <2>2, <3>1, Zenon DEF FloorHolds
    <3>2. CASE j = Latest + 1
      BY <1>1, <2>1, <2>2, <3>2, Zenon
    <3> QED BY <1>2, <3>1, <3>2, Zenon
  <2> QED BY <1>2, <2>2, Zenon DEF FloorHolds
<1>6. CutoffHolds'
  <2>1. ASSUME phase \in {"merge", "expire"}, cutoff # Never
        PROVE  now >= cutoff
    BY <1>1, <2>1, ExpiryAssumption DEF TypeOK, CutoffHolds, Never
  <2>2. ASSUME phase \in {"merge", "expire"}, cutoff # Never,
               NEW c \in guarded, NEW j \in kept', j > cursor[c]
        PROVE  snapTime'[j] >= cutoff
    <3>1. CASE j \in kept
      BY <1>1, <1>2, <2>2, <3>1, Zenon DEF CutoffHolds
    <3>2. CASE j = Latest + 1
      BY <1>1, <2>1, <2>2, <3>2, Zenon
    <3> QED BY <1>2, <3>1, <3>2, Zenon
  <2> QED BY <1>2, <2>2, Zenon DEF CutoffHolds
<1> QED BY <1>2, <1>3, <1>4, <1>5, <1>6, Zenon DEF LiveLosesNothing

\* A report, wherever it moves the cursor, keeps the invariant.
LEMMA ProgressInv ==
  ASSUME IndInv, NEW c \in Consumer, NEW id \in 0 .. Latest, RecordConsumerProgress(c, id)
  PROVE  IndInv'
<1> USE DEF IndInv
<1>1. /\ Latest \in Nat /\ now \in Nat /\ floorAt \in Nat /\ cutoff \in Int /\ id \in Nat
      /\ UNCHANGED <<now, snapTime, kept, phase, floor, floorAt, cutoff, faults, lost>>
      /\ Latest' = Latest
      /\ \A j \in kept : j \in Nat /\ snapTime[j] \in Nat
      /\ \A d \in Consumer : cursor[d] \in Nat
  BY ExpiryAssumption DEF RecordConsumerProgress, TypeOK, Latest, Instants, Never, catalog, cycle
<1>2. /\ cursor' = [cursor EXCEPT ![c] = id] /\ updatedAt' = [updatedAt EXCEPT ![c] = now]
      /\ guarded \subseteq Consumer
      /\ guarded' \subseteq guarded \cup {c}
      /\ c \in guarded' => Unreached(id) \/ (c \in guarded /\ cursor[c] <= id)
  BY Zenon DEF RecordConsumerProgress, TypeOK
<1>3. TypeOK'
  BY <1>1, <1>2, Zenon DEF TypeOK, Latest
<1>4. cursor'[c] = id /\ \A d \in Consumer : d # c => cursor'[d] = cursor[d]
  BY <1>2, Zenon DEF TypeOK
<1>5. Clock'
  BY <1>1, Zenon DEF Clock, Latest
<1>6. ASSUME NEW d \in guarded', NEW j \in kept, j > cursor'[d]
      PROVE  (d \in guarded /\ j > cursor[d]) \/ snapTime[j] >= now + QueryGap - SnapshotKeep
  <2>1. CASE d # c
    BY <1>2, <1>4, <1>6, <2>1, Zenon
  <2>2. CASE d = c /\ Unreached(id)
    BY <1>4, <1>6, <2>2, Zenon DEF Unreached
  <2>3. CASE d = c /\ c \in guarded /\ cursor[c] <= id
    <3>1. j > id /\ j \in Nat /\ cursor[c] \in Nat
      BY <1>1, <1>4, <1>6, <2>3, Zenon
    <3>2. j > cursor[c]
      BY <1>1, <2>3, <3>1
    <3> QED BY <2>3, <3>2, Zenon
  <2> QED BY <1>2, <1>6, <2>1, <2>2, <2>3, Zenon
<1>7. FloorHolds'
  <2>1. ASSUME phase = "bound", NEW j \in kept, snapTime[j] >= now + QueryGap - SnapshotKeep
        PROVE  snapTime[j] >= floorAt + QueryGap - SnapshotKeep
    BY <1>1, <2>1, ExpiryAssumption DEF FloorHolds
  <2>2. ASSUME phase = "bound", NEW d \in guarded', NEW j \in kept, j > cursor'[d]
        PROVE  \/ floor # NoFloor /\ j > floor
               \/ snapTime[j] >= floorAt + QueryGap - SnapshotKeep
    BY <1>6, <2>1, <2>2, Zenon DEF FloorHolds
  <2> QED BY <1>1, <2>2, Zenon DEF FloorHolds
<1>8. CutoffHolds'
  <2>1. ASSUME phase \in {"merge", "expire"}, cutoff # Never,
               NEW j \in kept, snapTime[j] >= now + QueryGap - SnapshotKeep
        PROVE  snapTime[j] >= cutoff
    BY <1>1, <2>1, ExpiryAssumption DEF CutoffHolds
  <2>2. ASSUME phase \in {"merge", "expire"}, cutoff # Never,
               NEW d \in guarded', NEW j \in kept, j > cursor'[d]
        PROVE  snapTime[j] >= cutoff
    BY <1>6, <2>1, <2>2, Zenon DEF CutoffHolds
  <2> QED BY <1>1, <2>2, Zenon DEF CutoffHolds
<1> QED BY <1>1, <1>3, <1>5, <1>7, <1>8, Zenon DEF LiveLosesNothing

\* The passing of time keeps the invariant.
LEMMA TickInv == IndInv /\ Tick => IndInv'
<1> SUFFICES ASSUME IndInv, Tick PROVE IndInv'
  BY Zenon
<1> USE DEF IndInv
<1>1. /\ Latest \in Nat /\ now \in Nat /\ floorAt \in Nat /\ cutoff \in Int
      /\ UNCHANGED <<snapTime, kept, cursor, updatedAt, phase, floor, floorAt, cutoff, faults,
                     guarded, lost>>
      /\ Latest' = Latest
  BY ExpiryAssumption DEF Tick, TypeOK, Latest, Instants, Never, catalog, cycle, progress, history
<1>2. /\ now' = now + 1 /\ now < MaxTime
      /\ phase = "bound" => now < floorAt + QueryGap
  BY Zenon DEF Tick
<1>3. TypeOK'
  BY <1>1, <1>2, ExpiryAssumption DEF TypeOK, Latest, Instants
<1>4. Clock'
  <2>1. \A i \in 1 .. Latest : snapTime[i] <= now + 1
    <3> SUFFICES ASSUME NEW i \in 1 .. Latest PROVE snapTime[i] <= now + 1
      BY Zenon
    <3>1. snapTime[i] \in Nat
      BY ExpiryAssumption DEF TypeOK, Latest, Instants
    <3>2. snapTime[i] <= now
      BY Zenon DEF Clock
    <3> QED BY <1>1, <3>1, <3>2
  <2> QED BY <1>1, <1>2, <2>1, Zenon DEF Clock
<1>5. FloorHolds'
  <2>1. phase = "bound" => floorAt <= now + 1 /\ now + 1 <= floorAt + QueryGap
    BY <1>1, <1>2, ExpiryAssumption DEF FloorHolds
  <2> QED BY <1>1, <1>2, <2>1, Zenon DEF FloorHolds
<1>6. CutoffHolds'
  <2>1. phase \in {"merge", "expire"} /\ cutoff # Never => cutoff <= now + 1 - SnapshotKeep
    BY <1>1, ExpiryAssumption DEF CutoffHolds
  <2>2. phase \in {"merge", "expire"} /\ cutoff # Never =>
          \A c \in guarded : \A j \in kept : j > cursor[c] => snapTime[j] >= cutoff
    BY Zenon DEF CutoffHolds
  <2>3. now' - SnapshotKeep = now + 1 - SnapshotKeep
    BY <1>1, <1>2, ExpiryAssumption
  <2> HIDE DEF IndInv
  <2> QED BY <1>1, <2>1, <2>2, <2>3, Zenon DEF CutoffHolds
<1>7. LiveLosesNothing'
  BY <1>1, Zenon DEF LiveLosesNothing
<1> QED BY <1>3, <1>4, <1>5, <1>6, <1>7, Zenon

\* Reading the consumer floor keeps the invariant.
LEMMA ReadFloorInv == IndInv /\ ReadFloor => IndInv'
<1> SUFFICES ASSUME IndInv, ReadFloor PROVE IndInv'
  BY Zenon
<1> USE DEF IndInv
<1>1. /\ UNCHANGED <<now, snapTime, kept, cursor, updatedAt, cutoff, faults, lost>>
      /\ phase' = "bound" /\ floor' = ConsumerFloor /\ floorAt' = now
      /\ guarded' = {c \in Consumer : Fresh(c)}
      /\ Latest' = Latest
  BY Zenon DEF ReadFloor, catalog, progress, Latest
<1>2. Clock'
  BY <1>1, Zenon DEF Clock, Latest
<1>3. TypeOK'
  BY <1>1, FloorRead, Zenon DEF TypeOK
<1>4. ASSUME NEW c \in guarded', NEW j \in kept, j > cursor[c]
      PROVE  ConsumerFloor # NoFloor /\ j > ConsumerFloor
  <2>1. c \in Consumer /\ ConsumerFloor # NoFloor /\ ConsumerFloor <= cursor[c]
    BY <1>1, FloorRead, Zenon
  <2>2. ConsumerFloor \in Int /\ cursor[c] \in Int /\ j \in Int
    BY <2>1, FloorRead DEF TypeOK, Latest, NoFloor
  <2> QED BY <1>4, <2>1, <2>2
<1>5. FloorHolds'
  <2>1. now <= now /\ now <= now + QueryGap
    BY ExpiryAssumption DEF TypeOK, Instants
  <2> QED BY <1>1, <1>4, <2>1, Zenon DEF FloorHolds
<1> QED BY <1>1, <1>2, <1>3, <1>5, Zenon DEF CutoffHolds, LiveLosesNothing

\* Resolving the cutoff from the floor and the retention keeps the invariant.
LEMMA FreezeCutoffInv == IndInv /\ FreezeCutoff => IndInv'
<1> SUFFICES ASSUME IndInv, FreezeCutoff PROVE IndInv'
  BY Zenon
<1> USE DEF IndInv
<1>1. /\ UNCHANGED <<now, snapTime, kept, cursor, updatedAt, faults, guarded, lost>>
      /\ phase = "bound" /\ phase' = "merge" /\ cutoff' = ExpireCutoff
      /\ floor' = NoFloor /\ floorAt' = 0
  BY Zenon DEF FreezeCutoff, catalog, progress, history
<1>2. Latest' = Latest /\ Clock'
  BY <1>1, Zenon DEF Clock, Latest
<1>3. TypeOK'
  <2>1. NoFloor \in NoFloor .. Latest /\ 0 \in Instants
    BY ExpiryAssumption DEF TypeOK, Latest, Instants, NoFloor
  <2> QED BY <1>1, <1>2, <2>1, CutoffFrozen, Zenon DEF TypeOK
<1>4. CutoffHolds'
  BY <1>1, <1>2, CutoffFrozen, Zenon DEF CutoffHolds
<1> QED BY <1>1, <1>2, <1>3, <1>4, Zenon DEF FloorHolds, LiveLosesNothing

\* The cycle moves on with the cutoff it has, or gives its floor and cutoff up.
LEMMA CycleMovesInv == IndInv /\ (CutoffFails \/ MergeEnds \/ CycleEnds) => IndInv'
<1> SUFFICES ASSUME IndInv, CutoffFails \/ MergeEnds \/ CycleEnds PROVE IndInv'
  BY Zenon
<1> USE DEF IndInv
<1>1. UNCHANGED <<now, snapTime, kept, cursor, updatedAt, guarded, lost>>
  BY Zenon DEF CutoffFails, MergeEnds, CycleEnds, catalog, progress, history
<1>2. Latest' = Latest /\ Clock'
  BY <1>1, Zenon DEF Clock, Latest
<1>3. TypeOK'
  <2>1. /\ faults' \in 0 .. MaxFaults /\ floor' \in NoFloor .. Latest /\ floorAt' \in Instants
        /\ cutoff' \in Never .. MaxTime
        /\ phase' \in {"idle", "merge", "expire"} /\ (phase' = "expire" => cutoff' # Never)
    BY ExpiryAssumption DEF CutoffFails, MergeEnds, CycleEnds, Fault, TypeOK, Latest, Instants, Never,
           NoFloor
  <2> QED BY <1>1, <1>2, <2>1, Zenon DEF TypeOK
<1>4. CutoffHolds'
  <2>1. phase' \in {"merge", "expire"} /\ cutoff' # Never => phase = "merge" /\ cutoff' = cutoff
    BY Zenon DEF CutoffFails, MergeEnds, CycleEnds
  <2> QED BY <1>1, <1>2, <2>1, Zenon DEF CutoffHolds
<1>5. phase' # "bound"
  BY Zenon DEF CutoffFails, MergeEnds, CycleEnds
<1> QED BY <1>1, <1>2, <1>3, <1>4, <1>5, Zenon DEF FloorHolds, LiveLosesNothing

\* Expiring snapshots keeps the invariant: the cutoff is still behind the guarded ones.
LEMMA ExpireInv == IndInv /\ Expire => IndInv'
<1> SUFFICES ASSUME IndInv, Expire PROVE IndInv'
  BY Zenon
<1> USE DEF IndInv
<1> DEFINE gone == OlderThan(cutoff)
<1>1. /\ UNCHANGED <<now, snapTime, cursor, updatedAt, floor, floorAt, faults, guarded>>
      /\ Latest' = Latest
      /\ phase = "expire" /\ cutoff # Never
      /\ phase' = "idle" /\ cutoff' = Never
      /\ kept' = kept \ gone
      /\ lost' = lost \cup {c \in guarded : \E id \in gone : id > cursor[c]}
  BY Zenon DEF Expire, Drop, progress, TypeOK, Latest
<1>2. /\ gone \subseteq kept /\ gone \subseteq 1 .. Latest /\ Latest \in Nat /\ cutoff \in Int
      /\ \A id \in gone : snapTime[id] \in Nat /\ snapTime[id] < cutoff
  <2>1. gone \subseteq kept /\ \A id \in gone : snapTime[id] < cutoff
    BY Zenon DEF OlderThan
  <2>2. Latest \in Nat /\ cutoff \in Int /\ kept \subseteq 1 .. Latest
    BY ExpiryAssumption DEF TypeOK, Latest, Never
  <2>3. \A id \in kept : snapTime[id] \in Nat
    BY ExpiryAssumption DEF TypeOK, Latest, Instants
  <2> QED BY <2>1, <2>2, <2>3, Zenon
<1> HIDE DEF gone
<1>3. TypeOK'
  <2>1. Never \in Never .. MaxTime
    BY ExpiryAssumption DEF Never
  <2> QED BY <1>1, <2>1, Zenon DEF TypeOK
<1>4. Clock'
  BY <1>1, Zenon DEF Clock, Latest
<1>5. LiveLosesNothing'
  <2>1. ASSUME NEW c \in guarded, NEW id \in gone
        PROVE  ~(id > cursor[c])
    <3>1. id > cursor[c] => snapTime[id] >= cutoff
      BY <1>1, <1>2, <2>1, Zenon DEF CutoffHolds
    <3> QED BY <1>2, <2>1, <3>1
  <2> QED BY <1>1, <2>1, Zenon DEF LiveLosesNothing
<1> QED BY <1>1, <1>3, <1>4, <1>5, Zenon DEF FloorHolds, CutoffHolds

\* A stuttering step keeps the invariant.
LEMMA StutterInv == IndInv /\ UNCHANGED vars => IndInv'
BY Zenon DEF IndInv, vars, catalog, progress, cycle, history, TypeOK, Clock, FloorHolds,
       CutoffHolds, LiveLosesNothing, Latest

\* Every step keeps the invariant.
LEMMA StepInv == IndInv /\ [Next]_vars => IndInv'
BY Zenon, MintInv, ProgressInv, TickInv, ReadFloorInv, FreezeCutoffInv, CycleMovesInv, ExpireInv,
   StutterInv DEF Next, Cycle

\* IndInv holds throughout.
THEOREM Inductive == Spec => []IndInv
BY InitInv, StepInv, PTL DEF Spec

\* The variables of the catalog, the progress table and the cycle keep their types.
THEOREM TypeCorrect == Spec => []TypeOK
<1>1. IndInv => TypeOK
  BY Zenon DEF IndInv
<1> QED BY Inductive, <1>1, PTL

\* A cycle expires nothing that a consumer it counted as live has yet to consume,
\* nor what one that reports since leaves behind within its retention, for every
\* number of consumers and snapshots, every retention and every staleness, and
\* whatever the consumers report: the floor is read, and the cutoff frozen, long
\* before the expiry that relies on them.
THEOREM LiveConsumersLoseNothing == Spec => []LiveLosesNothing
<1>1. IndInv => LiveLosesNothing
  BY Zenon DEF IndInv
<1> QED BY Inductive, <1>1, PTL

\* Expiry never drops a snapshot within its retention.
THEOREM RetentionHolds == Spec => RetentionKept
<1>1. IndInv /\ [Next]_vars => [\A id \in kept \ kept' : snapTime[id] < now - SnapshotKeep]_vars
  <2> SUFFICES ASSUME IndInv, Next, NEW id \in kept, id \notin kept'
      PROVE  snapTime[id] < now - SnapshotKeep
    BY Zenon
  <2>1. Expire
    BY Zenon DEF Next, Cycle, Mint, RecordConsumerProgress, Tick, ReadFloor, FreezeCutoff, MergeEnds,
           CutoffFails, CycleEnds, catalog
  <2>2. snapTime[id] < cutoff /\ snapTime[id] \in Nat /\ cutoff \in Int /\ now \in Nat
    BY <2>1, ExpiryAssumption DEF Expire, Drop, OlderThan, IndInv, TypeOK, Latest, Instants, Never
  <2>3. cutoff <= now - SnapshotKeep
    BY <2>1, Zenon DEF Expire, IndInv, TypeOK, CutoffHolds
  <2> QED BY <2>2, <2>3, ExpiryAssumption
<1> QED BY Inductive, <1>1, PTL DEF Spec, RetentionKept
===============================================================================
