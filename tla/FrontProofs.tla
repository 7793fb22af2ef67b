------------------------------ MODULE FrontProofs ------------------------------
(***************************************************************************)
(* Safety of the parts in front of the sink that are not the ingest path,   *)
(* and of the bridge, for every value of their constants: the rate limiter, *)
(* the WAL layout and the bridge.  Each section has the inductive invariant *)
(* of one part; the theorems at the end are about the specification they    *)
(* share.                                                                   *)
(***************************************************************************)
EXTENDS Front, FiniteSetTheorems, TLAPS
-------------------------------------------------------------------------------
(***************************************************************************)
(* The rate limiter.  A remote's tokens, its bucket's or those of a full    *)
(* bucket without one, are never below what a limiter that forgets nobody   *)
(* would leave it, and equal unless a used bucket had to go.                *)
(***************************************************************************)
\* The map holds buckets of known remotes, at most MaxKeys of them.
LimiterMap ==
    /\ Limiter!Held \subseteq Remotes
    /\ IsFiniteSet(Limiter!Held) /\ Cardinality(Limiter!Held) <= MaxKeys
    /\ \A r \in Limiter!Held : limiters[r] \in 0..Burst
    /\ ideal \in [Remotes -> 0..Burst]

\* What each remote is left with.
LimiterTokens ==
    \A r \in Remotes : /\ Limiter!Tokens(r) >= ideal[r]
                       /\ r \notin renewed => Limiter!Tokens(r) = ideal[r]

\* The inductive invariant of the shard.
LimiterInv == LimiterMap /\ LimiterTokens

\* Counting is the same inside the limiter.
LEMMA LimiterCardinality == \A S : Limiter!Cardinality(S) = Cardinality(S)
BY Zenon DEF Limiter!Cardinality, Cardinality

\* It implies the property.
LEMMA LimiterInvisible == LimiterInv => Limiter!EvictionInvisible
BY LimiterCardinality, Zenon DEF LimiterInv, LimiterMap, LimiterTokens, Limiter!EvictionInvisible

\* It holds of the empty map.
LEMMA LimiterInit == Limiter!Configured /\ Limiter!Init => LimiterInv
<1> SUFFICES ASSUME Limiter!Configured, Limiter!Init PROVE LimiterInv
  BY Zenon
<1>1. Limiter!Held = {}
  BY DEF Limiter!Init, Limiter!Held
<1>2. IsFiniteSet({}) /\ Cardinality({}) = 0
  BY FS_EmptySet, Zenon
<1>3. LimiterMap
  BY <1>1, <1>2 DEF Limiter!Init, LimiterMap, Limiter!Configured
<1>4. LimiterTokens
  BY <1>1 DEF Limiter!Init, LimiterTokens, Limiter!Configured, Limiter!Tokens
<1> QED
  BY <1>3, <1>4, Zenon DEF LimiterInv

\* The tokens of a remote are a number of tokens.
LEMMA TokensType ==
    ASSUME Limiter!Configured, LimiterInv, NEW r \in Remotes
    PROVE  /\ Limiter!Tokens(r) \in 0..Burst /\ ideal[r] \in 0..Burst
           /\ Limiter!Tokens(r) >= ideal[r]
           /\ r \notin renewed => Limiter!Tokens(r) = ideal[r]
BY DEF LimiterInv, LimiterMap, LimiterTokens, Limiter!Tokens, Limiter!Configured

\* Time refills the buckets of both limiters alike.
LEMMA LimiterTick ==
    ASSUME Limiter!Configured, LimiterInv, Limiter!Tick
    PROVE  LimiterInv'
<1>1. /\ limiters' = [r \in Limiter!Held |-> Limiter!Refill(limiters[r])]
      /\ ideal' = [r \in Remotes |-> Limiter!Refill(ideal[r])]
      /\ renewed' = renewed
  BY Zenon DEF Limiter!Tick
<1>2. Limiter!Held' = Limiter!Held
  BY <1>1, Zenon DEF Limiter!Held
<1>3. LimiterMap'
  BY <1>1, <1>2 DEF LimiterInv, LimiterMap, Limiter!Configured, Limiter!Refill
<1>4. ASSUME NEW r \in Remotes
      PROVE  /\ Limiter!Tokens(r)' >= ideal'[r]
             /\ r \notin renewed' => Limiter!Tokens(r)' = ideal'[r]
  <2>1. Limiter!Tokens(r)' = Limiter!Refill(Limiter!Tokens(r))
    BY <1>1, <1>2 DEF Limiter!Tokens, Limiter!Refill, Limiter!Configured
  <2> QED
    BY <1>1, <2>1, TokensType DEF Limiter!Configured, Limiter!Refill
<1> QED
  BY <1>3, <1>4, Zenon DEF LimiterInv, LimiterTokens

\* What evictLocked keeps of a full map: room for one more bucket, every bucket
\* that is not full, or no bucket was full.
LEMMA EvictionMakesRoom ==
    ASSUME Limiter!Configured, LimiterInv, NEW kept \in SUBSET Limiter!Held,
           Cardinality(Limiter!Held) >= MaxKeys, Limiter!evictLocked(kept)
    PROVE  /\ Cardinality(kept) < MaxKeys
           /\ \/ \A x \in Limiter!Held \ kept : limiters[x] = Burst
              \/ \A x \in Limiter!Held : limiters[x] < Burst
<1> DEFINE hot == {r \in Limiter!Held : limiters[r] < Burst}
<1>1. /\ IsFiniteSet(Limiter!Held) /\ Cardinality(Limiter!Held) = MaxKeys
      /\ \A r \in Limiter!Held : limiters[r] \in 0..Burst
      /\ Burst \in Nat /\ MaxKeys \in Nat \ {0}
  BY FS_CardinalityType DEF LimiterInv, LimiterMap, Limiter!Configured
<1>2. /\ IsFiniteSet(hot) /\ Cardinality(hot) \in Nat /\ Cardinality(hot) <= MaxKeys
      /\ Cardinality(hot) = MaxKeys => hot = Limiter!Held
  BY <1>1, FS_Subset, FS_CardinalityType, Zenon
<1>3. \/ Cardinality(hot) < MaxKeys /\ kept = hot
      \/ /\ Cardinality(hot) >= MaxKeys
         /\ Cardinality(kept) = Cardinality(hot) - Limiter!Spare(MaxKeys \div 10)
  BY LimiterCardinality, Zenon DEF Limiter!evictLocked
<1>4. CASE Cardinality(hot) < MaxKeys /\ kept = hot
  BY <1>1, <1>4
<1>5. CASE /\ Cardinality(hot) >= MaxKeys
           /\ Cardinality(kept) = Cardinality(hot) - Limiter!Spare(MaxKeys \div 10)
  <2>1. Cardinality(hot) = MaxKeys /\ hot = Limiter!Held
    BY <1>1, <1>2, <1>5
  <2>2. Limiter!Spare(MaxKeys \div 10) \in Nat \ {0}
    BY <1>1 DEF Limiter!Spare
  <2> QED
    BY <1>1, <1>5, <2>1, <2>2
<1> QED
  BY <1>3, <1>4, <1>5, Zenon

\* allow takes the token both limiters have, evicting first if it must.
LEMMA LimiterAllow ==
    ASSUME Limiter!Configured, LimiterInv, NEW r \in Remotes, Limiter!allow(r)
    PROVE  LimiterInv'
<1>1. PICK kept \in SUBSET Limiter!Held :
        /\ IF r \notin Limiter!Held /\ Cardinality(Limiter!Held) >= MaxKeys
           THEN Limiter!evictLocked(kept) ELSE kept = Limiter!Held
        /\ limiters' = [x \in kept \cup {r} |->
                          IF x # r THEN limiters[x]
                          ELSE Limiter!Take(IF r \in kept THEN limiters[r] ELSE Burst)]
        /\ ideal' = [ideal EXCEPT ![r] = Limiter!Take(@)]
        /\ renewed' = IF \A x \in Limiter!Held : limiters[x] < Burst
                      THEN renewed \cup (Limiter!Held \ kept) ELSE renewed
  BY LimiterCardinality, Zenon DEF Limiter!allow
<1>2. /\ Limiter!Held \subseteq Remotes
      /\ IsFiniteSet(Limiter!Held) /\ Cardinality(Limiter!Held) <= MaxKeys
      /\ Cardinality(Limiter!Held) \in Nat
      /\ \A x \in Limiter!Held : limiters[x] \in 0..Burst
      /\ ideal \in [Remotes -> 0..Burst]
      /\ Burst \in Nat /\ MaxKeys \in Nat \ {0}
  BY FS_CardinalityType, Zenon DEF LimiterInv, LimiterMap, Limiter!Configured
<1>3. Limiter!Held' = kept \cup {r}
  BY <1>1, Zenon DEF Limiter!Held
<1>4. /\ \A x \in Limiter!Held \ kept : limiters[x] = Burst \/ x \in renewed'
      /\ renewed \subseteq renewed'
      /\ r \in kept \/ Cardinality(kept) < MaxKeys
      /\ r \in Limiter!Held => r \in kept
  <2>1. CASE r \notin Limiter!Held /\ Cardinality(Limiter!Held) >= MaxKeys
    BY <1>1, <2>1, EvictionMakesRoom, Zenon
  <2>2. CASE ~(r \notin Limiter!Held /\ Cardinality(Limiter!Held) >= MaxKeys)
    BY <1>1, <1>2, <2>2
  <2> QED
    BY <2>1, <2>2, Zenon
<1>5. IsFiniteSet(kept \cup {r}) /\ Cardinality(kept \cup {r}) <= MaxKeys
  <2>1. IsFiniteSet(kept) /\ Cardinality(kept) <= Cardinality(Limiter!Held)
    BY <1>2, FS_Subset, Zenon
  <2>2. /\ IsFiniteSet(kept \cup {r}) /\ Cardinality(kept) \in Nat
        /\ Cardinality(kept \cup {r}) = IF r \in kept THEN Cardinality(kept)
                                        ELSE Cardinality(kept) + 1
    BY <2>1, FS_AddElement, FS_CardinalityType, Zenon
  <2> QED
    BY <1>2, <1>4, <2>1, <2>2
<1>6. LimiterMap'
  BY <1>1, <1>2, <1>3, <1>5 DEF LimiterMap, Limiter!Take
<1>7. ASSUME NEW x \in Remotes
      PROVE  /\ Limiter!Tokens(x)' >= ideal'[x]
             /\ x \notin renewed' => Limiter!Tokens(x)' = ideal'[x]
  <2>1. CASE x = r
    <3>1. Limiter!Tokens(r)' = Limiter!Take(Limiter!Tokens(r))
      BY <1>1, <1>3, <1>4, Zenon DEF Limiter!Tokens
    <3>2. ideal'[r] = Limiter!Take(ideal[r])
      BY <1>1, <1>2, Zenon
    <3> QED
      BY <1>2, <1>4, <2>1, <3>1, <3>2, TokensType DEF Limiter!Take
  <2>2. CASE x # r
    <3>1. Limiter!Tokens(x)' = IF x \in kept THEN limiters[x] ELSE Burst
      BY <1>1, <1>3, <2>2, Zenon DEF Limiter!Tokens
    <3>2. ideal'[x] = ideal[x]
      BY <1>1, <1>2, <2>2, Zenon
    <3>3. /\ x \in kept => Limiter!Tokens(x) = limiters[x]
          /\ x \notin Limiter!Held => Limiter!Tokens(x) = Burst
          /\ x \in Limiter!Held => Limiter!Tokens(x) = limiters[x]
      BY Zenon DEF Limiter!Tokens
    <3> QED
      BY <1>2, <1>4, <3>1, <3>2, <3>3, TokensType
  <2> QED
    BY <2>1, <2>2, Zenon
<1> QED
  BY <1>6, <1>7, Zenon DEF LimiterInv, LimiterTokens

\* Every request and every refill keeps it.
LEMMA LimiterNext ==
    ASSUME Limiter!Configured PROVE LimiterInv /\ [Limiter!Next]_(Limiter!vars) => LimiterInv'
<1> SUFFICES ASSUME LimiterInv, [Limiter!Next]_(Limiter!vars) PROVE LimiterInv'
  BY Zenon
<1>1. CASE UNCHANGED Limiter!vars
  BY <1>1, Zenon DEF Limiter!vars, LimiterInv, LimiterMap, LimiterTokens, Limiter!Tokens, Limiter!Held
<1> QED
  BY <1>1, LimiterTick, LimiterAllow, Zenon DEF Limiter!Next
-------------------------------------------------------------------------------
(***************************************************************************)
(* The WAL layout.  A pod that has made a stream of the configured count has*)
(* shut every other layout out, so what is published lands in a stream of   *)
(* the layout that the pods consume.                                        *)
(***************************************************************************)
\* The name of the one stream of the unpartitioned layout.
Whole == <<"INGEST_RAW">>

\* The variables of the layout have their types; counts only grow.
LayoutType ==
    /\ count \in Counts /\ boot \in [Pods -> {"down", "ensuring", "up"}]
    /\ parts \in [Pods -> Counts] /\ made \in [Pods -> Nat]
    /\ \A p \in Pods : parts[p] <= count

\* A pod of the configured count that has made a stream has shut every other
\* layout out; before that the unpartitioned stream may still appear.
LayoutHeld ==
    \A p \in Pods : boot[p] # "down" /\ parts[p] = count =>
        /\ streams \subseteq Layout!Layout(count) \cup {Whole}
        /\ made[p] > 0 => /\ streams \subseteq Layout!Layout(count)
                          /\ Layout!StreamNameFor(0, count) \in streams

\* A pod that is up has made its streams.
PodsReady == \A p \in Pods : boot[p] = "up" => made[p] > 0

\* The inductive invariant of the layout.
LayoutInv ==
    /\ LayoutType /\ LayoutHeld /\ PodsReady
    /\ \A m \in backlog : m[1] \in streams

\* A partition keeps its stream name when the count grows, from two on.
LEMMA StreamNames ==
    /\ \A i, n \in Nat : n <= 1 => Layout!StreamNameFor(i, n) = Whole
    /\ \A i, n, k \in Nat : n > 1 /\ i < n /\ n <= k =>
          /\ Layout!StreamNameFor(i, n) \in Layout!Layout(k)
          /\ Layout!StreamNameFor(i, n) # Whole
    /\ \A i, n \in Nat : i < n => Layout!StreamNameFor(i, n) \in Layout!Layout(n)
    /\ Len(Whole) = 1
<1>1. \A i, n \in Nat : i < n => Layout!StreamNameFor(i, n) \in Layout!Layout(n)
  BY DEF Layout!Layout
<1>2. ASSUME NEW i \in Nat, NEW n \in Nat, NEW k \in Nat, n > 1, i < n, n <= k
      PROVE  /\ Layout!StreamNameFor(i, n) \in Layout!Layout(k)
             /\ Layout!StreamNameFor(i, n) # Whole
  <2>1. Layout!StreamNameFor(i, n) = Layout!StreamNameFor(i, k) /\ i < k
    BY <1>2 DEF Layout!StreamNameFor
  <2>2. Layout!StreamNameFor(i, n) # Whole
    BY <1>2 DEF Layout!StreamNameFor, Whole
  <2> QED
    BY <1>1, <2>1, <2>2, Zenon
<1>3. \A i, n \in Nat : n <= 1 => Layout!StreamNameFor(i, n) = Whole
  BY Zenon DEF Layout!StreamNameFor, Whole
<1>4. Len(Whole) = 1
  BY Zenon DEF Whole
<1> QED
  BY <1>1, <1>2, <1>3, <1>4, Zenon

\* It holds before the first boot.
LEMMA LayoutInit == Layout!Configured /\ Layout!Init => LayoutInv
BY DEF Layout!Configured, Layout!Init, LayoutInv, LayoutType, LayoutHeld, PodsReady

\* A boot creates a stream only where no other layout is.
LEMMA EnsureKeeps ==
    ASSUME Layout!Configured, LayoutInv, NEW q \in Pods, Layout!EnsureStream(q)
    PROVE  LayoutInv'
<1> DEFINE s == Layout!StreamNameFor(made[q], parts[q])
<1>1. /\ boot[q] = "ensuring" /\ made[q] < parts[q]
      /\ UNCHANGED <<count, parts, backlog>>
      /\ \/ /\ ~Layout!Overlaps(s) /\ streams' = streams \cup {s}
            /\ made' = [made EXCEPT ![q] = @ + 1] /\ UNCHANGED boot
         \/ boot' = [boot EXCEPT ![q] = "down"] /\ UNCHANGED <<streams, made>>
  BY Zenon DEF Layout!EnsureStream
<1>2. /\ count \in Nat \ {0} /\ parts[q] \in Nat \ {0} /\ made[q] \in Nat /\ parts[q] <= count
      /\ \A p \in Pods : made[p] \in Nat /\ parts[p] \in Nat
  BY Zenon DEF LayoutInv, LayoutType, Layout!Configured
<1>3. CASE boot' = [boot EXCEPT ![q] = "down"] /\ UNCHANGED <<streams, made>>
  BY <1>1, <1>3, Zenon DEF LayoutInv, LayoutType, LayoutHeld, PodsReady
<1>4. CASE /\ ~Layout!Overlaps(s) /\ streams' = streams \cup {s}
           /\ made' = [made EXCEPT ![q] = @ + 1] /\ UNCHANGED boot
  <2>1. s = Whole \/ s \in Layout!Layout(count)
    BY <1>1, <1>2, StreamNames
  <2>2. /\ parts[q] = count => s \in Layout!Layout(count)
        /\ parts[q] # count /\ s # Whole => s \in Layout!Layout(count)
    BY <1>1, <1>2, StreamNames
  <2>3. \A t \in streams : t # s => Len(s) # 1 /\ Len(t) # 1
    BY <1>4, Zenon DEF Layout!Overlaps
  <2> HIDE DEF s
  <2>4. Whole \in streams => s = Whole
    BY <2>3, StreamNames, Zenon
  <2>5. s = Whole => streams \subseteq {Whole}
    BY <2>3, StreamNames, Zenon
  <2>6. count > 1 => Layout!StreamNameFor(0, count) # Whole
    BY <1>2, StreamNames
  <2>7. count = 1 => Whole \in Layout!Layout(count) /\ Layout!StreamNameFor(0, count) = Whole
    BY <1>2, StreamNames
  <2>8. \A p \in Pods : made'[p] = IF p = q THEN made[q] + 1 ELSE made[p]
    BY <1>4, Zenon DEF LayoutInv, LayoutType
  <2>9. ASSUME NEW p \in Pods, boot[p] # "down", parts[p] = count
        PROVE  /\ streams' \subseteq Layout!Layout(count) \cup {Whole}
               /\ made'[p] > 0 => /\ streams' \subseteq Layout!Layout(count)
                                  /\ Layout!StreamNameFor(0, count) \in streams'
    <3>1. /\ streams \subseteq Layout!Layout(count) \cup {Whole}
          /\ made[p] > 0 => /\ streams \subseteq Layout!Layout(count)
                            /\ Layout!StreamNameFor(0, count) \in streams
      BY <2>9, Zenon DEF LayoutInv, LayoutHeld
    <3>2. streams' \subseteq Layout!Layout(count) \cup {Whole}
      BY <1>4, <2>1, <3>1, Zenon
    <3>3. CASE p = q /\ made[p] = 0
      <4>1. s = Layout!StreamNameFor(0, count) /\ s \in Layout!Layout(count)
        BY <2>2, <2>9, <3>3, Zenon DEF s
      <4>2. streams \subseteq Layout!Layout(count)
        BY <2>4, <3>1, <4>1, Zenon
      <4> QED
        BY <1>4, <3>2, <4>1, <4>2, Zenon
    <3>4. CASE made[p] > 0
      <4>1. s \in Layout!Layout(count)
        BY <1>2, <2>1, <2>5, <2>6, <2>7, <3>1, <3>4, Zenon
      <4> QED
        BY <1>4, <3>1, <3>2, <3>4, <4>1, Zenon
    <3>5. CASE p # q /\ made[p] = 0
      BY <2>8, <3>2, <3>5
    <3> QED
      BY <1>2, <3>3, <3>4, <3>5
  <2>10. LayoutHeld'
    BY <1>1, <1>4, <2>9, Zenon DEF LayoutHeld
  <2>11. LayoutType' /\ PodsReady'
    BY <1>1, <1>2, <1>4, <2>8 DEF LayoutInv, LayoutType, PodsReady
  <2> QED
    BY <1>1, <1>4, <2>10, <2>11, Zenon DEF LayoutInv
<1> QED
  BY <1>1, <1>3, <1>4, Zenon

\* Boots start and end, pods stop, messages come and go.
LEMMA PodKeeps ==
    ASSUME Layout!Configured, LayoutInv, NEW p \in Pods,
           \/ Layout!Start(p, parts[p]) \/ Layout!Start(p, count)
           \/ Layout!Ready(p) \/ Layout!Stop(p)
           \/ \E v \in Subjects : Layout!Publish(p, v)
           \/ \E m \in backlog : Layout!Drain(p, m)
    PROVE  LayoutInv'
<1> USE DEF LayoutInv, LayoutType
<1>1. ASSUME NEW n \in {parts[p], count}, Layout!Start(p, n) PROVE LayoutInv'
  <2>1. /\ parts' = [parts EXCEPT ![p] = n] /\ made' = [made EXCEPT ![p] = 0]
        /\ boot' = [boot EXCEPT ![p] = IF Layout!checkStaleStreams(n) THEN "ensuring" ELSE "down"]
        /\ UNCHANGED <<count, streams, backlog>> /\ n \in Counts /\ n <= count /\ n \in Nat
    BY <1>1 DEF Layout!Start, Layout!Configured
  <2>2. LayoutType' /\ PodsReady'
    BY <2>1, Zenon DEF PodsReady, Layout!Configured
  <2>3. LayoutHeld'
    BY <2>1 DEF LayoutHeld, Layout!checkStaleStreams
  <2> QED
    BY <2>1, <2>2, <2>3, Zenon
<1>2. CASE Layout!Ready(p)
  BY <1>2 DEF Layout!Ready, LayoutHeld, PodsReady, Layout!Configured
<1>3. CASE Layout!Stop(p)
  BY <1>3, Zenon DEF Layout!Stop, LayoutHeld, PodsReady
<1>4. CASE \E v \in Subjects : Layout!Publish(p, v)
  <2>1. PICK s \in streams, v \in Subjects : backlog' = backlog \cup {<<s, v>>}
    BY <1>4, Zenon DEF Layout!Publish
  <2>2. UNCHANGED <<count, boot, parts, made, streams>>
    BY <1>4, Zenon DEF Layout!Publish
  <2> QED
    BY <2>1, <2>2 DEF LayoutHeld, PodsReady
<1>5. CASE \E m \in backlog : Layout!Drain(p, m)
  BY <1>5, Zenon DEF Layout!Drain, LayoutHeld, PodsReady
<1> QED
  BY <1>1, <1>2, <1>3, <1>4, <1>5, Zenon

\* The operator changes the count or deletes a drained stream.
LEMMA OperatorKeeps ==
    ASSUME Layout!Configured, LayoutInv,
           (\E n \in Counts : Layout!Rescale(n)) \/ (\E s \in streams : Layout!Delete(s))
    PROVE  LayoutInv'
<1> USE DEF LayoutInv, LayoutType
<1>1. ASSUME NEW n \in Counts, Layout!Rescale(n) PROVE LayoutInv'
  <2>1. CASE n > count /\ UNCHANGED parts
    <3>1. count' = n /\ UNCHANGED <<boot, made, streams, backlog>>
      BY <1>1, Zenon DEF Layout!Rescale
    <3>2. \A p \in Pods : parts[p] # n /\ parts[p] <= n
      <4>1. n \in Nat /\ count \in Nat /\ \A p \in Pods : parts[p] \in Nat /\ parts[p] <= count
        BY Zenon DEF Layout!Configured
      <4> HIDE DEF LayoutInv, LayoutType
      <4> QED
        BY <2>1, <4>1
    <3> QED
      BY <2>1, <3>1, <3>2, Zenon DEF LayoutHeld, PodsReady
  <2>2. CASE (\A p \in Pods : boot[p] = "down") /\ parts' = [p \in Pods |-> n]
    <3>1. count' = n /\ UNCHANGED <<boot, made, streams, backlog>> /\ n \in Nat \ {0}
      BY <1>1, Zenon DEF Layout!Rescale, Layout!Configured
    <3>2. LayoutHeld' /\ PodsReady'
      BY <2>2, <3>1, Zenon DEF LayoutHeld, PodsReady
    <3>3. LayoutType'
      BY <2>2, <3>1
    <3> QED
      BY <3>1, <3>2, <3>3, Zenon
  <2> QED
    BY <1>1, <2>1, <2>2, Zenon DEF Layout!Rescale
<1>2. ASSUME NEW s \in streams, Layout!Delete(s) PROVE LayoutInv'
  BY <1>2, Zenon DEF Layout!Delete, LayoutHeld, PodsReady
<1> QED
  BY <1>1, <1>2, Zenon

\* Every step of pods and operator keeps it.
LEMMA LayoutNext ==
    ASSUME Layout!Configured PROVE LayoutInv /\ [Layout!Next]_(Layout!vars) => LayoutInv'
<1>1. LayoutInv /\ UNCHANGED Layout!vars => LayoutInv'
  BY Zenon DEF Layout!vars, LayoutInv, LayoutType, LayoutHeld, PodsReady
<1> QED
  BY <1>1, EnsureKeeps, PodKeeps, OperatorKeeps, Zenon DEF Layout!Next
-------------------------------------------------------------------------------
(***************************************************************************)
(* The bridge.  A publish future that resolved without an error stands for a*)
(* message the decoded stream holds, and a raw message is acked only when   *)
(* all of its futures did.                                                  *)
(***************************************************************************)
\* A publish that was answered is stored, and so is all of an acked message.
DecoderInv ==
    /\ raw \in [Decoder!Msgs -> {"waiting", "out", "acked", "shed"}]
    /\ future \in [Workers -> [Decoder!Publishes -> {"none", "wire", "ok", "failed"}]]
    /\ decoded \subseteq Decoder!Publishes
    /\ \A w \in Workers : \A p \in Decoder!Publishes : future[w][p] = "ok" => p \in decoded
    /\ Decoder!AckedIsPublished

\* A publish is a raw message and one of its decoded names.
LEMMA PublishPairs ==
    /\ \A p \in Decoder!Publishes : /\ p = <<p[1], p[2]>> /\ p[1] \in Decoder!Msgs
                                    /\ p[2] \in Names[p[1]]
    /\ \A m \in Decoder!Msgs : \A n \in Names[m] : <<m, n>> \in Decoder!Publishes
BY DEF Decoder!Publishes

\* The invariant holds before the first fetch.
LEMMA DecoderInit == Decoder!Init => DecoderInv
<1> SUFFICES ASSUME Decoder!Init PROVE DecoderInv
  BY Zenon
<1>1. Decoder!AckedIsPublished
  BY PublishPairs, Zenon DEF Decoder!Init, Decoder!AckedIsPublished
<1>2. future \in [Workers -> [Decoder!Publishes -> {"none", "wire", "ok", "failed"}]]
  BY Zenon DEF Decoder!Init
<1> QED
  BY <1>1, <1>2, Zenon DEF Decoder!Init, DecoderInv

\* A publish reaches its decoded stream: it is stored, or already was.
LEMMA StoreKeeps ==
    ASSUME DecoderInv, NEW w \in Workers, NEW p \in Decoder!Publishes,
           Decoder!Store(w, p[1], p[2])
    PROVE  DecoderInv'
<1> DEFINE added == IF Decoder!Duplicate(p[1], p[2]) THEN decoded ELSE decoded \cup {p}
<1>1. p = <<p[1], p[2]>> /\ \A q \in decoded : q = <<q[1], q[2]>>
  BY PublishPairs, Zenon DEF DecoderInv
<1>2. p \in added /\ decoded \subseteq added /\ added \subseteq Decoder!Publishes
  BY <1>1 DEF Decoder!Duplicate, Decoder!dedupID, DecoderInv
<1>3. /\ raw' = raw /\ decoded' \in {decoded, added}
      /\ \/ decoded' = added /\ future' = [future EXCEPT ![w][p] = "ok"]
         \/ future' = [future EXCEPT ![w][p] = "failed"]
  BY <1>1, Zenon DEF Decoder!Store
<1> HIDE DEF added
<1>4. decoded \subseteq decoded' /\ decoded' \subseteq Decoder!Publishes
  BY <1>2, <1>3, Zenon DEF DecoderInv
<1>5. future' \in [Workers -> [Decoder!Publishes -> {"none", "wire", "ok", "failed"}]]
  BY <1>3 DEF DecoderInv
<1>6. \A v \in Workers : \A q \in Decoder!Publishes : future'[v][q] = "ok" => q \in decoded'
  BY <1>2, <1>3, <1>4 DEF DecoderInv
<1>7. Decoder!AckedIsPublished'
  BY <1>3, <1>4, Zenon DEF DecoderInv, Decoder!AckedIsPublished
<1> QED
  BY <1>3, <1>4, <1>5, <1>6, <1>7, Zenon DEF DecoderInv

\* finish acks a message only after it heard of all its publishes.
LEMMA FinishKeeps ==
    ASSUME DecoderInv, NEW w \in Workers, Decoder!finish(w)
    PROVE  DecoderInv'
<1> DEFINE m == batch[w][pos[w]]
<1>1. /\ decoded' = decoded
      /\ \/ Decoder!Published(w, m) /\ raw' = [raw EXCEPT ![m] = "acked"]
         \/ raw' = [raw EXCEPT ![m] = IF @ = "out" THEN Decoder!Back(m) ELSE @]
         \/ raw' = raw
      /\ \/ future' = future
         \/ future' = [future EXCEPT ![w] = Decoder!NoFutures]
  <2>1. future = [future EXCEPT ![w] = future[w]]
    BY Zenon DEF DecoderInv
  <2> QED
    BY <2>1, Zenon DEF Decoder!finish
<1>2. Decoder!Back(m) \in {"waiting", "shed"}
  BY Zenon DEF Decoder!Back
<1>3. Decoder!Published(w, m) => \A p \in Decoder!Publishes : p[1] = m => p \in decoded
  <2> SUFFICES ASSUME Decoder!Published(w, m), NEW p \in Decoder!Publishes, p[1] = m
               PROVE  p \in decoded
    BY Zenon
  <2>1. p = <<m, p[2]>> /\ p[2] \in Names[m]
    BY PublishPairs, Zenon
  <2>2. future[w][<<m, p[2]>>] \in Decoder!Futures(w, m)
    BY <2>1, Zenon DEF Decoder!Futures
  <2>3. future[w][p] = "ok"
    BY <2>1, <2>2, Zenon DEF Decoder!Published
  <2> QED
    BY <2>3, Zenon DEF DecoderInv
<1> HIDE DEF m
<1>4. raw' \in [Decoder!Msgs -> {"waiting", "out", "acked", "shed"}]
  BY <1>1, <1>2, Zenon DEF DecoderInv
<1>5. \A x \in Decoder!Msgs : raw'[x] = "acked"
        => raw[x] = "acked" \/ (x = m /\ Decoder!Published(w, m))
  BY <1>1, <1>2, Zenon DEF DecoderInv
<1>6. Decoder!AckedIsPublished'
  BY <1>1, <1>3, <1>5, PublishPairs, Zenon DEF DecoderInv, Decoder!AckedIsPublished
<1>7. /\ future' \in [Workers -> [Decoder!Publishes -> {"none", "wire", "ok", "failed"}]]
      /\ \A v \in Workers : \A p \in Decoder!Publishes : future'[v][p] = "ok" => future[v][p] = "ok"
  <2>1. /\ Decoder!NoFutures \in [Decoder!Publishes -> {"none", "wire", "ok", "failed"}]
        /\ \A p \in Decoder!Publishes : Decoder!NoFutures[p] # "ok"
    BY Zenon DEF Decoder!NoFutures
  <2> QED
    BY <1>1, <2>1, Zenon DEF DecoderInv
<1> QED
  BY <1>1, <1>4, <1>6, <1>7, Zenon DEF DecoderInv

\* No other step acks a message or answers a publish.
LEMMA DecoderQuiet ==
    ASSUME DecoderInv, UNCHANGED decoded,
           raw' \in [Decoder!Msgs -> {"waiting", "out", "acked", "shed"}],
           future' \in [Workers -> [Decoder!Publishes -> {"none", "wire", "ok", "failed"}]],
           \A m \in Decoder!Msgs : raw'[m] = "acked" => raw[m] = "acked",
           \A w \in Workers : \A p \in Decoder!Publishes : future'[w][p] = "ok"
                   => future[w][p] = "ok"
    PROVE  DecoderInv'
BY PublishPairs, Zenon DEF DecoderInv, Decoder!AckedIsPublished

\* Every step of the workers and the streams keeps it.
LEMMA DecoderNext == DecoderInv /\ [Decoder!Next]_(Decoder!vars) => DecoderInv'
<1> SUFFICES ASSUME DecoderInv, [Decoder!Next]_(Decoder!vars) PROVE DecoderInv'
  BY Zenon
<1>0. /\ raw \in [Decoder!Msgs -> {"waiting", "out", "acked", "shed"}]
      /\ future \in [Workers -> [Decoder!Publishes -> {"none", "wire", "ok", "failed"}]]
  BY Zenon DEF DecoderInv
<1>1. ASSUME NEW w \in Workers, NEW b \in Decoder!Batches, Decoder!Fetch(w, b) PROVE DecoderInv'
  BY <1>0, <1>1, DecoderQuiet, Zenon DEF Decoder!Fetch
<1>2. ASSUME NEW w \in Workers, Decoder!FetchError(w) \/ Decoder!Cancel(w) \/ Decoder!Restart(w)
      PROVE  DecoderInv'
  BY <1>0, <1>2, DecoderQuiet, Zenon DEF Decoder!FetchError, Decoder!Cancel, Decoder!Restart
<1>3. ASSUME NEW w \in Workers, Decoder!Exit(w) PROVE DecoderInv'
  BY <1>0, <1>3, DecoderQuiet, Zenon DEF Decoder!Exit, Decoder!NoFutures
<1>4. ASSUME NEW w \in Workers, Decoder!decodeAndSubmit(w) PROVE DecoderInv'
  <2> DEFINE m == batch[w][pos[w]]
  <2>1. PICK refused : future' = [future EXCEPT ![w] = [p \in Decoder!Publishes |->
               IF p[1] # m THEN @[p] ELSE IF p[2] \in refused THEN "failed" ELSE "wire"]]
    BY <1>4, Zenon DEF Decoder!decodeAndSubmit
  <2>2. UNCHANGED <<raw, decoded>>
    BY <1>4, Zenon DEF Decoder!decodeAndSubmit
  <2> HIDE DEF m
  <2> QED
    BY <1>0, <2>1, <2>2, DecoderQuiet, Zenon
<1>5. ASSUME NEW m \in Decoder!Msgs, Decoder!AckWait(m) PROVE DecoderInv'
  BY <1>0, <1>5, DecoderQuiet, Zenon DEF Decoder!AckWait, Decoder!Back
<1>6. CASE UNCHANGED Decoder!vars
  BY <1>0, <1>6, DecoderQuiet, Zenon DEF Decoder!vars
<1> QED
  BY <1>1, <1>2, <1>3, <1>4, <1>5, <1>6, StoreKeeps, FinishKeeps, Zenon DEF Decoder!Next
-------------------------------------------------------------------------------
(***************************************************************************)
(* The parts together: a step of Front is a step of one part, and leaves    *)
(* the others as they are.                                                  *)
(***************************************************************************)

\* Initially each part is in an initial state of its own.
LEMMA FrontInits == FrontInit => Init /\ Limiter!Init /\ Layout!Init /\ Decoder!Init
BY Zenon DEF FrontInit

\* What is not in focus does not move.
LEMMA FrontSteps ==
    [FrontNext]_allVars => /\ [Limiter!Next]_(Limiter!vars)
                           /\ [Layout!Next]_(Layout!vars)
                           /\ [Decoder!Next]_(Decoder!vars)
<1> SUFFICES ASSUME [FrontNext]_allVars
             PROVE  /\ [Limiter!Next]_(Limiter!vars)
                    /\ [Layout!Next]_(Layout!vars)
                    /\ [Decoder!Next]_(Decoder!vars)
  BY Zenon
<1>1. UNCHANGED limiterVars => UNCHANGED Limiter!vars
  BY Zenon DEF limiterVars, Limiter!vars
<1>2. UNCHANGED layoutVars => UNCHANGED Layout!vars
  BY Zenon DEF layoutVars, Layout!vars
<1>3. UNCHANGED bridgeVars => UNCHANGED Decoder!vars
  BY Zenon DEF bridgeVars, Decoder!vars
<1>4. UNCHANGED allVars => /\ UNCHANGED limiterVars /\ UNCHANGED layoutVars
                           /\ UNCHANGED bridgeVars
  BY Zenon DEF allVars
<1>5. FrontNext => /\ Limiter!Next \/ UNCHANGED limiterVars
                   /\ Layout!Next \/ UNCHANGED layoutVars
                   /\ Decoder!Next \/ UNCHANGED bridgeVars
  BY DEF FrontNext, Others
<1> QED
  BY <1>1, <1>2, <1>3, <1>4, <1>5, Zenon

\* A remote never pays for the bound on the limiter's map, however many remotes
\* there are and whatever the burst and the bound (middleware.go evictLocked).
THEOREM EvictionsInvisible == FrontSpec => []EvictionInvisible
<1>1. FrontInit => LimiterInv
  BY FrontInits, LimiterInit, LimiterAssumption, Zenon
<1>2. LimiterInv /\ [FrontNext]_allVars => LimiterInv'
  BY FrontSteps, LimiterNext, LimiterAssumption, Zenon
<1>3. LimiterInv => EvictionInvisible
  BY LimiterInvisible, LimiterAssumption, Zenon DEF EvictionInvisible
<1> QED
  BY <1>1, <1>2, <1>3, PTL DEF FrontSpec

\* No backlog is left in a stream the pods of the configured count do not consume,
\* for any number of pods, partition counts and changes of count (EnsureStreams).
THEOREM BacklogStaysConsumed == FrontSpec => []NothingStranded
<1>1. FrontInit => LayoutInv
  BY FrontInits, LayoutInit, LayoutAssumption, Zenon
<1>2. LayoutInv /\ [FrontNext]_allVars => LayoutInv'
  BY FrontSteps, LayoutNext, LayoutAssumption, Zenon
<1>3. LayoutInv => NothingStranded
  BY Zenon DEF LayoutInv, LayoutHeld, PodsReady, NothingStranded, Layout!NothingStranded
<1> QED
  BY <1>1, <1>2, <1>3, PTL DEF FrontSpec

\* A raw message is acked only when all of its decoded names are stored, for any
\* number of workers, messages and names, and any batch size (finish).
THEOREM AcksArePublished == FrontSpec => []AckedIsPublished
<1>1. FrontInit => DecoderInv
  BY FrontInits, DecoderInit, Zenon
<1>2. DecoderInv /\ [FrontNext]_allVars => DecoderInv'
  BY FrontSteps, DecoderNext, Zenon
<1>3. DecoderInv => AckedIsPublished
  BY Zenon DEF DecoderInv, AckedIsPublished
<1> QED
  BY <1>1, <1>2, <1>3, PTL DEF FrontSpec
===============================================================================
