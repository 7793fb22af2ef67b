---------------------------- MODULE IsolateProofs -----------------------------
(***************************************************************************)
(* Safety of an isolate pass, for every bundle and every probe limit.       *)
(*                                                                         *)
(* The argument: the right edges on the call stack increase and all lie to  *)
(* the right of lo, so the pass only ever moves right; what lies at or to   *)
(* the right of lo has not been acked, terminated or knowingly stored.      *)
(***************************************************************************)
EXTENDS Isolate, BisectProofs, FiniteSetTheorems

\* Nothing from lo on has been settled, and only rows before lo are counted.
Untouched ==
  /\ \A i \in Rows : i >= st.lo =>
       /\ i \notin acked
       /\ i \notin termed
       /\ stored[i] <= ambiguous[i]
  /\ st.committed < st.lo

\* The inductive invariant of a pass: what each frame of isolate has settled.
IInv ==
  /\ TypeOK
  /\ Increasing(st.lo, st.ends)
  /\ Untouched
  /\ AckedIsStored
  /\ OncePerPass
  /\ TermedOnEvidence

\* The bundle has rows, and the bookkeeping is that of a pass over them.
LEMMA Current == TypeOK => N \in Nat \ {0} /\ st \in Passes(N)
<1> SUFFICES ASSUME TypeOK PROVE N \in Nat \ {0} /\ st \in Passes(N)
  BY Zenon
<1>1. bundle \in Seq(BundleRow) /\ bundle # <<>>
  BY BundlesAssumption, Zenon DEF TypeOK
<1> QED
  BY <1>1 DEF TypeOK, N

\* A pass begins in the invariant.
LEMMA InitInv == Init => IInv
<1> SUFFICES ASSUME Init PROVE IInv
  BY Zenon
<1>1. bundle \in Seq(BundleRow) /\ bundle # <<>>
  BY BundlesAssumption, Zenon DEF Init
<1>2. N \in Nat \ {0}
  BY <1>1 DEF N
<1>3. st = IsolateStart(N)
  BY Zenon DEF Init
<1>4. /\ st \in Passes(N)
      /\ st.lo = 1 /\ st.committed = 0
      /\ Increasing(st.lo, st.ends)
  BY <1>2, <1>3, StartFields, Zenon
<1>7. TypeOK
  BY <1>4, Zenon DEF Init, TypeOK
<1>8. Untouched /\ AckedIsStored /\ OncePerPass /\ TermedOnEvidence
  BY <1>4 DEF Init, Untouched, AckedIsStored, OncePerPass, TermedOnEvidence
<1> QED
  BY <1>4, <1>7, <1>8, Zenon DEF IInv

\* What every step needs to know of the state before it.
LEMMA Before ==
  ASSUME IInv, ~Finished(st)
  PROVE  /\ N \in Nat
         /\ st.lo \in Rows
         /\ Hi(st) \in 1 .. N + 1
         /\ st.lo < Hi(st)
         /\ Span(st) \subseteq Rows
         /\ \A i \in Rows : /\ stored[i] \in Nat
                            /\ ambiguous[i] \in Nat
                            /\ i >= Hi(st) => i >= st.lo /\ i \notin Span(st)
                            /\ i \in Span(st) => i >= st.lo
                            /\ ~(i >= Hi(st)) => (i < st.lo \/ i \in Span(st))
<1>1. /\ N \in Nat
      /\ st.lo \in 1 .. N + 1
      /\ Hi(st) \in 1 .. N + 1
      /\ st.lo < Hi(st)
  BY Current, OpenCall, Zenon DEF IInv
<1>2. stored \in [Rows -> Nat] /\ ambiguous \in [Rows -> Nat]
  BY Zenon DEF IInv, TypeOK
<1>3. st.lo \in Rows /\ Span(st) \subseteq Rows
  BY <1>1 DEF Rows, Span
<1>4. ASSUME NEW i \in Rows
      PROVE  /\ stored[i] \in Nat
             /\ ambiguous[i] \in Nat
             /\ i >= Hi(st) => i >= st.lo /\ i \notin Span(st)
             /\ i \in Span(st) => i >= st.lo
             /\ ~(i >= Hi(st)) => (i < st.lo \/ i \in Span(st))
  <2>1. i \in Int /\ st.lo \in Int /\ Hi(st) \in Int
    BY <1>1 DEF Rows
  <2> QED
    BY <1>1, <1>2, <2>1 DEF Span
<1> QED
  BY <1>1, <1>3, <1>4, Zenon

\* A call that returns, having acked or terminated only rows of its range.
LEMMA StepReturns ==
  ASSUME IInv, ~Finished(st), UNCHANGED bundle,
         alive' \in BOOLEAN, faults' \in BOOLEAN,
         st' \in {Return(st), Fail(st), Commit(st)},
         stored' \in [Rows -> Nat], ambiguous' \in [Rows -> Nat],
         acked' \subseteq Rows, termed' \subseteq Rows,
         \A i \in Rows \ Span(st) :
            /\ stored'[i] = stored[i] /\ ambiguous'[i] = ambiguous[i]
            /\ i \in acked' => i \in acked
            /\ i \in termed' => i \in termed,
         \A i \in Span(st) :
            /\ stored'[i] <= ambiguous'[i] + 1
            /\ i \in acked' => stored'[i] > 0
            /\ i \in termed' =>
                 /\ i \notin acked'
                 /\ bundle[i].kind = "poison" \/ (bundle[i].overdue /\ st.committed > 0)
  PROVE  IInv'
<1>1. /\ st' \in Passes(N)
      /\ st'.lo = Hi(st)
      /\ st'.ends = Tail(st.ends)
      /\ st'.committed < st'.lo
      /\ st'.committed >= st.committed
  BY Current, ReturnFields DEF IInv, Untouched
<1>2. N' = N /\ Rows' = Rows
  BY Zenon DEF N, Rows
<1>3. Increasing(st.lo, st.ends)' 
  BY <1>1, Current, OpenCall, Zenon DEF IInv, Increasing
<1>4. TypeOK'
  BY <1>1, <1>2, Zenon DEF IInv, TypeOK
<1>5. Untouched'
  BY <1>1, <1>2, Before DEF IInv, Untouched
<1>6. AckedIsStored'
  BY <1>2, <1>4, Zenon DEF IInv, AckedIsStored, TypeOK
<1>7. OncePerPass'
  BY <1>2, Zenon DEF IInv, OncePerPass
<1>8. st.committed \in Int /\ st'.committed \in Int
  BY <1>1, <1>4, Current, OpenCall DEF IInv, Passes
<1>9. TermedOnEvidence'
  BY <1>1, <1>2, <1>4, <1>8 DEF IInv, TermedOnEvidence, TypeOK
<1> QED
  BY <1>3, <1>4, <1>5, <1>6, <1>7, <1>9, Zenon DEF IInv

\* A call that splits its range settles nothing.
LEMMA StepSplits ==
  ASSUME IInv, ~Finished(st), Hi(st) - st.lo # 1, UNCHANGED <<bundle, acked, termed>>,
         alive' \in BOOLEAN, faults' \in BOOLEAN,
         st' = Split(st),
         stored' \in [Rows -> Nat], ambiguous' \in [Rows -> Nat],
         \A i \in Rows \ Span(st) :
            stored'[i] = stored[i] /\ ambiguous'[i] = ambiguous[i],
         \A i \in Span(st) : stored'[i] <= ambiguous'[i]
  PROVE  IInv'
<1>1. /\ st' \in Passes(N)
      /\ st'.lo = st.lo
      /\ st'.committed = st.committed
      /\ Increasing(st.lo, st'.ends)
  BY Current, SplitFields, Zenon DEF IInv
<1>2. N' = N /\ Rows' = Rows
  BY Zenon DEF N, Rows
<1>3. Increasing(st.lo, st.ends)'
  BY <1>1, Zenon DEF Increasing
<1>4. TypeOK'
  BY <1>1, <1>2, Zenon DEF IInv, TypeOK
<1>5. \A i \in Rows : /\ stored[i] \in Nat /\ ambiguous[i] \in Nat
                      /\ stored'[i] \in Nat /\ ambiguous'[i] \in Nat
                      /\ i \in Span(st) => i >= st.lo
  BY Before, Zenon
<1>6. Untouched'
  BY <1>1, <1>2, <1>5, Zenon DEF IInv, Untouched
<1>7. \A i \in acked : i \in Rows \ Span(st)
  BY <1>5, Before, Zenon DEF IInv, TypeOK, Untouched
<1>8. AckedIsStored'
  BY <1>7, Zenon DEF IInv, AckedIsStored
<1>9. OncePerPass'
  BY <1>2, <1>5 DEF IInv, OncePerPass
<1>10. TermedOnEvidence'
  BY <1>1, Zenon DEF IInv, TermedOnEvidence
<1> QED
  BY <1>3, <1>4, <1>6, <1>8, <1>9, <1>10, Zenon DEF IInv

\* A failed write keeps the invariant, whether or not its commit landed.
LEMMA StepErrs ==
  ASSUME IInv, Probing, NEW tagged \in BOOLEAN, OnError(tagged),
         tagged => Tagged,
         UNCHANGED <<bundle, alive, acked>>, faults' \in BOOLEAN,
         \/ UNCHANGED <<stored, ambiguous>>
         \/ stored' = Bump(stored) /\ ambiguous' = Bump(ambiguous)
  PROVE  IInv'
<1>1. ~Finished(st)
  BY Zenon DEF Probing
<1>2. /\ alive' \in BOOLEAN
      /\ stored \in [Rows -> Nat] /\ ambiguous \in [Rows -> Nat]
      /\ acked \subseteq Rows /\ termed \subseteq Rows
  BY Zenon DEF IInv, TypeOK
<1>3. /\ st.lo \in Rows /\ Span(st) \subseteq Rows
      /\ \A i \in Span(st) : i >= st.lo
  BY <1>1, Before, Zenon
<1>4. stored' \in [Rows -> Nat] /\ ambiguous' \in [Rows -> Nat]
  BY <1>2 DEF Bump
<1>5. \A i \in Rows \ Span(st) :
        stored'[i] = stored[i] /\ ambiguous'[i] = ambiguous[i]
  BY <1>2, Zenon DEF Bump
<1>6. \A i \in Span(st) : stored'[i] <= ambiguous'[i]
  BY <1>2, <1>3 DEF Bump, IInv, Untouched
<1>7. CASE Hi(st) - st.lo = 1
  <2>1. st' = Fail(st)
    BY <1>7, Zenon DEF OnError
  <2>2. Span(st) = {st.lo}
    BY <1>1, <1>7, Before DEF Span, Rows
  <2>3. tagged => bundle[st.lo].kind = "poison"
    BY <2>2, Zenon DEF Tagged
  <2>4. /\ termed' \subseteq termed \cup {st.lo}
        /\ st.lo \in termed' =>
             st.lo \in termed \/ tagged \/ (st.committed > 0 /\ bundle[st.lo].overdue)
    BY <1>7, Zenon DEF OnError, Evidence
  <2>5. st.lo \notin acked /\ st.lo \notin termed
    BY <2>2, <1>3, Zenon DEF IInv, Untouched
  <2>6. \A i \in Span(st) : stored'[i] <= ambiguous'[i] + 1
    BY <1>3, <1>4, <1>6
  <2> QED
    BY <1>1, <1>2, <1>3, <1>4, <1>5, <2>1, <2>2, <2>3, <2>4, <2>5, <2>6, StepReturns, Zenon
<1>8. CASE Hi(st) - st.lo # 1
  <2>1. st' = Split(st) /\ UNCHANGED termed
    BY <1>8, Zenon DEF OnError
  <2> QED
    BY <1>1, <1>2, <1>4, <1>5, <1>6, <1>8, <2>1, StepSplits, Zenon
<1> QED
  BY <1>7, <1>8, Zenon

\* Every step of isolate keeps the invariant.
LEMMA NextInv == IInv /\ [Next]_vars => IInv'
<1> SUFFICES ASSUME IInv, [Next]_vars PROVE IInv'
  BY Zenon
<1>1. CASE IsolateReturn
  <2>1. ~Finished(st) /\ st' = Return(st)
    BY <1>1, Zenon DEF IsolateReturn
  <2>2. UNCHANGED <<bundle, alive, faults, stored, ambiguous, acked, termed>>
    BY <1>1, Zenon DEF IsolateReturn
  <2>3. TypeOK /\ Span(st) \subseteq Rows
    BY <2>1, Before, Zenon DEF IInv
  <2>4. \A i \in Span(st) : i \notin acked /\ i \notin termed /\ stored[i] <= ambiguous[i] + 1
    BY <2>1, Before, Zenon DEF IInv, Untouched, OncePerPass
  <2> QED
    BY <2>1, <2>2, <2>3, <2>4, StepReturns, Zenon DEF TypeOK
<1>2. CASE RangeCommits
  <2>1. /\ ~Finished(st) /\ st' = Commit(st)
        /\ stored' = Bump(stored) /\ acked' = acked \cup Span(st)
        /\ UNCHANGED <<bundle, alive, faults, ambiguous, termed>>
    BY <1>2, Zenon DEF RangeCommits, Probing
  <2>2. TypeOK /\ Span(st) \subseteq Rows
    BY <2>1, Before, Zenon DEF IInv
  <2>3. \A i \in Span(st) : /\ stored[i] \in Nat /\ ambiguous[i] \in Nat
                            /\ stored[i] <= ambiguous[i] /\ i \notin termed
    BY <2>1, Before, Zenon DEF IInv, Untouched
  <2>4. \A i \in Span(st) : stored'[i] <= ambiguous'[i] + 1 /\ stored'[i] > 0
    BY <2>1, <2>2, <2>3 DEF Bump
  <2>5. /\ stored' \in [Rows -> Nat]
        /\ \A i \in Rows \ Span(st) : stored'[i] = stored[i]
    BY <2>1, <2>2 DEF Bump, TypeOK
  <2> QED
    BY <2>1, <2>2, <2>3, <2>4, <2>5, StepReturns, Zenon DEF TypeOK
<1>3. CASE RangeRejected
  <2>1. Tagged \in BOOLEAN
    BY Zenon DEF Tagged
  <2> QED
    BY <1>3, <2>1, StepErrs, Zenon DEF RangeRejected, IInv, TypeOK
<1>4. CASE RangeFaults
  BY <1>4, StepErrs, Zenon DEF RangeFaults
<1>5. CASE RangeCommitsUnseen
  BY <1>5, StepErrs, Zenon DEF RangeCommitsUnseen
<1>6. CASE ContextEnds
  BY <1>6, Zenon DEF ContextEnds, IInv, TypeOK, Increasing, Untouched, AckedIsStored,
              OncePerPass, TermedOnEvidence, N, Rows
<1>7. CASE UNCHANGED vars
  BY <1>7, Zenon DEF vars, IInv, TypeOK, Increasing, Untouched, AckedIsStored,
              OncePerPass, TermedOnEvidence, N, Rows
<1> QED
  BY <1>1, <1>2, <1>3, <1>4, <1>5, <1>6, <1>7, Zenon DEF Next, Writes

\* The variables keep their types: in particular isolateState counts at most
\* the rows of the bundle and every range stays within it.
THEOREM TypeCorrect == Spec => []TypeOK
<1>1. IInv => TypeOK
  BY Zenon DEF IInv
<1> QED
  BY <1>1, InitInv, NextInv, PTL DEF Spec

\* isolateRange acks a message only after a commit that holds its row.
THEOREM AcksFollowCommits == Spec => []AckedIsStored
<1>1. IInv => AckedIsStored
  BY Zenon DEF IInv
<1> QED
  BY <1>1, InitInv, NextInv, PTL DEF Spec

\* However isolateRange splits the bundle, no row is written twice in a pass
\* unless a commit landed without the caller learning of it.
THEOREM BisectionWritesOnce == Spec => []OncePerPass
<1>1. IInv => OncePerPass
  BY Zenon DEF IInv
<1> QED
  BY <1>1, InitInv, NextInv, PTL DEF Spec

\* terminatePoison is reached only with evidence against the row, and never
\* for a message the pass acked.
THEOREM DropsNeedEvidence == Spec => []TermedOnEvidence
<1>1. IInv => TermedOnEvidence
  BY Zenon DEF IInv
<1> QED
  BY <1>1, InitInv, NextInv, PTL DEF Spec
-------------------------------------------------------------------------------
(***************************************************************************)
(* What a pass achieves, and at what cost.  A pass without faults settles   *)
(* every row it has passed (Settled), halves an untouched bundle until a    *)
(* row is acked or terminated (Shrinking), and spends two writes on every   *)
(* halving of the range of a single bad row (Narrowing).                    *)
(***************************************************************************)
\* A non-empty set of naturals has a least element.
LEMMA LeastExists ==
  ASSUME NEW S \in SUBSET Nat, S # {}
  PROVE  \E x \in S : \A y \in S : x <= y
<1> DEFINE R == {p \in Nat \X Nat : p[1] < p[2]}
<1>1. IsWellFoundedOn(R, Nat)
  <2>1. R = OpToRel(<, Nat)
    BY Zenon DEF OpToRel
  <2> QED BY <2>1, NatLessThanWellFounded, Zenon
<1>2. PICK x \in S : \A y \in S : ~(<<y, x>> \in R)
  BY <1>1, WFMin, Zenon
<1>3. ASSUME NEW y \in S PROVE x <= y
  <2>1. <<y, x>> \in Nat \X Nat /\ <<y, x>>[1] = y /\ <<y, x>>[2] = x
    BY Zenon
  <2>2. ~(y < x)
    BY <1>2, <2>1, Zenon
  <2> QED BY <2>2
<1> QED BY <1>3, Zenon

-------------------------------------------------------------------------------
\* Powers of two, which bound how often a range can be halved: 2 ^ n is the
\* number of subsets of n things.
LEMMA PowerIsCount == 
  ASSUME NEW n \in Nat
  PROVE  IsFiniteSet(SUBSET (1 .. n)) /\ Cardinality(SUBSET (1 .. n)) = 2 ^ n /\ 2 ^ n \in Nat
<1>1. IsFiniteSet(1 .. n) /\ Cardinality(1 .. n) = n
  BY FS_Interval
<1>2. IsFiniteSet(SUBSET (1 .. n)) /\ Cardinality(SUBSET (1 .. n)) = 2 ^ n
  BY <1>1, FS_SUBSET, Zenon
<1> QED
  BY <1>2, FS_CardinalityType, Zenon

\* One thing more doubles the number.
LEMMA PowerDoubles ==
  ASSUME NEW n \in Nat
  PROVE  2 ^ (n + 1) = 2 * 2 ^ n
<1> DEFINE A == SUBSET (1 .. n)
           B == {s \cup {n + 1} : s \in A}
           f == [s \in A |-> s \cup {n + 1}]
<1>1. \A s \in A : n + 1 \notin s
  OBVIOUS
<1>2. A \cap B = {}
  BY <1>1, Zenon
<1>3. SUBSET (1 .. n + 1) = A \cup B
  <2>1. ASSUME NEW s \in SUBSET (1 .. n + 1) PROVE s \in A \cup B
    <3>1. CASE n + 1 \notin s
      <4>1. s \in A
        BY <3>1
      <4> QED BY <4>1, Zenon
    <3>2. CASE n + 1 \in s
      <4>1. s \ {n + 1} \in A /\ s = (s \ {n + 1}) \cup {n + 1}
        BY <3>2
      <4> QED BY <4>1, Zenon
    <3> QED BY <3>1, <3>2, Zenon
  <2>2. \A s \in A \cup B : s \in SUBSET (1 .. n + 1)
    OBVIOUS
  <2> QED BY <2>1, <2>2, Zenon
<1>4. f \in Bijection(A, B)
  <2>1. f \in [A -> B] /\ \A s \in A : f[s] = s \cup {n + 1}
    BY Zenon
  <2>2. \A s, t \in A : s \cup {n + 1} = t \cup {n + 1} => s = t
    <3> SUFFICES ASSUME NEW s \in A, NEW t \in A, s \cup {n + 1} = t \cup {n + 1} PROVE s = t
      BY Zenon
    <3>1. s = (s \cup {n + 1}) \ {n + 1} /\ t = (t \cup {n + 1}) \ {n + 1}
      BY <1>1, Zenon
    <3> QED BY <3>1, Zenon
  <2>3. \A u \in B : \E s \in A : f[s] = u
    BY <2>1, Zenon
  <2> HIDE DEF A, B, f
  <2> QED BY <2>1, <2>2, <2>3 DEF Bijection, Injection, Surjection, IsInjective
<1>5. IsFiniteSet(A) /\ Cardinality(A) = 2 ^ n /\ 2 ^ n \in Nat
  BY PowerIsCount, Zenon
<1>6. Cardinality(SUBSET (1 .. n + 1)) = 2 ^ (n + 1)
  BY PowerIsCount
<1> HIDE DEF A, B, f
<1>7. IsFiniteSet(B) /\ Cardinality(B) = 2 ^ n
  BY <1>4, <1>5, FS_Bijection, Zenon DEF ExistsBijection
<1>8. Cardinality(A \cup B) = Cardinality(A) + Cardinality(B) - Cardinality(A \cap B)
  BY <1>5, <1>7, FS_Union, Zenon
<1>9. Cardinality(A \cap B) = 0
  BY <1>2, FS_EmptySet, Zenon
<1>10. Cardinality(A \cup B) = 2 ^ (n + 1)
  BY <1>3, <1>6, Zenon
<1> QED BY <1>5, <1>7, <1>8, <1>9, <1>10

\* A range of m rows is down to single rows after Depth(m) halvings.
LEMMA DepthEnough ==
  ASSUME NEW m \in Nat
  PROVE  Depth(m) \in Nat /\ 2 ^ Depth(m) >= m
<1>1. 2 ^ m >= m
  <2> DEFINE f == [i \in 1 .. m |-> {i}]
  <2>1. f \in Injection(1 .. m, SUBSET (1 .. m))
    <3>1. f \in [1 .. m -> SUBSET (1 .. m)] /\ \A i, j \in 1 .. m : f[i] = f[j] => i = j
      BY Zenon
    <3> HIDE DEF f
    <3> QED BY <3>1, Zenon DEF Injection, IsInjective
  <2> HIDE DEF f
  <2>2. Cardinality(1 .. m) <= Cardinality(SUBSET (1 .. m)) /\ Cardinality(1 .. m) = m
    <3>1. IsFiniteSet(SUBSET (1 .. m))
      BY PowerIsCount, Zenon
    <3>2. Cardinality(1 .. m) <= Cardinality(SUBSET (1 .. m))
      BY <2>1, <3>1, FS_Injection, Zenon
    <3>3. Cardinality(1 .. m) = m
      BY FS_Interval
    <3> QED BY <3>2, <3>3, Zenon
  <2>3. Cardinality(SUBSET (1 .. m)) = 2 ^ m
    BY PowerIsCount, Zenon
  <2> QED BY <2>2, <2>3, Zenon
<1> DEFINE S == {d \in 0 .. m : 2 ^ d >= m}
<1>2. PICK d \in S : \A e \in S : d <= e
  <2>1. S \in SUBSET Nat /\ m \in S
    BY <1>1
  <2> HIDE DEF S
  <2> QED BY <2>1, LeastExists, Zenon
<1>3. \A e \in 0 .. d - 1 : 2 ^ e < m
  <2> SUFFICES ASSUME NEW e \in 0 .. d - 1 PROVE 2 ^ e < m
    BY Zenon
  <2>1. e \in 0 .. m /\ ~(d <= e) /\ e \in Nat
    OBVIOUS
  <2>2. e \notin S
    BY <1>2, <2>1, Zenon
  <2>3. 2 ^ e \in Nat
    BY <2>1, PowerIsCount, Zenon
  <2> QED BY <2>1, <2>2, <2>3
<1> QED BY <1>2, <1>3 DEF Depth
-------------------------------------------------------------------------------
\* A step of a pass that has met no fault is one of four: a return by the
\* short-circuit, a commit, a rejected single row, a split.
GivesUp == GaveUp(st, ProbeLimit) /\ st' = Return(st) /\ UNCHANGED <<acked, termed>>

\* The range is committed.
Accepts ==
  /\ ~GaveUp(st, ProbeLimit) /\ Acceptable /\ st' = Commit(st)
  /\ acked' = acked \cup Span(st) /\ UNCHANGED termed

\* A single row is rejected, and terminated on evidence.
Drops ==
  /\ ~GaveUp(st, ProbeLimit) /\ ~Acceptable /\ Hi(st) - st.lo = 1 /\ st' = Fail(st)
  /\ termed' = (IF Evidence(Tagged) THEN termed \cup {st.lo} ELSE termed) /\ UNCHANGED acked

\* A longer range is rejected and split.
Halves ==
  /\ ~GaveUp(st, ProbeLimit) /\ ~Acceptable /\ Hi(st) - st.lo # 1 /\ st' = Split(st)
  /\ UNCHANGED <<acked, termed>>

\* There is no other step without a fault.
LEMMA CleanStep ==
  ASSUME Next, ~faults', ~faults => alive
  PROVE  ~faults /\ ~Finished(st) /\ UNCHANGED bundle /\ (GivesUp \/ Accepts \/ Drops \/ Halves)
<1>1. CASE IsolateReturn
  BY <1>1, Zenon DEF IsolateReturn, GivesUp
<1>2. CASE RangeCommits
  BY <1>2, Zenon DEF RangeCommits, Accepts, Probing
<1>3. CASE RangeRejected
  BY <1>3, Zenon DEF RangeRejected, OnError, Drops, Halves, Probing
<1>4. CASE RangeFaults \/ RangeCommitsUnseen \/ ContextEnds
  BY <1>4, Zenon DEF RangeFaults, RangeCommitsUnseen, ContextEnds
<1> QED
  BY <1>1, <1>2, <1>3, <1>4, Zenon DEF Next, Writes

\* The edges left when a call returns.
LEMMA TailEntries ==
  ASSUME NEW S, NEW e \in Seq(S), e # <<>>
  PROVE  /\ Len(e) \in Nat \ {0}
         /\ Len(Tail(e)) = Len(e) - 1
         /\ Len(e) = 1 => Tail(e) = <<>>
         /\ \A k \in 1 .. Len(e) - 1 : Tail(e)[k] = e[k + 1]
<1>1. Len(e) \in Nat \ {0} /\ Tail(e) \in Seq(S) /\ Len(Tail(e)) = Len(e) - 1
  OBVIOUS
<1>2. \A k \in 1 .. Len(e) - 1 : Tail(e)[k] = e[k + 1]
  BY <1>1
<1>3. Len(e) = 1 => Tail(e) = <<>>
  <2> DEFINE t == Tail(e)
  <2>1. t \in Seq(S) /\ Len(t) = Len(e) - 1
    BY <1>1, Zenon
  <2> HIDE DEF t
  <2>2. Len(t) = 0 => t = <<>>
    BY <2>1
  <2> QED BY <2>1, <2>2 DEF t
<1> QED BY <1>1, <1>2, <1>3, Zenon

\* What a step does to the bookkeeping, field by field.
LEMMA Fields ==
  ASSUME IInv, ~Finished(st)
  PROVE  /\ \A p \in {Return(st), Fail(st), Commit(st)} : p.lo = Hi(st) /\ p.ends = Tail(st.ends)
         /\ \A p \in {Return(st), Fail(st), Split(st)} : p.committed = st.committed
         /\ \A p \in {Fail(st), Commit(st), Split(st)} : p.attempts = st.attempts + 1
         /\ Return(st).attempts = st.attempts
         /\ Commit(st).committed = st.committed + (Hi(st) - st.lo)
         /\ Split(st).lo = st.lo
         /\ Split(st).ends = <<st.lo + (Hi(st) - st.lo) \div 2>> \o st.ends
         /\ N \in Nat \ {0} /\ st.lo \in 1 .. N + 1 /\ Hi(st) \in 1 .. N + 1 /\ st.lo < Hi(st)
         /\ st.ends \in Seq(1 .. N + 1) /\ st.ends # <<>> /\ Hi(st) = st.ends[1]
         /\ st.committed \in Nat /\ st.attempts \in Nat
<1>1. N \in Nat \ {0} /\ st \in Passes(N) /\ Increasing(st.lo, st.ends)
  BY Current, Zenon DEF IInv
<1>2. /\ st.lo \in 1 .. N + 1 /\ Hi(st) \in 1 .. N + 1 /\ st.lo < Hi(st)
      /\ st.ends \in Seq(1 .. N + 1) /\ st.ends # <<>>
      /\ st.committed \in Nat /\ st.attempts \in Nat
  BY <1>1, OpenCall
<1>3. Hi(st) = st.ends[1]
  BY <1>2 DEF Hi
<1>4. \A p \in {Return(st), Fail(st), Commit(st)} : p.lo = Hi(st) /\ p.ends = Tail(st.ends)
  <2> DEFINE h == Hi(st)
             t == Tail(st.ends)
  <2>1. /\ Return(st) = Pass(h, t, st.committed, st.attempts)
        /\ Fail(st) = Pass(h, t, st.committed, st.attempts + 1)
        /\ Commit(st) = Pass(h, t, st.committed + (h - st.lo), st.attempts + 1)
    BY Zenon DEF Return, Fail, Commit
  <2> HIDE DEF h, t
  <2> SUFFICES \A p \in {Return(st), Fail(st), Commit(st)} : p.lo = h /\ p.ends = t
    BY Zenon DEF h, t
  <2> QED BY <2>1 DEF Pass
<1>5. \A p \in {Return(st), Fail(st), Split(st)} : p.committed = st.committed
  BY DEF Return, Fail, Split, Pass
<1>6. \A p \in {Fail(st), Commit(st), Split(st)} : p.attempts = st.attempts + 1
  BY DEF Commit, Fail, Split, Pass
<1>7. /\ Return(st).attempts = st.attempts
      /\ Commit(st).committed = st.committed + (Hi(st) - st.lo)
      /\ Split(st).lo = st.lo
      /\ Split(st).ends = <<st.lo + (Hi(st) - st.lo) \div 2>> \o st.ends
  BY Zenon DEF Return, Commit, Split, Pass
<1> QED
  BY <1>1, <1>2, <1>3, <1>4, <1>5, <1>6, <1>7, Zenon

\* While nothing has committed the short-circuit bounds the attempts: a write
\* is issued only below the limit.
LEMMA OutageStep == IInv /\ OutageProbes /\ [Next]_vars => OutageProbes'
<1> SUFFICES ASSUME IInv, OutageProbes, [Next]_vars PROVE OutageProbes'
  BY Zenon
<1>1. CASE UNCHANGED st
  BY <1>1, Zenon DEF OutageProbes
<1>2. CASE IsolateReturn
  BY <1>2, Fields, Zenon DEF IsolateReturn, OutageProbes
<1>3. CASE Probing /\ st' \in {Commit(st), Fail(st), Split(st)}
  <2>1. ~Finished(st) /\ ~GaveUp(st, ProbeLimit)
    BY <1>3, Zenon DEF Probing
  <2>2. st.committed = 0 => st.attempts < ProbeLimit
    BY <2>1, Fields, ProbeAssumption DEF GaveUp
  <2>3. st'.attempts = st.attempts + 1 /\ st.attempts \in Nat
    BY <1>3, <2>1, Fields, Zenon
  <2>4. st'.committed = 0 => st.committed = 0
    <3>1. CASE st' = Commit(st)
      <4>1. Commit(st).committed = st.committed + (Hi(st) - st.lo)
        BY <2>1, Fields, Zenon
      <4>2. st.committed \in Nat /\ Hi(st) \in 1 .. N + 1 /\ st.lo \in 1 .. N + 1 /\ st.lo < Hi(st)
        BY <2>1, Fields, Zenon
      <4> QED BY <3>1, <4>1, <4>2
    <3>2. CASE st' \in {Fail(st), Split(st)}
      BY <2>1, <3>2, Fields, Zenon
    <3> QED BY <1>3, <3>1, <3>2, Zenon
  <2> QED
    BY <2>2, <2>3, <2>4, ProbeAssumption DEF OutageProbes
<1> QED
  BY <1>1, <1>2, <1>3, Zenon DEF Next, Writes, RangeCommits, RangeRejected, RangeFaults,
     RangeCommitsUnseen, OnError, ContextEnds, vars

\* While nothing has committed, a pass issues at most isolateProbeLimit writes,
\* whatever the writer answers.
THEOREM OutagesAreCheap == Spec => []OutageProbes
<1>1. Init => OutageProbes
  BY ProbeAssumption DEF Init, OutageProbes, IsolateStart, Pass
<1> QED
  BY <1>1, InitInv, NextInv, OutageStep, PTL DEF Spec
-------------------------------------------------------------------------------
\* The last open call ends where the bundle ends.
LastEdge == IF Finished(st) THEN st.lo = N + 1 ELSE st.ends[Len(st.ends)] = N + 1

\* What lies before lo is settled, as far as a pass without faults can.
Settled ==
  ~faults =>
     /\ alive
     /\ acked \subseteq Healthy
     /\ ~GaveUp(st, ProbeLimit) =>
          \A i \in Rows : i < st.lo => /\ i \in Healthy => i \in acked
                                       /\ i \in Poison => i \in termed

\* Returning and splitting keep the last edge.
LEMMA LastEdgeStep == IInv /\ LastEdge /\ [Next]_vars => LastEdge'
<1> SUFFICES ASSUME IInv, LastEdge, [Next]_vars PROVE LastEdge'
  BY Zenon
<1>1. CASE UNCHANGED <<bundle, st>>
  BY <1>1, Zenon DEF LastEdge, N
<1>2. CASE ~Finished(st) /\ UNCHANGED bundle /\ st' \in {Return(st), Commit(st), Fail(st)}
  <2>1. st'.lo = st.ends[1] /\ st'.ends = Tail(st.ends)
    BY <1>2, Fields, Zenon
  <2>2. /\ N' = N /\ N \in Nat
        /\ st.ends \in Seq(1 .. N + 1) /\ st.ends # <<>>
    BY <1>2, Fields, Zenon DEF N
  <2>3. st.ends[Len(st.ends)] = N + 1
    BY <1>2, Zenon DEF LastEdge
  <2>4. CASE Len(st.ends) = 1
    <3>1. st'.ends = <<>>
      BY <2>1, <2>2, <2>4, TailEntries, Zenon
    <3> QED BY <2>1, <2>2, <2>3, <2>4, <3>1, Zenon DEF LastEdge, Finished
  <2>5. CASE Len(st.ends) # 1
    <3>1. /\ Len(st.ends) \in Nat /\ Len(st.ends) >= 2
          /\ Len(st'.ends) = Len(st.ends) - 1
          /\ \A k \in 1 .. Len(st.ends) - 1 : st'.ends[k] = st.ends[k + 1]
      <4> DEFINE e == st.ends
      <4>1. e \in Seq(1 .. N + 1) /\ e # <<>> /\ st'.ends = Tail(e) /\ Len(e) # 1
        BY <2>1, <2>2, <2>5, Zenon
      <4> HIDE DEF e
      <4>2. /\ Len(e) \in Nat \ {0} /\ Len(Tail(e)) = Len(e) - 1
            /\ \A k \in 1 .. Len(e) - 1 : Tail(e)[k] = e[k + 1]
        BY <4>1, TailEntries, Zenon
      <4>3. /\ Len(e) \in Nat /\ Len(e) >= 2 /\ Len(st'.ends) = Len(e) - 1
            /\ \A k \in 1 .. Len(e) - 1 : st'.ends[k] = e[k + 1]
        BY <4>1, <4>2
      <4> QED BY <4>3, Zenon DEF e
    <3>2. st'.ends[Len(st'.ends)] = st.ends[Len(st.ends)]
      BY <3>1
    <3>3. st'.ends # <<>>
      BY <3>1
    <3> QED BY <2>2, <2>3, <3>2, <3>3, Zenon DEF LastEdge, Finished
  <2> QED BY <2>4, <2>5, Zenon
<1>3. CASE ~Finished(st) /\ UNCHANGED bundle /\ st' = Split(st)
  <2> DEFINE mid == st.lo + (Hi(st) - st.lo) \div 2
  <2>1. st'.ends = <<mid>> \o st.ends
    BY <1>3, Fields, Zenon
  <2>2. /\ N' = N /\ N \in Nat
        /\ st.ends \in Seq(1 .. N + 1) /\ st.ends # <<>>
    BY <1>3, Fields, Zenon DEF N
  <2>3. st.ends[Len(st.ends)] = N + 1
    BY <1>3, Zenon DEF LastEdge
  <2> HIDE DEF mid
  <2>4. /\ Len(st.ends) \in Nat \ {0} /\ Len(st'.ends) = Len(st.ends) + 1
        /\ st'.ends[Len(st.ends) + 1] = st.ends[Len(st.ends)]
    BY <2>1, <2>2
  <2>5. st'.ends # <<>>
    BY <2>4
  <2> QED
    BY <2>2, <2>3, <2>4, <2>5, Zenon DEF LastEdge, Finished
<1> QED
  BY <1>1, <1>2, <1>3, Zenon DEF Next, Writes, RangeCommits, RangeRejected, RangeFaults,
     RangeCommitsUnseen, OnError, ContextEnds, vars, IsolateReturn, Probing

\* A call settles its range, or leaves it to its halves.
LEMMA SettledStep == IInv /\ Settled /\ [Next]_vars => Settled'
<1> SUFFICES ASSUME IInv, Settled, [Next]_vars, ~faults' PROVE Settled'
  BY Zenon DEF Settled
<1>1. CASE UNCHANGED vars
  BY <1>1, Zenon DEF vars, Settled, Healthy, Poison, Rows, N
<1>2. CASE Next
  <2>1. ~faults /\ ~Finished(st) /\ UNCHANGED bundle /\ (GivesUp \/ Accepts \/ Drops \/ Halves)
    BY <1>2, CleanStep, Zenon DEF Settled
  <2>2. alive'
    BY <1>2, <2>1, Zenon DEF Next, Writes, IsolateReturn, RangeCommits, RangeRejected, RangeFaults,
       RangeCommitsUnseen, ContextEnds, Settled
  <2>3. Rows' = Rows /\ Healthy' = Healthy /\ Poison' = Poison
    BY <2>1, Zenon DEF Rows, Healthy, Poison, N
  <2>4. acked' \subseteq Healthy
    BY <2>1, Before, Zenon DEF Settled, GivesUp, Accepts, Drops, Halves, Acceptable, Healthy
  <2>5. CASE GivesUp
    <3>1. GaveUp(st, ProbeLimit)'
      BY <2>1, <2>5, Fields, Zenon DEF GivesUp, GaveUp
    <3> QED BY <2>2, <2>3, <2>4, <3>1, Zenon DEF Settled
  <2>6. CASE Accepts
    <3>1. ASSUME NEW i \in Rows, i < Hi(st)
          PROVE  (i \in Healthy => i \in acked') /\ (i \in Poison => i \in termed')
      <4>1. i < st.lo \/ i \in Span(st)
        BY <2>1, <3>1, Before DEF Rows
      <4>2. i \in Span(st) => i \in acked' /\ i \notin Poison
        BY <2>6, Zenon DEF Accepts, Acceptable, Poison
      <4> QED BY <2>1, <2>6, <4>1, <4>2, Zenon DEF Settled, Accepts
    <3>2. st'.lo = Hi(st)
      BY <2>1, <2>6, Fields, Zenon DEF Accepts
    <3> QED BY <2>2, <2>3, <2>4, <3>1, <3>2, Zenon DEF Settled
  <2>7. CASE Drops
    <3>1. Span(st) = {st.lo}
      BY <2>1, <2>7, Before DEF Drops, Span, Rows
    <3>2. st.lo \notin Healthy
      BY <2>7, <3>1, Zenon DEF Drops, Acceptable, Healthy
    <3>3. st.lo \in Poison => st.lo \in termed'
      BY <2>7, <3>1, Zenon DEF Drops, Evidence, Tagged, Poison
    <3>4. ASSUME NEW i \in Rows, i < Hi(st)
          PROVE  (i \in Healthy => i \in acked') /\ (i \in Poison => i \in termed')
      <4>1. i < st.lo \/ i = st.lo
        BY <2>1, <3>1, <3>4, Before DEF Rows
      <4> QED BY <2>1, <2>7, <3>2, <3>3, <4>1, Zenon DEF Settled, Drops
    <3>5. st'.lo = Hi(st)
      BY <2>1, <2>7, Fields, Zenon DEF Drops
    <3> QED BY <2>2, <2>3, <2>4, <3>4, <3>5, Zenon DEF Settled
  <2>8. CASE Halves
    <3>1. st'.lo = st.lo
      BY <2>1, <2>8, Fields, Zenon DEF Halves
    <3> QED BY <2>1, <2>2, <2>3, <2>4, <2>8, <3>1, Zenon DEF Settled, Halves
  <2> QED BY <2>1, <2>5, <2>6, <2>7, <2>8, Zenon
<1> QED BY <1>1, <1>2, Zenon

\* With the writer up, a pass that did not short-circuit acks every healthy
\* row and nothing else, and terminates every row the writer tags.
THEOREM PassesSettle == Spec => []CompletePass
<1>1. Init => LastEdge /\ Settled
  <2> SUFFICES ASSUME Init PROVE LastEdge /\ Settled
    BY Zenon
  <2>1. st.lo = 1 /\ st.ends = <<N + 1>>
    BY Zenon DEF Init, IsolateStart, Pass
  <2> QED BY <2>1 DEF Init, LastEdge, Settled, Finished, Rows, Healthy
<1>2. IInv /\ LastEdge /\ Settled => CompletePass
  <2> SUFFICES ASSUME IInv, LastEdge, Settled, Finished(st), ~faults, ~GaveUp(st, ProbeLimit)
               PROVE  acked = Healthy /\ Poison \subseteq termed
    BY Zenon DEF CompletePass
  <2>1. N \in Nat /\ \A i \in Rows : i < st.lo
    BY Current DEF LastEdge, Rows, IInv
  <2> QED BY <2>1, Zenon DEF Settled, Healthy, Poison
<1> QED
  BY <1>1, <1>2, InitInv, NextInv, LastEdgeStep, SettledStep, PTL DEF Spec
-------------------------------------------------------------------------------
\* While a small bundle without untagged rejections is untouched, the pass is
\* still halving its leftmost range.
Small == ~faults /\ Rows = Healthy \cup Poison /\ N < 2 ^ ProbeLimit /\ acked \cup termed = {}

\* The rows of that range times the halvings so far never exceed the bundle.
Shrinking == Small => ~Finished(st) /\ st.lo = 1 /\ (Hi(st) - 1) * 2 ^ st.attempts <= N

\* Half of a range takes half of the product.
LEMMA HalfProduct ==
  ASSUME NEW m \in Nat, NEW q \in Nat, NEW n \in Nat, m * q <= n
  PROVE  (m \div 2) * (2 * q) <= n
<1> DEFINE h == m \div 2
<1>1. h \in Nat /\ 2 * h <= m
  OBVIOUS
<1> HIDE DEF h
<1>2. (2 * h) * q <= m * q
  <2>1. PICK r \in Nat : m = 2 * h + r
    <3>1. m - 2 * h \in Nat /\ m = 2 * h + (m - 2 * h)
      BY <1>1
    <3> QED BY <3>1, Zenon
  <2>2. m * q = (2 * h) * q + r * q /\ r * q >= 0
    BY <1>1, <2>1
  <2>3. (2 * h) * q \in Int /\ r * q \in Int
    BY <1>1, <2>1
  <2> QED BY <2>2, <2>3
<1>3. (2 * h) * q = h * (2 * q) /\ h * (2 * q) \in Int /\ m * q \in Int
  BY <1>1
<1> QED BY <1>2, <1>3 DEF h

\* Until a row is acked or terminated the only step is another halving.
LEMMA ShrinkingStep == IInv /\ OutageProbes /\ Settled /\ Shrinking /\ [Next]_vars => Shrinking'
<1> SUFFICES ASSUME IInv, OutageProbes, Settled, Shrinking, [Next]_vars, Small'
             PROVE  (~Finished(st) /\ st.lo = 1 /\ (Hi(st) - 1) * 2 ^ st.attempts <= N)'
  BY Zenon DEF Shrinking
<1>1. CASE UNCHANGED vars
  BY <1>1, Zenon DEF vars, Shrinking, Small, Healthy, Poison, Rows, N, Finished, Hi
<1>2. CASE Next
  <2>1. ~faults' /\ acked' = {} /\ termed' = {}
    BY Zenon DEF Small
  <2>2. ~faults /\ ~Finished(st) /\ UNCHANGED bundle /\ (GivesUp \/ Accepts \/ Drops \/ Halves)
    BY <1>2, <2>1, CleanStep, Zenon DEF Settled
  <2>3. Rows' = Rows /\ Healthy' = Healthy /\ Poison' = Poison /\ N' = N
    BY <2>2, Zenon DEF Rows, Healthy, Poison, N
  <2>4. acked = {} /\ termed = {}
    BY <2>1, <2>2, Zenon DEF GivesUp, Accepts, Drops, Halves
  <2>5. Small
    BY <2>2, <2>3, <2>4, Zenon DEF Small
  <2>6. st.lo = 1 /\ (Hi(st) - 1) * 2 ^ st.attempts <= N
    BY <2>5, Zenon DEF Shrinking
  <2>7. /\ N \in Nat \ {0} /\ Hi(st) \in 1 .. N + 1 /\ st.lo < Hi(st)
        /\ st.attempts \in Nat /\ st.committed \in Nat
        /\ st.lo \in 1 .. N + 1
    BY <2>2, Fields, Zenon
  <2>8. st.lo \in Span(st) /\ st.lo \in Rows
    BY <2>6, <2>7 DEF Span, Rows
  <2>9. ~GivesUp
    <3> SUFFICES ASSUME GivesUp PROVE FALSE
      BY Zenon
    <3>1. st.attempts = ProbeLimit
      BY <2>7, ProbeAssumption DEF GivesUp, GaveUp, OutageProbes
    <3>2. N < 2 ^ st.attempts /\ 2 ^ st.attempts \in Nat
      BY <2>5, <2>7, <3>1, PowerIsCount, Zenon DEF Small
    <3> DEFINE w == 2 ^ st.attempts
    <3>3. N < w /\ w \in Nat /\ (Hi(st) - 1) * w <= N
      BY <2>6, <3>2, Zenon
    <3> HIDE DEF w
    <3>4. PICK r \in Nat : Hi(st) - 1 = 1 + r
      <4>1. Hi(st) - 2 \in Nat /\ Hi(st) - 1 = 1 + (Hi(st) - 2)
        BY <2>6, <2>7
      <4> QED BY <4>1, Zenon
    <3>5. (1 + r) * w = w + r * w /\ r * w >= 0 /\ r * w \in Int
      BY <3>3, <3>4
    <3> QED BY <2>7, <3>3, <3>4, <3>5
  <2>10. ~Accepts
    BY <2>1, <2>8, Zenon DEF Accepts
  <2>11. ~Drops
    <3> SUFFICES ASSUME Drops PROVE FALSE
      BY Zenon
    <3>1. Span(st) = {st.lo}
      BY <2>7 DEF Drops, Span
    <3>2. st.lo \in Poison
      BY <2>5, <2>8, <3>1, Zenon DEF Small, Drops, Acceptable, Healthy
    <3>3. Evidence(Tagged)
      BY <2>8, <3>2, Zenon DEF Evidence, Tagged, Poison
    <3> QED BY <2>1, <3>3, Zenon DEF Drops
  <2>12. Halves
    BY <2>2, <2>9, <2>10, <2>11, Zenon
  <2> DEFINE m == Hi(st) - 1
             mid == 1 + m \div 2
             q == 2 ^ st.attempts
  <2>13. /\ st'.lo = 1 /\ st'.attempts = st.attempts + 1
         /\ st'.ends = <<mid>> \o st.ends
    BY <2>2, <2>6, <2>12, Fields, Zenon DEF Halves
  <2>14. m \in Nat /\ mid \in Nat /\ q \in Nat /\ m * q <= N
    <3>1. q \in Nat
      BY <2>7, PowerIsCount, Zenon
    <3>2. m \in Nat /\ mid \in Nat
      BY <2>6, <2>7
    <3> QED BY <2>6, <3>1, <3>2, Zenon
  <2>15. (m \div 2) * (2 * q) <= N
    BY <2>7, <2>14, HalfProduct, Zenon
  <2>16. 2 ^ st'.attempts = 2 * q
    BY <2>7, <2>13, PowerDoubles, Zenon
  <2>17. mid - 1 = m \div 2
    BY <2>14
  <2>18. st.ends \in Seq(1 .. N + 1)
    BY <2>2, Fields, Zenon
  <2> HIDE DEF m, mid, q
  <2>19. st'.ends # <<>> /\ Head(st'.ends) = mid
    BY <2>13, <2>14, <2>18
  <2> QED BY <2>3, <2>13, <2>15, <2>16, <2>17, <2>19, Zenon DEF Finished, Hi
<1> QED BY <1>1, <1>2, Zenon

\* With the writer up and every rejection tagged, a bundle of fewer than
\* 2 ^ isolateProbeLimit rows never leaves a pass as it entered it.
THEOREM SmallBundlesProgress == Spec => []SmallBundleProgress
<1>1. Init => Settled /\ Shrinking /\ OutageProbes
  <2> SUFFICES ASSUME Init PROVE Settled /\ Shrinking /\ OutageProbes
    BY Zenon
  <2>1. N \in Nat \ {0}
    BY InitInv, Current, Zenon DEF IInv
  <2>2. st.lo = 1 /\ st.ends = <<N + 1>> /\ st.attempts = 0
    BY Zenon DEF Init, IsolateStart, Pass
  <2>3. Settled
    BY <2>1, <2>2 DEF Init, Settled, Rows, Healthy
  <2>4. ~Finished(st) /\ Hi(st) = N + 1
    BY <2>1, <2>2 DEF Finished, Hi
  <2>5. 2 ^ 0 = 1
    OBVIOUS
  <2>6. Shrinking
    BY <2>1, <2>2, <2>4, <2>5 DEF Shrinking
  <2> QED BY <2>2, <2>3, <2>6, ProbeAssumption DEF OutageProbes
<1>2. Shrinking => SmallBundleProgress
  BY Zenon DEF Shrinking, SmallBundleProgress, Small
<1> QED
  BY <1>1, <1>2, InitInv, NextInv, OutageStep, SettledStep, ShrinkingStep, PTL DEF Spec
-------------------------------------------------------------------------------
\* Where the k-th open call starts.
Left(k) == IF k = 1 THEN st.lo ELSE st.ends[k - 1]

\* Row b lies in no open range of more than 2 ^ d rows, and the attempts made,
\* the calls still open and two attempts for each of d halvings fit the bound.
Narrowed(b, d) ==
  /\ st.attempts + Len(st.ends) + 2 * d <= 2 * Depth(N) + 1
  /\ \A k \in 1 .. Len(st.ends) :
        (Left(k) <= b /\ b < st.ends[k]) => st.ends[k] - Left(k) <= 2 ^ d

\* With a single bad row, some number of halvings is enough.
Narrowing == \A b \in Rows : (~faults /\ Rows \ Healthy = {b}) => \E d \in Nat : Narrowed(b, d)

\* A call that returns only shortens the stack.
LEMMA NarrowedReturn ==
  ASSUME IInv, ~Finished(st), NEW b \in Rows, NEW d \in Nat, Narrowed(b, d), UNCHANGED bundle,
         st' \in {Return(st), Commit(st), Fail(st)}
  PROVE  Narrowed(b, d)'
<1> DEFINE e == st.ends
<1>1. /\ st'.lo = e[1] /\ st'.ends = Tail(e)
      /\ st'.attempts \in {st.attempts, st.attempts + 1}
      /\ st.attempts \in Nat /\ e \in Seq(1 .. N + 1) /\ e # <<>> /\ N \in Nat
  BY Fields, Zenon
<1>2. N' = N
  BY Zenon DEF N
<1>3. /\ st.attempts + Len(e) + 2 * d <= 2 * Depth(N) + 1
      /\ \A k \in 1 .. Len(e) : (Left(k) <= b /\ b < e[k]) => e[k] - Left(k) <= 2 ^ d
      /\ \A k \in 1 .. Len(e) : Left(k) = IF k = 1 THEN st.lo ELSE e[k - 1]
  BY Zenon DEF Narrowed, Left
<1>4. \A k : Left(k)' = IF k = 1 THEN e[1] ELSE Tail(e)[k - 1]
  BY <1>1, Zenon DEF Left
<1> HIDE DEF e
<1>5. /\ Len(e) \in Nat \ {0} /\ Len(Tail(e)) = Len(e) - 1
      /\ \A k \in 1 .. Len(e) - 1 : Tail(e)[k] = e[k + 1]
  BY <1>1, TailEntries, Zenon
<1>6. ASSUME NEW k \in 1 .. Len(Tail(e)) PROVE Left(k)' = Left(k + 1) /\ k + 1 \in 1 .. Len(e)
  <2>1. k + 1 \in 1 .. Len(e) /\ k + 1 # 1 /\ (k + 1) - 1 = k
    BY <1>5
  <2>2. Left(k + 1) = e[k]
    BY <1>3, <2>1, Zenon
  <2>3. k # 1 => k - 1 \in 1 .. Len(e) - 1 /\ (k - 1) + 1 = k
    BY <1>5
  <2> QED BY <1>4, <1>5, <2>1, <2>2, <2>3, Zenon
<1>7. st'.attempts + Len(Tail(e)) + 2 * d <= 2 * Depth(N) + 1
  <2> DEFINE bound == 2 * Depth(N) + 1
             a == st.attempts
             a1 == st'.attempts
             l == Len(e)
  <2>0. Depth(N) \in Nat
    BY <1>1, DepthEnough, Zenon
  <2>1. bound \in Int
    BY <2>0
  <2>2. a \in Nat /\ a1 \in {a, a + 1} /\ l \in Nat \ {0} /\ a + l + 2 * d <= bound
    BY <1>1, <1>3, <1>5, Zenon
  <2>3. Len(Tail(e)) = l - 1
    BY <1>5, Zenon
  <2> HIDE DEF bound, a, a1, l
  <2>4. a1 + (l - 1) + 2 * d <= bound
    BY <2>1, <2>2
  <2> QED BY <2>3, <2>4, Zenon DEF bound, a, a1, l
<1>8. \A k \in 1 .. Len(Tail(e)) :
         (Left(k)' <= b /\ b < Tail(e)[k]) => Tail(e)[k] - Left(k)' <= 2 ^ d
  BY <1>3, <1>5, <1>6, Zenon
<1> QED BY <1>1, <1>2, <1>7, <1>8, Zenon DEF Narrowed

\* A split halves the range of the bad row: it pays for its two halves with one
\* of the d halvings.
LEMMA NarrowedSplit ==
  ASSUME IInv, ~Finished(st), NEW b \in Span(st), NEW d \in Nat, Narrowed(b, d),
         UNCHANGED bundle, Hi(st) - st.lo # 1, st' = Split(st)
  PROVE  d # 0 /\ d - 1 \in Nat /\ Narrowed(b, d - 1)'
<1> DEFINE e == st.ends
           lo == st.lo
           mid == lo + (e[1] - lo) \div 2
<1>1. /\ st'.lo = lo /\ st'.ends = <<mid>> \o e
      /\ st'.attempts = st.attempts + 1 /\ Hi(st) = e[1]
      /\ st.attempts \in Nat /\ e \in Seq(1 .. N + 1) /\ e # <<>> /\ N \in Nat
      /\ lo \in 1 .. N + 1 /\ e[1] \in 1 .. N + 1 /\ lo < e[1]
  BY Fields, Zenon
<1>2. N' = N
  BY Zenon DEF N
<1>3. /\ st.attempts + Len(e) + 2 * d <= 2 * Depth(N) + 1
      /\ \A k \in 1 .. Len(e) : (Left(k) <= b /\ b < e[k]) => e[k] - Left(k) <= 2 ^ d
      /\ Left(1) = lo
  BY Zenon DEF Narrowed, Left
<1>4. \A k : Left(k)' = IF k = 1 THEN lo ELSE (<<mid>> \o e)[k - 1]
  BY <1>1, Zenon DEF Left
<1>5. b \in Int /\ lo <= b /\ b < e[1]
  BY <1>1 DEF Span
<1>6. \A j, k \in 1 .. Len(e) : j < k => e[j] < e[k]
  BY Zenon DEF IInv, Increasing
<1>7. mid \in Nat /\ \A v \in Nat : e[1] - lo <= 2 * v => mid - lo <= v /\ e[1] - mid <= v
  <2> HIDE DEF e, lo
  <2> DEFINE w == e[1] - lo
  <2> HIDE DEF mid
  <2>1. w \in Nat /\ e[1] = lo + w /\ lo \in Nat
    <3> DEFINE h == e[1]
    <3>1. N \in Nat /\ lo \in 1 .. N + 1 /\ h \in 1 .. N + 1 /\ lo < h
      BY <1>1, Zenon
    <3> HIDE DEF h
    <3>2. h - lo \in Nat /\ h = lo + (h - lo) /\ lo \in Nat
      BY <3>1
    <3> QED BY <3>2, Zenon DEF h
  <2>2. mid = lo + w \div 2
    BY Zenon DEF mid
  <2> HIDE DEF w
  <2>3. w \div 2 \in Nat /\ \A v \in Nat : w <= 2 * v => w \div 2 <= v /\ w - w \div 2 <= v
    BY <2>1
  <2> DEFINE h == w \div 2
  <2> HIDE DEF h
  <2>4. h \in Nat /\ mid = lo + h /\ \A v \in Nat : w <= 2 * v => h <= v /\ w - h <= v
    BY <2>2, <2>3, Zenon DEF h
  <2>5. e[1] - lo = w /\ mid - lo = h /\ e[1] - mid = w - h /\ mid \in Nat
    BY <2>1, <2>4
  <2> QED BY <2>4, <2>5, Zenon
<1>8. \A v \in Nat : e[1] - lo <= 2 * v => mid - lo <= v /\ e[1] - mid <= v
  BY <1>7, Zenon
<1>9. e[1] - lo >= 2
  BY <1>1
<1> HIDE DEF e, lo, mid
<1>10. /\ Len(e) \in Nat \ {0} /\ Len(<<mid>> \o e) = Len(e) + 1
       /\ (<<mid>> \o e)[1] = mid
       /\ \A k \in 1 .. Len(e) : (<<mid>> \o e)[k + 1] = e[k]
       /\ \A k \in 1 .. Len(e) : e[k] \in 1 .. N + 1
  BY <1>1, <1>7
<1>11. e[1] - lo <= 2 ^ d
  BY <1>3, <1>5, <1>10
<1>12. d # 0
  <2>1. 2 ^ 0 = 1
    OBVIOUS
  <2>2. d = 0 => e[1] - lo <= 1
    BY <1>11, <2>1, Zenon
  <2>3. e[1] - lo \in Int
    BY <1>1
  <2> QED BY <1>9, <2>2, <2>3
<1>13. d - 1 \in Nat /\ (d - 1) + 1 = d
  BY <1>12
<1> DEFINE v == 2 ^ (d - 1)
<1>14. v \in Nat /\ 2 ^ d = 2 * v
  <2>1. v \in Nat
    BY <1>13, PowerIsCount, Zenon
  <2>2. 2 ^ ((d - 1) + 1) = 2 * v
    BY <1>13, PowerDoubles, Zenon
  <2> QED BY <1>13, <2>1, <2>2, Zenon
<1> HIDE DEF v
<1>15. mid - lo <= v /\ e[1] - mid <= v
  BY <1>8, <1>11, <1>14, Zenon
<1>16. ASSUME NEW k \in 1 .. Len(e) + 1, Left(k)' <= b, b < (<<mid>> \o e)[k]
       PROVE  (<<mid>> \o e)[k] - Left(k)' <= v
  <2>1. CASE k = 1
    BY <2>1, <1>4, <1>10, <1>15, Zenon
  <2>2. CASE k = 2
    <3>1. Left(k)' = mid /\ (<<mid>> \o e)[k] = e[1]
      <4>1. (<<mid>> \o e)[1 + 1] = e[1] /\ 1 + 1 = 2 /\ 2 - 1 = 1
        BY <1>10
      <4> QED BY <2>2, <4>1, <1>4, <1>10
    <3> QED BY <3>1, <1>15, Zenon
  <2>3. CASE k # 1 /\ k # 2
    <3>1. k - 2 \in 1 .. Len(e) /\ (k - 2) + 1 = k - 1 /\ k # 1
      BY <2>3, <1>10
    <3>2. Left(k)' = e[k - 2]
      BY <3>1, <1>4, <1>10, Zenon
    <3>3. e[1] <= e[k - 2] /\ e[k - 2] \in 1 .. N + 1 
      BY <3>1, <1>6, <1>10
    <3> QED BY <1>1, <1>5, <1>16, <3>2, <3>3
  <2> QED BY <2>1, <2>2, <2>3, Zenon
<1>17. st'.attempts + Len(<<mid>> \o e) + 2 * (d - 1) <= 2 * Depth(N) + 1
  <2> DEFINE bound == 2 * Depth(N) + 1
             a == st.attempts
             l == Len(e)
  <2>1. bound \in Int
    <3>1. N \in Nat
      BY <1>1, Zenon
    <3>2. Depth(N) \in Nat
      BY <3>1, DepthEnough, Zenon
    <3> QED BY <3>2
  <2>2. a \in Nat /\ st'.attempts = a + 1 /\ l \in Nat /\ a + l + 2 * d <= bound
    BY <1>1, <1>3, <1>10, Zenon
  <2>3. Len(<<mid>> \o e) = l + 1
    BY <1>10, Zenon
  <2> HIDE DEF bound, a, l
  <2>4. (a + 1) + (l + 1) + 2 * (d - 1) <= bound
    BY <2>1, <2>2
  <2> QED BY <2>2, <2>3, <2>4, Zenon DEF bound
<1>18. Narrowed(b, d - 1)'
  BY <1>1, <1>2, <1>10, <1>16, <1>17, Zenon DEF Narrowed, v
<1> QED BY <1>12, <1>13, <1>18, Zenon

\* Every step keeps it.
LEMMA NarrowingStep == IInv /\ Settled /\ Narrowing /\ [Next]_vars => Narrowing'
<1> SUFFICES ASSUME IInv, Settled, Narrowing, [Next]_vars,
                    NEW b \in Rows', ~faults', (Rows \ Healthy)' = {b}
             PROVE  \E d \in Nat : Narrowed(b, d)'
  BY Zenon DEF Narrowing
<1>1. CASE UNCHANGED vars
  BY <1>1, Zenon DEF vars, Narrowing, Narrowed, Left, Healthy, Rows, N
<1>2. CASE Next
  <2>1. ~faults /\ ~Finished(st) /\ UNCHANGED bundle /\ (GivesUp \/ Accepts \/ Drops \/ Halves)
    BY <1>2, CleanStep, Zenon DEF Settled
  <2>2. b \in Rows /\ Rows \ Healthy = {b}
    BY <2>1, Zenon DEF Rows, Healthy, N
  <2>3. PICK d \in Nat : Narrowed(b, d)
    BY <2>1, <2>2, Zenon DEF Narrowing
  <2>4. CASE st' \in {Return(st), Commit(st), Fail(st)}
    BY <2>1, <2>2, <2>3, <2>4, NarrowedReturn, Zenon
  <2>5. CASE Halves
    <3>1. PICK i \in Span(st) : bundle[i].kind # "healthy"
      BY <2>5, Zenon DEF Halves, Acceptable
    <3>2. i = b
      BY <2>1, <2>2, <3>1, Before, Zenon DEF Healthy
    <3>3. Hi(st) - st.lo # 1 /\ st' = Split(st)
      BY <2>5, Zenon DEF Halves
    <3>4. d - 1 \in Nat /\ Narrowed(b, d - 1)'
      BY <2>1, <2>3, <3>2, <3>3, NarrowedSplit, Zenon
    <3> QED BY <3>4, Zenon
  <2> QED BY <2>1, <2>4, <2>5, Zenon DEF GivesUp, Accepts, Drops
<1> QED BY <1>1, <1>2, Zenon

\* One row the writer rejects, among any number it accepts, costs one write for
\* the bundle and two for every halving down to the row.
THEOREM BadRowCostsLogarithm == Spec => []LogarithmicProbes
<1>1. Init => Settled /\ Narrowing
  <2> SUFFICES ASSUME Init PROVE Settled /\ Narrowing
    BY Zenon
  <2>1. N \in Nat \ {0}
    BY InitInv, Current, Zenon DEF IInv
  <2>2. st.lo = 1 /\ st.ends = <<N + 1>> /\ st.attempts = 0
    BY Zenon DEF Init, IsolateStart, Pass
  <2>3. Settled
    BY <2>1, <2>2 DEF Init, Settled, Rows, Healthy
  <2>4. Len(st.ends) = 1 /\ st.ends[1] = N + 1
    BY <2>1, <2>2
  <2>5. Depth(N) \in Nat /\ 2 ^ Depth(N) >= N
    BY <2>1, DepthEnough, Zenon
  <2>6. \A b : Narrowed(b, Depth(N))
    BY <2>1, <2>2, <2>4, <2>5 DEF Narrowed, Left
  <2> QED BY <2>3, <2>5, <2>6, Zenon DEF Narrowing
<1>2. IInv /\ Narrowing => LogarithmicProbes
  <2> SUFFICES ASSUME IInv, Narrowing, ~faults, Cardinality(Rows \ Healthy) = 1
               PROVE  st.attempts <= 2 * Depth(N) + 1
    BY Zenon DEF LogarithmicProbes
  <2>1. N \in Nat \ {0} /\ st \in Passes(N)
    BY Current, Zenon DEF IInv
  <2>2. IsFiniteSet(Rows \ Healthy)
    BY <2>1, FS_Interval, FS_Subset DEF Rows
  <2>3. PICK b : Rows \ Healthy = {b}
    BY <2>2, FS_Singleton, Zenon
  <2>4. PICK d \in Nat : Narrowed(b, d)
    BY <2>3, Zenon DEF Narrowing
  <2>5. st.attempts \in Nat /\ st.ends \in Seq(1 .. N + 1)
    BY <2>1, Zenon DEF Passes
  <2>6. Depth(N) \in Nat
    BY <2>1, DepthEnough, Zenon
  <2>7. st.attempts + Len(st.ends) + 2 * d <= 2 * Depth(N) + 1
    BY <2>4, Zenon DEF Narrowed
  <2>8. Len(st.ends) \in Nat
    BY <2>5
  <2> QED BY <2>5, <2>6, <2>7, <2>8
<1> QED
  BY <1>1, <1>2, InitInv, NextInv, SettledStep, NarrowingStep, PTL DEF Spec
===============================================================================
