----------------------------- MODULE BisectProofs -----------------------------
(***************************************************************************)
(* Lemmas about the bookkeeping of an isolate pass: the edges of the open   *)
(* calls increase from left to right, every range lies within the bundle,   *)
(* and the counters stay within it too.                                    *)
(***************************************************************************)
EXTENDS Bisect, TLAPS

\* The edges of the open calls increase from left to right, beyond lo.
Increasing(lo, ends) ==
  /\ \A k \in 1 .. Len(ends) : lo < ends[k]
  /\ \A j, k \in 1 .. Len(ends) : j < k => ends[j] < ends[k]

\* A returning call leaves an ordered stack whose left edge is its right one.
LEMMA PopIncreasing ==
  ASSUME NEW M \in Nat, NEW lo \in 1 .. M, NEW ends \in Seq(1 .. M),
         ends # <<>>, Increasing(lo, ends)
  PROVE  /\ Head(ends) \in 1 .. M
         /\ lo < Head(ends)
         /\ Tail(ends) \in Seq(1 .. M)
         /\ Increasing(Head(ends), Tail(ends))
<1>1. /\ Len(ends) \in Nat \ {0}
      /\ Head(ends) = ends[1]
      /\ Tail(ends) \in Seq(1 .. M)
      /\ Len(Tail(ends)) = Len(ends) - 1
  OBVIOUS
<1>2. \A k \in 1 .. Len(Tail(ends)) : Tail(ends)[k] = ends[k + 1]
  BY <1>1
<1>3. \A k \in 1 .. Len(ends) : ends[k] \in 1 .. M
  OBVIOUS
<1> QED
  BY <1>1, <1>2, <1>3 DEF Increasing

\* An edge strictly inside the current range keeps the stack ordered.
LEMMA PushIncreasing ==
  ASSUME NEW M \in Nat, NEW lo \in 1 .. M, NEW ends \in Seq(1 .. M),
         ends # <<>>, Increasing(lo, ends),
         NEW mid \in 1 .. M, lo < mid, mid < Head(ends)
  PROVE  /\ <<mid>> \o ends \in Seq(1 .. M)
         /\ Increasing(lo, <<mid>> \o ends)
<1> DEFINE new == <<mid>> \o ends
<1>1. Len(ends) \in Nat \ {0} /\ Head(ends) = ends[1]
  OBVIOUS
<1>2. \A k \in 1 .. Len(ends) : ends[k] \in 1 .. M
  OBVIOUS
<1>3. /\ new \in Seq(1 .. M)
      /\ Len(new) = Len(ends) + 1
      /\ new[1] = mid
      /\ \A k \in 1 .. Len(ends) : new[k + 1] = ends[k]
  BY <1>1
<1> HIDE DEF new
<1>4. \A k \in 1 .. Len(ends) : mid < ends[k]
  <2> SUFFICES ASSUME NEW k \in 1 .. Len(ends) PROVE mid < ends[k]
    BY Zenon
  <2>1. ends[1] = ends[k] \/ ends[1] < ends[k]
    BY <1>1 DEF Increasing
  <2> QED
    BY <2>1, <1>1, <1>2
<1>5. ASSUME NEW k \in 1 .. Len(ends) + 1
      PROVE  k = 1 \/ (k - 1 \in 1 .. Len(ends) /\ new[k] = ends[k - 1])
  <2>1. k = 1 \/ (k - 1 \in 1 .. Len(ends) /\ k = (k - 1) + 1)
    BY <1>1
  <2> QED
    BY <2>1, <1>3, Zenon
<1>6. ASSUME NEW k \in 1 .. Len(ends) + 1
      PROVE  lo < new[k]
  BY <1>3, <1>5, Zenon DEF Increasing
<1>7. ASSUME NEW j \in 1 .. Len(ends) + 1, NEW k \in 1 .. Len(ends) + 1, j < k
      PROVE  new[j] < new[k]
  <2>1. k - 1 \in 1 .. Len(ends) /\ new[k] = ends[k - 1]
    <3>1. k # 1
      BY <1>1, <1>7
    <3> QED
      BY <3>1, <1>5, Zenon
  <2>2. CASE j = 1
    BY <2>1, <2>2, <1>3, <1>4, Zenon
  <2>3. CASE j # 1
    <3>1. j - 1 \in 1 .. Len(ends) /\ new[j] = ends[j - 1]
      BY <2>3, <1>5, Zenon
    <3>2. j - 1 < k - 1
      BY <1>1, <1>7
    <3> QED
      BY <2>1, <3>1, <3>2, Zenon DEF Increasing
  <2> QED
    BY <2>2, <2>3, Zenon
<1> QED
  BY <1>3, <1>6, <1>7, Zenon DEF Increasing, new

\* The midpoint of a range of two rows or more lies strictly inside it.
LEMMA Midpoint ==
  ASSUME NEW lo \in Nat, NEW hi \in Nat, lo < hi, hi - lo # 1
  PROVE  /\ lo + (hi - lo) \div 2 \in Nat
         /\ lo < lo + (hi - lo) \div 2
         /\ lo + (hi - lo) \div 2 < hi
<1> DEFINE d == hi - lo
<1>1. d \in Nat /\ d >= 2
  OBVIOUS
<1> HIDE DEF d
<1>2. d \div 2 \in Nat /\ 0 < d \div 2 /\ d \div 2 < d
  BY <1>1
<1> QED
  BY <1>1, <1>2 DEF d

\* The current call of a pass over n rows, as numbers: it covers rows of the
\* bundle, and at least one.
LEMMA OpenCall ==
  ASSUME NEW n \in Nat, NEW p \in Passes(n), Increasing(p.lo, p.ends), ~Finished(p)
  PROVE  /\ p.lo \in 1 .. n + 1
         /\ Hi(p) \in 1 .. n + 1
         /\ p.lo < Hi(p)
         /\ p.ends \in Seq(1 .. n + 1)
         /\ p.ends # <<>>
         /\ Tail(p.ends) \in Seq(1 .. n + 1)
         /\ Increasing(Hi(p), Tail(p.ends))
         /\ p.committed \in 0 .. n
         /\ p.attempts \in Nat
         /\ Span(p) \subseteq 1 .. n
<1>1. /\ p.lo \in 1 .. n + 1
      /\ p.ends \in Seq(1 .. n + 1)
      /\ p.committed \in 0 .. n
      /\ p.attempts \in Nat
  BY Zenon DEF Passes
<1>2. p.ends # <<>> /\ n + 1 \in Nat
  BY DEF Finished
<1>3. /\ Hi(p) \in 1 .. n + 1
      /\ p.lo < Hi(p)
      /\ Tail(p.ends) \in Seq(1 .. n + 1)
      /\ Increasing(Hi(p), Tail(p.ends))
  BY <1>1, <1>2, PopIncreasing, Zenon DEF Hi
<1>4. Span(p) \subseteq 1 .. n
  BY <1>1, <1>3 DEF Span
<1> QED
  BY <1>1, <1>2, <1>3, <1>4, Zenon

\* The bookkeeping after the current call returns: the three ways to return
\* differ only in the counters.
LEMMA ReturnFields ==
  ASSUME NEW n \in Nat, NEW p \in Passes(n), Increasing(p.lo, p.ends), ~Finished(p),
         p.committed < p.lo,
         NEW s, s \in {Return(p), Fail(p), Commit(p)}
  PROVE  /\ s \in Passes(n)
         /\ s.lo = Hi(p)
         /\ s.ends = Tail(p.ends)
         /\ Increasing(s.lo, s.ends)
         /\ s.committed < s.lo
         /\ s.committed >= p.committed
         /\ s # Commit(p) => s.committed = p.committed
<1>1. /\ p.lo \in 1 .. n + 1
      /\ Hi(p) \in 1 .. n + 1
      /\ p.lo < Hi(p)
      /\ Tail(p.ends) \in Seq(1 .. n + 1)
      /\ Increasing(Hi(p), Tail(p.ends))
      /\ p.committed \in 0 .. n
      /\ p.attempts \in Nat
  BY OpenCall, Zenon
<1>2. ASSUME NEW c \in 0 .. n, NEW a \in Nat, c < Hi(p), c >= p.committed,
             s = Pass(Hi(p), Tail(p.ends), c, a)
      PROVE  /\ s \in Passes(n)
             /\ s.lo = Hi(p)
             /\ s.ends = Tail(p.ends)
             /\ Increasing(s.lo, s.ends)
             /\ s.committed < s.lo
             /\ s.committed >= p.committed
             /\ s.committed = c
  BY <1>1, <1>2, Zenon DEF Pass, Passes
<1>3. CASE s = Return(p)
  BY <1>1, <1>2, <1>3 DEF Return
<1>4. CASE s = Fail(p)
  BY <1>1, <1>2, <1>4 DEF Fail
<1>5. CASE s = Commit(p)
  <2> DEFINE c == p.committed + (Hi(p) - p.lo)
  <2>1. c \in 0 .. n /\ c < Hi(p) /\ c >= p.committed /\ p.attempts + 1 \in Nat
    BY <1>1
  <2>2. s = Pass(Hi(p), Tail(p.ends), c, p.attempts + 1)
    BY <1>5, Zenon DEF Commit
  <2> HIDE DEF c
  <2> QED
    BY <1>2, <1>5, <2>1, <2>2, Zenon
<1> QED
  BY <1>3, <1>4, <1>5, Zenon

\* The bookkeeping after a range is split.
LEMMA SplitFields ==
  ASSUME NEW n \in Nat, NEW p \in Passes(n), Increasing(p.lo, p.ends), ~Finished(p),
         Hi(p) - p.lo # 1
  PROVE  /\ Split(p) \in Passes(n)
         /\ Split(p).lo = p.lo
         /\ Split(p).committed = p.committed
         /\ Increasing(p.lo, Split(p).ends)
<1> DEFINE mid == p.lo + (Hi(p) - p.lo) \div 2
<1>1. /\ p.lo \in 1 .. n + 1
      /\ Hi(p) \in 1 .. n + 1
      /\ p.lo < Hi(p)
      /\ p.ends \in Seq(1 .. n + 1)
      /\ p.ends # <<>>
      /\ p.committed \in 0 .. n
      /\ p.attempts \in Nat
  BY OpenCall, Zenon
<1>2. mid \in Nat /\ p.lo < mid /\ mid < Hi(p)
  BY <1>1, Midpoint
<1>3. Split(p) = Pass(p.lo, <<mid>> \o p.ends, p.committed, p.attempts + 1)
  BY Zenon DEF Split
<1> HIDE DEF mid
<1>4. mid \in 1 .. n + 1 /\ n + 1 \in Nat
  BY <1>1, <1>2
<1>5. /\ <<mid>> \o p.ends \in Seq(1 .. n + 1)
      /\ Increasing(p.lo, <<mid>> \o p.ends)
  BY <1>1, <1>2, <1>4, PushIncreasing, Zenon DEF Hi
<1> QED
  BY <1>1, <1>3, <1>5 DEF Pass, Passes

\* The bookkeeping at the start of a pass over a bundle that is not empty.
LEMMA StartFields ==
  ASSUME NEW n \in Nat \ {0}
  PROVE  /\ IsolateStart(n) \in Passes(n)
         /\ IsolateStart(n).lo = 1
         /\ IsolateStart(n).committed = 0
         /\ Increasing(IsolateStart(n).lo, IsolateStart(n).ends)
<1>1. <<n + 1>> \in Seq(1 .. n + 1) /\ Len(<<n + 1>>) = 1 /\ <<n + 1>>[1] = n + 1
  OBVIOUS
<1> QED
  BY <1>1 DEF IsolateStart, Pass, Passes, Increasing
===============================================================================
