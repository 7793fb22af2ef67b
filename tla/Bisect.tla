-------------------------------- MODULE Bisect --------------------------------
(***************************************************************************)
(* The bookkeeping of one isolate pass over a bundle of n rows: the range   *)
(* under consideration, the ranges still to visit, and the two counters of  *)
(* isolateState.  The recursion of isolateRange visits contiguous ranges    *)
(* from left to right, so its call stack is a left edge lo and the sequence *)
(* ends of the right edges (exclusive) of the calls that have not returned: *)
(* the current range is lo .. Head(ends) - 1.  Rows are numbered from 1.    *)
(***************************************************************************)
EXTENDS Integers, Sequences

Pass(lo, ends, committed, attempts) ==
  [lo |-> lo, ends |-> ends, committed |-> committed, attempts |-> attempts]

Passes(n) ==
  [lo : 1 .. n + 1, ends : Seq(1 .. n + 1), committed : 0 .. n, attempts : Nat]

AnyPass == [lo : Nat, ends : Seq(Nat), committed : Nat, attempts : Nat]

\* Variant: the first call covers one row too many.
IsolateStartLong(n) == Pass(1, <<n + 2>>, 0, 0)

\* The state in which isolate calls isolateRange over the whole bundle.
IsolateStart(n) == Pass(1, <<n + 1>>, 0, 0)

\* Every call has returned.
Finished(st) == st.ends = <<>>

Hi(st) == Head(st.ends)

Span(st) == st.lo .. Hi(st) - 1

\* Variants: one attempt too many, one too few.
GaveUpLate(st, limit) == st.committed = 0 /\ st.attempts > limit
GaveUpEarly(st, limit) == st.committed = 0 /\ st.attempts >= limit - 1

\* The global-fault short-circuit: limit write attempts, nothing committed.
GaveUp(st, limit) == st.committed = 0 /\ st.attempts >= limit

\* The current call returns without writing; the next starts where it ended.
Return(st) == Pass(Hi(st), Tail(st.ends), st.committed, st.attempts)

\* Variants: the rows are counted as lo - hi; the next call starts at lo again.
CommitNegative(st) ==
  Pass(Hi(st), Tail(st.ends), st.committed + (st.lo - Hi(st)), st.attempts + 1)
CommitRepeats(st) ==
  Pass(st.lo, Tail(st.ends), st.committed + (Hi(st) - st.lo), st.attempts + 1)

\* The range committed whole, and the call returns.
Commit(st) ==
  Pass(Hi(st), Tail(st.ends), st.committed + (Hi(st) - st.lo), st.attempts + 1)

\* The range failed and is a single row: the call returns.
Fail(st) == Pass(Hi(st), Tail(st.ends), st.committed, st.attempts + 1)

\* Variant: one row is split off at a time.
SplitOne(st) == Pass(st.lo, <<st.lo + 1>> \o st.ends, st.committed, st.attempts + 1)

\* The range failed and has more rows: left half first, then right.
Split(st) ==
  LET mid == st.lo + (Hi(st) - st.lo) \div 2
  IN  Pass(st.lo, <<mid>> \o st.ends, st.committed, st.attempts + 1)
===============================================================================
