------------------------------- MODULE Isolate --------------------------------
(***************************************************************************)
(* One isolate pass of the sink: a bundle failed to commit whole and is     *)
(* re-driven by bisection.  Every WriteBundle call is one step whose outcome*)
(* the writer chooses; the decision taken on it is the code's.              *)
(***************************************************************************)
EXTENDS Bisect, FiniteSets

CONSTANTS
  Bundles,      \* the bundles considered, sequences of BundleRow
  ProbeLimit,   \* isolateProbeLimit
  Unreliable    \* may a write of acceptable rows fail, or the context end?

\* What the writer does with a row: stores it, rejects it tagged ErrPoisonRow,
\* or rejects it every time with an error that carries no tag.
Kinds == {"healthy", "poison", "stubborn"}

\* overdue: NumDelivered has reached poisonRedeliveryThreshold.
BundleRow == [kind : Kinds, overdue : BOOLEAN]

ASSUME BundlesAssumption == Bundles \subseteq Seq(BundleRow) \ {<<>>}
ASSUME ProbeAssumption == ProbeLimit \in Nat \ {0}
ASSUME UnreliableAssumption == Unreliable \in BOOLEAN

VARIABLES
  bundle,     \* job.events and job.msgs
  st,         \* the pass's bookkeeping (Bisect)
  alive,      \* fctx is not done
  faults,     \* some write of acceptable rows failed, or the context ended
  stored,     \* how many times each row became durable in this pass
  ambiguous,  \* how many commits of each row landed and yet returned an error
  acked,      \* rows whose message this pass acked
  termed      \* rows whose message this pass terminated

vars == <<bundle, st, alive, faults, stored, ambiguous, acked, termed>>

N == Len(bundle)
Rows == 1 .. N

Init ==
  /\ bundle \in Bundles
  /\ st = IsolateStart(N)
  /\ alive = TRUE
  /\ faults = FALSE
  /\ stored = [i \in Rows |-> 0]
  /\ ambiguous = [i \in Rows |-> 0]
  /\ acked = {}
  /\ termed = {}
-------------------------------------------------------------------------------
\* f with one added at every row of the current range.
Bump(f) == [i \in Rows |-> IF i \in Span(st) THEN f[i] + 1 ELSE f[i]]

\* WriteBundle is one transaction: it can commit only if no row is rejected.
Acceptable == \A i \in Span(st) : bundle[i].kind = "healthy"

\* The error WriteBundle returns for a rejected range is tagged ErrPoisonRow.
Tagged == \E i \in Span(st) : bundle[i].kind = "poison"

\* isolateRange goes on to its WriteBundle call.
Probing == ~Finished(st) /\ alive /\ ~GaveUp(st, ProbeLimit)

\* Variant: a done context is not noticed.
IsolateReturnBlind ==
  /\ ~Finished(st)
  /\ GaveUp(st, ProbeLimit)
  /\ st' = Return(st)
  /\ UNCHANGED <<bundle, alive, faults, stored, ambiguous, acked, termed>>

\* The call returns before writing: the context is done, or the short-circuit.
IsolateReturn ==
  /\ ~Finished(st)
  /\ ~alive \/ GaveUp(st, ProbeLimit)
  /\ st' = Return(st)
  /\ UNCHANGED <<bundle, alive, faults, stored, ambiguous, acked, termed>>

\* Variant: a committed range acks the whole bundle.
RangeCommitsAckBundle ==
  /\ Probing
  /\ Acceptable
  /\ stored' = Bump(stored)
  /\ acked' = Rows
  /\ st' = Commit(st)
  /\ UNCHANGED <<bundle, alive, faults, ambiguous, termed>>

\* WriteBundle succeeds: count the rows, ack every message of the range.
RangeCommits ==
  /\ Probing
  /\ Acceptable
  /\ stored' = Bump(stored)
  /\ acked' = acked \cup Span(st)
  /\ st' = Commit(st)
  /\ UNCHANGED <<bundle, alive, faults, ambiguous, termed>>

\* Variants: the redelivery count alone is evidence; a tag needs a sibling too.
EvidenceByCount(tagged) == tagged \/ bundle[st.lo].overdue
EvidenceWithSibling(tagged) == st.committed > 0 /\ (tagged \/ bundle[st.lo].overdue)

\* A row that failed alone is dropped only with evidence against the row.
Evidence(tagged) == tagged \/ (st.committed > 0 /\ bundle[st.lo].overdue)

\* What isolateRange does with a failed write: a single row is terminated on
\* evidence and otherwise left for redelivery, a longer range is split.
OnError(tagged) ==
  IF Hi(st) - st.lo = 1
  THEN /\ termed' = IF Evidence(tagged) THEN termed \cup {st.lo} ELSE termed
       /\ st' = Fail(st)
  ELSE st' = Split(st) /\ UNCHANGED termed

\* The transaction rolls back because a row is rejected.
RangeRejected ==
  /\ Probing
  /\ ~Acceptable
  /\ OnError(Tagged)
  /\ UNCHANGED <<bundle, alive, faults, stored, ambiguous, acked>>

\* The transaction rolls back because the writer, the catalog or the object
\* store is unavailable.
RangeFaults ==
  /\ Probing
  /\ Unreliable
  /\ OnError(FALSE)
  /\ faults' = TRUE
  /\ UNCHANGED <<bundle, alive, stored, ambiguous, acked>>

\* COMMIT lands but its reply is lost: the rows are durable, the caller sees
\* an error.
RangeCommitsUnseen ==
  /\ Probing
  /\ Unreliable
  /\ Acceptable
  /\ stored' = Bump(stored)
  /\ ambiguous' = Bump(ambiguous)
  /\ OnError(FALSE)
  /\ faults' = TRUE
  /\ UNCHANGED <<bundle, alive, acked>>

\* FlushTimeout fires, or Run cancels the workers.
ContextEnds ==
  /\ Unreliable
  /\ alive
  /\ ~Finished(st)
  /\ alive' = FALSE
  /\ faults' = TRUE
  /\ UNCHANGED <<bundle, st, stored, ambiguous, acked, termed>>

Writes == RangeCommits \/ RangeRejected \/ RangeFaults \/ RangeCommitsUnseen

Next == IsolateReturn \/ Writes \/ ContextEnds

Spec == Init /\ [][Next]_vars

\* Every WriteBundle call returns, because fctx bounds it by FlushTimeout.
FairSpec == Spec /\ WF_vars(IsolateReturn \/ Writes)
-------------------------------------------------------------------------------
\* The types of a pass (isolateState and the stack of isolateRange): the counters and
\* edges stay within the bundle.
TypeOK ==
  /\ bundle \in Bundles
  /\ st \in Passes(N)
  /\ alive \in BOOLEAN
  /\ faults \in BOOLEAN
  /\ stored \in [Rows -> Nat]
  /\ ambiguous \in [Rows -> Nat]
  /\ acked \subseteq Rows
  /\ termed \subseteq Rows

\* isolateRange acks a message only after a commit that holds its row, however
\* the bisection got there.
AckedIsStored == \A i \in acked : stored[i] > 0

\* The bisection never writes a row twice: a row is stored more than once in a
\* pass only if commits of it landed while WriteBundle reported an error.
OncePerPass == \A i \in Rows : stored[i] <= ambiguous[i] + 1

\* A message is dropped only with evidence against its row: the writer tagged
\* it, or it is past the redelivery threshold and a sibling range committed in
\* this pass; and never a message this pass acked.
TermedOnEvidence ==
  \A i \in termed :
     /\ i \notin acked
     /\ bundle[i].kind = "poison" \/ (bundle[i].overdue /\ st.committed > 0)

Healthy == {i \in Rows : bundle[i].kind = "healthy"}
Poison == {i \in Rows : bundle[i].kind = "poison"}

\* With the writer up, a pass that did not short-circuit settles everything it
\* can: every healthy row acked, every tagged row terminated, no healthy row
\* dropped.
CompletePass ==
  (Finished(st) /\ ~faults /\ ~GaveUp(st, ProbeLimit)) =>
     /\ acked = Healthy
     /\ Poison \subseteq termed

\* With the writer up and every rejection tagged, a bundle of fewer than
\* 2^ProbeLimit rows never comes out of a pass as it went in: something is
\* acked or terminated, so the redelivered bundle is a smaller one.
SmallBundleProgress ==
  (/\ Finished(st)
   /\ ~faults
   /\ Rows = Healthy \cup Poison
   /\ N < 2 ^ ProbeLimit) => acked \cup termed # {}

\* The number of halvings that take a bundle of m rows down to single rows.
Depth(m) == CHOOSE d \in 0 .. m : 2 ^ d >= m /\ \A e \in 0 .. d - 1 : 2 ^ e < m

\* A single bad row costs O(log n) commits: one attempt for the bundle and two
\* for every halving.
LogarithmicProbes ==
  (~faults /\ Cardinality(Rows \ Healthy) = 1) =>
     st.attempts <= 2 * Depth(N) + 1

\* While nothing has committed, a pass issues at most ProbeLimit writes.
OutageProbes == st.committed = 0 => st.attempts <= ProbeLimit

\* The pass terminates, whatever the writer answers.
PassEnds == <>Finished(st)

\* The short-circuit fires only in an outage: a healthy writer commits some
\* range within the first few attempts.
ShortCircuitMeansOutage == (~Finished(st) /\ GaveUp(st, ProbeLimit)) => faults
===============================================================================
