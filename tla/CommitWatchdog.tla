---------------------------- MODULE CommitWatchdog ----------------------------
(***************************************************************************)
(* The zero-progress watchdog of the sink: every flush worker that fails to *)
(* commit a bundle reads the clock, loads commitFailFirst, and either opens *)
(* the streak or, if the streak spans CommitFailureWindow, posts to fatal;  *)
(* every commit clears the streak.  The workers share nothing but the two   *)
(* atomics, so their steps interleave freely.                               *)
(*                                                                         *)
(* Instants are kept as ages: how long ago the streak began, how long ago a *)
(* worker read the clock, how long ago something was last committed.        *)
(***************************************************************************)
EXTENDS Integers

CONSTANTS
  Flusher,  \* the flush workers
  Window,   \* CommitFailureWindow
  MaxLag    \* bound: how long a worker may be held up between two adjacent statements

ASSUME WatchdogAssumption ==
  /\ Window \in Nat \ {0}
  /\ MaxLag \in Nat

\* Ages above Horizon cannot be told apart from it by the code.
Horizon == Window + MaxLag

None == -1

VARIABLES
  broken,           \* the pinned connections are poisoned: every write fails
  commitFailFirst,  \* None, or the age of the streak's first failure
  fatal,            \* the fatal channel holds an error
  running,          \* Run has not returned
  sinceCommit,      \* the age of the last commit of any worker
  pc,               \* where each worker stands
  now,              \* the age of a worker's clock reading, or of its latest commit
  first             \* commitFailFirst as recordCommitFailure loaded it (age)

watchdogVars == <<broken, commitFailFirst, fatal, running, sinceCommit, pc, now, first>>

WatchdogInit ==
  /\ broken = FALSE
  /\ commitFailFirst = None
  /\ fatal = FALSE
  /\ running = TRUE
  /\ sinceCommit = 0
  /\ pc = [w \in Flusher |-> "idle"]
  /\ now = [w \in Flusher |-> 0]
  /\ first = [w \in Flusher |-> None]

Goto(w, label) == pc' = [pc EXCEPT ![w] = label]
-------------------------------------------------------------------------------
\* The whole bundle commits; the streak is cleared next.
FlushCommits(w) ==
  /\ running /\ pc[w] = "idle"
  /\ ~broken
  /\ sinceCommit' = 0
  /\ now' = [now EXCEPT ![w] = 0]
  /\ Goto(w, "clearAll")
  /\ UNCHANGED <<broken, commitFailFirst, fatal, running, first>>

\* WriteBundle fails, because the writer is broken or because the bundle holds
\* a row it rejects; recordCommitFailure reads the clock.
FlushFails(w) ==
  /\ running /\ pc[w] = "idle"
  /\ now' = [now EXCEPT ![w] = 0]
  /\ Goto(w, "load")
  /\ UNCHANGED <<broken, commitFailFirst, fatal, running, sinceCommit, first>>

\* Variant: a streak that has not begun is compared too.
LoadFirstUnchecked(w) ==
  /\ pc[w] = "load"
  /\ first' = [first EXCEPT ![w] = commitFailFirst]
  /\ Goto(w, "compare")
  /\ UNCHANGED <<broken, commitFailFirst, fatal, running, sinceCommit, now>>

LoadFirst(w) ==
  /\ pc[w] = "load"
  /\ first' = [first EXCEPT ![w] = commitFailFirst]
  /\ Goto(w, IF commitFailFirst = None THEN "swap" ELSE "compare")
  /\ UNCHANGED <<broken, commitFailFirst, fatal, running, sinceCommit, now>>

\* CompareAndSwap(0, now): the streak begins at the reading of the clock.
SwapFirst(w) ==
  /\ pc[w] = "swap"
  /\ commitFailFirst' = IF commitFailFirst = None THEN now[w] ELSE commitFailFirst
  /\ Goto(w, "isolate")
  /\ UNCHANGED <<broken, fatal, running, sinceCommit, now, first>>

\* Variant: a streak of any length is enough.
SpansAny(w) == first[w] - now[w] > 0

\* The streak, as loaded, spans the window at the reading of the clock.
Spans(w) == first[w] - now[w] >= Window

CompareFirst(w) ==
  /\ pc[w] = "compare"
  /\ fatal' = (fatal \/ Spans(w))
  /\ Goto(w, "isolate")
  /\ UNCHANGED <<broken, commitFailFirst, running, sinceCommit, now, first>>

\* isolate: some range of the bundle commits, or none does (the writer is broken,
\* the flush timed out, or every row of the bundle is one it rejects).
IsolateCommits(w) ==
  /\ pc[w] = "isolate"
  /\ ~broken
  /\ sinceCommit' = 0
  /\ now' = [now EXCEPT ![w] = 0]
  /\ Goto(w, "clearRange")
  /\ UNCHANGED <<broken, commitFailFirst, fatal, running, first>>

IsolateEnds(w) ==
  /\ pc[w] = "isolate"
  /\ Goto(w, "idle")
  /\ UNCHANGED <<broken, commitFailFirst, fatal, running, sinceCommit, now, first>>

\* Variant: the streak survives an isolated commit.
ClearStreakWhole(w) ==
  /\ pc[w] \in {"clearAll", "clearRange"}
  /\ commitFailFirst' = IF pc[w] = "clearAll" THEN None ELSE commitFailFirst
  /\ Goto(w, IF pc[w] = "clearAll" THEN "idle" ELSE "isolate")
  /\ UNCHANGED <<broken, fatal, running, sinceCommit, now, first>>

\* commitFailFirst.Store(0), after a bundle or after a range of one.
ClearStreak(w) ==
  /\ pc[w] \in {"clearAll", "clearRange"}
  /\ commitFailFirst' = None
  /\ Goto(w, IF pc[w] = "clearAll" THEN "idle" ELSE "isolate")
  /\ UNCHANGED <<broken, fatal, running, sinceCommit, now, first>>

Record(w) == LoadFirst(w) \/ SwapFirst(w) \/ CompareFirst(w)

Flush(w) ==
  \/ FlushCommits(w) \/ FlushFails(w) \/ Record(w)
  \/ IsolateCommits(w) \/ IsolateEnds(w) \/ ClearStreak(w)

\* A catalog failover poisons the pinned connections; only a restart heals them.
Break ==
  /\ running /\ ~broken
  /\ broken' = TRUE
  /\ UNCHANGED <<commitFailFirst, fatal, running, sinceCommit, pc, now, first>>

\* Variant: Run does not listen to fatal.
RunFatalDeaf == FALSE

\* Run receives the error, stops the workers and returns.
RunFatal ==
  /\ running /\ fatal
  /\ running' = FALSE
  /\ fatal' = FALSE
  /\ UNCHANGED <<broken, commitFailFirst, sinceCommit, pc, now, first>>

\* The pod restarts with fresh connections.
Restart ==
  /\ ~running
  /\ \A w \in Flusher : pc[w] = "idle"
  /\ broken' = FALSE /\ running' = TRUE
  /\ commitFailFirst' = None /\ fatal' = FALSE
  /\ first' = [w \in Flusher |-> None]
  /\ now' = [w \in Flusher |-> 0]
  /\ UNCHANGED <<sinceCommit, pc>>

Older(age) == IF age = None \/ age = Horizon THEN age ELSE age + 1

Recording(w) == pc[w] \in {"load", "swap", "compare"}
Clearing(w) == pc[w] \in {"clearAll", "clearRange"}
Urgent(w) == Recording(w) \/ Clearing(w)

\* Time passes, but holds up no worker for longer than MaxLag.
Tick ==
  /\ \A w \in Flusher : Urgent(w) => now[w] < MaxLag
  /\ commitFailFirst' = Older(commitFailFirst)
  /\ sinceCommit' = Older(sinceCommit)
  /\ now' = [w \in Flusher |-> IF Urgent(w) THEN now[w] + 1 ELSE 0]
  /\ first' = [w \in Flusher |-> IF Recording(w) THEN Older(first[w]) ELSE None]
  /\ UNCHANGED <<broken, fatal, running, pc>>

WatchdogNext ==
  \/ \E w \in Flusher : Flush(w)
  \/ Break \/ RunFatal \/ Restart \/ Tick

WatchdogSpec == WatchdogInit /\ [][WatchdogNext]_watchdogVars

\* Time passes, every goroutine is scheduled, a stopped pod is restarted, and
\* unacked messages are redelivered, so that a worker always has a next bundle.
WatchdogFairSpec ==
  /\ WatchdogSpec
  /\ WF_watchdogVars(Tick) /\ WF_watchdogVars(RunFatal) /\ WF_watchdogVars(Restart)
  /\ \A w \in Flusher : WF_watchdogVars(Flush(w))
-------------------------------------------------------------------------------
Ages == 0 .. Horizon

\* The types of recordCommitFailure's state; a worker compares only with a streak it
\* has loaded.
WatchdogTypeOK ==
  /\ broken \in BOOLEAN /\ fatal \in BOOLEAN /\ running \in BOOLEAN
  /\ commitFailFirst \in Ages \cup {None}
  /\ sinceCommit \in Ages
  /\ pc \in [Flusher -> {"idle", "load", "swap", "compare", "isolate", "clearAll",
                        "clearRange"}]
  /\ now \in [Flusher -> 0 .. MaxLag]
  /\ first \in [Flusher -> Ages \cup {None}]
  /\ \A w \in Flusher : pc[w] = "compare" => first[w] # None

\* The streak is never older than the last commit by more than the time a worker
\* takes to act on its clock reading, unless a commit is about to clear it.
StreakIsRecent ==
  (commitFailFirst # None /\ \A w \in Flusher : ~Clearing(w)) =>
     commitFailFirst <= sinceCommit + MaxLag

\* When recordCommitFailure posts to fatal, nothing has been committed for
\* CommitFailureWindow, as the posted error says: what the workers' races may
\* hide is a commit of this very moment, or MaxLag of the window.
FatalMeansStarved ==
  [][fatal' /\ ~fatal =>
       sinceCommit >= Window - MaxLag \/ sinceCommit <= 2 * MaxLag]_watchdogVars

\* A writer whose connections are durably broken is replaced: the failures add
\* up to a fatal post, Run returns and the pod re-pins its connections.
BrokenIsReplaced == broken ~> ~broken

\* A poison-heavy but healthy period never trips a restart: fatal is posted only
\* if the writer is broken.
HealthyNeverTrips == fatal => broken
===============================================================================
