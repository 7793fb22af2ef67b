---------------------------- MODULE LakeLayout ----------------------------
(***************************************************************************)
(* The layout of raw_events and the backfill that drops it for a while.    *)
(* Pods boot (ensureSchema) and the maintainer re-asserts the layout every *)
(* cycle, each by reading first and altering later.  A backfill pauses     *)
(* that with a heartbeat, drops the partitioning, registers the listed     *)
(* files in batches and restores it; it may fail, or be killed, anywhere.  *)
(***************************************************************************)
EXTENDS Integers, Sequences, FiniteSets

CONSTANTS
    Pods, Maintainers,      \* all pods, and those that run maintenance cycles
    Listing,                \* the listed files, a sequence of files per prefix
    Batch,                  \* files per registering transaction
    Staleness,              \* backfillPauseStaleness
    MaxRuns, MaxFaults      \* bounds: backfill runs; errors and crashes

VARIABLES
    exists, part, sort,     \* the table, and the two specs of its layout
    pause,                  \* the age of the heartbeat row, None without one
    pc, need,               \* each pod's place, and the specs it found missing
    open,                   \* pods whose lake.Open has returned
    job,                    \* the backfill's place
    existing, prefix, todo, \* its idempotence set, its prefix and files left there
    altered,                \* the table was altered since its BEGIN
    complete,               \* its last run returned without an error
    rows, tracked, merged,  \* how often a file's rows are in the table, the files
                            \* list_files shows, and those merged into others
    runs, faults

None == -1

table == <<exists, part, sort>>
podVars == <<pc, need, open>>
jobVars == <<job, existing, prefix, todo, altered, complete>>
dataVars == <<rows, tracked, merged>>
vars == <<table, pause, podVars, jobVars, dataVars, runs, faults>>

Range(s) == {s[i] : i \in DOMAIN s}
Files == UNION {Range(Listing[i]) : i \in DOMAIN Listing}

\* groupParquetByPrefix puts every listed file under its parent prefix, and
\* only there; the listing of the object store names no key twice.
Configured ==
    /\ Listing \in Seq(Seq(Files))
    /\ \A i, j \in DOMAIN Listing : i # j => Range(Listing[i]) \cap Range(Listing[j]) = {}
    /\ \A i \in DOMAIN Listing : \A m, n \in DOMAIN Listing[i] :
          m # n => Listing[i][m] # Listing[i][n]

Init ==
    /\ exists \in BOOLEAN /\ part = exists /\ sort = exists
    /\ pause = None
    /\ pc = [p \in Pods |-> "boot"] /\ need = [p \in Pods |-> {}] /\ open = {}
    /\ job = "off" /\ existing = {} /\ prefix = 0 /\ todo = {}
    /\ altered = FALSE /\ complete = FALSE
    /\ rows = [f \in Files |-> 0] /\ tracked = {} /\ merged = {}
    /\ runs = 0 /\ faults = 0

Fault == faults < MaxFaults /\ faults' = faults + 1

-----------------------------------------------------------------------------
\* The pods.

Go(p, place) == pc' = [pc EXCEPT ![p] = place]

\* Variant: a heartbeat is honoured for ever.
pausePresent == pause # None

\* backfillPauseActive: the row exists and is fresh.
backfillPauseActive == pause # None /\ pause < Staleness

\* tryEnsureSchema: the existence check.
tryEnsureSchema(p) ==
    /\ pc[p] = "boot"
    /\ Go(p, IF exists THEN "pause" ELSE "create")
    /\ UNCHANGED <<table, pause, need, open, jobVars, dataVars, runs, faults>>

\* The first statement of rawEventsDDL; the layout follows, spec by spec.
Create(p) ==
    /\ pc[p] = "create"
    /\ exists' = TRUE
    /\ Go(p, "alter")
    /\ need' = [need EXCEPT ![p] = {"part", "sort"}]
    /\ UNCHANGED <<part, sort, pause, open, jobVars, dataVars, runs, faults>>

\* Done with the layout: a boot is over, a cycle goes on to merge.
Settled(p) ==
    /\ Go(p, IF p \in open THEN "merge" ELSE "idle")
    /\ open' = open \cup {p}

\* reassertLayout, its first read: skip while a backfill is at work.  An error
\* of the read counts as no pause.
CheckPause(p) ==
    /\ pc[p] = "pause"
    /\ \/ backfillPauseActive /\ Settled(p) /\ UNCHANGED faults
       \/ ~backfillPauseActive /\ Go(p, "look") /\ UNCHANGED <<open, faults>>
       \/ Go(p, "look") /\ Fault /\ UNCHANGED open
    /\ UNCHANGED <<table, pause, need, jobVars, dataVars, runs>>

\* reassertLayout, its second and third: isPartitioned and isSorted, of which an
\* error counts as missing.
Look(p) ==
    /\ \/ /\ pc[p] = "look" /\ Go(p, "lookSort")
          /\ \/ need' = [need EXCEPT ![p] = IF part THEN {} ELSE {"part"}] /\ UNCHANGED faults
             \/ need' = [need EXCEPT ![p] = {"part"}] /\ Fault
       \/ /\ pc[p] = "lookSort" /\ Go(p, "alter")
          /\ \/ need' = [need EXCEPT ![p] = @ \cup IF sort THEN {} ELSE {"sort"}] /\ UNCHANGED faults
             \/ need' = [need EXCEPT ![p] = @ \cup {"sort"}] /\ Fault
    /\ UNCHANGED <<table, pause, open, jobVars, dataVars, runs>>

\* The ALTERs of what was missing, each its own commit, the partitioning first.
Alter(p) ==
    /\ pc[p] = "alter"
    /\ IF need[p] = {} THEN Settled(p) /\ UNCHANGED <<part, sort, need, altered>>
       ELSE LET spec == IF "part" \in need[p] THEN "part" ELSE "sort" IN
            /\ part' = (part \/ spec = "part")
            /\ sort' = (sort \/ spec = "sort")
            /\ altered' = (altered \/ job = "commit")
            /\ need' = [need EXCEPT ![p] = @ \ {spec}]
            /\ UNCHANGED <<pc, open>>
    /\ UNCHANGED <<exists, pause, job, existing, prefix, todo, complete, dataVars, runs, faults>>

\* A statement loses a commit race: retryCatalog starts over, at last it gives
\* up, on which a boot dies (and is restarted) and a cycle goes on.
Refused(p) ==
    /\ pc[p] \in {"boot", "create", "alter"} /\ Fault
    /\ IF p \in open THEN \E place \in {"pause", "merge"} : Go(p, place) ELSE Go(p, "boot")
    /\ need' = [need EXCEPT ![p] = {}]
    /\ UNCHANGED <<table, pause, open, jobVars, dataVars, runs>>

\* The ticker of the maintainer starts a Cycle.
StartCycle(p) ==
    /\ p \in Maintainers /\ pc[p] = "idle"
    /\ Go(p, "pause")
    /\ UNCHANGED <<table, pause, need, open, jobVars, dataVars, runs, faults>>

\* The cycle's merge rewrites tracked files into others.
MergeFiles(p) ==
    /\ pc[p] = "merge"
    /\ \E S \in SUBSET tracked : Cardinality(S) # 1 /\ tracked' = tracked \ S /\ merged' = merged \cup S
    /\ Go(p, "idle")
    /\ UNCHANGED <<table, pause, need, open, jobVars, rows, runs, faults>>

PodCrash(p) ==
    /\ Fault
    /\ Go(p, "boot") /\ open' = open \ {p}
    /\ need' = [need EXCEPT ![p] = {}]
    /\ UNCHANGED <<table, pause, jobVars, dataVars, runs>>

PodStep(p) ==
    \/ tryEnsureSchema(p) \/ Create(p) \/ CheckPause(p) \/ Look(p) \/ Alter(p)
    \/ StartCycle(p) \/ MergeFiles(p)

-----------------------------------------------------------------------------
\* The backfill.

\* A run starts (its own lake.Open has found or made the table) and reads
\* registeredFiles once.
Backfill ==
    /\ job = "off" /\ exists /\ runs < MaxRuns
    /\ runs' = runs + 1
    /\ existing' = tracked
    /\ job' = "pause" /\ prefix' = 1 /\ todo' = {} /\ complete' = FALSE
    /\ UNCHANGED <<table, pause, podVars, altered, dataVars, faults>>

\* The run is over, its variables are gone.
Gone == job' = "off" /\ existing' = {} /\ prefix' = 0 /\ todo' = {} /\ altered' = FALSE

\* heartbeatBackfillPause: its failure ends the run before the RESET, later it
\* is only logged.
heartbeatBackfillPause ==
    /\ job \in {"pause", "beat"}
    /\ \/ /\ pause' = 0
          /\ job' = (IF job = "pause" THEN "reset" ELSE "call")
          /\ UNCHANGED <<existing, prefix, todo, altered, faults>>
       \/ /\ Fault /\ UNCHANGED pause
          /\ IF job = "pause" THEN Gone
             ELSE job' = "call" /\ UNCHANGED <<existing, prefix, todo, altered>>
    /\ UNCHANGED <<table, podVars, complete, dataVars, runs>>

\* RESET PARTITIONED BY.
Reset ==
    /\ job = "reset"
    /\ \/ part' = FALSE /\ job' = "next" /\ UNCHANGED faults
       \/ Fault /\ job' = "clear" /\ UNCHANGED part
    /\ UNCHANGED <<exists, sort, pause, podVars, existing, prefix, todo, altered, complete, dataVars, runs>>

\* Variant: a prefix that is registered in part is registered again as a whole.
wholePrefix(group) ==
    IF Range(group) \subseteq existing THEN {} ELSE Range(group)

\* The files of a prefix that the catalog did not track.
newFiles(group) == Range(group) \ existing

\* The next prefix that has new files.
NextPrefix ==
    /\ job = "next"
    /\ IF prefix > Len(Listing)
       THEN job' = "restore" /\ complete' = TRUE /\ UNCHANGED <<prefix, todo>>
       ELSE /\ todo' = newFiles(Listing[prefix])
            /\ prefix' = prefix + 1
            /\ job' = IF todo' = {} THEN "next" ELSE "beat"
            /\ UNCHANGED complete
    /\ UNCHANGED <<table, pause, podVars, existing, altered, dataVars, runs, faults>>

\* BEGIN and ducklake_add_data_files, which a partitioned table refuses.
AddDataFiles ==
    /\ job = "call"
    /\ altered' = FALSE
    /\ \/ ~part /\ job' = "commit" /\ UNCHANGED faults
       \/ part /\ job' = "restore" /\ UNCHANGED faults
       \/ Fault /\ job' = "restore"
    /\ UNCHANGED <<table, pause, podVars, existing, prefix, todo, complete, dataVars, runs>>

\* The files of one transaction: Batch of them, or all that are left.  Which ones
\* go first is the listing's order, that no property sees.
Batches == {b \in SUBSET todo : Cardinality(b) = Batch \/ (b = todo /\ Cardinality(b) < Batch)}

Registered(batch) ==
    /\ rows' = [f \in Files |-> IF f \in batch THEN rows[f] + 1 ELSE rows[f]]
    /\ tracked' = tracked \cup batch

\* COMMIT of one batch of registerListed or registerFiles.  It may fail, for one
\* because the table was altered since BEGIN, and a failure may come after the
\* commit took effect.
Commit ==
    /\ job = "commit"
    /\ \/ /\ \E batch \in Batches : Registered(batch) /\ todo' = todo \ batch
          /\ job' = (IF todo' = {} THEN "next" ELSE "beat")
          /\ UNCHANGED faults
       \/ altered /\ job' = "restore" /\ UNCHANGED <<rows, tracked, todo, faults>>
       \/ /\ Fault /\ job' = "restore"
          /\ ((\E batch \in Batches : Registered(batch)) \/ UNCHANGED <<rows, tracked>>)
          /\ UNCHANGED todo
    /\ UNCHANGED <<table, pause, podVars, existing, prefix, altered, complete, merged, runs>>

\* The deferred calls, in this order: the partitioning comes back (an error is
\* only logged), then the pause is cleared (an error is dropped).
Restore ==
    /\ job = "restore" /\ job' = "clear"
    /\ \/ part' = TRUE /\ UNCHANGED faults
       \/ Fault /\ UNCHANGED part
    /\ UNCHANGED <<exists, sort, pause, podVars, existing, prefix, todo, altered, complete, dataVars, runs>>

clearBackfillPause ==
    /\ job = "clear" /\ Gone
    /\ \/ pause' = None /\ UNCHANGED faults
       \/ Fault /\ UNCHANGED pause
    /\ UNCHANGED <<table, podVars, complete, dataVars, runs>>

\* The backfill is killed: no deferred call runs, an open transaction is undone.
Kill ==
    /\ job # "off" /\ Fault
    /\ Gone /\ complete' = FALSE
    /\ UNCHANGED <<table, pause, podVars, dataVars, runs>>

JobStep ==
    \/ heartbeatBackfillPause \/ Reset \/ NextPrefix \/ AddDataFiles \/ Commit
    \/ Restore \/ clearBackfillPause

\* Time passes.
Tick ==
    /\ pause # None /\ pause < Staleness
    /\ pause' = pause + 1
    /\ UNCHANGED <<table, podVars, jobVars, dataVars, runs, faults>>

Next ==
    \/ \E p \in Pods : PodStep(p) \/ Refused(p) \/ PodCrash(p)
    \/ Backfill \/ JobStep \/ Kill \/ Tick

\* Pods and the backfill run, the clock ticks; runs, errors and crashes need not
\* happen.
Fairness ==
    /\ \A p \in Pods : WF_vars(PodStep(p))
    /\ WF_vars(JobStep) /\ WF_vars(Tick)

Spec == Init /\ [][Next]_vars /\ Fairness

-----------------------------------------------------------------------------
\* Backfill is exact over any number of failed, killed and repeated runs: after
\* a run that returned nil every listed file's rows are in the table, and a
\* file's rows are in it twice only if a merge had taken the file out of
\* list_files, the one case its idempotence set does not cover.
BackfillExact ==
    /\ complete => \A f \in Files : rows[f] >= 1
    /\ \A f \in Files : rows[f] > 1 => f \in merged

\* With no backfill at work the table gets its whole layout (back), whatever
\* the last run, the boots and the cycles left: the heartbeat of a killed run
\* goes stale and reassertLayout repairs what it finds missing.
LayoutRestored == job = "off" ~> (part /\ sort) \/ job # "off"
============================================================================
