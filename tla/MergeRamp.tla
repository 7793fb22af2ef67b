----------------------------- MODULE MergeRamp -----------------------------
(***************************************************************************)
(* How many files one merge call of the maintainer rewrites.  The cap      *)
(* starts small in every process, doubles with every call that commits up  *)
(* to a ceiling sized to the memory, and is halved when DuckDB runs out of *)
(* memory; a call beyond what the container has kills the process.  Cycles *)
(* that fail four times in a row make the process restart itself.          *)
(***************************************************************************)
EXTENDS Integers

CONSTANTS
    Pins, Budgets, Averages,  \* MergeMaxFilesPerCall, the memory budget, and the
                              \* average file sizes a cycle may read (0: no value)
    Fits,                     \* how many files a call may hold in DuckDB's memory
    Backlog,                  \* files waiting to be merged at first
    MaxArrivals, MaxFaults    \* bounds: files that arrive later; errors and crashes

VARIABLES
    pin, budget, soft, hard,  \* the configuration, and the files that fit in
                              \* DuckDB's memory limit and in the container's
    backlog, arrivals,        \* small files in the lake, and how many came later
    phase, ceiling, mergeRamp,
    merging,                  \* a sub-call of this cycle has merged files
    failed, strikes,          \* the cycle met an error; cycles failed in a row
    faults

config == <<pin, budget, soft, hard>>
vars == <<config, backlog, arrivals, phase, ceiling, mergeRamp, merging, failed, strikes, faults>>

mergeRampStartFiles == 32
mergeMinFilesPerCall == 1
mergeMaxFilesHardCeiling == 1000
mergeMaxFilesFallback == 256
maxConsecutiveCycleFailures == 4

Least(m, n) == IF m < n THEN m ELSE n
Most(m, n) == IF m > n THEN m ELSE n

Fault == faults < MaxFaults /\ faults' = faults + 1

\* The first call of a process fits the container (mergeRampStartFiles is chosen
\* so), DuckDB's own limit may be smaller than that.
Init ==
    /\ pin \in Pins /\ budget \in Budgets /\ soft \in Fits
    /\ hard \in {n \in Fits : n >= mergeRampStartFiles}
    /\ backlog = Backlog /\ arrivals = 0
    /\ phase = "idle" /\ ceiling = 0 /\ mergeRamp = mergeRampStartFiles /\ merging = FALSE
    /\ failed = FALSE /\ strikes = 0 /\ faults = 0

\* Half of the memory, in files of the average size.
mergeCeiling(avg) ==
    CASE pin > 0 -> Least(pin, mergeMaxFilesHardCeiling)
      [] pin = 0 /\ (budget = 0 \/ avg = 0) -> mergeMaxFilesFallback
      [] OTHER -> Least(Most((budget \div 2) \div avg, mergeMinFilesPerCall), mergeMaxFilesHardCeiling)

\* A cycle begins; its steps before the merge may fail, which does not keep the
\* merge from running.
Begin ==
    /\ phase = "idle" /\ phase' = "merge"
    /\ \E avg \in Averages : ceiling' = mergeCeiling(avg)
    /\ mergeRamp' = Least(mergeRamp, ceiling')
    /\ merging' = FALSE
    /\ \/ failed' = FALSE /\ UNCHANGED faults
       \/ failed' = TRUE /\ Fault
    /\ UNCHANGED <<config, backlog, arrivals, strikes>>

filesCap == Least(Most(mergeRamp, mergeMinFilesPerCall), ceiling)

\* The files the next sub-call holds in memory.
Load == Least(filesCap, backlog)

\* A sub-call merges up to filesCap files and commits.
SubCall ==
    /\ phase = "merge" /\ backlog > 0 /\ Load <= Least(soft, hard)
    /\ backlog' = backlog - Load
    /\ merging' = TRUE
    /\ mergeRamp' = Least(filesCap * 2, ceiling)
    /\ UNCHANGED <<config, arrivals, phase, ceiling, failed, strikes, faults>>

\* Nothing is left to merge, or a merge has used up the time budget.
Finish ==
    /\ phase = "merge" /\ (backlog = 0 \/ merging)
    /\ phase' = "end"
    /\ UNCHANGED <<config, backlog, arrivals, ceiling, mergeRamp, merging, failed, strikes, faults>>

\* Variant: running out of memory fails the cycle.
OutOfMemoryFails ==
    /\ phase = "merge" /\ Load > soft
    /\ mergeRamp' = Most(filesCap \div 2, mergeMinFilesPerCall)
    /\ phase' = "end" /\ failed' = TRUE
    /\ UNCHANGED <<config, backlog, arrivals, ceiling, merging, strikes, faults>>

\* DuckDB runs out of memory: the cap is halved and the rest is left to the next
\* cycle; the cycle does not count as failed.
OutOfMemory ==
    /\ phase = "merge" /\ Load > soft
    /\ mergeRamp' = Most(filesCap \div 2, mergeMinFilesPerCall)
    /\ phase' = "end"
    /\ UNCHANGED <<config, backlog, arrivals, ceiling, merging, failed, strikes, faults>>

\* Any other error of the sub-call.
MergeError ==
    /\ phase = "merge" /\ Fault
    /\ phase' = "end" /\ failed' = TRUE
    /\ UNCHANGED <<config, backlog, arrivals, ceiling, mergeRamp, merging, strikes>>

Restarted ==
    /\ phase' = "idle" /\ ceiling' = 0 /\ merging' = FALSE
    /\ mergeRamp' = mergeRampStartFiles
    /\ failed' = FALSE /\ strikes' = 0

\* Run counts the cycles that failed in a row and gives up at the fourth.
End ==
    /\ phase = "end"
    /\ LET s == IF failed THEN strikes + 1 ELSE 0 IN
       IF s >= maxConsecutiveCycleFailures THEN Restarted
       ELSE /\ strikes' = s /\ phase' = "idle" /\ failed' = FALSE
            /\ ceiling' = 0 /\ merging' = FALSE /\ UNCHANGED mergeRamp
    /\ UNCHANGED <<config, backlog, arrivals, faults>>

\* A call is too much for the container, which is killed before it commits.
Killed ==
    /\ phase = "merge" /\ Load > hard
    /\ Restarted
    /\ UNCHANGED <<config, backlog, arrivals, faults>>

Crash ==
    /\ Fault /\ Restarted
    /\ UNCHANGED <<config, backlog, arrivals>>

Arrive ==
    /\ arrivals < MaxArrivals
    /\ arrivals' = arrivals + 1 /\ backlog' = backlog + 1
    /\ UNCHANGED <<config, phase, ceiling, mergeRamp, merging, failed, strikes, faults>>

Step == Begin \/ SubCall \/ Finish \/ OutOfMemory \/ Killed \/ End

Next == Step \/ MergeError \/ Crash \/ Arrive

\* The maintainer keeps running; which of its steps comes is the memory's choice.
Fairness == WF_vars(Step)

Spec == Init /\ [][Next]_vars /\ Fairness

-----------------------------------------------------------------------------
\* However little memory a merge has, the backlog is worked off: the cap comes
\* down to what fits, and neither the backing off nor restarts undo that.
MergeConverges == backlog > 0 ~> backlog = 0
============================================================================
