------------------------------ MODULE Storage ------------------------------
(***************************************************************************)
(* The stores behind din: the object store on a filesystem, the layout of  *)
(* the lake's table, its files and its compaction.  They share no state in *)
(* these models, so a behaviour runs one of them: focus says which.  Every *)
(* constant of a part is one of this module, so that what is proved here   *)
(* holds for all of them.                                                  *)
(***************************************************************************)
EXTENDS Integers, Sequences, FiniteSets

CONSTANTS
    Puts, Keys, KeyOf, NoPut, Dirs, DirOf, MaxCrashes,                \* FsStore
    Pods, Maintainers, Listing, Batch, PauseStaleness, MaxRuns,
    MaxFailures,                                                      \* LakeLayout
    DataFiles, Readers, Grace, OrphanRetention, MaxRead, MaxWrite, MaxLag,
    MaxDetect, MaxRestores,                                           \* LakeFiles
    Pins, Budgets, Averages, Fits, Backlog, MaxArrivals, MaxErrors    \* MergeRamp

VARIABLES
    step, temps, written, flushed, dirs, rooted, dir, maybe, applied, sure, unsynced, crashes,
    exists, part, sort, pause, pc, need, opened, job, existing, prefix, todo,
    altered, complete, rows, tracked, merged, runs, failures,
    state, stored, ages, retired, writing, plan, reading, turn, backup, lag,
    forgotten, dangling, missing, frozen, restores,
    pin, budget, soft, hard, backlog, arrivals, rampPhase, ceiling, mergeRamp,
    merging, failed, strikes, errors,
    focus

storeVars == <<step, temps, written, flushed, dirs, rooted, dir, maybe, applied, sure,
               unsynced, crashes>>
layoutVars == <<exists, part, sort, pause, pc, need, opened, job, existing, prefix, todo,
                altered, complete, rows, tracked, merged, runs, failures>>
fileVars == <<state, stored, ages, retired, writing, plan, reading, turn, backup, lag,
              forgotten, dangling, missing, frozen, restores>>
rampVars == <<pin, budget, soft, hard, backlog, arrivals, rampPhase, ceiling, mergeRamp,
              merging, failed, strikes, errors>>
allVars == <<storeVars, layoutVars, fileVars, rampVars, focus>>

Store == INSTANCE FsStore WITH None <- NoPut
Layout == INSTANCE LakeLayout WITH
    open <- opened, faults <- failures, Staleness <- PauseStaleness, MaxFaults <- MaxFailures
Lake == INSTANCE LakeFiles WITH
    Files <- DataFiles, written <- ages, open <- writing, step <- turn, lost <- forgotten
Ramp == INSTANCE MergeRamp WITH
    phase <- rampPhase, faults <- errors, MaxFaults <- MaxErrors

ASSUME StoreAssumption == Store!Configured
ASSUME LayoutAssumption == Layout!Configured
ASSUME FilesAssumption == Lake!Configured

StorageInit ==
    /\ focus \in {"store", "layout", "files", "ramp"}
    /\ Store!Init /\ Layout!Init /\ Lake!Init /\ Ramp!Init

Others(mine) ==
    /\ "store" # mine => UNCHANGED storeVars
    /\ "layout" # mine => UNCHANGED layoutVars
    /\ "files" # mine => UNCHANGED fileVars
    /\ "ramp" # mine => UNCHANGED rampVars
    /\ UNCHANGED focus

StorageNext ==
    \/ focus = "store" /\ Store!Next /\ Others("store")
    \/ focus = "layout" /\ Layout!Next /\ Others("layout")
    \/ focus = "files" /\ Lake!Next /\ Others("files")
    \/ focus = "ramp" /\ Ramp!Next /\ Others("ramp")

\* The fairness of LakeLayout, pod by pod, and of MergeRamp.
PodFairness(p) == WF_layoutVars(focus = "layout" /\ Layout!PodStep(p))

JobFairness ==
    /\ WF_layoutVars(focus = "layout" /\ Layout!JobStep)
    /\ WF_layoutVars(focus = "layout" /\ Layout!Tick)
    /\ WF_rampVars(focus = "ramp" /\ Ramp!Step)

StorageSpec ==
    /\ StorageInit /\ [][StorageNext]_allVars
    /\ \A p \in Pods : PodFairness(p)
    /\ JobFairness

-----------------------------------------------------------------------------
\* fsstore.PutObject does what ObjectStore says: an object appears whole or not at
\* all, one that was answered took effect, and, unless the fsync of its directory
\* failed or the directory is new, survives a crash, also when uploads race for its key.
StoreImplements == Store!Abstract!Spec

\* Backfill registers every file once (LakeLayout).
BackfillExact == Layout!BackfillExact

\* The table gets its layout back after every backfill (LakeLayout).
LayoutRestored ==
    (focus = "layout" /\ job = "off") ~> ((part /\ sort) \/ job # "off")

\* The maintainer removes no bytes anyone needs (LakeFiles).
BytesOutliveTheirUse == Lake!BytesOutliveTheirUse

\* The backlog of small files is merged in any memory (MergeRamp).
MergeConverges == (focus = "ramp" /\ backlog > 0) ~> backlog = 0
============================================================================
