----------------------------- MODULE LakeFiles -----------------------------
(***************************************************************************)
(* The data files of the lake: writers put a file into object storage and  *)
(* commit it to the catalog later, the maintainer replaces files by merged *)
(* or rewritten ones, lets old snapshots go, and removes bytes in two      *)
(* steps of its Cycle (cleanup_old_files, delete_orphaned_files), while    *)
(* readers fetch the files they planned with no lock at all.  The catalog  *)
(* may be restored to an earlier state, upon which the orphan sweep is     *)
(* frozen until the files written since are registered again.              *)
(***************************************************************************)
EXTENDS Integers, FiniteSets

CONSTANTS
    Files, Readers,
    Grace,            \* MaintConfig.FileCleanupGrace
    OrphanRetention,  \* MaintConfig.OrphanRetention
    MaxRead,          \* the longest reader transaction
    MaxWrite,         \* the longest writer transaction
    MaxLag,           \* the oldest state the catalog is restored to
    MaxDetect,        \* the longest the sweep runs on after a restore
    MaxRestores       \* bound: restores of the catalog

VARIABLES
    state,    \* what the catalog knows of each file
    stored,   \* files whose bytes are in object storage
    written,  \* the age of each file's bytes
    retired,  \* the age of its row in files_scheduled_for_deletion
    open,     \* files of writer transactions that are still open
    plan,     \* the files each reader has planned and not yet fetched
    reading,  \* the age of its transaction
    step,     \* the next step of the Cycle
    backup,   \* the state of the catalog a restore would bring back
    lag,      \* its age, None while it is still to come
    lost,     \* files whose catalog entry the restore undid
    dangling, \* entries it brought back whose bytes were already cleaned up
    missing,  \* the age of the restore
    frozen,   \* LAKE_ORPHAN_RETENTION is negative
    restores

\* The windows of the configuration cover the durations they are there for, and
\* the catalog is restored at most once.
Configured ==
    /\ Grace \in Nat /\ OrphanRetention \in Nat
    /\ MaxRead \in Nat /\ MaxWrite \in Nat /\ MaxLag \in Nat /\ MaxDetect \in Nat
    /\ MaxRestores \in {0, 1}
    /\ Grace >= MaxRead
    /\ OrphanRetention >= MaxWrite + MaxLag + MaxDetect
    /\ OrphanRetention >= MaxWrite + MaxLag + MaxRead

catalog == <<state, retired>>
readers == <<plan, reading>>
recovery == <<backup, lag, lost, dangling, missing, frozen, restores>>
vars == <<catalog, stored, written, open, readers, step, recovery>>

None == -1

\* Ages are counted up to just past every window.
Old == 1 + CHOOSE n \in {Grace, OrphanRetention} : n >= Grace /\ n >= OrphanRetention
Older(n) == IF n < Old THEN n + 1 ELSE n
Remaining(ages, kept) == [f \in Files |-> IF f \in kept THEN ages[f] ELSE 0]

\* What a reader may plan: files of the current or of a retained snapshot.
Live == {f \in Files : state[f] = "live"} \ dangling
Visible == Live \cup ({f \in Files : state[f] = "superseded"} \ dangling)
Planned == UNION {plan[r] : r \in Readers}

\* A name nothing refers to, for the next file.
Free ==
    {f \in Files : state[f] = "none" /\ backup[f] = "none"} \ (stored \cup Planned \cup dangling)
Fresh == {f \in Free : \A g \in Free : f <= g}

Init ==
    /\ state = [f \in Files |-> "none"]
    /\ stored = {} /\ open = {}
    /\ written = [f \in Files |-> 0] /\ retired = [f \in Files |-> 0]
    /\ plan = [r \in Readers |-> {}] /\ reading = [r \in Readers |-> 0]
    /\ step = "rewrite"
    /\ backup = state /\ lag = None
    /\ lost = {} /\ dangling = {} /\ missing = 0 /\ frozen = FALSE /\ restores = 0

-----------------------------------------------------------------------------
\* A bundle's transaction writes its file, and commits it, rolls back or dies.
Write(f) ==
    /\ f \in Fresh
    /\ stored' = stored \cup {f} /\ open' = open \cup {f}
    /\ UNCHANGED <<catalog, written, readers, step, recovery>>

CommitWrite(f) ==
    /\ f \in open
    /\ open' = open \ {f}
    /\ state' = [state EXCEPT ![f] = "live"]
    /\ UNCHANGED <<stored, written, retired, readers, step, recovery>>

AbandonWrite(f) ==
    /\ f \in open
    /\ open' = open \ {f}
    /\ UNCHANGED <<catalog, stored, written, readers, step, recovery>>

\* A reader pins a snapshot, plans its files and fetches them one by one.
Plan(r) ==
    /\ plan[r] = {} /\ Visible # {}
    /\ \E S \in SUBSET Visible \ {{}} : plan' = [plan EXCEPT ![r] = S]
    /\ reading' = [reading EXCEPT ![r] = 0]
    /\ UNCHANGED <<catalog, stored, written, open, step, recovery>>

Fetch(r, f) ==
    /\ f \in plan[r] \cap stored
    /\ plan' = [plan EXCEPT ![r] = @ \ {f}]
    /\ UNCHANGED <<catalog, stored, written, open, reading, step, recovery>>

-----------------------------------------------------------------------------
\* The Cycle.  A step that fails is skipped until the next cycle, which is
\* every step's other disjunct.

\* rewrite_data_files: the input stays with the snapshots that show it.
RewriteFiles ==
    /\ step = "rewrite" /\ step' = "merge"
    /\ \/ \E f \in Live, g \in Fresh :
             /\ state' = [state EXCEPT ![f] = "superseded", ![g] = "live"]
             /\ stored' = stored \cup {g}
       \/ UNCHANGED <<state, stored>>
    /\ UNCHANGED <<retired, written, open, readers, recovery>>

\* merge_adjacent_files, call by call: the merged file is committed, the inputs
\* are scheduled for deletion at once.
MergeFiles ==
    /\ step = "merge"
    /\ \/ /\ \E S \in SUBSET Live, g \in Fresh :
             /\ Cardinality(S) > 1
             /\ state' = [f \in Files |-> CASE f = g -> "live"
                                            [] f \in S -> "scheduled"
                                            [] OTHER -> state[f]]
             /\ retired' = [f \in Files |-> IF f \in S THEN 0 ELSE retired[f]]
             /\ stored' = stored \cup {g}
          /\ UNCHANGED step
       \/ step' = "expire" /\ UNCHANGED <<state, retired, stored>>
    /\ UNCHANGED <<written, open, readers, recovery>>

\* expire_snapshots releases files no kept snapshot shows.
Expire ==
    /\ step = "expire" /\ step' = "cleanup"
    /\ \E S \in SUBSET {f \in Files : state[f] = "superseded"} :
          /\ state' = [f \in Files |-> IF f \in S THEN "scheduled" ELSE state[f]]
          /\ retired' = [f \in Files |-> IF f \in S THEN 0 ELSE retired[f]]
    /\ UNCHANGED <<stored, written, open, readers, recovery>>

\* Variant: cleanup_all, as with a negative grace.
cleanupAll == {f \in Files : state[f] = "scheduled"}

\* older_than => now() - FileCleanupGrace.
cleanupOldFiles == {f \in Files : state[f] = "scheduled" /\ retired[f] > Grace}

Cleanup ==
    /\ step = "cleanup" /\ step' = "orphans"
    /\ \/ /\ stored' = stored \ cleanupOldFiles
          /\ state' = [f \in Files |-> IF f \in cleanupOldFiles THEN "none" ELSE state[f]]
          /\ retired' = Remaining(retired, Files \ cleanupOldFiles)
       \/ UNCHANGED <<stored, state, retired>>
    /\ written' = Remaining(written, stored')
    /\ UNCHANGED <<open, readers, recovery>>

\* delete_orphaned_files: what the catalog does not know and is old enough,
\* unless the sweep is disabled.
DeleteOrphans ==
    /\ step = "orphans" /\ step' = "rewrite"
    /\ \/ /\ ~frozen
          /\ stored' = stored \ {f \in stored : state[f] = "none" /\ written[f] > OrphanRetention}
       \/ UNCHANGED stored
    /\ written' = Remaining(written, stored')
    /\ UNCHANGED <<catalog, open, readers, recovery>>

-----------------------------------------------------------------------------
\* Continuous archiving: some state is the one a restore will bring back.
Archive ==
    /\ restores < MaxRestores /\ lag = None
    /\ backup' = state /\ lag' = 0
    /\ UNCHANGED <<catalog, stored, written, open, readers, step, lost, dangling, missing, frozen, restores>>

\* The point-in-time restore: writers lose their transactions, files committed
\* since are unknown to the catalog, files cleaned up since are in it again.
Restore ==
    /\ lag # None /\ restores' = restores + 1
    /\ state' = backup
    /\ lost' = {f \in Visible : backup[f] = "none"}
    /\ dangling' = {f \in Files : backup[f] # "none"} \ stored
    /\ open' = {} /\ missing' = 0
    /\ backup' = [f \in Files |-> "none"] /\ lag' = None
    /\ UNCHANGED <<retired, stored, written, readers, step, frozen>>

\* The operator freezes the sweep, registers the files again, and lifts the freeze.
Freeze ==
    /\ lost # {} /\ ~frozen /\ frozen' = TRUE
    /\ UNCHANGED <<catalog, stored, written, open, readers, step, backup, lag, lost, dangling, missing, restores>>

Reregister ==
    /\ frozen
    /\ state' = [f \in Files |-> IF f \in lost THEN "live" ELSE state[f]]
    /\ lost' = {} /\ frozen' = FALSE /\ missing' = 0
    /\ UNCHANGED <<retired, stored, written, open, readers, step, backup, lag, dangling, restores>>

\* Time passes, within the durations the configuration is chosen for.
Tick ==
    /\ \A r \in Readers : plan[r] # {} => reading[r] < MaxRead
    /\ \A f \in open : written[f] < MaxWrite
    /\ lost # {} /\ ~frozen => missing < MaxDetect
    /\ lag # None => lag < MaxLag
    /\ lag' = IF lag = None THEN None ELSE lag + 1
    /\ written' = [f \in Files |-> IF f \in stored THEN Older(written[f]) ELSE 0]
    /\ retired' = [f \in Files |-> IF state[f] = "scheduled" THEN Older(retired[f]) ELSE 0]
    /\ reading' = [r \in Readers |-> IF plan[r] = {} THEN 0 ELSE reading[r] + 1]
    /\ missing' = IF lost = {} \/ frozen THEN 0 ELSE missing + 1
    /\ UNCHANGED <<state, stored, open, plan, step, backup, lost, dangling, frozen, restores>>

Next ==
    \/ \E f \in Files : Write(f) \/ CommitWrite(f) \/ AbandonWrite(f)
    \/ \E r \in Readers : Plan(r) \/ \E f \in Files : Fetch(r, f)
    \/ RewriteFiles \/ MergeFiles \/ Expire \/ Cleanup \/ DeleteOrphans
    \/ Archive \/ Restore \/ Freeze \/ Reregister \/ Tick

Spec == Init /\ [][Next]_vars

-----------------------------------------------------------------------------
\* The maintainer removes no bytes anyone still needs: not those a reader has
\* planned (FileCleanupGrace outlasts the reader), not those a writer is about
\* to commit nor those a restored catalog has forgotten (OrphanRetention
\* outlasts both), and never those of a file the catalog shows.
BytesOutliveTheirUse ==
    /\ Planned \subseteq stored
    /\ open \cup lost \cup Visible \subseteq stored
============================================================================
