------------------------------ MODULE FsStore ------------------------------
(***************************************************************************)
(* fsstore.Client, the object store on a local filesystem: PutObject as    *)
(* the system calls it makes, any of which may fail, concurrent uploads    *)
(* (several to one key), and a machine crash at any point.  The filesystem *)
(* is external, and promises what POSIX does: a rename is atomic for       *)
(* readers; a file's bytes survive a crash for certain only after the file *)
(* is fsynced, an entry only after its directory is, and that goes for the *)
(* entry of a new directory in its parent, which PutObject never fsyncs.   *)
(***************************************************************************)
EXTENDS Integers, FiniteSets

CONSTANTS Puts, Keys, KeyOf, None,
          Dirs, DirOf,  \* the directory of each key, with those above it
          MaxCrashes    \* how often the machine crashes

VARIABLES
    step,     \* how far each upload is
    temps,    \* uploads whose .tmp- file exists
    written,  \* uploads whose bytes are complete in the page cache
    flushed,  \* uploads whose bytes were fsynced
    dirs,     \* the directories there are
    rooted,   \* those of them that are on disk themselves
    dir,      \* the name each key's directory entry shows
    maybe,    \* the names it may show after a crash that leaves its directory
    applied,  \* uploads whose rename took effect
    sure,     \* those an fsync of their directory covered, even if replaced since
    unsynced, \* those whose own fsync of the directory failed
    crashes

\* Every upload has a key, every key a directory, and no upload is the absence of one.
Configured == KeyOf \in [Puts -> Keys] /\ DirOf \in [Keys -> Dirs] /\ None \notin Puts

vars == <<step, temps, written, flushed, dirs, rooted, dir, maybe, applied, sure, unsynced, crashes>>

\* An empty store, in which some directories may be there already.
Init ==
    /\ step = [p \in Puts |-> "start"]
    /\ temps = {}
    /\ written = {}
    /\ flushed = {}
    /\ rooted \in SUBSET Dirs
    /\ dirs = rooted
    /\ dir = [k \in Keys |-> None]
    /\ maybe = [k \in Keys |-> {None}]
    /\ applied = {}
    /\ sure = {}
    /\ unsynced = {}
    /\ crashes = 0

To(p, s) == step' = [step EXCEPT ![p] = s]

MkdirAll(p) ==
    /\ step[p] = "start"
    /\ dirs' = dirs \cup {DirOf[KeyOf[p]]}
    /\ To(p, "create")
    /\ UNCHANGED <<temps, written, flushed, rooted, dir, maybe, applied, sure, unsynced, crashes>>

CreateTemp(p) ==
    /\ step[p] = "create"
    /\ temps' = temps \cup {p}
    /\ To(p, "write")
    /\ UNCHANGED <<written, flushed, dirs, rooted, dir, maybe, applied, sure, unsynced, crashes>>

WriteBody(p) ==
    /\ step[p] = "write"
    /\ written' = written \cup {p}
    /\ To(p, "sync")
    /\ UNCHANGED <<temps, flushed, dirs, rooted, dir, maybe, applied, sure, unsynced, crashes>>

\* Variant: the file is not fsynced before it is renamed into place.
SyncSkipped(p) ==
    /\ step[p] = "sync"
    /\ To(p, "rename")
    /\ UNCHANGED <<temps, written, flushed, dirs, rooted, dir, maybe, applied, sure, unsynced, crashes>>

Sync(p) ==
    /\ step[p] = "sync"
    /\ flushed' = flushed \cup {p}
    /\ To(p, "rename")
    /\ UNCHANGED <<temps, written, dirs, rooted, dir, maybe, applied, sure, unsynced, crashes>>

\* Close, Chmod and Rename: the temp file becomes the object.
Rename(p) ==
    /\ step[p] = "rename"
    /\ temps' = temps \ {p}
    /\ dir' = [dir EXCEPT ![KeyOf[p]] = p]
    /\ maybe' = [maybe EXCEPT ![KeyOf[p]] = @ \cup {p}]
    /\ applied' = applied \cup {p}
    /\ To(p, "dirsync")
    /\ UNCHANGED <<written, flushed, dirs, rooted, sure, unsynced, crashes>>

\* An error of any call up to the rename: the temp file is removed.
Fail(p) ==
    /\ step[p] \in {"start", "create", "write", "sync", "rename"}
    /\ temps' = temps \ {p}
    /\ To(p, "failed")
    /\ UNCHANGED <<written, flushed, dirs, rooted, dir, maybe, applied, sure, unsynced, crashes>>

\* Open and Sync of the directory, best effort: an error is dropped.
SyncDir(p) ==
    LET covered == {k \in Keys : DirOf[k] = DirOf[KeyOf[p]]} IN
    /\ step[p] = "dirsync"
    /\ To(p, "return")
    /\ \/ /\ maybe' = [k \in Keys |-> IF k \in covered THEN {dir[k]} ELSE maybe[k]]
          /\ sure' = sure \cup {q \in applied : KeyOf[q] \in covered}
          /\ UNCHANGED unsynced
       \/ unsynced' = unsynced \cup {p} /\ UNCHANGED <<maybe, sure>>
    /\ UNCHANGED <<temps, written, flushed, dirs, rooted, dir, applied, crashes>>

\* PutObject answers nil, whether the directory was fsynced or not.
Return(p) ==
    /\ step[p] = "return"
    /\ To(p, "done")
    /\ UNCHANGED <<temps, written, flushed, dirs, rooted, dir, maybe, applied, sure, unsynced, crashes>>

\* The machine crashes: new directories may be lost with all they hold, each entry
\* of the others shows one of the names it may, bytes not fsynced are lost, temp
\* files may stay behind.
Crash ==
    /\ crashes < MaxCrashes
    /\ crashes' = crashes + 1
    /\ \E lost \in SUBSET (dirs \ rooted) :
          /\ dirs' = dirs \ lost
          /\ rooted' = dirs'
          /\ dir' \in [Keys -> Puts \cup {None}]
          /\ \A k \in Keys : dir'[k] \in IF DirOf[k] \in lost THEN {None} ELSE maybe[k]
          /\ temps' \in SUBSET {p \in temps : DirOf[KeyOf[p]] \notin lost}
    /\ maybe' = [k \in Keys |-> {dir'[k]}]
    /\ written' = flushed
    /\ step' = [p \in Puts |-> IF step[p] \in {"start", "done"} THEN step[p] ELSE "failed"]
    /\ UNCHANGED <<flushed, applied, sure, unsynced>>

Next ==
    \/ \E p \in Puts : \/ MkdirAll(p) \/ CreateTemp(p) \/ WriteBody(p) \/ Sync(p)
                       \/ Rename(p) \/ Fail(p) \/ SyncDir(p) \/ Return(p)
    \/ Crash

Spec == Init /\ [][Next]_vars

-----------------------------------------------------------------------------
\* What a reader or ListObjectsV2 finds: temp files are hidden by their names,
\* and an object whose bytes are not all there would show as torn.
ListObjectsV2 ==
    [k \in Keys |-> IF dir[k] = None \/ dir[k] \in written THEN dir[k] ELSE "torn"]

\* What a restart may find under each key whose directory is left.
Remains ==
    [k \in Keys |-> {IF q = None \/ q \in flushed THEN q ELSE "torn" : q \in maybe[k]}]

Abstract == INSTANCE ObjectStore WITH
    objects <- ListObjectsV2,
    possible <- Remains,
    firm <- {k \in Keys : DirOf[k] \in rooted},
    published <- applied,
    settled <- sure,
    hampered <- unsynced,
    cut <- {p \in applied : step[p] = "failed"},
    answered <- {p \in Puts : step[p] = "done"}
============================================================================
