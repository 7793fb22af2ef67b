----------------------------- MODULE StorageProofs -----------------------------
(***************************************************************************)
(* Safety of the stores behind din, for every value of their constants that *)
(* is Configured: the object store on a filesystem, the layout of the       *)
(* lake's table, and its files.  Each section has the inductive invariant   *)
(* of one part; the theorems at the end are about the specification they    *)
(* share.                                                                   *)
(***************************************************************************)
EXTENDS Storage, FiniteSetTheorems, TLAPS
-------------------------------------------------------------------------------
(***************************************************************************)
(* The object store.  An object is renamed to its key only after its bytes  *)
(* are fsynced, so whatever a directory names is whole, now and after any   *)
(* crash; and an upload is answered only once the directory was fsynced, or *)
(* the attempt failed.                                                      *)
(***************************************************************************)
\* The variables have their types.
StoreType ==
    /\ step \in [Puts -> {"start", "create", "write", "sync", "rename", "dirsync", "return",
                          "done", "failed"}]
    /\ dir \in [Keys -> Puts \cup {NoPut}]
    /\ maybe \in [Keys -> SUBSET (Puts \cup {NoPut})]
    /\ applied \subseteq Puts
    /\ rooted \subseteq dirs

\* What is named in a directory was fsynced before it was renamed there.
StoreWhole ==
    /\ flushed \subseteq written /\ applied \subseteq flushed
    /\ \A k \in Keys : dir[k] # NoPut => dir[k] \in applied
    /\ \A k \in Keys : \A q \in maybe[k] : q # NoPut => q \in applied

\* Where an upload is in PutObject.
StoreAt(p) ==
    /\ step[p] = "sync" => p \in written
    /\ step[p] = "rename" => p \in flushed
    /\ step[p] \in {"start", "create", "write", "sync", "rename"} => p \notin applied
    /\ step[p] \in {"dirsync", "return", "done"} => p \in applied
    /\ step[p] = "return" => p \in sure \cup unsynced

\* The inductive invariant of the store.
StoreInv == StoreType /\ StoreWhole /\ \A p \in Puts : StoreAt(p)

\* Readers and restarts find whole objects only.
StoreSeen == Store!ListObjectsV2 = dir /\ Store!Remains = maybe

\* What is named is whole.
LEMMA NeverTorn == StoreInv => StoreSeen
<1> SUFFICES ASSUME StoreInv PROVE StoreSeen
  BY Zenon
<1>1. \A k \in Keys : dir[k] = NoPut \/ dir[k] \in written
  BY Zenon DEF StoreInv, StoreWhole
<1>2. Store!ListObjectsV2 = dir
  BY <1>1, Zenon DEF StoreInv, StoreType, Store!ListObjectsV2
<1>3. ASSUME NEW k \in Keys
      PROVE  {IF q = NoPut \/ q \in flushed THEN q ELSE "torn" : q \in maybe[k]} = maybe[k]
  <2>1. \A q \in maybe[k] : q = NoPut \/ q \in flushed
    BY Zenon DEF StoreInv, StoreWhole
  <2> QED
    BY <2>1
<1>4. Store!Remains = maybe
  BY <1>3, Zenon DEF StoreInv, StoreType, Store!Remains
<1> QED
  BY <1>2, <1>4, Zenon DEF StoreSeen

\* The invariant holds of an empty store.
LEMMA StoreInit == Store!Configured /\ Store!Init => StoreInv
BY DEF Store!Configured, Store!Init, StoreInv, StoreType, StoreWhole, StoreAt

\* Every system call of PutObject keeps it.
LEMMA PutKeeps ==
    ASSUME Store!Configured, StoreInv, NEW p \in Puts,
           \/ Store!MkdirAll(p) \/ Store!CreateTemp(p) \/ Store!WriteBody(p) \/ Store!Sync(p)
           \/ Store!Rename(p) \/ Store!Fail(p) \/ Store!SyncDir(p) \/ Store!Return(p)
    PROVE  StoreInv'
<1> USE DEF Store!To, StoreInv, StoreType, Store!Configured
<1>1. CASE Store!MkdirAll(p)
  BY <1>1 DEF Store!MkdirAll, StoreWhole, StoreAt
<1>2. CASE Store!CreateTemp(p)
  BY <1>2 DEF Store!CreateTemp, StoreWhole, StoreAt
<1>3. CASE Store!WriteBody(p)
  BY <1>3 DEF Store!WriteBody, StoreWhole, StoreAt
<1>4. CASE Store!Sync(p)
  BY <1>4 DEF Store!Sync, StoreWhole, StoreAt
<1>5. CASE Store!Rename(p)
  <2>1. StoreType'
    BY <1>5 DEF Store!Rename
  <2>2. StoreWhole'
    BY <1>5 DEF Store!Rename, StoreWhole, StoreAt
  <2>3. \A q \in Puts : StoreAt(q)'
    BY <1>5 DEF Store!Rename, StoreAt
  <2> QED
    BY <2>1, <2>2, <2>3, Zenon
<1>6. CASE Store!Fail(p)
  BY <1>6 DEF Store!Fail, StoreWhole, StoreAt
<1>7. CASE Store!SyncDir(p)
  <2>1. StoreType'
    BY <1>7 DEF Store!SyncDir
  <2>2. StoreWhole'
    BY <1>7 DEF Store!SyncDir, StoreWhole
  <2>3. /\ sure \subseteq sure' /\ unsynced \subseteq unsynced'
        /\ UNCHANGED <<written, flushed, applied>>
        /\ \A q \in Puts : q # p => step'[q] = step[q]
        /\ step[p] = "dirsync" /\ step'[p] = "return" /\ p \in applied
    BY <1>7 DEF Store!SyncDir, StoreAt
  <2>4. p \in sure' \cup unsynced'
    BY <1>7, <2>3 DEF Store!SyncDir
  <2>5. StoreAt(p)'
    BY <2>3, <2>4, Zenon DEF StoreAt
  <2>6. ASSUME NEW q \in Puts, q # p PROVE StoreAt(q)'
    BY <2>3, <2>6 DEF StoreAt
  <2> QED
    BY <2>1, <2>2, <2>5, <2>6, Zenon
<1>8. CASE Store!Return(p)
  BY <1>8 DEF Store!Return, StoreWhole, StoreAt
<1> QED
  BY <1>1, <1>2, <1>3, <1>4, <1>5, <1>6, <1>7, <1>8, Zenon

\* A crash keeps it: whatever it leaves was fsynced.
LEMMA CrashKeeps ==
    ASSUME Store!Configured, StoreInv, Store!Crash
    PROVE  StoreInv'
<1> USE DEF StoreInv, Store!Configured
<1>1. \A k \in Keys : dir'[k] = NoPut \/ dir'[k] \in maybe[k]
  BY Zenon DEF Store!Crash
<1>2. dir' \in [Keys -> Puts \cup {NoPut}] /\ maybe' = [k \in Keys |-> {dir'[k]}] /\ rooted' = dirs'
      /\ applied' = applied /\ flushed' = flushed /\ written' = flushed
  BY Zenon DEF Store!Crash
<1>3. \A k \in Keys : dir'[k] # NoPut => dir'[k] \in applied
  BY <1>1, Zenon DEF StoreWhole
<1>4. StoreType'
  <2>1. maybe' \in [Keys -> SUBSET (Puts \cup {NoPut})]
    BY <1>2
  <2>2. step' \in [Puts -> {"start", "create", "write", "sync", "rename", "dirsync", "return",
                            "done", "failed"}]
    BY Zenon DEF Store!Crash, StoreType
  <2> QED
    BY <1>2, <2>1, <2>2, Zenon DEF StoreType
<1>5. StoreWhole'
  BY <1>2, <1>3 DEF StoreWhole
<1>6. \A p \in Puts : StoreAt(p)'
  <2>1. \A p \in Puts : step'[p] = "failed" \/ (step'[p] = step[p] /\ step[p] \in {"start", "done"})
    BY Zenon DEF Store!Crash
  <2> QED
    BY <1>2, <2>1, Zenon DEF StoreAt
<1> QED
  BY <1>4, <1>5, <1>6, Zenon

\* So every step keeps it.
LEMMA StoreNext == ASSUME Store!Configured PROVE StoreInv /\ [Store!Next]_(Store!vars) => StoreInv'
<1>1. StoreInv /\ UNCHANGED Store!vars => StoreInv'
  BY Zenon DEF Store!vars, StoreInv, StoreType, StoreWhole, StoreAt
<1> QED
  BY <1>1, PutKeeps, CrashKeeps, Zenon DEF Store!Next

\* Every step is a step of the promised store, or none.
LEMMA StoreStep ==
    ASSUME Store!Configured, StoreInv, StoreInv', [Store!Next]_(Store!vars)
    PROVE  [Store!Abstract!Next]_(Store!Abstract!vars)
<1> DEFINE firm == {k \in Keys : DirOf[k] \in rooted}
           cut == {p \in applied : step[p] = "failed"}
           answered == {p \in Puts : step[p] = "done"}
<1>1. Store!ListObjectsV2 = dir /\ Store!Remains = maybe
  BY NeverTorn, Zenon DEF StoreSeen
<1>2. (Store!ListObjectsV2)' = dir' /\ (Store!Remains)' = maybe'
  <2>1. StoreSeen'
    BY NeverTorn, PTL
  <2> QED
    BY <2>1, Zenon DEF StoreSeen
<1>3. step \in [Puts -> {"start", "create", "write", "sync", "rename", "dirsync", "return",
                         "done", "failed"}] /\ applied \subseteq Puts
  BY Zenon DEF StoreInv, StoreType
<1>4. ASSUME NEW p \in Puts, Store!Rename(p) PROVE Store!Abstract!Publish(p)
  <2>1. p \notin applied /\ applied' = applied \cup {p} /\ rooted' = rooted
    BY <1>4, Zenon DEF Store!Rename, StoreInv, StoreAt
  <2>2. cut' = cut /\ answered' = answered
    BY <1>3, <1>4, <2>1 DEF Store!Rename, Store!To
  <2> QED
    BY <1>1, <1>2, <1>4, <2>1, <2>2, Zenon DEF Store!Rename, Store!Abstract!Publish
<1>5. ASSUME NEW p \in Puts, Store!SyncDir(p)
      PROVE  Store!Abstract!Next
  <2> DEFINE covered == {k \in Keys : DirOf[k] = DirOf[KeyOf[p]]}
  <2>1. cut' = cut /\ answered' = answered /\ p \in applied
    BY <1>3, <1>5 DEF Store!SyncDir, Store!To, StoreInv, StoreAt
  <2>2. CASE /\ maybe' = [k \in Keys |-> IF k \in covered THEN {dir[k]} ELSE maybe[k]]
             /\ sure' = sure \cup {q \in applied : KeyOf[q] \in covered}
             /\ UNCHANGED unsynced
    <3>1. Store!Abstract!Settle(covered)
      BY <1>1, <1>2, <1>5, <2>1, <2>2, Zenon DEF Store!SyncDir, Store!Abstract!Settle
    <3> QED
      BY <3>1, Zenon DEF Store!Abstract!Next
  <2>3. CASE unsynced' = unsynced \cup {p} /\ UNCHANGED <<maybe, sure>>
    <3>1. Store!Abstract!Hamper(p)
      BY <1>1, <1>2, <1>5, <2>1, <2>3, Zenon DEF Store!SyncDir, Store!Abstract!Hamper
    <3> QED
      BY <3>1, Zenon DEF Store!Abstract!Next
  <2> QED
    BY <1>5, <2>2, <2>3, Zenon DEF Store!SyncDir
<1>6. ASSUME NEW p \in Puts, Store!Return(p) PROVE Store!Abstract!Ack(p)
  <2>1. /\ cut' = cut /\ answered' = answered \cup {p}
        /\ p \in applied \ cut /\ p \in sure \cup unsynced
    BY <1>3, <1>6 DEF Store!Return, Store!To, StoreInv, StoreAt
  <2> QED
    BY <1>1, <1>2, <1>6, <2>1, Zenon DEF Store!Return, Store!Abstract!Ack
<1>7. ASSUME Store!Crash PROVE Store!Abstract!Crash
  <2>1. /\ dir' \in [Keys -> Puts \cup {NoPut}] /\ maybe' = [k \in Keys |-> {dir'[k]}]
        /\ UNCHANGED <<applied, sure, unsynced>>
    BY <1>7, Zenon DEF Store!Crash
  <2>2. \A k \in Keys : dir'[k] \in maybe[k] \/ (k \notin firm /\ dir'[k] = NoPut)
    BY <1>7, Zenon DEF Store!Crash
  <2>3. firm \subseteq firm'
    BY <1>7 DEF Store!Crash, StoreInv, StoreType
  <2>4. cut' = applied \ answered /\ answered' = answered
    BY <1>3, <1>7 DEF Store!Crash, StoreInv, StoreAt
  <2> QED
    BY <1>1, <1>2, <2>1, <2>2, <2>3, <2>4, Zenon DEF Store!Abstract!Crash
<1>8. ASSUME NEW p \in Puts,
             \/ Store!MkdirAll(p) \/ Store!CreateTemp(p) \/ Store!WriteBody(p)
             \/ Store!Sync(p) \/ Store!Fail(p)
      PROVE  UNCHANGED Store!Abstract!vars
  <2>1. /\ step[p] \in {"start", "create", "write", "sync", "rename"}
        /\ \E s \in {"create", "write", "sync", "rename", "failed"} : step' = [step EXCEPT ![p] = s]
        /\ UNCHANGED <<dir, maybe, rooted, applied, sure, unsynced>>
    BY <1>8, Zenon DEF Store!MkdirAll, Store!CreateTemp, Store!WriteBody, Store!Sync, Store!Fail, Store!To
  <2>2. cut' = cut /\ answered' = answered
    BY <1>3, <2>1 DEF StoreInv, StoreAt
  <2> QED
    BY <1>1, <1>2, <2>1, <2>2, Zenon DEF Store!Abstract!vars
<1>9. CASE UNCHANGED Store!vars
  BY <1>1, <1>2, <1>9, Zenon DEF Store!vars, Store!Abstract!vars
<1> QED
  BY <1>4, <1>5, <1>6, <1>7, <1>8, <1>9, Zenon DEF Store!Next, Store!Abstract!Next
-------------------------------------------------------------------------------
(***************************************************************************)
(* The files.  Each window covers the durations it is there for, so a file  *)
(* that is planned, being written or forgotten by a restore is too young to *)
(* be removed.                                                              *)
(***************************************************************************)
\* What the catalog may know of a file.
States == {"none", "live", "superseded", "scheduled"}

\* The variables have their types.
FilesType ==
    /\ state \in [DataFiles -> States] /\ backup \in [DataFiles -> States]
    /\ stored \subseteq DataFiles /\ writing \subseteq DataFiles /\ forgotten \subseteq DataFiles
    /\ ages \in [DataFiles -> Nat] /\ retired \in [DataFiles -> Nat]
    /\ plan \in [Readers -> SUBSET DataFiles] /\ reading \in [Readers -> Nat]
    /\ lag \in {Lake!None} \cup (0 .. MaxLag) /\ missing \in Nat
    /\ restores \in Nat

\* A restore comes once, and until then nothing is forgotten.
OneRestore ==
    /\ lag = Lake!None => \A f \in DataFiles : backup[f] = "none"
    /\ lag # Lake!None => restores = 0
    /\ restores = 0 => forgotten = {} /\ dangling = {} /\ ~frozen

\* A file that is planned is in the catalog, or left it after the plan was made,
\* or was forgotten by a restore while it was young.
ReadersSafe ==
    \A r \in Readers :
        /\ plan[r] # {} => reading[r] <= MaxRead
        /\ \A f \in plan[r] :
              /\ f \in stored
              /\ state[f] = "scheduled" => retired[f] <= reading[r]
              /\ state[f] = "none" => ages[f] <= MaxWrite + MaxLag + reading[r]

\* A file about to be committed is young.
WritersSafe ==
    \A f \in writing : /\ f \in stored /\ f \notin forgotten
                       /\ state[f] = "none" /\ backup[f] = "none"
                       /\ ages[f] <= MaxWrite

\* A forgotten file is young until the sweep is frozen.
ForgottenSafe ==
    /\ forgotten # {} /\ ~frozen => missing <= MaxDetect
    /\ \A f \in forgotten : /\ f \in stored /\ state[f] = "none"
                            /\ ~frozen => ages[f] <= MaxWrite + MaxLag + missing

\* The bytes of a file committed since the backup are not much older than it,
\* and a file leaves the catalog, its bytes gone, without coming back.
BackupKnown ==
    \A f \in DataFiles :
        /\ f \notin stored => ages[f] = 0
        /\ lag # Lake!None /\ backup[f] = "none" /\ state[f] # "none" => ages[f] <= MaxWrite + lag
        /\ backup[f] = "scheduled" => state[f] \in {"scheduled", "none"}
        /\ backup[f] # "none" /\ state[f] = "none" => f \notin stored

\* The catalog shows what is stored.
ShownStored ==
    \A f \in DataFiles : state[f] \in {"live", "superseded"} /\ f \notin dangling => f \in stored

\* The inductive invariant of the files.
FilesInv ==
    FilesType /\ OneRestore /\ ReadersSafe /\ WritersSafe /\ ForgottenSafe /\ BackupKnown
          /\ ShownStored

\* It holds of an empty lake.
LEMMA FilesInit == Lake!Configured /\ Lake!Init => FilesInv
BY DEF Lake!Configured, Lake!Init, FilesInv, FilesType, States, OneRestore, ReadersSafe,
       WritersSafe, ForgottenSafe, BackupKnown, ShownStored, Lake!None

\* An age grows by at most one.
LEMMA OlderType ==
  \A n \in Nat : Lake!Older(n) \in Nat /\ n <= Lake!Older(n) /\ Lake!Older(n) <= n + 1
BY DEF Lake!Older

\* A name for a new file is free in every respect.
LEMMA FreeFile ==
    ASSUME FilesInv, NEW g \in Lake!Fresh
    PROVE  /\ g \in DataFiles /\ state[g] = "none" /\ backup[g] = "none"
           /\ g \notin stored /\ g \notin writing /\ g \notin forgotten /\ ages[g] = 0
           /\ \A r \in Readers : g \notin plan[r]
<1>1. g \in DataFiles /\ state[g] = "none" /\ backup[g] = "none" /\ g \notin stored
      /\ g \notin Lake!Planned
  BY Zenon DEF Lake!Fresh, Lake!Free
<1>2. g \notin writing /\ g \notin forgotten
  BY <1>1, Zenon DEF FilesInv, WritersSafe, ForgottenSafe
<1>3. ages[g] = 0
  BY <1>1, Zenon DEF FilesInv, BackupKnown
<1>4. \A r \in Readers : g \notin plan[r]
  BY <1>1, Zenon DEF Lake!Planned
<1> QED
  BY <1>1, <1>2, <1>3, <1>4, Zenon

\* A writer puts its file, commits it, or gives it up.
LEMMA WriteKeepsFiles ==
    ASSUME Lake!Configured, FilesInv, NEW f \in DataFiles,
           Lake!Write(f) \/ Lake!CommitWrite(f) \/ Lake!AbandonWrite(f)
    PROVE  FilesInv'
<1> USE DEF FilesInv, FilesType, Lake!catalog, Lake!readers, Lake!recovery
<1>1. CASE Lake!Write(f)
  <2>1. /\ stored' = stored \cup {f} /\ writing' = writing \cup {f}
        /\ UNCHANGED <<state, retired, ages, plan, reading, backup, lag, forgotten, dangling,
                       missing, frozen, restores>>
        /\ state[f] = "none" /\ backup[f] = "none" /\ f \notin forgotten /\ ages[f] = 0
    BY <1>1, FreeFile, Zenon DEF Lake!Write
  <2>2. FilesType' /\ OneRestore'
    BY <2>1, Zenon DEF OneRestore
  <2>3. ReadersSafe' /\ ForgottenSafe' /\ BackupKnown' /\ ShownStored'
    BY <2>1, Zenon DEF ReadersSafe, ForgottenSafe, BackupKnown, ShownStored
  <2>4. WritersSafe'
    BY <2>1 DEF WritersSafe, Lake!Configured
  <2> QED
    BY <2>2, <2>3, <2>4, Zenon
<1>2. CASE Lake!CommitWrite(f)
  <2>1. /\ f \in writing /\ writing' = writing \ {f} /\ state' = [state EXCEPT ![f] = "live"]
        /\ UNCHANGED <<stored, retired, ages, plan, reading, backup, lag, forgotten, dangling,
                       missing, frozen, restores>>
    BY <1>2, Zenon DEF Lake!CommitWrite
  <2>2. f \in stored /\ f \notin forgotten /\ backup[f] = "none" /\ ages[f] <= MaxWrite
    BY <2>1, Zenon DEF WritersSafe
  <2>3. FilesType' /\ OneRestore'
    BY <2>1, Zenon DEF OneRestore, States
  <2>4. ReadersSafe' /\ WritersSafe' /\ ForgottenSafe'
    BY <2>1, <2>2, Zenon DEF ReadersSafe, WritersSafe, ForgottenSafe
  <2>5. BackupKnown' /\ ShownStored'
    BY <2>1, <2>2 DEF BackupKnown, ShownStored, Lake!Configured, Lake!None
  <2> QED
    BY <2>3, <2>4, <2>5, Zenon
<1>3. CASE Lake!AbandonWrite(f)
  BY <1>3, Zenon DEF Lake!AbandonWrite, OneRestore, ReadersSafe, WritersSafe, ForgottenSafe, BackupKnown,
              ShownStored
<1> QED
  BY <1>1, <1>2, <1>3, Zenon

\* A reader plans files the catalog shows, and fetches them.
LEMMA ReadKeepsFiles ==
    ASSUME Lake!Configured, FilesInv, NEW r \in Readers,
           Lake!Plan(r) \/ \E f \in DataFiles : Lake!Fetch(r, f)
    PROVE  FilesInv'
<1> USE DEF FilesInv, FilesType, Lake!catalog, Lake!readers, Lake!recovery
<1>1. /\ UNCHANGED <<state, retired, stored, ages, writing, backup, lag, forgotten, dangling,
                     missing, frozen, restores>>
  BY Zenon DEF Lake!Plan, Lake!Fetch
<1>2. OneRestore' /\ WritersSafe' /\ ForgottenSafe' /\ BackupKnown' /\ ShownStored'
  BY <1>1, Zenon DEF OneRestore, WritersSafe, ForgottenSafe, BackupKnown, ShownStored
<1>3. CASE Lake!Plan(r)
  <2>1. PICK S \in SUBSET Lake!Visible : plan' = [plan EXCEPT ![r] = S]
    BY <1>3, Zenon DEF Lake!Plan
  <2>2. reading' = [reading EXCEPT ![r] = 0]
    BY <1>3, Zenon DEF Lake!Plan
  <2>3. \A f \in S : f \in DataFiles /\ f \in stored /\ state[f] \in {"live", "superseded"}
    BY Zenon DEF Lake!Visible, Lake!Live, ShownStored
  <2>4. FilesType'
    BY <1>1, <2>1, <2>2, <2>3, Zenon
  <2>5. ReadersSafe'
    BY <1>1, <2>1, <2>2, <2>3 DEF ReadersSafe, Lake!Configured
  <2> QED
    BY <1>2, <2>4, <2>5, Zenon
<1>4. CASE \E f \in DataFiles : Lake!Fetch(r, f)
  <2>1. PICK f \in DataFiles : plan' = [plan EXCEPT ![r] = @ \ {f}] /\ reading' = reading
    BY <1>4, Zenon DEF Lake!Fetch
  <2>2. FilesType'
    BY <1>1, <2>1, Zenon
  <2>3. ReadersSafe'
    BY <1>1, <2>1, Zenon DEF ReadersSafe
  <2> QED
    BY <1>2, <2>2, <2>3, Zenon
<1> QED
  BY <1>3, <1>4, Zenon

\* rewrite_data_files and merge_adjacent_files commit a new file g and retire the
\* files of S.
LEMMA ReplaceKeepsFiles ==
    ASSUME Lake!Configured, FilesInv, NEW g \in Lake!Fresh, NEW S \in SUBSET Lake!Live,
           NEW k \in {"superseded", "scheduled"},
           state' = [f \in DataFiles |-> CASE f = g -> "live" [] f \in S -> k [] OTHER -> state[f]],
           k = "scheduled" => retired' = [f \in DataFiles |-> IF f \in S THEN 0 ELSE retired[f]],
           k # "scheduled" => retired' = retired,
           stored' = stored \cup {g},
           UNCHANGED <<ages, writing, Lake!readers, Lake!recovery>>
    PROVE  FilesInv'
<1> USE DEF FilesInv, FilesType, Lake!readers, Lake!recovery
<1>1. /\ g \in DataFiles /\ state[g] = "none" /\ backup[g] = "none"
      /\ g \notin stored /\ g \notin writing /\ g \notin forgotten /\ ages[g] = 0
      /\ \A r \in Readers : g \notin plan[r]
  BY FreeFile, Zenon
<1>2. \A f \in S : f \in DataFiles /\ f # g /\ state[f] = "live"
  BY <1>1, Zenon DEF Lake!Live
<1>3. \A f \in DataFiles : /\ f = g => state'[f] = "live"
                           /\ f \in S => state'[f] = k
                           /\ f # g /\ f \notin S => state'[f] = state[f]
                           /\ retired'[f] = retired[f] \/ (f \in S /\ retired'[f] = 0)
                           /\ f \in S /\ k = "scheduled" => retired'[f] = 0
  BY <1>2, Zenon
<1>4. FilesType'
  <2>1. retired' \in [DataFiles -> Nat]
    OBVIOUS
  <2>2. state' \in [DataFiles -> States]
    BY Zenon DEF States
  <2> QED
    BY <1>1, <2>1, <2>2, Zenon
<1>5. OneRestore'
  BY Zenon DEF OneRestore
<1>6. ReadersSafe'
  BY <1>1, <1>2, <1>3 DEF ReadersSafe
<1>7. WritersSafe' /\ ForgottenSafe'
  BY <1>1, <1>2, <1>3, Zenon DEF WritersSafe, ForgottenSafe
<1>8. BackupKnown'
  BY <1>1, <1>2, <1>3 DEF BackupKnown, Lake!Configured, Lake!None
<1>9. ShownStored'
  BY <1>1, <1>2, <1>3, Zenon DEF ShownStored
<1> QED
  BY <1>4, <1>5, <1>6, <1>7, <1>8, <1>9, Zenon

\* The steps of the Cycle that retire files.
LEMMA CompactKeepsFiles ==
    ASSUME Lake!Configured, FilesInv, Lake!RewriteFiles \/ Lake!MergeFiles \/ Lake!Expire
    PROVE  FilesInv'
<1>1. CASE UNCHANGED <<state, retired, stored, ages, writing, Lake!readers, Lake!recovery>>
  BY <1>1, Zenon DEF FilesInv, FilesType, OneRestore, ReadersSafe, WritersSafe, ForgottenSafe,
              BackupKnown, ShownStored, Lake!readers, Lake!recovery
<1>2. CASE Lake!RewriteFiles
  <2>1. CASE \E f \in Lake!Live, g \in Lake!Fresh :
               /\ state' = [state EXCEPT ![f] = "superseded", ![g] = "live"]
               /\ stored' = stored \cup {g}
    <3>1. PICK f \in Lake!Live, g \in Lake!Fresh :
               /\ state' = [state EXCEPT ![f] = "superseded", ![g] = "live"]
               /\ stored' = stored \cup {g}
      BY <2>1, Zenon
    <3>2. /\ state \in [DataFiles -> States] /\ {f} \in SUBSET Lake!Live
          /\ f \in DataFiles /\ g \in DataFiles /\ f # g
      BY FreeFile, Zenon DEF FilesInv, FilesType, Lake!Live
    <3>3. state' = [x \in DataFiles |-> CASE x = g -> "live" [] x \in {f} -> "superseded"
                                          [] OTHER -> state[x]]
      BY <3>1, <3>2, Zenon
    <3>4. UNCHANGED <<retired, ages, writing, Lake!readers, Lake!recovery>>
      BY <1>2, Zenon DEF Lake!RewriteFiles
    <3> QED
      BY <3>1, <3>2, <3>3, <3>4, ReplaceKeepsFiles, Zenon
  <2> QED
    BY <1>1, <1>2, <2>1, Zenon DEF Lake!RewriteFiles
<1>3. CASE Lake!MergeFiles
  <2>1. CASE \E S \in SUBSET Lake!Live, g \in Lake!Fresh :
               /\ state' = [f \in DataFiles |-> CASE f = g -> "live"
                                                  [] f \in S -> "scheduled"
                                                  [] OTHER -> state[f]]
               /\ retired' = [f \in DataFiles |-> IF f \in S THEN 0 ELSE retired[f]]
               /\ stored' = stored \cup {g}
    <3>1. PICK S \in SUBSET Lake!Live, g \in Lake!Fresh :
               /\ state' = [f \in DataFiles |-> CASE f = g -> "live"
                                                  [] f \in S -> "scheduled"
                                                  [] OTHER -> state[f]]
               /\ retired' = [f \in DataFiles |-> IF f \in S THEN 0 ELSE retired[f]]
               /\ stored' = stored \cup {g}
      BY <2>1, Zenon
    <3>2. UNCHANGED <<ages, writing, Lake!readers, Lake!recovery>>
      BY <1>3, Zenon DEF Lake!MergeFiles
    <3> QED
      BY <3>1, <3>2, ReplaceKeepsFiles, Zenon
  <2> QED
    BY <1>1, <1>3, <2>1, Zenon DEF Lake!MergeFiles
<1>4. CASE Lake!Expire
  <2>1. PICK S \in SUBSET {f \in DataFiles : state[f] = "superseded"} :
          /\ state' = [f \in DataFiles |-> IF f \in S THEN "scheduled" ELSE state[f]]
          /\ retired' = [f \in DataFiles |-> IF f \in S THEN 0 ELSE retired[f]]
    BY <1>4, Zenon DEF Lake!Expire
  <2>2. UNCHANGED <<stored, ages, writing, plan, reading, backup, lag, forgotten, dangling,
                    missing, frozen, restores>>
    BY <1>4, Zenon DEF Lake!Expire, Lake!readers, Lake!recovery
  <2> USE DEF FilesInv, FilesType
  <2>3. FilesType' /\ OneRestore'
    BY <2>1, <2>2, Zenon DEF States, OneRestore
  <2>4. ReadersSafe' /\ WritersSafe' /\ ForgottenSafe'
    BY <2>1, <2>2 DEF ReadersSafe, WritersSafe, ForgottenSafe
  <2>5. BackupKnown' /\ ShownStored'
    BY <2>1, <2>2, Zenon DEF BackupKnown, ShownStored
  <2> QED
    BY <2>3, <2>4, <2>5, Zenon
<1> QED
  BY <1>2, <1>3, <1>4, Zenon

\* Removing the files of D, their entries with them where they had one, is safe
\* if nobody needs them.
LEMMA RemoveKeepsFiles ==
    ASSUME Lake!Configured, FilesInv, NEW D \in SUBSET DataFiles,
           \A f \in D : state[f] \in {"scheduled", "none"},
           \A r \in Readers : plan[r] \cap D = {},
           (writing \cup forgotten) \cap D = {},
           stored' = stored \ D,
           state' = [f \in DataFiles |-> IF f \in D THEN "none" ELSE state[f]],
           ages' = Lake!Remaining(ages, stored'),
           retired' \in [DataFiles -> Nat], \A f \in DataFiles \ D : retired'[f] = retired[f],
           UNCHANGED <<writing, Lake!readers, Lake!recovery>>
    PROVE  FilesInv'
<1> USE DEF FilesInv, FilesType, Lake!readers, Lake!recovery
<1>1. \A f \in DataFiles : /\ f \in D => state'[f] = "none"
                           /\ f \notin D => state'[f] = state[f]
                           /\ f \in stored' => ages'[f] = ages[f] /\ f \in stored /\ f \notin D
                           /\ f \notin stored' => ages'[f] = 0
  BY Zenon DEF Lake!Remaining
<1>2. state' \in [DataFiles -> States] /\ ages' \in [DataFiles -> Nat]
  BY Zenon DEF States, Lake!Remaining
<1>3. FilesType' /\ OneRestore'
  BY <1>2, Zenon DEF OneRestore
<1>4. ReadersSafe'
  BY <1>1, Zenon DEF ReadersSafe
<1>5. WritersSafe' /\ ForgottenSafe'
  BY <1>1, Zenon DEF WritersSafe, ForgottenSafe
<1>6. BackupKnown'
  BY <1>1, <1>2, Zenon DEF BackupKnown, Lake!Configured, Lake!None
<1>7. ShownStored'
  BY <1>1, Zenon DEF ShownStored
<1> QED
  BY <1>3, <1>4, <1>5, <1>6, <1>7, Zenon

\* cleanup_old_files and delete_orphaned_files remove only what nobody needs.
LEMMA SweepKeepsFiles ==
    ASSUME Lake!Configured, FilesInv, Lake!Cleanup \/ Lake!DeleteOrphans
    PROVE  FilesInv'
<1> DEFINE orphans == {f \in stored : state[f] = "none" /\ ages[f] > OrphanRetention}
           Gone(D) == /\ stored' = stored \ D
                      /\ state' = [f \in DataFiles |-> IF f \in D THEN "none" ELSE state[f]]
                      /\ ages' = Lake!Remaining(ages, stored')
                      /\ retired' \in [DataFiles -> Nat]
                      /\ \A f \in DataFiles \ D : retired'[f] = retired[f]
                      /\ UNCHANGED <<writing, Lake!readers, Lake!recovery>>
<1>1. state = [f \in DataFiles |-> state[f]] /\ retired \in [DataFiles -> Nat]
  BY Zenon DEF FilesInv, FilesType
<1>2. \/ Gone({})
      \/ Gone(Lake!cleanupOldFiles)
      \/ ~frozen /\ Gone(orphans)
  <2>1. CASE Lake!Cleanup
    <3>1. ASSUME retired' = Lake!Remaining(retired, DataFiles \ Lake!cleanupOldFiles)
          PROVE  /\ retired' \in [DataFiles -> Nat]
                 /\ \A f \in DataFiles \ Lake!cleanupOldFiles : retired'[f] = retired[f]
      BY <1>1, <3>1 DEF Lake!Remaining
    <3> QED
      BY <1>1, <2>1, <3>1, Zenon DEF Lake!Cleanup
  <2>2. CASE Lake!DeleteOrphans
    <3>1. [f \in DataFiles |-> IF f \in orphans THEN "none" ELSE state[f]] = state
      BY <1>1, Zenon
    <3> QED
      BY <1>1, <2>2, <3>1, Zenon DEF Lake!DeleteOrphans, Lake!catalog
  <2> QED
    BY <2>1, <2>2, Zenon
<1>3. CASE Gone({})
  <2> DEFINE D == {}
  <2>1. Gone(D) /\ D \in SUBSET DataFiles /\ \A S : S \cap D = {}
    BY <1>3, Zenon
  <2>2. \A f \in D : state[f] \in {"scheduled", "none"}
    BY Zenon
  <2> HIDE DEF D
  <2> QED
    BY <2>1, <2>2, RemoveKeepsFiles, Zenon
<1>4. CASE Gone(Lake!cleanupOldFiles)
  <2>1. ASSUME NEW r \in Readers, NEW f \in plan[r] \cap Lake!cleanupOldFiles PROVE FALSE
    <3>1. /\ retired[f] \in Nat /\ reading[r] \in Nat /\ reading[r] <= MaxRead
          /\ retired[f] <= reading[r] /\ retired[f] > Grace
      BY Zenon DEF Lake!cleanupOldFiles, FilesInv, FilesType, ReadersSafe
    <3> QED
      BY <3>1 DEF Lake!Configured
  <2>2. (writing \cup forgotten) \cap Lake!cleanupOldFiles = {}
    <3>1. \A f \in writing \cup forgotten : state[f] = "none"
      BY Zenon DEF FilesInv, WritersSafe, ForgottenSafe
    <3>2. \A f \in Lake!cleanupOldFiles : state[f] = "scheduled"
      BY Zenon DEF Lake!cleanupOldFiles
    <3> QED
      BY <3>1, <3>2
  <2>3. Lake!cleanupOldFiles \in SUBSET DataFiles
        /\ \A f \in Lake!cleanupOldFiles : state[f] = "scheduled"
    BY Zenon DEF Lake!cleanupOldFiles
  <2> QED
    BY <1>4, <2>1, <2>2, <2>3, RemoveKeepsFiles, Zenon
<1>5. CASE ~frozen /\ Gone(orphans)
  <2>1. ASSUME NEW r \in Readers, NEW f \in plan[r] \cap orphans PROVE FALSE
    <3>1. /\ ages[f] \in Nat /\ reading[r] \in Nat /\ reading[r] <= MaxRead
          /\ ages[f] <= MaxWrite + MaxLag + reading[r] /\ ages[f] > OrphanRetention
      BY Zenon DEF FilesInv, FilesType, ReadersSafe
    <3> QED
      BY <3>1 DEF Lake!Configured
  <2>2. ASSUME NEW f \in writing \cap orphans PROVE FALSE
    <3>1. ages[f] \in Nat /\ ages[f] <= MaxWrite /\ ages[f] > OrphanRetention
      BY Zenon DEF FilesInv, FilesType, WritersSafe
    <3> QED
      BY <3>1 DEF Lake!Configured
  <2>3. ASSUME NEW f \in forgotten \cap orphans PROVE FALSE
    <3>1. /\ ages[f] \in Nat /\ missing \in Nat /\ missing <= MaxDetect
          /\ ages[f] <= MaxWrite + MaxLag + missing /\ ages[f] > OrphanRetention
      BY <1>5, Zenon DEF FilesInv, FilesType, ForgottenSafe
    <3> QED
      BY <3>1 DEF Lake!Configured
  <2>4. orphans \in SUBSET DataFiles /\ \A f \in orphans : state[f] = "none"
    BY Zenon DEF FilesInv, FilesType
  <2> HIDE DEF orphans
  <2> QED
    BY <1>5, <2>1, <2>2, <2>3, <2>4, RemoveKeepsFiles, Zenon
<1> QED
  BY <1>2, <1>3, <1>4, <1>5, Zenon

\* The archive, the restore, the freeze and the files registered again.
LEMMA RecoveryKeepsFiles ==
    ASSUME Lake!Configured, FilesInv, Lake!Archive \/ Lake!Restore \/ Lake!Freeze \/ Lake!Reregister
    PROVE  FilesInv'
<1> USE DEF FilesInv, FilesType, Lake!catalog, Lake!readers
<1>1. CASE Lake!Archive
  <2>1. /\ backup' = state /\ lag' = 0 /\ restores = 0 /\ lag = Lake!None
        /\ UNCHANGED <<state, retired, stored, ages, writing, plan, reading, forgotten, dangling,
                       missing, frozen, restores>>
    BY <1>1 DEF Lake!Archive, Lake!Configured
  <2>2. FilesType' /\ OneRestore'
    BY <2>1 DEF OneRestore, Lake!Configured, Lake!None
  <2>3. ReadersSafe' /\ WritersSafe' /\ ForgottenSafe'
    BY <2>1, Zenon DEF ReadersSafe, WritersSafe, ForgottenSafe
  <2>4. BackupKnown' /\ ShownStored'
    BY <2>1, Zenon DEF BackupKnown, ShownStored, Lake!None
  <2> QED
    BY <2>2, <2>3, <2>4, Zenon
<1>2. CASE Lake!Restore
  <2>1. /\ lag # Lake!None /\ restores' = restores + 1 /\ state' = backup
        /\ forgotten' = {f \in Lake!Visible : backup[f] = "none"}
        /\ dangling' = {f \in DataFiles : backup[f] # "none"} \ stored
        /\ writing' = {} /\ missing' = 0
        /\ backup' = [f \in DataFiles |-> "none"] /\ lag' = Lake!None
        /\ UNCHANGED <<retired, stored, ages, plan, reading, frozen>>
    BY <1>2, Zenon DEF Lake!Restore
  <2>2. lag \in 0 .. MaxLag /\ restores = 0 /\ ~frozen
    BY <2>1, Zenon DEF OneRestore
  <2>3. \A f \in forgotten' : /\ f \in DataFiles /\ f \in stored /\ state[f] # "none"
                              /\ backup[f] = "none"
                              /\ ages[f] <= MaxWrite + lag
    BY <2>1, Zenon DEF Lake!Visible, Lake!Live, ShownStored, BackupKnown
  <2>4. FilesType' /\ OneRestore'
    BY <2>1, <2>2, <2>3 DEF OneRestore, States, Lake!None
  <2>5. ASSUME NEW r \in Readers, NEW f \in plan[r]
        PROVE  /\ f \in stored
               /\ backup[f] = "scheduled" => retired[f] <= reading[r]
               /\ backup[f] = "none" => ages[f] <= MaxWrite + MaxLag + reading[r]
    <3>1. /\ f \in DataFiles /\ f \in stored /\ ages[f] \in Nat /\ reading[r] \in Nat
          /\ state[f] = "scheduled" => retired[f] <= reading[r]
          /\ state[f] = "none" => ages[f] <= MaxWrite + MaxLag + reading[r]
      BY Zenon DEF ReadersSafe
    <3>2. CASE backup[f] = "scheduled"
      BY <3>1, <3>2, Zenon DEF BackupKnown
    <3>3. CASE backup[f] = "none" /\ state[f] # "none"
      <4>1. ages[f] <= MaxWrite + lag
        BY <2>1, <3>1, <3>3, Zenon DEF BackupKnown
      <4> QED
        BY <2>2, <3>1, <3>3, <4>1 DEF Lake!Configured
    <3> QED
      BY <3>1, <3>2, <3>3, Zenon
  <2>6. ReadersSafe'
    BY <2>1, <2>5, Zenon DEF ReadersSafe
  <2>7. WritersSafe'
    BY <2>1, Zenon DEF WritersSafe
  <2>8. ForgottenSafe'
    BY <2>1, <2>2, <2>3 DEF ForgottenSafe, Lake!Configured
  <2>9. BackupKnown' /\ ShownStored'
    BY <2>1, Zenon DEF BackupKnown, ShownStored, Lake!None
  <2> QED
    BY <2>4, <2>6, <2>7, <2>8, <2>9, Zenon
<1>3. CASE Lake!Freeze
  <2>1. /\ forgotten # {} /\ frozen' = TRUE
        /\ UNCHANGED <<state, retired, stored, ages, writing, plan, reading, backup, lag, forgotten,
                       dangling, missing, restores>>
    BY <1>3, Zenon DEF Lake!Freeze
  <2> QED
    BY <2>1, Zenon DEF OneRestore, ReadersSafe, WritersSafe, ForgottenSafe, BackupKnown, ShownStored
<1>4. CASE Lake!Reregister
  <2>1. /\ frozen /\ state' = [f \in DataFiles |-> IF f \in forgotten THEN "live" ELSE state[f]]
        /\ forgotten' = {} /\ frozen' = FALSE /\ missing' = 0
        /\ UNCHANGED <<retired, stored, ages, writing, plan, reading, backup, lag, dangling,
                       restores>>
    BY <1>4, Zenon DEF Lake!Reregister
  <2>2. restores # 0 /\ lag = Lake!None /\ \A f \in DataFiles : backup[f] = "none"
    BY <2>1, Zenon DEF OneRestore
  <2>3. FilesType' /\ OneRestore'
    BY <2>1, <2>2, Zenon DEF OneRestore, States
  <2>4. ReadersSafe' /\ WritersSafe' /\ ForgottenSafe'
    BY <2>1, Zenon DEF ReadersSafe, WritersSafe, ForgottenSafe
  <2>5. BackupKnown'
    BY <2>1, <2>2 DEF BackupKnown
  <2>6. ShownStored'
    BY <2>1, Zenon DEF ShownStored, ForgottenSafe
  <2> QED
    BY <2>3, <2>4, <2>5, <2>6, Zenon
<1> QED
  BY <1>1, <1>2, <1>3, <1>4, Zenon

\* Every age grows by at most one, within the durations the windows cover.
LEMMA TickKeepsFiles ==
    ASSUME Lake!Configured, FilesInv, Lake!Tick
    PROVE  FilesInv'
<1> USE DEF FilesInv, FilesType
<1>1. /\ \A r \in Readers : plan[r] # {} => reading[r] < MaxRead
      /\ \A f \in writing : ages[f] < MaxWrite
      /\ forgotten # {} /\ ~frozen => missing < MaxDetect
      /\ lag # Lake!None => lag < MaxLag
      /\ lag' = IF lag = Lake!None THEN Lake!None ELSE lag + 1
      /\ ages' = [f \in DataFiles |-> IF f \in stored THEN Lake!Older(ages[f]) ELSE 0]
      /\ retired' = [f \in DataFiles |-> IF state[f] = "scheduled" THEN Lake!Older(retired[f]) ELSE 0]
      /\ reading' = [r \in Readers |-> IF plan[r] = {} THEN 0 ELSE reading[r] + 1]
      /\ missing' = IF forgotten = {} \/ frozen THEN 0 ELSE missing + 1
      /\ UNCHANGED <<state, stored, writing, plan, backup, forgotten, dangling, frozen, restores>>
  BY Zenon DEF Lake!Tick
<1>2. \A f \in DataFiles : /\ ages'[f] \in Nat /\ ages'[f] <= ages[f] + 1
                           /\ retired'[f] \in Nat /\ retired'[f] <= retired[f] + 1
                           /\ f \notin stored => ages'[f] = 0
  BY <1>1, OlderType
<1>3. \A r \in Readers : reading'[r] \in Nat /\ (plan[r] # {} => reading'[r] = reading[r] + 1)
  BY <1>1
<1>4. /\ lag' \in {Lake!None} \cup (0 .. MaxLag) /\ (lag' = Lake!None <=> lag = Lake!None)
      /\ lag # Lake!None => lag' = lag + 1 /\ lag \in Nat
  BY <1>1 DEF Lake!None, Lake!Configured
<1>5. FilesType' /\ OneRestore'
  BY <1>1, <1>2, <1>3, <1>4 DEF OneRestore
<1>6. ReadersSafe'
  BY <1>1, <1>2, <1>3 DEF ReadersSafe, Lake!Configured
<1>7. WritersSafe'
  BY <1>1, <1>2 DEF WritersSafe, Lake!Configured
<1>8. ForgottenSafe'
  BY <1>1, <1>2 DEF ForgottenSafe, Lake!Configured
<1>9. BackupKnown' /\ ShownStored'
  BY <1>1, <1>2, <1>4 DEF BackupKnown, ShownStored, Lake!Configured
<1> QED
  BY <1>5, <1>6, <1>7, <1>8, <1>9, Zenon
-------------------------------------------------------------------------------
(***************************************************************************)
(* The table's layout.  A backfill registers a file at most once because    *)
(* the files of a prefix that the catalog does not have yet are computed    *)
(* from one reading of it, and the run registers each of them itself.       *)
(***************************************************************************)
\* The variables of the backfill have their types.
BackfillType ==
    /\ rows \in [Layout!Files -> Nat] /\ prefix \in Nat
    /\ tracked \subseteq Layout!Files /\ todo \subseteq Layout!Files

\* The catalog knows the files it holds, or holds their rows merged.
RowsKnown ==
    \A f \in Layout!Files : /\ rows[f] >= 1 <=> f \in tracked \cup merged
                            /\ rows[f] > 1 => f \in merged

\* A run at work, between its first heartbeat and its deferred calls.
Working == job \in {"pause", "reset", "next", "beat", "call", "commit"}

\* What the run has left was not registered when it read registeredFiles.
WorkExact ==
    Working =>
        /\ prefix >= 1
        /\ existing \subseteq tracked \cup merged
        /\ todo \cap existing = {}
        /\ job \in {"pause", "reset", "next"} => todo = {}
        /\ \A i \in DOMAIN Listing : i >= prefix => todo \cap Layout!Range(Listing[i]) = {}
        /\ \A f \in todo : rows[f] = 0 \/ f \in merged
        /\ \A i \in DOMAIN Listing : i >= prefix =>
              \A f \in Layout!Range(Listing[i]) \ existing : rows[f] = 0 \/ f \in merged
        /\ \A i \in DOMAIN Listing : i < prefix =>
              \A f \in Layout!Range(Listing[i]) \ todo : rows[f] >= 1

\* The inductive invariant of the backfill.
BackfillInv ==
    /\ BackfillType /\ RowsKnown /\ WorkExact
    /\ complete => \A f \in Layout!Files : rows[f] >= 1

\* A file is listed exactly if it is under some prefix.
LEMMA ListedFiles ==
    /\ \A i \in DOMAIN Listing : Layout!Range(Listing[i]) \subseteq Layout!Files
    /\ \A f \in Layout!Files : \E i \in DOMAIN Listing : f \in Layout!Range(Listing[i])
BY Zenon DEF Layout!Files

\* It holds before any run.
LEMMA BackfillInit == Layout!Init => BackfillInv
BY DEF Layout!Init, BackfillInv, BackfillType, RowsKnown, WorkExact, Working

\* Steps that touch neither the rows nor the run's work.
LEMMA BackfillQuiet ==
    ASSUME BackfillInv, UNCHANGED <<rows, tracked, merged, existing, prefix, todo>>,
           complete' => complete,
           Working' => Working
                   /\ (job' \in {"pause", "reset", "next"} => job \in {"pause", "reset", "next"})
    PROVE  BackfillInv'
<1>1. WorkExact'
  BY Zenon DEF BackfillInv, WorkExact
<1>2. BackfillType' /\ RowsKnown'
  BY Zenon DEF BackfillInv, BackfillType, RowsKnown
<1> QED
  BY <1>1, <1>2, Zenon DEF BackfillInv

\* A run that is over keeps no work.
LEMMA BackfillGone ==
    ASSUME BackfillInv, UNCHANGED <<rows, tracked, merged>>, Layout!Gone,
           complete' => complete
    PROVE  BackfillInv'
<1>1. WorkExact'
  BY Zenon DEF Layout!Gone, WorkExact, Working
<1>2. BackfillType' /\ RowsKnown'
  BY Zenon DEF Layout!Gone, BackfillInv, BackfillType, RowsKnown
<1> QED
  BY <1>1, <1>2, Zenon DEF BackfillInv

\* A merge takes files out of list_files and keeps their rows.
LEMMA MergeKeeps ==
    ASSUME BackfillInv, NEW p \in Pods, Layout!MergeFiles(p)
    PROVE  BackfillInv'
<1>1. PICK S \in SUBSET tracked : tracked' = tracked \ S /\ merged' = merged \cup S
  BY Zenon DEF Layout!MergeFiles
<1>2. tracked' \cup merged' = tracked \cup merged /\ merged \subseteq merged'
      /\ tracked' \subseteq tracked
  BY <1>1, Zenon
<1>3. UNCHANGED <<job, existing, prefix, todo, complete, rows>>
  BY Zenon DEF Layout!MergeFiles, Layout!jobVars
<1>4. RowsKnown'
  BY <1>2, <1>3, Zenon DEF BackfillInv, RowsKnown
<1>5. WorkExact'
  BY <1>2, <1>3, Zenon DEF BackfillInv, WorkExact, Working
<1> QED
  BY <1>2, <1>3, <1>4, <1>5, Zenon DEF BackfillInv, BackfillType

\* The other steps of the pods leave the files and the run alone.
LEMMA PodKeepsFiles ==
    ASSUME BackfillInv, NEW p \in Pods,
           \/ Layout!tryEnsureSchema(p) \/ Layout!Create(p) \/ Layout!CheckPause(p)
           \/ Layout!Look(p) \/ Layout!Alter(p) \/ Layout!StartCycle(p)
           \/ Layout!Refused(p) \/ Layout!PodCrash(p)
    PROVE  BackfillInv'
<1>1. UNCHANGED <<rows, tracked, merged, existing, prefix, todo, complete, job>>
  BY Zenon DEF Layout!tryEnsureSchema, Layout!Create, Layout!CheckPause, Layout!Look, Layout!Alter,
         Layout!StartCycle, Layout!Refused, Layout!PodCrash, Layout!jobVars, Layout!dataVars
<1> QED
  BY <1>1, BackfillQuiet, Zenon DEF Working

\* A run reads registeredFiles once.
LEMMA StartKeeps ==
    ASSUME Layout!Configured, BackfillInv, Layout!Backfill
    PROVE  BackfillInv'
<1>1. /\ existing' = tracked /\ prefix' = 1 /\ todo' = {} /\ complete' = FALSE
      /\ UNCHANGED <<rows, tracked, merged>>
  BY Zenon DEF Layout!Backfill, Layout!dataVars
<1>2. DOMAIN Listing \subseteq Nat \ {0}
  BY DEF Layout!Configured
<1>3. \A f \in Layout!Files \ tracked : rows[f] = 0 \/ f \in merged
  BY DEF BackfillInv, BackfillType, RowsKnown
<1>4. WorkExact'
  BY <1>1, <1>2, <1>3, ListedFiles DEF WorkExact
<1> QED
  BY <1>1, <1>4, Zenon DEF BackfillInv, BackfillType, RowsKnown

\* The run goes on to the next prefix, or is complete.
LEMMA PrefixKeeps ==
    ASSUME Layout!Configured, BackfillInv, Layout!NextPrefix
    PROVE  BackfillInv'
<1>1. job = "next" /\ UNCHANGED <<rows, tracked, merged, existing>>
  BY Zenon DEF Layout!NextPrefix, Layout!dataVars
<1>2. /\ DOMAIN Listing = 1..Len(Listing) /\ Len(Listing) \in Nat /\ prefix \in Nat
  BY DEF Layout!Configured, BackfillInv, BackfillType
<1>3. Working /\ todo = {}
  BY <1>1, Zenon DEF BackfillInv, WorkExact, Working
<1>4. \A i \in DOMAIN Listing : i < prefix => \A f \in Layout!Range(Listing[i]) : rows[f] >= 1
  BY <1>3, Zenon DEF BackfillInv, WorkExact
<1>5. CASE prefix > Len(Listing)
  <2>1. job' = "restore" /\ UNCHANGED <<prefix, todo>>
    BY <1>5, Zenon DEF Layout!NextPrefix
  <2>2. \A f \in Layout!Files : rows[f] >= 1
    BY <1>2, <1>4, <1>5, ListedFiles
  <2>3. WorkExact'
    BY <2>1, Zenon DEF WorkExact, Working
  <2> QED
    BY <1>1, <2>1, <2>2, <2>3, Zenon DEF BackfillInv, BackfillType, RowsKnown
<1>6. CASE prefix <= Len(Listing)
  <2>1. /\ todo' = Layout!Range(Listing[prefix]) \ existing /\ prefix' = prefix + 1
        /\ job' \in {"next", "beat"} /\ (job' = "next" => todo' = {}) /\ UNCHANGED complete
    BY <1>2, <1>6 DEF Layout!NextPrefix, Layout!newFiles
  <2>2. CASE prefix \in DOMAIN Listing
    <3>1. /\ existing \subseteq tracked \cup merged
          /\ \A i \in DOMAIN Listing : i >= prefix =>
              \A f \in Layout!Range(Listing[i]) \ existing : rows[f] = 0 \/ f \in merged
      BY <1>3, Zenon DEF BackfillInv, WorkExact
    <3>2. todo' \subseteq Layout!Files
      BY <2>1, <2>2, ListedFiles, Zenon
    <3>3. \A i \in DOMAIN Listing : i >= prefix' => todo' \cap Layout!Range(Listing[i]) = {}
      <4>1. \A i \in DOMAIN Listing : i >= prefix' => i # prefix
        BY <1>2, <2>1
      <4> QED
        BY <2>1, <2>2, <4>1, Zenon DEF Layout!Configured
    <3>4. \A f \in todo' : rows[f] = 0 \/ f \in merged
      BY <1>2, <2>1, <2>2, <3>1
    <3>5. \A f \in Layout!Range(Listing[prefix]) \ todo' : rows[f] >= 1
      BY <2>1, <2>2, <3>1, ListedFiles, Zenon DEF BackfillInv, RowsKnown
    <3>6. \A i \in DOMAIN Listing : i < prefix' =>
              \A f \in Layout!Range(Listing[i]) \ todo' : rows[f] >= 1
      BY <1>2, <1>4, <2>1, <3>5
    <3>7. \A i \in DOMAIN Listing : i >= prefix' =>
              \A f \in Layout!Range(Listing[i]) \ existing : rows[f] = 0 \/ f \in merged
      BY <1>2, <2>1, <3>1
    <3>8. todo' \cap existing = {}
      BY <2>1, Zenon
    <3>9. prefix' >= 1
      BY <1>2, <2>1
    <3>10. WorkExact'
      BY <1>1, <2>1, <3>1, <3>3, <3>4, <3>6, <3>7, <3>8, <3>9, Zenon DEF WorkExact
    <3> QED
      BY <1>1, <1>2, <2>1, <3>2, <3>10 DEF BackfillInv, BackfillType, RowsKnown
  <2> QED
    BY <1>2, <1>3, <1>6, <2>2 DEF BackfillInv, WorkExact
<1> QED
  BY <1>2, <1>5, <1>6
\* A transaction registers files that are left, and only those.
LEMMA RegisterKeeps ==
    ASSUME BackfillInv, Working, NEW batch \in Layout!Batches, Layout!Registered(batch),
           UNCHANGED merged
    PROVE  /\ rows' \in [Layout!Files -> Nat] /\ tracked' \subseteq Layout!Files
           /\ RowsKnown'
           /\ \A f \in Layout!Files : /\ f \in batch => rows'[f] >= 1
                                      /\ f \notin batch => rows'[f] = rows[f]
                                      /\ rows[f] >= 1 => rows'[f] >= 1
<1>1. batch \subseteq todo /\ todo \subseteq Layout!Files
  BY Zenon DEF Layout!Batches, BackfillInv, BackfillType
<1>2. /\ rows' = [f \in Layout!Files |-> IF f \in batch THEN rows[f] + 1 ELSE rows[f]]
      /\ tracked' = tracked \cup batch
  BY Zenon DEF Layout!Registered
<1>3. \A f \in batch : rows[f] = 0 \/ f \in merged
  BY <1>1, Zenon DEF BackfillInv, WorkExact
<1>4. \A f \in Layout!Files : rows[f] \in Nat
  BY Zenon DEF BackfillInv, BackfillType
<1>5. rows' \in [Layout!Files -> Nat] /\ tracked' \subseteq Layout!Files
  BY <1>1, <1>2, <1>4 DEF BackfillInv, BackfillType
<1>6. RowsKnown'
  BY <1>2, <1>3, <1>4 DEF BackfillInv, RowsKnown
<1> QED
  BY <1>2, <1>4, <1>5, <1>6

\* A batch is committed, refused, or of unknown fate.
LEMMA CommitKeeps ==
    ASSUME BackfillInv, Layout!Commit
    PROVE  BackfillInv'
<1>1. job = "commit" /\ UNCHANGED <<merged, existing, prefix, complete>> /\ Working
  BY Zenon DEF Layout!Commit, Working
<1>2. ASSUME NEW batch \in Layout!Batches, Layout!Registered(batch), todo' = todo \ batch,
             job' = IF todo' = {} THEN "next" ELSE "beat"
      PROVE  BackfillInv'
  <2>1. /\ rows' \in [Layout!Files -> Nat] /\ tracked' \subseteq Layout!Files /\ RowsKnown'
        /\ \A f \in Layout!Files : /\ f \in batch => rows'[f] >= 1
                                   /\ f \notin batch => rows'[f] = rows[f]
                                   /\ rows[f] >= 1 => rows'[f] >= 1
    BY <1>1, <1>2, RegisterKeeps, Zenon
  <2>2. batch \subseteq todo /\ todo \subseteq Layout!Files /\ tracked \subseteq tracked'
    BY <1>2, Zenon DEF Layout!Batches, Layout!Registered, BackfillInv, BackfillType
  <2>3. /\ prefix >= 1 /\ existing \subseteq tracked \cup merged /\ todo \cap existing = {}
        /\ \A i \in DOMAIN Listing : i >= prefix => todo \cap Layout!Range(Listing[i]) = {}
        /\ \A f \in todo : rows[f] = 0 \/ f \in merged
        /\ \A i \in DOMAIN Listing : i >= prefix =>
              \A f \in Layout!Range(Listing[i]) \ existing : rows[f] = 0 \/ f \in merged
        /\ \A i \in DOMAIN Listing : i < prefix =>
              \A f \in Layout!Range(Listing[i]) \ todo : rows[f] >= 1
    BY <1>1, Zenon DEF BackfillInv, WorkExact
  <2>4. \A f \in todo' : rows'[f] = 0 \/ f \in merged
    BY <1>2, <2>1, <2>2, <2>3, Zenon
  <2>5. \A i \in DOMAIN Listing : i >= prefix =>
            \A f \in Layout!Range(Listing[i]) \ existing : rows'[f] = 0 \/ f \in merged
    BY <2>1, <2>2, <2>3, ListedFiles, Zenon
  <2>6. \A i \in DOMAIN Listing : i < prefix =>
            \A f \in Layout!Range(Listing[i]) \ todo' : rows'[f] >= 1
    BY <1>2, <2>1, <2>3, ListedFiles, Zenon
  <2>7. /\ existing \subseteq tracked' \cup merged /\ todo' \cap existing = {}
        /\ \A i \in DOMAIN Listing : i >= prefix => todo' \cap Layout!Range(Listing[i]) = {}
        /\ job' \in {"pause", "reset", "next"} => todo' = {}
    BY <1>2, <2>2, <2>3, Zenon
  <2>8. WorkExact'
    BY <1>1, <2>3, <2>4, <2>5, <2>6, <2>7, Zenon DEF WorkExact
  <2> QED
    BY <1>1, <1>2, <2>1, <2>2, <2>8, Zenon DEF BackfillInv, BackfillType
<1>3. ASSUME job' = "restore", UNCHANGED todo,
             (\E batch \in Layout!Batches : Layout!Registered(batch)) \/ UNCHANGED <<rows, tracked>>
      PROVE  BackfillInv'
  <2>1. WorkExact'
    BY <1>3, Zenon DEF WorkExact, Working
  <2>2. CASE UNCHANGED <<rows, tracked>>
    BY <1>1, <1>3, <2>1, <2>2, Zenon DEF BackfillInv, BackfillType, RowsKnown
  <2>3. ASSUME NEW batch \in Layout!Batches, Layout!Registered(batch) PROVE BackfillInv'
    BY <1>1, <1>3, <2>1, <2>3, RegisterKeeps, Zenon DEF BackfillInv, BackfillType
  <2> QED
    BY <1>3, <2>2, <2>3, Zenon
<1> QED
  BY <1>2, <1>3, Zenon DEF Layout!Commit

\* Every step of pods and backfill keeps it.
LEMMA BackfillNext ==
    ASSUME Layout!Configured PROVE BackfillInv /\ [Layout!Next]_(Layout!vars) => BackfillInv'
<1> SUFFICES ASSUME BackfillInv, [Layout!Next]_(Layout!vars) PROVE BackfillInv'
  BY Zenon
<1>1. CASE Layout!heartbeatBackfillPause
  <2>1. CASE Layout!Gone
    BY <1>1, <2>1, BackfillGone, Zenon DEF Layout!heartbeatBackfillPause, Layout!dataVars
  <2>2. CASE ~Layout!Gone
    BY <1>1, <2>2, BackfillQuiet, Zenon DEF Layout!heartbeatBackfillPause, Layout!dataVars, Working
  <2> QED
    BY <2>1, <2>2, Zenon
<1>2. CASE Layout!Reset \/ Layout!AddDataFiles \/ Layout!Restore
  BY <1>2, BackfillQuiet DEF Layout!Reset, Layout!AddDataFiles, Layout!Restore, Layout!dataVars, Working
<1>3. CASE Layout!clearBackfillPause \/ Layout!Kill
  BY <1>3, BackfillGone DEF Layout!clearBackfillPause, Layout!Kill, Layout!dataVars
<1>4. CASE Layout!Tick \/ UNCHANGED Layout!vars
  BY <1>4, BackfillQuiet DEF Layout!Tick, Layout!vars, Layout!jobVars, Layout!dataVars, Working
<1> QED
  BY <1>1, <1>2, <1>3, <1>4, MergeKeeps, PodKeepsFiles, StartKeeps, PrefixKeeps, CommitKeeps, Zenon
     DEF Layout!Next, Layout!PodStep, Layout!JobStep
-------------------------------------------------------------------------------
(***************************************************************************)
(* The stores together: a step of Storage is a step of one part, and leaves *)
(* the others as they are.                                                  *)
(***************************************************************************)

\* Initially each part is in an initial state of its own.
LEMMA StorageInits == StorageInit => Store!Init /\ Layout!Init /\ Lake!Init
BY Zenon DEF StorageInit

\* What is not in focus does not move.
LEMMA StorageSteps ==
    [StorageNext]_allVars => /\ [Store!Next]_(Store!vars)
                             /\ [Layout!Next]_(Layout!vars)
                             /\ [Lake!Next]_(Lake!vars)
<1> SUFFICES ASSUME [StorageNext]_allVars
             PROVE  /\ [Store!Next]_(Store!vars)
                    /\ [Layout!Next]_(Layout!vars)
                    /\ [Lake!Next]_(Lake!vars)
  BY Zenon
<1>1. UNCHANGED storeVars => UNCHANGED Store!vars
  BY Zenon DEF storeVars, Store!vars
<1>2. UNCHANGED layoutVars => UNCHANGED Layout!vars
  BY Zenon DEF layoutVars, Layout!vars, Layout!table, Layout!podVars, Layout!jobVars, Layout!dataVars
<1>3. UNCHANGED fileVars => UNCHANGED Lake!vars
  BY Zenon DEF fileVars, Lake!vars, Lake!catalog, Lake!readers, Lake!recovery
<1>4. UNCHANGED allVars => UNCHANGED storeVars /\ UNCHANGED layoutVars /\ UNCHANGED fileVars
  BY Zenon DEF allVars
<1>5. StorageNext => /\ Store!Next \/ UNCHANGED storeVars
                     /\ Layout!Next \/ UNCHANGED layoutVars
                     /\ Lake!Next \/ UNCHANGED fileVars
  BY DEF StorageNext, Others
<1> QED
  BY <1>1, <1>2, <1>3, <1>4, <1>5, Zenon

\* The files' invariant is inductive.
LEMMA FilesNext == FilesInv /\ [Lake!Next]_(Lake!vars) => FilesInv'
<1> SUFFICES ASSUME FilesInv, [Lake!Next]_(Lake!vars) PROVE FilesInv'
  BY Zenon
<1>1. CASE UNCHANGED Lake!vars
  BY <1>1, Zenon DEF FilesInv, FilesType, OneRestore, ReadersSafe, WritersSafe, ForgottenSafe,
              BackupKnown, ShownStored, Lake!vars, Lake!catalog, Lake!readers, Lake!recovery
<1> QED
  BY Zenon, <1>1, FilesAssumption, WriteKeepsFiles, ReadKeepsFiles, CompactKeepsFiles,
     SweepKeepsFiles, RecoveryKeepsFiles, TickKeepsFiles DEF Lake!Next

\* A run of the backfill that returned nil has registered every listed file, and
\* none twice unless a merge hid it, for any listing, batch size and number of
\* runs, faults and pods (Backfill).
THEOREM BackfillIsExact == StorageSpec => []BackfillExact
<1>1. StorageInit => BackfillInv
  BY StorageInits, BackfillInit, LayoutAssumption, Zenon
<1>2. BackfillInv /\ [StorageNext]_allVars => BackfillInv'
  BY StorageSteps, BackfillNext, LayoutAssumption, Zenon
<1>3. BackfillInv => BackfillExact
  BY Zenon DEF BackfillInv, RowsKnown, BackfillExact, Layout!BackfillExact
<1> QED
  BY <1>1, <1>2, <1>3, PTL DEF StorageSpec

\* No bytes anyone still needs are removed, for any number of files and readers
\* and any windows that cover the durations they are set for (Cycle).
THEOREM BytesAreKept == StorageSpec => []BytesOutliveTheirUse
<1>1. StorageInit => FilesInv
  BY StorageInits, FilesInit, FilesAssumption, Zenon
<1>2. FilesInv /\ [StorageNext]_allVars => FilesInv'
  BY StorageSteps, FilesNext, Zenon
<1>3. FilesInv => BytesOutliveTheirUse
  <2> SUFFICES ASSUME FilesInv PROVE Lake!BytesOutliveTheirUse
    BY Zenon DEF BytesOutliveTheirUse
  <2>1. Lake!Planned \subseteq stored
    BY Zenon DEF FilesInv, Lake!Planned, ReadersSafe
  <2>2. writing \subseteq stored /\ forgotten \subseteq stored
    BY Zenon DEF FilesInv, WritersSafe, ForgottenSafe
  <2>3. Lake!Visible \subseteq stored
    BY DEF FilesInv, Lake!Visible, Lake!Live, ShownStored
  <2> QED
    BY <2>1, <2>2, <2>3, Zenon DEF Lake!BytesOutliveTheirUse
<1> QED
  BY <1>1, <1>2, <1>3, PTL DEF StorageSpec

\* fsstore.PutObject implements ObjectStore, for any number of uploads racing for
\* any keys in any directories, any failing system calls and any number of crashes:
\* an object appears whole or not at all; an upload answered nil took effect; and it
\* was on disk by then unless the fsync of its directory failed (fsstore.go:98-102)
\* or the directory is new (fsstore.go:64).
THEOREM StoreRefines == StorageSpec => StoreImplements
<1>1. StorageInit => StoreInv /\ Store!Abstract!Init
  BY StorageInits, StoreInit, StoreAssumption, NeverTorn, Zenon
     DEF StoreSeen, Store!Init, Store!Abstract!Init
<1>2. StoreInv /\ [StorageNext]_allVars => StoreInv'
  BY StorageSteps, StoreNext, StoreAssumption, Zenon
<1>3. StoreInv /\ StoreInv' /\ [StorageNext]_allVars => [Store!Abstract!Next]_(Store!Abstract!vars)
  BY StorageSteps, StoreStep, StoreAssumption, Zenon
<1> QED
  BY <1>1, <1>2, <1>3, PTL DEF StorageSpec, StoreImplements, Store!Abstract!Spec
===============================================================================
