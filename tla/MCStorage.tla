----------------------------- MODULE MCStorage -----------------------------
(***************************************************************************)
(* Small instances of the parts of Storage.  Two of them are too large as  *)
(* a whole, so a behaviour is taken from one of two scopes.  The layout is *)
(* that of a lake with one maintainer and two backfills, or of a new lake  *)
(* with all pods and one backfill.  The files are three and the catalog is *)
(* not restored, or they are two and it may be.                            *)
(***************************************************************************)
EXTENDS Storage

VARIABLE scope

MCKeyOf == [a |-> "k", b |-> "k", c |-> "l"]
MCDirOf == [k |-> "d", l |-> "d"]
MCListing == <<<<1, 2>>, <<3>>>>

\* What is not in focus starts in one way only; a pin lies below all that any
\* container holds, so with a pin one container is enough.
MCInit ==
    /\ StorageInit
    /\ scope \in {"first", "second"}
    /\ focus \notin {"layout", "files"} => scope = "first"
    /\ focus # "store" => rooted = {}
    /\ exists = (focus # "layout" \/ scope = "first")
    /\ focus # "ramp" => pin = 0 /\ soft = 1 /\ hard = 32
    /\ pin # 0 => hard = 32

InScope ==
    /\ focus = "layout" => IF scope = "first" THEN pc'["ingest"] = "boot" ELSE runs' <= 1 /\ failures' <= 1
    /\ focus = "files" => IF scope = "first" THEN lag' = Lake!None ELSE 3 \notin stored'

MCNext == StorageNext /\ InScope /\ UNCHANGED scope

MCVars == <<allVars, scope>>

MCSpec ==
    /\ MCInit /\ [][MCNext]_MCVars
    /\ \A p \in Maintainers : PodFairness(p)
    /\ \A p \in Pods \ Maintainers :
          WF_layoutVars(focus = "layout" /\ scope = "second" /\ Layout!PodStep(p))
    /\ JobFairness
============================================================================
