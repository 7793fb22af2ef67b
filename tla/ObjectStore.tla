---------------------------- MODULE ObjectStore ----------------------------
(***************************************************************************)
(* What split.ObjectStore can promise its callers on a filesystem: an      *)
(* object appears whole or not at all, replacing one is atomic, an upload  *)
(* that was answered took effect, and it is on disk when it is answered    *)
(* unless the disk refused the fsync.  A crash of the machine takes back   *)
(* only what is not on disk, and objects in a directory that is not.       *)
(***************************************************************************)
CONSTANTS Puts,     \* uploads
          Keys,     \* object keys
          KeyOf,    \* the key of each upload
          None      \* no object

VARIABLES objects,  \* what a reader finds under each key
          possible, \* what a crash may leave there
          firm,     \* keys whose directory is on disk: the others a crash may empty
          published,\* uploads that took effect
          settled,  \* those that reached the disk, or whose successor did
          hampered, \* those whose way to the disk failed
          cut,      \* those a crash kept from being answered
          answered  \* uploads reported as done

vars == <<objects, possible, firm, published, settled, hampered, cut, answered>>

Init ==
    /\ objects = [k \in Keys |-> None]
    /\ possible = [k \in Keys |-> {None}]
    /\ firm \in SUBSET Keys
    /\ published = {}
    /\ settled = {}
    /\ hampered = {}
    /\ cut = {}
    /\ answered = {}

\* An upload takes effect in one step.
Publish(p) ==
    /\ p \notin published /\ published' = published \cup {p}
    /\ objects' = [objects EXCEPT ![KeyOf[p]] = p]
    /\ possible' = [possible EXCEPT ![KeyOf[p]] = @ \cup {p}]
    /\ UNCHANGED <<firm, settled, hampered, cut, answered>>

\* What readers see under some keys reaches the disk.
Settle(K) ==
    /\ possible' = [k \in Keys |-> IF k \in K THEN {objects[k]} ELSE possible[k]]
    /\ settled' = settled \cup {p \in published : KeyOf[p] \in K}
    /\ UNCHANGED <<objects, firm, published, hampered, cut, answered>>

\* The disk refuses.
Hamper(p) ==
    /\ p \in published
    /\ hampered' = hampered \cup {p}
    /\ UNCHANGED <<objects, possible, firm, published, settled, cut, answered>>

Ack(p) ==
    /\ p \in published \ cut
    /\ p \in settled \cup hampered
    /\ answered' = answered \cup {p}
    /\ UNCHANGED <<objects, possible, firm, published, settled, hampered, cut>>

\* A crash may undo what has not settled, and empty what is not firm; it undoes
\* nothing else.
Crash ==
    /\ objects' \in [Keys -> Puts \cup {None}]
    /\ \A k \in Keys : objects'[k] \in possible[k] \/ (k \notin firm /\ objects'[k] = None)
    /\ possible' = [k \in Keys |-> {objects'[k]}]
    /\ firm \subseteq firm'
    /\ cut' = published \ answered
    /\ UNCHANGED <<published, settled, hampered, answered>>

Next ==
    \/ \E p \in Puts : Publish(p) \/ Hamper(p) \/ Ack(p)
    \/ \E K \in SUBSET Keys : Settle(K)
    \/ Crash

Spec == Init /\ [][Next]_vars

============================================================================
