------------------------------ MODULE AtLeastOnce ------------------------------
(***************************************************************************)
(* What the sink promises of the WAL and the lake, without saying how: a    *)
(* message leaves the WAL because it is stored, or because it is dropped,   *)
(* and only an unpersistable message is dropped before the lake has         *)
(* accepted anything.                                                      *)
(***************************************************************************)
CONSTANT Msg

VARIABLES
  bad,      \* the messages the lake can never accept
  held,     \* the messages the WAL still has to get rid of
  stored,   \* the messages with a row in the lake
  dropped   \* the messages terminated instead

avars == <<bad, held, stored, dropped>>

Init ==
  /\ bad \in SUBSET Msg
  /\ held = Msg
  /\ stored = {}
  /\ dropped = {}

\* A transaction: all of its rows appear at once.
Store(S) ==
  /\ S \cap bad = {}
  /\ stored' = stored \cup S
  /\ UNCHANGED <<bad, held, dropped>>

Settle(S) ==
  /\ S \subseteq held \cap stored
  /\ held' = held \ S
  /\ UNCHANGED <<bad, stored, dropped>>

\* A message is given up; the commit that seemed to fail may have stored it.
Drop(m) ==
  /\ m \in held
  /\ m \in bad \/ stored # {}
  /\ held' = held \ {m}
  /\ dropped' = dropped \cup {m}
  /\ stored' \in {stored, stored \cup ({m} \ bad)}
  /\ UNCHANGED bad

Next ==
  \/ \E S \in SUBSET Msg : Store(S) \/ Settle(S)
  \/ \E m \in Msg : Drop(m)

Spec == Init /\ [][Next]_avars
================================================================================
