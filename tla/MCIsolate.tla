------------------------------ MODULE MCIsolate -------------------------------
(* Instances of Isolate: every small bundle, and larger ones with one odd row. *)
EXTENDS Isolate

\* k rows, all usual but for row i.
OddRow(k, i, usual, odd) ==
  [j \in 1 .. k |-> [kind |-> IF i = j THEN odd ELSE usual, overdue |-> FALSE]]

\* Every bundle of one to three rows; every bundle of four to six rows of
\* one kind but for at most one row.
TestBundles ==
  UNION {[1 .. k -> BundleRow] : k \in 1 .. 3} \cup
  {OddRow(k, i, u, o) : k \in 4 .. 6, i \in 0 .. 6, u \in Kinds, o \in Kinds}

\* A full-sized bundle whose first row is poison.
LargeBundles == {OddRow(256, 1, "healthy", "poison")}
===============================================================================
