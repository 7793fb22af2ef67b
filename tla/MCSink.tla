-------------------------------- MODULE MCSink --------------------------------
(***************************************************************************)
(* Small instances of Sink.                                                *)
(***************************************************************************)
EXTENDS Sink, TLC

Symmetry == Permutations(Msg) \cup Permutations(Worker)
===============================================================================
