--------------------------------- MODULE MCWait ---------------------------------
(* Instances of Wait for TLC. *)
EXTENDS Wait, TLC

Symmetry == Permutations(Slot \ {Boot}) \cup Permutations(Pids)
================================================================================
