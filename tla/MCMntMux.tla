-------------------------------- MODULE MCMntMux --------------------------------
(* Instances of MntMux for TLC. *)
EXTENDS MntMux, TLC

Symmetry == Permutations(Proc) \cup Permutations(Tags)
================================================================================
