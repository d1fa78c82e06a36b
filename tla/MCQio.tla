--------------------------------- MODULE MCQio ----------------------------------
(* Instances of Qio for TLC. *)
EXTENDS Qio, TLC

Symmetry == Permutations(Readers) \cup Permutations(Writers)
================================================================================
