------------------------------ MODULE MCQLock ------------------------------
(* Instances of QLock for TLC. *)
EXTENDS QLock

\* Processes and locks are interchangeable (safety runs only).
Symmetry == Permutations(Proc) \cup Permutations(QLocks)
=============================================================================
