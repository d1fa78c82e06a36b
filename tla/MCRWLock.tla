------------------------------ MODULE MCRWLock ------------------------------
(* Instances of RWLock for TLC. *)
EXTENDS RWLock

\* Processes are interchangeable (safety runs only).
Symmetry == Permutations(Proc)
=============================================================================
