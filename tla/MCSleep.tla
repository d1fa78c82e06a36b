------------------------------ MODULE MCSleep ------------------------------
(* Instances of Sleep for TLC. *)
EXTENDS Sleep, TLC

\* Processes, handlers and Rendez structures are interchangeable (safety runs).
Symmetry == Permutations(Proc) \cup Permutations(Intr) \cup Permutations(Rendez)
=============================================================================
