---------------------------- MODULE MCRendezvous ----------------------------
(* Instances of Rendezvous for TLC. *)
EXTENDS Rendezvous

\* Processes, tags and groups are interchangeable (safety runs only).
Symmetry == Permutations(Proc) \cup Permutations(Tags) \cup Permutations(Rgrps)
=============================================================================
