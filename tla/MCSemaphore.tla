---------------------------- MODULE MCSemaphore ----------------------------
(* Instances of Semaphore for TLC. *)
EXTENDS Semaphore

\* Processes and semaphores are interchangeable (safety runs only).
Symmetry == Permutations(Proc) \cup Permutations(Addrs)
=============================================================================
