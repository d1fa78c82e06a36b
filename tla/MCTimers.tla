------------------------------ MODULE MCTimers ------------------------------
(* Instances of Timers for TLC. *)
EXTENDS Timers, TLC

\* Processors, Rendez structures and processes of a kind are interchangeable
\* (safety runs only).
Symmetry == UNION {Permutations(S) : S \in {Cpu, Rendez, Sleepers, Samplers, Edfs}}
=============================================================================
