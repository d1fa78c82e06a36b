------------------------------ MODULE ProcState ------------------------------
(*****************************************************************************)
(* What the blocking primitives of the Plan 9 kernel see of the scheduler    *)
(* (port/proc.c).  A process blocks by storing a blocked state into its own  *)
(* p->state and calling sched(); for a while it still runs on its processor, *)
(* on its own stack, until procswitch() has saved its registers and          *)
(* schedinit() has cleared p->mach.  ready(p) may be called by another       *)
(* processor at any moment after p->state was stored, so also before that;   *)
(* dequeueproc() lets nobody run p while p->mach is set.                     *)
(*                                                                           *)
(* Left out: priorities, affinity and the choice among ready processes (any  *)
(* process in the run queue may be dispatched), real-time (edf) processes,   *)
(* and preemption (a preempted process is one that takes no step for a       *)
(* while: preempted() touches a Running process only).                       *)
(*****************************************************************************)
CONSTANTS Proc,     \* the processes
          Nil       \* the nil pointer

ASSUME NilAssumption == Nil \notin Proc

VARIABLES state,    \* p->state
          saved     \* p->mach == nil: the registers of p are in p->sched

procVars == <<state, saved>>

\* The states queueproc() puts in the run queue; it refuses any other.
Blocked == {"Queueing", "QueueingR", "QueueingW", "Wakeme", "Rendezvous"}

States == Blocked \cup {"Running", "Ready"}

ProcTypeOK == /\ state \in [Proc -> States]
              /\ saved \in [Proc -> BOOLEAN]

ProcInit == /\ state = [p \in Proc |-> "Running"]
            /\ saved = [p \in Proc |-> FALSE]

\* p executes kernel code on some processor.
Runs(p) == state[p] = "Running"

\* The effect on p->state of ready(p), called by up: queueproc() queues p
\* unless p is the caller or is in a state that cannot be queued, and then
\* ready() only complains on the console.
ReadyState(up, p) ==
    IF state[p] \in Blocked /\ p # up
    THEN [state EXCEPT ![p] = "Ready"]
    ELSE state

\* sched(), procswitch() and schedinit() of a process that left Running: its
\* registers are saved and p->mach is cleared.  It may be Ready already.
Switch(p) == /\ state[p] # "Running"
             /\ ~saved[p]
             /\ saved' = [saved EXCEPT ![p] = TRUE]
             /\ UNCHANGED state

\* runproc() and the end of sched(): a processor takes p off the run queue.
\* dequeueproc() refuses p until its registers are saved.
Dispatch(p) == /\ state[p] = "Ready"
               /\ saved[p]
               /\ state' = [state EXCEPT ![p] = "Running"]
               /\ saved' = [saved EXCEPT ![p] = FALSE]
=============================================================================
