------------------------------ MODULE FifoLock ------------------------------
(*****************************************************************************)
(* What a QLock promises its users: one holder at a time, the lock goes to   *)
(* the waiters in the order they came, nobody overtakes a waiter, and a      *)
(* waiter leaves without the lock only if it waits in eqlock().              *)
(*****************************************************************************)
EXTENDS Sequences, SequencesExt

CONSTANTS Proc, Nil, QLocks

VARIABLES holder,    \* the process a lock belongs to, or Nil
          waiting,   \* the processes queued for a lock, first come first
          soft       \* those of them that a note takes out of the queue

absVars == <<holder, waiting, soft>>

AbsInit == /\ holder = [q \in QLocks |-> Nil]
           /\ waiting = [q \in QLocks |-> <<>>]
           /\ soft = [q \in QLocks |-> {}]

Acquire(p, q) == /\ holder[q] = Nil
                 /\ waiting[q] = <<>>
                 /\ holder' = [holder EXCEPT ![q] = p]
                 /\ UNCHANGED <<waiting, soft>>

Wait(p, q) == /\ holder[q] \notin {Nil, p}
              /\ waiting' = [waiting EXCEPT ![q] = Append(@, p)]
              /\ \/ UNCHANGED soft
                 \/ soft' = [soft EXCEPT ![q] = @ \cup {p}]
              /\ UNCHANGED holder

Release(q) == /\ holder[q] # Nil
              /\ IF waiting[q] = <<>>
                 THEN /\ holder' = [holder EXCEPT ![q] = Nil]
                      /\ UNCHANGED <<waiting, soft>>
                 ELSE /\ holder' = [holder EXCEPT ![q] = Head(waiting[q])]
                      /\ waiting' = [waiting EXCEPT ![q] = Tail(@)]
                      /\ soft' = [soft EXCEPT ![q] = @ \ {Head(waiting[q])}]

Cancel(q) == /\ \E i \in DOMAIN waiting[q] :
                  /\ waiting[q][i] \in soft[q]
                  /\ waiting' = [waiting EXCEPT ![q] = RemoveAt(@, i)]
                  /\ soft' = [soft EXCEPT ![q] = @ \ {waiting[q][i]}]
             /\ UNCHANGED holder

AbsNext == \E q \in QLocks : \/ \E p \in Proc : Acquire(p, q) \/ Wait(p, q)
                             \/ Release(q)
                             \/ Cancel(q)

AbsSpec == AbsInit /\ [][AbsNext]_absVars
=============================================================================
