-------------------------------- MODULE QLock --------------------------------
(*****************************************************************************)
(* Queued locks: qlock(), eqlock(), canqlock() and qunlock() of port/qlock.c *)
(* on several processors, together with procinterrupt() of port/proc.c,      *)
(* which pulls a process out of an eqlock() when a note is posted to it.     *)
(*                                                                           *)
(* The fields of a QLock change under the spin lock q->use only, so the code *)
(* between lock(&q->use) and the matching unlock() is one step, except where *)
(* something read or written inside is seen by code that does not hold       *)
(* q->use: procinterrupt() reads p->state and p->eql without any lock, and   *)
(* sets p->notepending without any.                                          *)
(*                                                                           *)
(* A process holds at most one QLock at a time and unlocks only what it      *)
(* holds; the complaint of qunlock() about a free lock is left out.          *)
(*****************************************************************************)
EXTENDS Sequences, SequencesExt, ProcState

CONSTANT QLocks

ASSUME QLocksAssumption == Nil \notin QLocks

VARIABLES use,          \* q->use: the process that holds the spin lock, or Nil
          locked,       \* q->locked
          queue,        \* q->head ... q->tail, linked by p->qnext
          eql,          \* p->eql
          notepending,  \* p->notepending
          pc,           \* where p is
          lk,           \* the QLock p works on, waits for or holds
          who           \* the process qunlock() or procinterrupt() is about

vars == <<procVars, use, locked, queue, eql, notepending, pc, lk, who>>

\* The points at which a process holds q->use of the lock lk[p].
InUse == {"qlock", "eqlock", "canqlock", "eqsleep", "qunlock", "intrq"}

\* Queued, from unlock(&q->use) until sched() returns.
Waiting == {"qwait", "eqwait"}

PCs == {"idle", "held", "ready", "intr", "intreql", "intrlock"}
           \cup InUse \cup Waiting

Init == /\ ProcInit
        /\ use = [q \in QLocks |-> Nil]
        /\ locked = [q \in QLocks |-> FALSE]
        /\ queue = [q \in QLocks |-> <<>>]
        /\ eql = [p \in Proc |-> Nil]
        /\ notepending = [p \in Proc |-> FALSE]
        /\ pc = [p \in Proc |-> "idle"]
        /\ lk = [p \in Proc |-> Nil]
        /\ who = [p \in Proc |-> Nil]
-----------------------------------------------------------------------------
\* The running process p moves on from one point of its code to another.
At(p, from) == Runs(p) /\ pc[p] = from
Goto(p, to) == pc' = [pc EXCEPT ![p] = to]

\* lock(&q->use) of p, and the unlock() of the lock it works on.
Lock(p, q) == /\ use[q] = Nil
              /\ use' = [use EXCEPT ![q] = p]
Unlock(p) == use' = [use EXCEPT ![lk[p]] = Nil]

\* qlock(q), eqlock(q) or canqlock(q) is called and gets q->use.  canqlock()
\* does not wait for q->use: when it is taken it returns 0 at once, which
\* changes nothing and is not a step here.
Enter(p, q, op) == /\ At(p, "idle")
                   /\ Lock(p, q)
                   /\ lk' = [lk EXCEPT ![p] = q]
                   /\ Goto(p, op)
                   /\ UNCHANGED <<procVars, locked, queue, eql, notepending, who>>

\* The lock is free: take it and return.
TakeFree(p) == /\ \E op \in {"qlock", "eqlock", "canqlock"} : At(p, op)
               /\ ~locked[lk[p]]
               /\ locked' = [locked EXCEPT ![lk[p]] = TRUE]
               /\ Unlock(p)
               /\ Goto(p, "held")
               /\ UNCHANGED <<procVars, queue, eql, notepending, lk, who>>

\* canqlock() of a lock that is taken returns 0.
CanqlockBusy(p) == /\ At(p, "canqlock")
                   /\ locked[lk[p]]
                   /\ Unlock(p)
                   /\ Goto(p, "idle")
                   /\ lk' = [lk EXCEPT ![p] = Nil]
                   /\ UNCHANGED <<procVars, locked, queue, eql, notepending, who>>

\* Append p to the queue of its lock, store p->eql and p->state, unlock.
Enqueue(p, e) == LET q == lk[p] IN
                 /\ queue' = [queue EXCEPT ![q] = Append(@, p)]
                 /\ eql' = [eql EXCEPT ![p] = e]
                 /\ state' = [state EXCEPT ![p] = "Queueing"]
                 /\ Unlock(p)
                 /\ UNCHANGED <<saved, locked, notepending, lk, who>>

\* qlock() queues behind the others and goes to sleep uninterruptibly.
QlockWait(p) == /\ At(p, "qlock")
                /\ locked[lk[p]]
                /\ Enqueue(p, Nil)
                /\ Goto(p, "qwait")

\* eqlock() finds a note pending before it sleeps: it gives up with Eintr.
EqlockNote(p) == /\ At(p, "eqlock")
                 /\ locked[lk[p]]
                 /\ notepending[p]
                 /\ notepending' = [notepending EXCEPT ![p] = FALSE]
                 /\ Unlock(p)
                 /\ Goto(p, "idle")
                 /\ lk' = [lk EXCEPT ![p] = Nil]
                 /\ UNCHANGED <<procVars, locked, queue, eql, who>>

\* eqlock() finds no note pending and is about to sleep.
EqlockCheck(p) == /\ At(p, "eqlock")
                  /\ locked[lk[p]]
                  /\ ~notepending[p]
                  /\ Goto(p, "eqsleep")
                  /\ UNCHANGED <<procVars, use, locked, queue, eql, notepending, lk, who>>

EqlockWait(p) == /\ At(p, "eqsleep")
                 /\ Enqueue(p, lk[p])
                 /\ Goto(p, "eqwait")

\* sched() returns in qlock(): qunlock() has handed the lock over.
QlockReturn(p) == /\ At(p, "qwait")
                  /\ Goto(p, "held")
                  /\ UNCHANGED <<procVars, use, locked, queue, eql, notepending, lk, who>>

\* sched() returns in eqlock(): qunlock() has handed the lock over.
EqlockReturn(p) == /\ At(p, "eqwait")
                   /\ eql[p] # Nil
                   /\ eql' = [eql EXCEPT ![p] = Nil]
                   /\ Goto(p, "held")
                   /\ UNCHANGED <<procVars, use, locked, queue, notepending, lk, who>>

\* Mutant: eqlock() goes by the pending note and not by p->eql.
EqlockInterrupted_ByNote(p) ==
    /\ At(p, "eqwait")
    /\ notepending[p]
    /\ notepending' = [notepending EXCEPT ![p] = FALSE]
    /\ eql' = [eql EXCEPT ![p] = Nil]
    /\ Goto(p, "idle")
    /\ lk' = [lk EXCEPT ![p] = Nil]
    /\ UNCHANGED <<procVars, use, locked, queue, who>>

\* sched() returns in eqlock(), and p->eql == nil says that procinterrupt()
\* took p out of the queue: eqlock() gives up with Eintr.
EqlockInterrupted(p) == /\ At(p, "eqwait")
                        /\ eql[p] = Nil
                        /\ notepending' = [notepending EXCEPT ![p] = FALSE]
                        /\ Goto(p, "idle")
                        /\ lk' = [lk EXCEPT ![p] = Nil]
                        /\ UNCHANGED <<procVars, use, locked, queue, eql, who>>

\* qunlock(q) is called by the holder and gets q->use.
QunlockEnter(p) == /\ At(p, "held")
                   /\ Lock(p, lk[p])
                   /\ Goto(p, "qunlock")
                   /\ UNCHANGED <<procVars, locked, queue, eql, notepending, lk, who>>

\* Nobody waits: the lock is free again.
QunlockFree(p) == /\ At(p, "qunlock")
                  /\ queue[lk[p]] = <<>>
                  /\ locked' = [locked EXCEPT ![lk[p]] = FALSE]
                  /\ Unlock(p)
                  /\ Goto(p, "idle")
                  /\ lk' = [lk EXCEPT ![p] = Nil]
                  /\ UNCHANGED <<procVars, queue, eql, notepending, who>>

\* Mutants: the lock is freed as it is handed over; the last waiter gets it.
QunlockHandOff_Frees(p) == LET q == lk[p] IN
    /\ At(p, "qunlock")
    /\ queue[q] # <<>>
    /\ who' = [who EXCEPT ![p] = Head(queue[q])]
    /\ queue' = [queue EXCEPT ![q] = Tail(@)]
    /\ locked' = [locked EXCEPT ![q] = FALSE]
    /\ Unlock(p)
    /\ Goto(p, "ready")
    /\ lk' = [lk EXCEPT ![p] = Nil]
    /\ UNCHANGED <<procVars, eql, notepending>>
QunlockHandOff_Lifo(p) == LET q == lk[p] IN
    /\ At(p, "qunlock")
    /\ queue[q] # <<>>
    /\ who' = [who EXCEPT ![p] = Last(queue[q])]
    /\ queue' = [queue EXCEPT ![q] = Front(@)]
    /\ Unlock(p)
    /\ Goto(p, "ready")
    /\ lk' = [lk EXCEPT ![p] = Nil]
    /\ UNCHANGED <<procVars, locked, eql, notepending>>

\* The longest waiter gets the lock, which stays locked.
QunlockHandOff(p) == LET q == lk[p] IN
                     /\ At(p, "qunlock")
                     /\ queue[q] # <<>>
                     /\ who' = [who EXCEPT ![p] = Head(queue[q])]
                     /\ queue' = [queue EXCEPT ![q] = Tail(@)]
                     /\ Unlock(p)
                     /\ Goto(p, "ready")
                     /\ lk' = [lk EXCEPT ![p] = Nil]
                     /\ UNCHANGED <<procVars, locked, eql, notepending>>

\* Mutant: a waiter that has not switched away yet is not queued.
Ready_Lost(p) == /\ At(p, "ready")
                 /\ state' = IF saved[who[p]] THEN ReadyState(p, who[p]) ELSE state
                 /\ Goto(p, "idle")
                 /\ who' = [who EXCEPT ![p] = Nil]
                 /\ UNCHANGED <<saved, use, locked, queue, eql, notepending, lk>>

\* ready(p), called by qunlock() and procinterrupt() after they let q->use go.
Ready(p) == /\ At(p, "ready")
            /\ state' = ReadyState(p, who[p])
            /\ Goto(p, "idle")
            /\ who' = [who EXCEPT ![p] = Nil]
            /\ UNCHANGED <<saved, use, locked, queue, eql, notepending, lk>>
-----------------------------------------------------------------------------
\* procinterrupt(v), called by p.  The part about a process in sleep() finds
\* v->r == nil: nobody sleeps on a Rendez here.
Interrupt(p, v) == /\ At(p, "idle")
                   /\ notepending' = [notepending EXCEPT ![v] = TRUE]
                   /\ who' = [who EXCEPT ![p] = v]
                   /\ Goto(p, "intr")
                   /\ UNCHANGED <<procVars, use, locked, queue, eql, lk>>

\* switch(v->state), read without a lock: v is queued for some lock, or it is
\* not and procinterrupt() is done.
InterruptQueued(p) == /\ At(p, "intr")
                      /\ state[who[p]] = "Queueing"
                      /\ Goto(p, "intreql")
                      /\ UNCHANGED <<procVars, use, locked, queue, eql, notepending, lk, who>>

InterruptDone(p) == /\ Goto(p, "idle")
                    /\ who' = [who EXCEPT ![p] = Nil]
                    /\ UNCHANGED <<procVars, use, locked, queue, eql, notepending, lk>>

InterruptAwake(p) == /\ At(p, "intr")
                     /\ state[who[p]] # "Queueing"
                     /\ InterruptDone(p)

\* q = v->eql, read without a lock: v is in eqlock(), or in qlock().
InterruptEql(p) == /\ At(p, "intreql")
                   /\ eql[who[p]] # Nil
                   /\ lk' = [lk EXCEPT ![p] = eql[who[p]]]
                   /\ Goto(p, "intrlock")
                   /\ UNCHANGED <<procVars, use, locked, queue, eql, notepending, who>>

InterruptNoEql(p) == /\ At(p, "intreql")
                     /\ eql[who[p]] = Nil
                     /\ InterruptDone(p)

InterruptLock(p) == /\ At(p, "intrlock")
                    /\ Lock(p, lk[p])
                    /\ Goto(p, "intrq")
                    /\ UNCHANGED <<procVars, locked, queue, eql, notepending, lk, who>>

\* v still waits in this very queue, the i-th: unlink it.
Found(p, i) == /\ state[who[p]] = "Queueing"
               /\ eql[who[p]] = lk[p]
               /\ queue[lk[p]][i] = who[p]

\* Mutants: v is readied without looking for it in the queue; v is readied but
\* stays in the queue.
InterruptUnlink_Unchecked(p) == /\ At(p, "intrq")
                                /\ queue' = [queue EXCEPT ![lk[p]] = Remove(@, who[p])]
                                /\ eql' = [eql EXCEPT ![who[p]] = Nil]
                                /\ Unlock(p)
                                /\ Goto(p, "ready")
                                /\ lk' = [lk EXCEPT ![p] = Nil]
                                /\ UNCHANGED <<procVars, locked, notepending, who>>
InterruptUnlink_Stays(p) == /\ At(p, "intrq")
                            /\ \E i \in DOMAIN queue[lk[p]] : Found(p, i)
                            /\ eql' = [eql EXCEPT ![who[p]] = Nil]
                            /\ Unlock(p)
                            /\ Goto(p, "ready")
                            /\ lk' = [lk EXCEPT ![p] = Nil]
                            /\ UNCHANGED <<procVars, queue, locked, notepending, who>>

InterruptUnlink(p) == /\ At(p, "intrq")
                      /\ \E i \in DOMAIN queue[lk[p]] :
                           /\ Found(p, i)
                           /\ queue' = [queue EXCEPT ![lk[p]] = RemoveAt(@, i)]
                      /\ eql' = [eql EXCEPT ![who[p]] = Nil]
                      /\ Unlock(p)
                      /\ Goto(p, "ready")
                      /\ lk' = [lk EXCEPT ![p] = Nil]
                      /\ UNCHANGED <<procVars, locked, notepending, who>>

InterruptMiss(p) == /\ At(p, "intrq")
                    /\ \A i \in DOMAIN queue[lk[p]] : ~Found(p, i)
                    /\ Unlock(p)
                    /\ Goto(p, "idle")
                    /\ lk' = [lk EXCEPT ![p] = Nil]
                    /\ who' = [who EXCEPT ![p] = Nil]
                    /\ UNCHANGED <<procVars, locked, queue, eql, notepending>>

\* popnote() on the way back to user mode.
Popnote(p) == /\ At(p, "idle")
              /\ notepending[p]
              /\ notepending' = [notepending EXCEPT ![p] = FALSE]
              /\ UNCHANGED <<procVars, use, locked, queue, eql, pc, lk, who>>

\* The scheduler saves a queued process and runs a ready one.
Schedule(p) == /\ Switch(p) \/ Dispatch(p)
               /\ UNCHANGED <<use, locked, queue, eql, notepending, pc, lk, who>>
-----------------------------------------------------------------------------
Next == \E p \in Proc :
          \/ \E q \in QLocks, op \in {"qlock", "eqlock", "canqlock"} : Enter(p, q, op)
          \/ TakeFree(p) \/ CanqlockBusy(p) \/ QlockWait(p)
          \/ EqlockNote(p) \/ EqlockCheck(p) \/ EqlockWait(p)
          \/ QlockReturn(p) \/ EqlockReturn(p) \/ EqlockInterrupted(p)
          \/ QunlockEnter(p) \/ QunlockFree(p) \/ QunlockHandOff(p) \/ Ready(p)
          \/ \E v \in Proc : Interrupt(p, v)
          \/ InterruptQueued(p) \/ InterruptAwake(p)
          \/ InterruptEql(p) \/ InterruptNoEql(p) \/ InterruptLock(p)
          \/ InterruptUnlink(p) \/ InterruptMiss(p)
          \/ Popnote(p) \/ Schedule(p)

Spec == Init /\ [][Next]_vars
-----------------------------------------------------------------------------
\* A processor that spins in lock() for qunlock() or procinterrupt() gets the
\* spin lock eventually (SF); a running process, the scheduler and a holder of
\* the lock go on (WF).  Nobody has to call qlock(), eqlock() or procinterrupt().
Steps(p) == \/ TakeFree(p) \/ CanqlockBusy(p) \/ QlockWait(p)
            \/ EqlockNote(p) \/ EqlockCheck(p) \/ EqlockWait(p)
            \/ QlockReturn(p) \/ EqlockReturn(p) \/ EqlockInterrupted(p)
            \/ QunlockFree(p) \/ QunlockHandOff(p) \/ Ready(p)
            \/ InterruptQueued(p) \/ InterruptAwake(p)
            \/ InterruptEql(p) \/ InterruptNoEql(p)
            \/ InterruptUnlink(p) \/ InterruptMiss(p)
            \/ Schedule(p)

FairSpec == /\ Spec
            /\ \A p \in Proc : /\ WF_vars(Steps(p))
                               /\ SF_vars(QunlockEnter(p) \/ InterruptLock(p))
-----------------------------------------------------------------------------
TypeOK == /\ ProcTypeOK
          /\ \A p \in Proc : state[p] \in {"Running", "Ready", "Queueing"}
          /\ use \in [QLocks -> Proc \cup {Nil}]
          /\ locked \in [QLocks -> BOOLEAN]
          /\ queue \in [QLocks -> Seq(Proc)]
          /\ eql \in [Proc -> QLocks \cup {Nil}]
          /\ notepending \in [Proc -> BOOLEAN]
          /\ pc \in [Proc -> PCs]
          /\ lk \in [Proc -> QLocks \cup {Nil}]
          /\ who \in [Proc -> Proc \cup {Nil}]

Queued(q) == ToSet(queue[q])

\* p has the lock q, or it was handed to p, which does not know it yet.
Owns(p, q) == /\ lk[p] = q
              /\ \/ pc[p] \in {"held", "qunlock"}
                 \/ pc[p] = "qwait" /\ p \notin Queued(q)
                 \/ pc[p] = "eqwait" /\ p \notin Queued(q) /\ eql[p] = q

\* One owner at a time, also in the middle of a hand-off and with notes
\* pulling waiters out of the queue.
MutualExclusion == \A q \in QLocks : \A p1, p2 \in Proc :
                     Owns(p1, q) /\ Owns(p2, q) => p1 = p2

\* A lock is marked taken exactly while somebody owns it: no hand-off goes to
\* a process that leaves eqlock() with Eintr, which would lose the lock for
\* good, and nobody waits for a lock that is free.
LockedIsOwned == \A q \in QLocks :
                   /\ locked[q] <=> \E p \in Proc : Owns(p, q)
                   /\ Queued(q) # {} => locked[q]

\* A process that sleeps in no queue any more is about to be made ready, by
\* exactly one of qunlock() and procinterrupt().
ReadiedOnce == \A p \in Proc :
                 /\ \A k1, k2 \in Proc : pc[k1] = "ready" /\ pc[k2] = "ready"
                                         /\ who[k1] = who[k2] => k1 = k2
                 /\ pc[p] = "ready" => /\ state[who[p]] = "Queueing"
                                       /\ who[p] # p
                 /\ state[p] = "Queueing" =>
                      \/ \E q \in QLocks : p \in Queued(q)
                      \/ \E k \in Proc : pc[k] = "ready" /\ who[k] = p

\* qunlock() never meets panic("qunlock"): what it finds in the queue is a
\* process that still sleeps there, once, for this lock.
QueueExact == \A q \in QLocks :
                /\ IsInjective(queue[q])
                /\ \A p \in Queued(q) : state[p] = "Queueing" /\ lk[p] = q

\* The variables have their types, and the queues hold who waits.
QLockConsistent == TypeOK /\ QueueExact

\* Seen from outside, a QLock is a first-come first-served lock.
Holder(q) == IF \E p \in Proc : Owns(p, q)
             THEN CHOOSE p \in Proc : Owns(p, q)
             ELSE Nil

Fifo == INSTANCE FifoLock
          WITH holder <- [q \in QLocks |-> Holder(q)],
               waiting <- queue,
               soft <- [q \in QLocks |-> {p \in Queued(q) : eql[p] = q}]

FifoSpec == Fifo!AbsSpec

\* A process that queued gets out: with the lock from qlock(), with the lock
\* or Eintr from eqlock().
Granted == \A p \in Proc :
             /\ pc[p] = "qwait" ~> pc[p] = "held"
             /\ pc[p] = "eqwait" ~> pc[p] \in {"held", "idle"}
=============================================================================
