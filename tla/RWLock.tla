------------------------------- MODULE RWLock -------------------------------
(*****************************************************************************)
(* Reader-writer locks: rlock(), runlock(), wlock(), wunlock() and           *)
(* canrlock() of port/qlock.c on several processors, one RWLock.             *)
(*                                                                           *)
(* All fields change under the spin lock q->use, and nothing outside looks   *)
(* at a process in QueueingR or QueueingW, so what runs under q->use is one  *)
(* step, but for the loop of wunlock(): it readies readers one by one while  *)
(* it holds q->use and q->writer is still 1, and they run at once.           *)
(*                                                                           *)
(* What QLock has under the same name starts with RW or rw here, so that one *)
(* module can hold the proofs about both.                                    *)
(*****************************************************************************)
EXTENDS Naturals, Sequences, SequencesExt, FiniteSets, ProcState

VARIABLES rwuse,     \* q->use: the process that holds the spin lock, or Nil
          readers,   \* q->readers
          writer,    \* q->writer
          rwqueue,   \* q->head ... q->tail
          rwpc,      \* where p is
          rwwho      \* the waiter that runlock() or wunlock() is about to ready

rwvars == <<procVars, rwuse, readers, writer, rwqueue, rwpc, rwwho>>

\* The points at which a process holds q->use.
RWInUse == {"rlock", "wlock", "canrlock", "runlock", "wunlock", "wakereaders", "readyreader"}

RWPCs == RWInUse \cup {"idle", "rheld", "wheld", "rwait", "wwait", "ready"}

RWInit == /\ ProcInit
          /\ rwuse = Nil
          /\ readers = 0
          /\ writer = 0
          /\ rwqueue = <<>>
          /\ rwpc = [p \in Proc |-> "idle"]
          /\ rwwho = [p \in Proc |-> Nil]
-----------------------------------------------------------------------------
RWAt(p, from) == Runs(p) /\ rwpc[p] = from
RWGoto(p, to) == rwpc' = [rwpc EXCEPT ![p] = to]

\* lock(&q->use) at the head of every function.
RWEnter(p, from, op) == /\ RWAt(p, from)
                        /\ rwuse = Nil
                        /\ rwuse' = p
                        /\ RWGoto(p, op)
                        /\ UNCHANGED <<procVars, readers, writer, rwqueue, rwwho>>

\* Append up to the queue, store its state, unlock, and on to sched().
RWEnqueue(p, s) == /\ rwqueue' = Append(rwqueue, p)
                   /\ state' = [state EXCEPT ![p] = s]
                   /\ rwuse' = Nil
                   /\ UNCHANGED <<saved, readers, writer, rwwho>>

\* Mutant: readers join readers even when a writer waits.
MayRead_Joins == writer = 0

\* No writer and nobody waiting: readers share.
MayRead == writer = 0 /\ rwqueue = <<>>

RlockTake(p) == /\ \E op \in {"rlock", "canrlock"} : RWAt(p, op)
                /\ MayRead
                /\ readers' = readers + 1
                /\ rwuse' = Nil
                /\ RWGoto(p, "rheld")
                /\ UNCHANGED <<procVars, writer, rwqueue, rwwho>>

\* rlock() waits behind a writer or behind whoever waits already.
RlockWait(p) == /\ RWAt(p, "rlock")
                /\ ~MayRead
                /\ RWEnqueue(p, "QueueingR")
                /\ RWGoto(p, "rwait")

CanrlockBusy(p) == /\ RWAt(p, "canrlock")
                   /\ ~MayRead
                   /\ rwuse' = Nil
                   /\ RWGoto(p, "idle")
                   /\ UNCHANGED <<procVars, readers, writer, rwqueue, rwwho>>

MayWrite == readers = 0 /\ writer = 0

WlockTake(p) == /\ RWAt(p, "wlock")
                /\ MayWrite
                /\ writer' = 1
                /\ rwuse' = Nil
                /\ RWGoto(p, "wheld")
                /\ UNCHANGED <<procVars, readers, rwqueue, rwwho>>

WlockWait(p) == /\ RWAt(p, "wlock")
                /\ ~MayWrite
                /\ RWEnqueue(p, "QueueingW")
                /\ RWGoto(p, "wwait")

\* sched() returns: whoever readied us has counted us in.
RlockReturn(p) == /\ RWAt(p, "rwait")
                  /\ RWGoto(p, "rheld")
                  /\ UNCHANGED <<procVars, rwuse, readers, writer, rwqueue, rwwho>>

WlockReturn(p) == /\ RWAt(p, "wwait")
                  /\ RWGoto(p, "wheld")
                  /\ UNCHANGED <<procVars, rwuse, readers, writer, rwqueue, rwwho>>

\* Not the last reader, or nobody waits.
RunlockLeave(p) == /\ RWAt(p, "runlock")
                   /\ readers > 1 \/ rwqueue = <<>>
                   /\ readers' = readers - 1
                   /\ rwuse' = Nil
                   /\ RWGoto(p, "idle")
                   /\ UNCHANGED <<procVars, writer, rwqueue, rwwho>>

\* Mutant: every reader that leaves behind it a queue starts the first waiter.
RunlockHandOff_Any(p) == /\ RWAt(p, "runlock")
                         /\ rwqueue # <<>>
                         /\ readers' = readers - 1
                         /\ rwqueue' = Tail(rwqueue)
                         /\ writer' = 1
                         /\ rwwho' = [rwwho EXCEPT ![p] = Head(rwqueue)]
                         /\ rwuse' = Nil
                         /\ RWGoto(p, "ready")
                         /\ UNCHANGED procVars

\* The last reader starts the first waiter, a writer (else panic("runlock")).
RunlockHandOff(p) == /\ RWAt(p, "runlock")
                     /\ ~(readers > 1 \/ rwqueue = <<>>)
                     /\ readers' = readers - 1
                     /\ rwqueue' = Tail(rwqueue)
                     /\ writer' = 1
                     /\ rwwho' = [rwwho EXCEPT ![p] = Head(rwqueue)]
                     /\ rwuse' = Nil
                     /\ RWGoto(p, "ready")
                     /\ UNCHANGED procVars

WunlockFree(p) == /\ RWAt(p, "wunlock")
                  /\ rwqueue = <<>>
                  /\ writer' = 0
                  /\ rwuse' = Nil
                  /\ RWGoto(p, "idle")
                  /\ UNCHANGED <<procVars, readers, rwqueue, rwwho>>

\* A writer waits first: it takes over, q->writer stays 1.
WunlockHandOff(p) == /\ RWAt(p, "wunlock")
                     /\ rwqueue # <<>>
                     /\ state[Head(rwqueue)] = "QueueingW"
                     /\ rwqueue' = Tail(rwqueue)
                     /\ rwwho' = [rwwho EXCEPT ![p] = Head(rwqueue)]
                     /\ rwuse' = Nil
                     /\ RWGoto(p, "ready")
                     /\ UNCHANGED <<procVars, readers, writer>>

\* Readers wait first: into the loop.
WunlockReaders(p) == /\ RWAt(p, "wunlock")
                     /\ rwqueue # <<>>
                     /\ state[Head(rwqueue)] # "QueueingW"
                     /\ RWGoto(p, "wakereaders")
                     /\ UNCHANGED <<procVars, rwuse, readers, writer, rwqueue, rwwho>>

ReaderFirst == rwqueue # <<>> /\ state[Head(rwqueue)] = "QueueingR"

\* Mutant: the reader is not counted.
WakeReader_Uncounted(p) == /\ RWAt(p, "wakereaders")
                           /\ ReaderFirst
                           /\ rwqueue' = Tail(rwqueue)
                           /\ rwwho' = [rwwho EXCEPT ![p] = Head(rwqueue)]
                           /\ RWGoto(p, "readyreader")
                           /\ UNCHANGED <<procVars, rwuse, readers, writer>>

\* One turn of the loop: unlink a reader and count it, then ready it, all
\* with q->use held.
WakeReader(p) == /\ RWAt(p, "wakereaders")
                 /\ ReaderFirst
                 /\ rwqueue' = Tail(rwqueue)
                 /\ readers' = readers + 1
                 /\ rwwho' = [rwwho EXCEPT ![p] = Head(rwqueue)]
                 /\ RWGoto(p, "readyreader")
                 /\ UNCHANGED <<procVars, rwuse, writer>>

WakeDone(p) == /\ RWAt(p, "wakereaders")
               /\ ~ReaderFirst
               /\ writer' = 0
               /\ rwuse' = Nil
               /\ RWGoto(p, "idle")
               /\ UNCHANGED <<procVars, readers, rwqueue, rwwho>>

\* ready(p) after the hand-off, and inside the loop.
RWReady(p) == /\ \/ RWAt(p, "ready") /\ RWGoto(p, "idle")
                 \/ RWAt(p, "readyreader") /\ RWGoto(p, "wakereaders")
              /\ state' = ReadyState(p, rwwho[p])
              /\ rwwho' = [rwwho EXCEPT ![p] = Nil]
              /\ UNCHANGED <<saved, rwuse, readers, writer, rwqueue>>

\* The scheduler saves a queued process and runs a ready one.
RWSchedule(p) == /\ Switch(p) \/ Dispatch(p)
                 /\ UNCHANGED <<rwuse, readers, writer, rwqueue, rwpc, rwwho>>
-----------------------------------------------------------------------------
Call(p) == \E op \in {"rlock", "wlock", "canrlock"} : RWEnter(p, "idle", op)

RWUnlock(p) == RWEnter(p, "rheld", "runlock") \/ RWEnter(p, "wheld", "wunlock")

RWSteps(p) == \/ RlockTake(p) \/ RlockWait(p) \/ CanrlockBusy(p)
              \/ WlockTake(p) \/ WlockWait(p)
              \/ RlockReturn(p) \/ WlockReturn(p)
              \/ RunlockLeave(p) \/ RunlockHandOff(p)
              \/ WunlockFree(p) \/ WunlockHandOff(p) \/ WunlockReaders(p)
              \/ WakeReader(p) \/ WakeDone(p)
              \/ RWReady(p)
              \/ RWSchedule(p)

RWNext == \E p \in Proc : Call(p) \/ RWUnlock(p) \/ RWSteps(p)

RWSpec == RWInit /\ [][RWNext]_rwvars

\* Running processes, the scheduler and the holders of the lock go on (WF); a
\* processor that spins for q->use to unlock gets it eventually (SF).
RWFairSpec == /\ RWSpec
              /\ \A p \in Proc : WF_rwvars(RWSteps(p)) /\ SF_rwvars(RWUnlock(p))
-----------------------------------------------------------------------------
RWTypeOK == /\ ProcTypeOK
            /\ \A p \in Proc : state[p] \in {"Running", "Ready", "QueueingR", "QueueingW"}
            /\ rwuse \in Proc \cup {Nil}
            /\ readers \in Nat
            /\ writer \in {0, 1}
            /\ rwqueue \in Seq(Proc)
            /\ rwpc \in [Proc -> RWPCs]
            /\ rwwho \in [Proc -> Proc \cup {Nil}]

RWQueued == ToSet(rwqueue)

\* p may read or write: it has returned from rlock() or wlock(), or it was
\* counted in by whoever took it off the queue.
Reads(p)  == rwpc[p] \in {"rheld", "runlock"} \/ (rwpc[p] = "rwait" /\ p \notin RWQueued)
Writes(p) == rwpc[p] \in {"wheld", "wunlock"} \/ (rwpc[p] = "wwait" /\ p \notin RWQueued)

\* A writer is alone: no other writer and no reader beside it, also while
\* wunlock() lets readers in one by one.
Exclusion == \A p1, p2 \in Proc : Writes(p1) /\ p1 # p2 => ~Writes(p2) /\ ~Reads(p2)

\* The counts are those of the processes: a count too high locks everybody
\* out for good, one too low lets a writer in beside a reader.
CountsExact == /\ readers = Cardinality({p \in Proc : Reads(p)})
               /\ writer = 1 <=> \E p \in Proc : \/ Writes(p)
                                                 \/ rwpc[p] \in {"wakereaders", "readyreader"}

\* panic("runlock") and panic("wunlock") are out of reach: what waits behind
\* readers starts with a writer, and only queued processes are in the queue.
NoPanic == /\ \A p \in RWQueued : state[p] \in {"QueueingR", "QueueingW"}
           /\ rwqueue # <<>> /\ readers > 0 /\ writer = 0 => state[Head(rwqueue)] = "QueueingW"

\* Nobody waits for a lock that is free, and who sleeps in no queue any more
\* is about to be readied, once.
NoStranding == /\ rwqueue # <<>> => readers > 0 \/ writer = 1
               /\ \A p \in Proc : state[p] \in {"QueueingR", "QueueingW"} =>
                    \/ p \in RWQueued
                    \/ Cardinality({k \in Proc : rwwho[k] = p}) = 1

\* What the lock, its queue and the processes say of one another agrees.
Consistent == RWTypeOK /\ CountsExact /\ NoPanic /\ NoStranding

\* First come first served, but for readers next to each other: who comes to
\* the lock is the first of the queue, or the queue is empty.
NoBarging == [][ \A p \in Proc :
                   (~Reads(p) /\ Reads(p)') \/ (~Writes(p) /\ Writes(p)')
                     => rwqueue = <<>> \/ p = Head(rwqueue) ]_rwvars

\* Neither readers nor writers starve.
RWGranted == \A p \in Proc : /\ rwpc[p] = "rwait" ~> rwpc[p] = "rheld"
                             /\ rwpc[p] = "wwait" ~> rwpc[p] = "wheld"
=============================================================================
