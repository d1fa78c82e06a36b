----------------------------- MODULE QLockProofs -----------------------------
(*****************************************************************************)
(* The queued locks of port/qlock.c, for any number of processes and locks:  *)
(* the safety properties of QLock hold, qlock(), eqlock(), canqlock() and    *)
(* qunlock() implement the first-come first-served lock of FifoLock, and the *)
(* safety properties of RWLock hold.                                         *)
(*****************************************************************************)
EXTENDS QLock, RWLock, FiniteSetTheorems, TLAPS

\* A spin lock belongs to the one process that is between lock() and unlock().
UseHeld == \A p \in Proc, q \in QLocks :
             use[q] = p <=> pc[p] \in InUse /\ lk[p] = q

\* A process that is not idle knows its lock and its victim.
LocalsSet == \A p \in Proc :
               /\ pc[p] \in InUse \cup Waiting \cup {"held", "intrlock"} => lk[p] \in QLocks
               /\ pc[p] \in {"ready", "intr", "intreql", "intrlock", "intrq"} => who[p] \in Proc

\* p->state leaves Running only while p waits in a queue or after it left it.
BlockedWaits == \A p \in Proc : state[p] # "Running" => pc[p] \in Waiting

\* p->eql is set only in eqlock(), and only to the lock p waits for.
EqlOfWaiter == \A p \in Proc : /\ eql[p] \in {Nil, lk[p]}
                               /\ pc[p] # "eqwait" => eql[p] = Nil

\* What a queue holds: waiting processes that nobody has readied.
QueueSound == \A q \in QLocks :
                /\ IsInjective(queue[q])
                /\ \A p \in Queued(q) : /\ lk[p] = q
                                        /\ pc[p] \in Waiting
                                        /\ state[p] = "Queueing"
                                        /\ pc[p] = "eqwait" => eql[p] = q

\* ready() is called for processes just taken out of a queue, once for each.
ReadySound == \A k \in Proc : pc[k] = "ready" =>
                /\ state[who[k]] = "Queueing"
                /\ pc[who[k]] \in Waiting
                /\ who[k] \notin Queued(lk[who[k]])
                /\ \A k2 \in Proc : pc[k2] = "ready" /\ who[k2] = who[k] => k2 = k

SleeperFound == \A p \in Proc : state[p] = "Queueing" =>
                  \/ \E q \in QLocks : p \in Queued(q)
                  \/ \E k \in Proc : pc[k] = "ready" /\ who[k] = p

\* eqlock() about to sleep has found the lock taken, and it still is.
SleepsOnTaken == \A p \in Proc : pc[p] = "eqsleep" => locked[lk[p]]

\* Who is where, and what a process may touch.
Control == TypeOK /\ UseHeld /\ LocalsSet /\ BlockedWaits /\ EqlOfWaiter

\* The queues, and the processes taken out of them but not readied yet.
Queues == QueueSound /\ ReadySound /\ SleeperFound

\* Who owns the locks.
Ownership == SleepsOnTaken /\ MutualExclusion /\ LockedIsOwned

\* The inductive invariant.
Inv == Control /\ Queues /\ Ownership
-----------------------------------------------------------------------------
\* What joining a queue at its tail does to the set of its members.
LEMMA AppendMembers ==
  ASSUME NEW S, NEW s \in Seq(S), NEW e \in S
  PROVE  /\ Append(s, e) \in Seq(S)
         /\ ToSet(Append(s, e)) = ToSet(s) \cup {e}
         /\ IsInjective(s) /\ e \notin ToSet(s) => IsInjective(Append(s, e))
<1>1. /\ Len(Append(s, e)) = Len(s) + 1 /\ Append(s, e)[Len(s) + 1] = e
      /\ \A i \in 1 .. Len(s) : Append(s, e)[i] = s[i]
  OBVIOUS
<1>2. ToSet(Append(s, e)) = ToSet(s) \cup {e}
  BY <1>1 DEF ToSet
<1>3. QED
  BY <1>1, <1>2 DEF IsInjective, ToSet

\* What leaving a queue, from anywhere, does to the set of its members.
LEMMA RemoveAtMembers ==
  ASSUME NEW S, NEW s \in Seq(S), NEW i \in DOMAIN s, IsInjective(s)
  PROVE  /\ RemoveAt(s, i) \in Seq(S)
         /\ ToSet(RemoveAt(s, i)) = ToSet(s) \ {s[i]}
         /\ IsInjective(RemoveAt(s, i))
<1> DEFINE t == RemoveAt(s, i)
           old(j) == IF j < i THEN j ELSE j + 1
           new(k) == IF k < i THEN k ELSE k - 1
<1>1. /\ t \in Seq(S) /\ DOMAIN t = 1 .. Len(s) - 1
      /\ \A j \in DOMAIN t : t[j] = s[old(j)] /\ old(j) \in DOMAIN s \ {i}
  <2> DEFINE a == SubSeq(s, 1, i - 1)
             b == SubSeq(s, i + 1, Len(s))
  <2>1. /\ a \in Seq(S) /\ Len(a) = i - 1 /\ \A j \in 1 .. i - 1 : a[j] = s[j]
        /\ b \in Seq(S) /\ Len(b) = Len(s) - i /\ \A j \in 1 .. Len(s) - i : b[j] = s[j + i]
    OBVIOUS
  <2>2. t = a \o b
    BY DEF RemoveAt
  <2> HIDE DEF a, b, t
  <2>3. /\ t \in Seq(S) /\ DOMAIN t = 1 .. Len(s) - 1
        /\ \A j \in 1 .. Len(s) - 1 : t[j] = IF j < i THEN a[j] ELSE b[j - (i - 1)]
    BY <2>1, <2>2
  <2>4. \A j \in 1 .. Len(s) - 1 : j >= i => b[j - (i - 1)] = s[j + 1]
    BY <2>1
  <2>5. ASSUME NEW j \in 1 .. Len(s) - 1
        PROVE  t[j] = s[old(j)] /\ old(j) \in DOMAIN s \ {i}
    <3>1. i \in 1 .. Len(s) /\ Len(s) \in Nat
      OBVIOUS
    <3>2. t[j] = s[old(j)]
      BY <2>1, <2>3, <2>4, <3>1
    <3>3. QED
      BY <3>1, <3>2
  <2>6. QED
    BY <2>3, <2>5
<1>2. \A k \in DOMAIN s \ {i} : new(k) \in DOMAIN t /\ old(new(k)) = k
  BY <1>1
<1>3. \A j \in DOMAIN t, k \in DOMAIN t : old(j) = old(k) => j = k
  BY <1>1
<1> HIDE DEF t, old, new
<1>4. IsInjective(t)
  BY <1>1, <1>3 DEF IsInjective
<1>5. ToSet(t) = ToSet(s) \ {s[i]}
  BY <1>1, <1>2 DEF ToSet, IsInjective
<1>6. QED
  BY <1>1, <1>4, <1>5 DEF t

\* What leaving a queue at its head does to the set of its members.
LEMMA TailMembers ==
  ASSUME NEW S, NEW s \in Seq(S), s # <<>>, IsInjective(s)
  PROVE  /\ Head(s) \in S
         /\ Head(s) \in ToSet(s)
         /\ Tail(s) \in Seq(S)
         /\ ToSet(Tail(s)) = ToSet(s) \ {Head(s)}
         /\ IsInjective(Tail(s))
<1>1. 1 \in DOMAIN s /\ Head(s) = s[1] /\ s[1] \in S
  OBVIOUS
<1>2. s[1] \in ToSet(s)
  BY <1>1 DEF ToSet
<1>3. Tail(s) = RemoveAt(s, 1)
  BY DEF RemoveAt
<1>4. /\ RemoveAt(s, 1) \in Seq(S) /\ IsInjective(RemoveAt(s, 1))
      /\ ToSet(RemoveAt(s, 1)) = ToSet(s) \ {s[1]}
  BY <1>1, RemoveAtMembers
<1>5. QED
  BY <1>1, <1>2, <1>3, <1>4
-----------------------------------------------------------------------------
(* What the steps that change a queue do to the set of its members. *)

\* QlockWait and EqlockWait: p joins the queue of the lock it works on.
LEMMA EnqueueMembers ==
  ASSUME Control, QueueSound, NEW p \in Proc, QlockWait(p) \/ EqlockWait(p)
  PROVE  /\ queue' \in [QLocks -> Seq(Proc)]
         /\ \A q \in QLocks : IsInjective(queue'[q])
         /\ \A q \in QLocks :
              Queued(q)' = IF q = lk[p] THEN Queued(q) \cup {p} ELSE Queued(q)
<1>1. /\ queue' = [queue EXCEPT ![lk[p]] = Append(@, p)]
      /\ pc[p] \in InUse
  BY DEF QlockWait, EqlockWait, Enqueue, At, InUse
<1>2. lk[p] \in QLocks
  BY <1>1 DEF Control, LocalsSet
<1>3. p \notin ToSet(queue[lk[p]])
  BY <1>1, <1>2 DEF QueueSound, Queued, InUse, Waiting
<1>4. /\ Append(queue[lk[p]], p) \in Seq(Proc)
      /\ ToSet(Append(queue[lk[p]], p)) = ToSet(queue[lk[p]]) \cup {p}
      /\ IsInjective(Append(queue[lk[p]], p))
  BY <1>2, <1>3, AppendMembers DEF Control, TypeOK, QueueSound
<1>5. QED
  BY <1>1, <1>2, <1>4 DEF Control, TypeOK, QueueSound, Queued

\* QunlockHandOff: the first process leaves the queue.
LEMMA HandOffMembers ==
  ASSUME Control, QueueSound, NEW p \in Proc, QunlockHandOff(p)
  PROVE  /\ queue' \in [QLocks -> Seq(Proc)]
         /\ \A q \in QLocks : IsInjective(queue'[q])
         /\ who'[p] \in Queued(lk[p])
         /\ who' = [who EXCEPT ![p] = who'[p]]
         /\ \A q \in QLocks :
              Queued(q)' = IF q = lk[p] THEN Queued(q) \ {who'[p]} ELSE Queued(q)
<1> DEFINE s == queue[lk[p]]
<1>1. /\ queue' = [queue EXCEPT ![lk[p]] = Tail(s)]
      /\ who' = [who EXCEPT ![p] = Head(s)]
      /\ s # <<>>
      /\ pc[p] \in InUse
  BY DEF QunlockHandOff, At, InUse
<1>2. lk[p] \in QLocks
  BY <1>1 DEF Control, LocalsSet
<1>3. s \in Seq(Proc) /\ IsInjective(s)
  BY <1>2 DEF Control, TypeOK, QueueSound
<1>4. /\ Head(s) \in ToSet(s)
      /\ Tail(s) \in Seq(Proc)
      /\ ToSet(Tail(s)) = ToSet(s) \ {Head(s)}
      /\ IsInjective(Tail(s))
  BY <1>1, <1>3, TailMembers
<1>5. who'[p] = Head(s)
  BY <1>1 DEF Control, TypeOK
<1>6. QED
  BY <1>1, <1>2, <1>4, <1>5 DEF Control, TypeOK, QueueSound, Queued

\* InterruptUnlink: the interrupted process leaves the queue.
LEMMA UnlinkMembers ==
  ASSUME Control, QueueSound, NEW p \in Proc, InterruptUnlink(p)
  PROVE  /\ queue' \in [QLocks -> Seq(Proc)]
         /\ \A q \in QLocks : IsInjective(queue'[q])
         /\ who[p] \in Queued(lk[p])
         /\ \A q \in QLocks :
              Queued(q)' = IF q = lk[p] THEN Queued(q) \ {who[p]} ELSE Queued(q)
<1> DEFINE s == queue[lk[p]]
<1>1. pc[p] \in InUse
  BY DEF InterruptUnlink, At, InUse
<1>2. lk[p] \in QLocks
  BY <1>1 DEF Control, LocalsSet
<1>3. s \in Seq(Proc) /\ IsInjective(s)
  BY <1>2 DEF Control, TypeOK, QueueSound
<1>4. PICK i \in DOMAIN s : /\ s[i] = who[p]
                            /\ queue' = [queue EXCEPT ![lk[p]] = RemoveAt(s, i)]
  BY DEF InterruptUnlink, Found
<1>5. /\ RemoveAt(s, i) \in Seq(Proc)
      /\ ToSet(RemoveAt(s, i)) = ToSet(s) \ {who[p]}
      /\ IsInjective(RemoveAt(s, i))
  BY <1>3, <1>4, RemoveAtMembers
<1>6. who[p] \in ToSet(s)
  BY <1>4 DEF ToSet
<1>7. QED
  BY <1>2, <1>4, <1>5, <1>6 DEF Control, TypeOK, QueueSound, Queued
-----------------------------------------------------------------------------
\* No step disturbs who is where: a spin lock has at most its one holder, the
\* locals of a process match its place in the code, and only waiters sleep.
LEMMA ControlStep ==
  ASSUME Control, QueueSound, [Next]_vars
  PROVE  Control'
<1> USE NilAssumption, QLocksAssumption DEF At, Goto, Runs, Lock, Unlock, procVars,
        InUse, Waiting, Control, TypeOK, LocalsSet
<1>1. ASSUME NEW p \in Proc, TakeFree(p)
      PROVE  Control'
  <2>1. (TypeOK /\ LocalsSet /\ BlockedWaits /\ EqlOfWaiter)'
    BY <1>1 DEF ProcTypeOK, States, Blocked, PCs, BlockedWaits, EqlOfWaiter, TakeFree
  <2>2. UseHeld'
    BY <1>1 DEF UseHeld, TakeFree
  <2>3. QED
    BY <2>1, <2>2
<1>2. ASSUME NEW p \in Proc, CanqlockBusy(p)
      PROVE  Control'
  <2>1. (TypeOK /\ LocalsSet /\ BlockedWaits /\ EqlOfWaiter)'
    BY <1>2 DEF ProcTypeOK, States, Blocked, PCs, BlockedWaits, EqlOfWaiter, CanqlockBusy
  <2>2. UseHeld'
    BY <1>2 DEF UseHeld, CanqlockBusy
  <2>3. QED
    BY <2>1, <2>2
<1>3. ASSUME NEW p \in Proc, EqlockNote(p)
      PROVE  Control'
  <2>1. (TypeOK /\ LocalsSet /\ BlockedWaits /\ EqlOfWaiter)'
    BY <1>3 DEF ProcTypeOK, States, Blocked, PCs, BlockedWaits, EqlOfWaiter, EqlockNote
  <2>2. UseHeld'
    BY <1>3 DEF UseHeld, EqlockNote
  <2>3. QED
    BY <2>1, <2>2
<1>4. ASSUME NEW p \in Proc, EqlockCheck(p)
      PROVE  Control'
  <2>1. (TypeOK /\ LocalsSet /\ BlockedWaits /\ EqlOfWaiter)'
    BY <1>4 DEF ProcTypeOK, States, Blocked, PCs, BlockedWaits, EqlOfWaiter, EqlockCheck
  <2>2. UseHeld'
    BY <1>4 DEF UseHeld, EqlockCheck
  <2>3. QED
    BY <2>1, <2>2
<1>5. ASSUME NEW p \in Proc, QlockReturn(p)
      PROVE  Control'
  <2>1. (TypeOK /\ LocalsSet /\ BlockedWaits /\ EqlOfWaiter)'
    BY <1>5 DEF ProcTypeOK, States, Blocked, PCs, BlockedWaits, EqlOfWaiter, QlockReturn
  <2>2. UseHeld'
    BY <1>5 DEF UseHeld, QlockReturn
  <2>3. QED
    BY <2>1, <2>2
<1>6. ASSUME NEW p \in Proc, EqlockReturn(p)
      PROVE  Control'
  <2>1. (TypeOK /\ LocalsSet /\ BlockedWaits /\ EqlOfWaiter)'
    BY <1>6 DEF ProcTypeOK, States, Blocked, PCs, BlockedWaits, EqlOfWaiter, EqlockReturn
  <2>2. UseHeld'
    BY <1>6 DEF UseHeld, EqlockReturn
  <2>3. QED
    BY <2>1, <2>2
<1>7. ASSUME NEW p \in Proc, EqlockInterrupted(p)
      PROVE  Control'
  <2>1. (TypeOK /\ LocalsSet /\ BlockedWaits /\ EqlOfWaiter)'
    BY <1>7
    DEF ProcTypeOK, States, Blocked, PCs, BlockedWaits, EqlOfWaiter, EqlockInterrupted
  <2>2. UseHeld'
    BY <1>7 DEF UseHeld, EqlockInterrupted
  <2>3. QED
    BY <2>1, <2>2
<1>8. ASSUME NEW p \in Proc, QunlockEnter(p)
      PROVE  Control'
  <2>1. (TypeOK /\ LocalsSet /\ BlockedWaits /\ EqlOfWaiter)'
    BY <1>8 DEF ProcTypeOK, States, Blocked, PCs, BlockedWaits, EqlOfWaiter, QunlockEnter
  <2>2. UseHeld'
    BY <1>8 DEF UseHeld, QunlockEnter
  <2>3. QED
    BY <2>1, <2>2
<1>9. ASSUME NEW p \in Proc, QunlockFree(p)
      PROVE  Control'
  <2>1. (TypeOK /\ LocalsSet /\ BlockedWaits /\ EqlOfWaiter)'
    BY <1>9 DEF ProcTypeOK, States, Blocked, PCs, BlockedWaits, EqlOfWaiter, QunlockFree
  <2>2. UseHeld'
    BY <1>9 DEF UseHeld, QunlockFree
  <2>3. QED
    BY <2>1, <2>2
<1>10. ASSUME NEW p \in Proc, Ready(p)
      PROVE  Control'
  <2>1. (TypeOK /\ LocalsSet /\ BlockedWaits /\ EqlOfWaiter)'
    BY <1>10
    DEF ProcTypeOK, States, Blocked, PCs, BlockedWaits, EqlOfWaiter, Ready, ReadyState
  <2>2. UseHeld'
    BY <1>10 DEF UseHeld, Ready, ReadyState, Blocked
  <2>3. QED
    BY <2>1, <2>2
<1>11. ASSUME NEW p \in Proc, InterruptQueued(p)
      PROVE  Control'
  <2>1. (TypeOK /\ LocalsSet /\ BlockedWaits /\ EqlOfWaiter)'
    BY <1>11
    DEF ProcTypeOK, States, Blocked, PCs, BlockedWaits, EqlOfWaiter, InterruptQueued
  <2>2. UseHeld'
    BY <1>11 DEF UseHeld, InterruptQueued
  <2>3. QED
    BY <2>1, <2>2
<1>12. ASSUME NEW p \in Proc, InterruptAwake(p)
      PROVE  Control'
  <2>1. (TypeOK /\ LocalsSet /\ BlockedWaits /\ EqlOfWaiter)'
    BY <1>12
    DEF ProcTypeOK, States, Blocked, PCs, BlockedWaits, EqlOfWaiter, InterruptAwake,
        InterruptDone
  <2>2. UseHeld'
    BY <1>12 DEF UseHeld, InterruptAwake, InterruptDone
  <2>3. QED
    BY <2>1, <2>2
<1>13. ASSUME NEW p \in Proc, InterruptEql(p)
      PROVE  Control'
  <2>1. (TypeOK /\ LocalsSet /\ BlockedWaits /\ EqlOfWaiter)'
    BY <1>13 DEF ProcTypeOK, States, Blocked, PCs, BlockedWaits, EqlOfWaiter, InterruptEql
  <2>2. UseHeld'
    BY <1>13 DEF UseHeld, InterruptEql
  <2>3. QED
    BY <2>1, <2>2
<1>14. ASSUME NEW p \in Proc, InterruptNoEql(p)
      PROVE  Control'
  <2>1. (TypeOK /\ LocalsSet /\ BlockedWaits /\ EqlOfWaiter)'
    BY <1>14
    DEF ProcTypeOK, States, Blocked, PCs, BlockedWaits, EqlOfWaiter, InterruptNoEql,
        InterruptDone
  <2>2. UseHeld'
    BY <1>14 DEF UseHeld, InterruptNoEql, InterruptDone
  <2>3. QED
    BY <2>1, <2>2
<1>15. ASSUME NEW p \in Proc, InterruptLock(p)
      PROVE  Control'
  <2>1. (TypeOK /\ LocalsSet /\ BlockedWaits /\ EqlOfWaiter)'
    BY <1>15 DEF ProcTypeOK, States, Blocked, PCs, BlockedWaits, EqlOfWaiter, InterruptLock
  <2>2. UseHeld'
    BY <1>15 DEF UseHeld, InterruptLock
  <2>3. QED
    BY <2>1, <2>2
<1>16. ASSUME NEW p \in Proc, InterruptMiss(p)
      PROVE  Control'
  <2>1. (TypeOK /\ LocalsSet /\ BlockedWaits /\ EqlOfWaiter)'
    BY <1>16
    DEF ProcTypeOK, States, Blocked, PCs, BlockedWaits, EqlOfWaiter, InterruptMiss, Found
  <2>2. UseHeld'
    BY <1>16 DEF UseHeld, InterruptMiss, Found
  <2>3. QED
    BY <2>1, <2>2
<1>17. ASSUME NEW p \in Proc, Popnote(p)
      PROVE  Control'
  <2>1. (TypeOK /\ LocalsSet /\ BlockedWaits /\ EqlOfWaiter)'
    BY <1>17 DEF ProcTypeOK, States, Blocked, PCs, BlockedWaits, EqlOfWaiter, Popnote
  <2>2. UseHeld'
    BY <1>17 DEF UseHeld, Popnote
  <2>3. QED
    BY <2>1, <2>2
<1>18. ASSUME NEW p \in Proc, Schedule(p)
      PROVE  Control'
  <2>1. (TypeOK /\ LocalsSet /\ BlockedWaits /\ EqlOfWaiter)'
    BY <1>18
    DEF ProcTypeOK, States, Blocked, PCs, BlockedWaits, EqlOfWaiter, Schedule, Switch,
        Dispatch
  <2>2. UseHeld'
    BY <1>18 DEF UseHeld, Schedule, Switch, Dispatch
  <2>3. QED
    BY <2>1, <2>2
<1>19. ASSUME NEW p \in Proc, NEW q \in QLocks, NEW op \in {"qlock", "eqlock", "canqlock"},
             Enter(p, q, op)
      PROVE  Control'
  <2>1. (TypeOK /\ LocalsSet /\ BlockedWaits /\ EqlOfWaiter)'
    BY <1>19 DEF ProcTypeOK, States, Blocked, PCs, BlockedWaits, EqlOfWaiter, Enter
  <2>2. UseHeld'
    BY <1>19 DEF UseHeld, Enter
  <2>3. QED
    BY <2>1, <2>2
<1>20. ASSUME NEW p \in Proc, NEW v \in Proc, Interrupt(p, v)
      PROVE  Control'
  <2>1. (TypeOK /\ LocalsSet /\ BlockedWaits /\ EqlOfWaiter)'
    BY <1>20 DEF ProcTypeOK, States, Blocked, PCs, BlockedWaits, EqlOfWaiter, Interrupt
  <2>2. UseHeld'
    BY <1>20 DEF UseHeld, Interrupt
  <2>3. QED
    BY <2>1, <2>2
<1>21. ASSUME NEW p \in Proc, QlockWait(p)
      PROVE  Control'
  <2>1. /\ queue' \in [QLocks -> Seq(Proc)] /\ \A q \in QLocks : IsInjective(queue'[q])
        /\ \A q \in QLocks :
             Queued(q)' = IF q = lk[p] THEN Queued(q) \cup {p} ELSE Queued(q)
    BY <1>21, EnqueueMembers
  <2>2. (TypeOK /\ LocalsSet /\ BlockedWaits /\ EqlOfWaiter)'
    BY <1>21, <2>1
    DEF ProcTypeOK, States, Blocked, PCs, BlockedWaits, EqlOfWaiter, QlockWait, Enqueue
  <2>3. UseHeld'
    BY <1>21, <2>1 DEF UseHeld, QlockWait, Enqueue
  <2>4. QED
    BY <2>2, <2>3
<1>22. ASSUME NEW p \in Proc, EqlockWait(p)
      PROVE  Control'
  <2>1. /\ queue' \in [QLocks -> Seq(Proc)] /\ \A q \in QLocks : IsInjective(queue'[q])
        /\ \A q \in QLocks :
             Queued(q)' = IF q = lk[p] THEN Queued(q) \cup {p} ELSE Queued(q)
    BY <1>22, EnqueueMembers
  <2>2. (TypeOK /\ LocalsSet /\ BlockedWaits /\ EqlOfWaiter)'
    BY <1>22, <2>1
    DEF ProcTypeOK, States, Blocked, PCs, BlockedWaits, EqlOfWaiter, EqlockWait, Enqueue
  <2>3. UseHeld'
    BY <1>22, <2>1 DEF UseHeld, EqlockWait, Enqueue
  <2>4. QED
    BY <2>2, <2>3
<1>23. ASSUME NEW p \in Proc, QunlockHandOff(p)
      PROVE  Control'
  <2>1. /\ queue' \in [QLocks -> Seq(Proc)] /\ \A q \in QLocks : IsInjective(queue'[q])
        /\ who'[p] \in Queued(lk[p]) /\ who' = [who EXCEPT ![p] = who'[p]]
        /\ \A q \in QLocks :
             Queued(q)' = IF q = lk[p] THEN Queued(q) \ {who'[p]} ELSE Queued(q)
    BY <1>23, HandOffMembers
  <2>2. (TypeOK /\ LocalsSet /\ BlockedWaits /\ EqlOfWaiter)'
    BY <1>23, <2>1
    DEF ProcTypeOK, States, Blocked, PCs, BlockedWaits, EqlOfWaiter, QunlockHandOff
  <2>3. UseHeld'
    BY <1>23, <2>1 DEF UseHeld, QunlockHandOff
  <2>4. QED
    BY <2>2, <2>3
<1>24. ASSUME NEW p \in Proc, InterruptUnlink(p)
      PROVE  Control'
  <2>1. /\ queue' \in [QLocks -> Seq(Proc)] /\ \A q \in QLocks : IsInjective(queue'[q])
        /\ who[p] \in Queued(lk[p])
        /\ \A q \in QLocks :
             Queued(q)' = IF q = lk[p] THEN Queued(q) \ {who[p]} ELSE Queued(q)
    BY <1>24, UnlinkMembers
  <2>2. (TypeOK /\ LocalsSet /\ BlockedWaits /\ EqlOfWaiter)'
    BY <1>24, <2>1
    DEF ProcTypeOK, States, Blocked, PCs, BlockedWaits, EqlOfWaiter, InterruptUnlink, Found
  <2>3. UseHeld'
    BY <1>24, <2>1 DEF UseHeld, InterruptUnlink, Found
  <2>4. QED
    BY <2>2, <2>3
<1>25. CASE UNCHANGED vars
  BY <1>25 DEF vars, ProcTypeOK, BlockedWaits, EqlOfWaiter, UseHeld
<1>26. QED
  BY <1>1, <1>2, <1>3, <1>4, <1>5, <1>6, <1>7, <1>8, <1>9, <1>10, <1>11, <1>12, <1>13,
     <1>14, <1>15, <1>16, <1>17, <1>18, <1>19, <1>20, <1>21, <1>22, <1>23, <1>24, <1>25
  DEF Next

\* No step disturbs the queues: a process leaves its queue once, and whoever
\* took it out readies it once.
LEMMA QueuesStep ==
  ASSUME Control, Queues, [Next]_vars
  PROVE  Queues'
<1> USE NilAssumption, QLocksAssumption DEF At, Goto, Runs, Lock, Unlock, procVars,
        InUse, Waiting, Control, Queues, TypeOK, ProcTypeOK, LocalsSet, BlockedWaits
<1>1. ASSUME NEW p \in Proc, TakeFree(p)
      PROVE  Queues'
  <2>1. QueueSound'
    BY <1>1 DEF QueueSound, ReadySound, Queued, TakeFree
  <2>2. ReadySound'
    BY <1>1 DEF QueueSound, ReadySound, Queued, TakeFree
  <2>3. SleeperFound'
    BY <1>1 DEF SleeperFound, Queued, TakeFree
  <2>4. QED
    BY <2>1, <2>2, <2>3
<1>2. ASSUME NEW p \in Proc, CanqlockBusy(p)
      PROVE  Queues'
  <2>1. QueueSound'
    BY <1>2 DEF QueueSound, ReadySound, Queued, CanqlockBusy
  <2>2. ReadySound'
    BY <1>2 DEF QueueSound, ReadySound, Queued, CanqlockBusy
  <2>3. SleeperFound'
    BY <1>2 DEF SleeperFound, Queued, CanqlockBusy
  <2>4. QED
    BY <2>1, <2>2, <2>3
<1>3. ASSUME NEW p \in Proc, EqlockNote(p)
      PROVE  Queues'
  <2>1. QueueSound'
    BY <1>3 DEF QueueSound, ReadySound, Queued, EqlockNote
  <2>2. ReadySound'
    BY <1>3 DEF QueueSound, ReadySound, Queued, EqlockNote
  <2>3. SleeperFound'
    BY <1>3 DEF SleeperFound, Queued, EqlockNote
  <2>4. QED
    BY <2>1, <2>2, <2>3
<1>4. ASSUME NEW p \in Proc, EqlockCheck(p)
      PROVE  Queues'
  <2>1. QueueSound'
    BY <1>4 DEF QueueSound, ReadySound, Queued, EqlockCheck
  <2>2. ReadySound'
    BY <1>4 DEF QueueSound, ReadySound, Queued, EqlockCheck
  <2>3. SleeperFound'
    BY <1>4 DEF SleeperFound, Queued, EqlockCheck
  <2>4. QED
    BY <2>1, <2>2, <2>3
<1>5. ASSUME NEW p \in Proc, QlockReturn(p)
      PROVE  Queues'
  <2>1. QueueSound'
    BY <1>5 DEF QueueSound, ReadySound, Queued, QlockReturn
  <2>2. ReadySound'
    BY <1>5 DEF QueueSound, ReadySound, Queued, QlockReturn
  <2>3. SleeperFound'
    BY <1>5 DEF SleeperFound, Queued, QlockReturn
  <2>4. QED
    BY <2>1, <2>2, <2>3
<1>6. ASSUME NEW p \in Proc, EqlockReturn(p)
      PROVE  Queues'
  <2>1. QueueSound'
    BY <1>6 DEF QueueSound, ReadySound, Queued, EqlockReturn
  <2>2. ReadySound'
    BY <1>6 DEF QueueSound, ReadySound, Queued, EqlockReturn
  <2>3. SleeperFound'
    BY <1>6 DEF SleeperFound, Queued, EqlockReturn
  <2>4. QED
    BY <2>1, <2>2, <2>3
<1>7. ASSUME NEW p \in Proc, EqlockInterrupted(p)
      PROVE  Queues'
  <2>1. QueueSound'
    BY <1>7 DEF QueueSound, ReadySound, Queued, EqlockInterrupted
  <2>2. ReadySound'
    BY <1>7 DEF QueueSound, ReadySound, Queued, EqlockInterrupted
  <2>3. SleeperFound'
    BY <1>7 DEF SleeperFound, Queued, EqlockInterrupted
  <2>4. QED
    BY <2>1, <2>2, <2>3
<1>8. ASSUME NEW p \in Proc, QunlockEnter(p)
      PROVE  Queues'
  <2>1. QueueSound'
    BY <1>8 DEF QueueSound, ReadySound, Queued, QunlockEnter
  <2>2. ReadySound'
    BY <1>8 DEF QueueSound, ReadySound, Queued, QunlockEnter
  <2>3. SleeperFound'
    BY <1>8 DEF SleeperFound, Queued, QunlockEnter
  <2>4. QED
    BY <2>1, <2>2, <2>3
<1>9. ASSUME NEW p \in Proc, QunlockFree(p)
      PROVE  Queues'
  <2>1. QueueSound'
    BY <1>9 DEF QueueSound, ReadySound, Queued, QunlockFree
  <2>2. ReadySound'
    BY <1>9 DEF QueueSound, ReadySound, Queued, QunlockFree
  <2>3. SleeperFound'
    BY <1>9 DEF SleeperFound, Queued, QunlockFree
  <2>4. QED
    BY <2>1, <2>2, <2>3
<1>10. ASSUME NEW p \in Proc, Ready(p)
      PROVE  Queues'
  <2>1. QueueSound'
    BY <1>10 DEF QueueSound, ReadySound, Queued, Ready, ReadyState, Blocked
  <2>2. ReadySound'
    BY <1>10 DEF QueueSound, ReadySound, Queued, Ready, ReadyState, Blocked
  <2>3. SleeperFound'
    BY <1>10 DEF SleeperFound, Queued, Ready, ReadyState, Blocked
  <2>4. QED
    BY <2>1, <2>2, <2>3
<1>11. ASSUME NEW p \in Proc, InterruptQueued(p)
      PROVE  Queues'
  <2>1. QueueSound'
    BY <1>11 DEF QueueSound, ReadySound, Queued, InterruptQueued
  <2>2. ReadySound'
    BY <1>11 DEF QueueSound, ReadySound, Queued, InterruptQueued
  <2>3. SleeperFound'
    BY <1>11 DEF SleeperFound, Queued, InterruptQueued
  <2>4. QED
    BY <2>1, <2>2, <2>3
<1>12. ASSUME NEW p \in Proc, InterruptAwake(p)
      PROVE  Queues'
  <2>1. QueueSound'
    BY <1>12 DEF QueueSound, ReadySound, Queued, InterruptAwake, InterruptDone
  <2>2. ReadySound'
    BY <1>12 DEF QueueSound, ReadySound, Queued, InterruptAwake, InterruptDone
  <2>3. SleeperFound'
    BY <1>12 DEF SleeperFound, Queued, InterruptAwake, InterruptDone
  <2>4. QED
    BY <2>1, <2>2, <2>3
<1>13. ASSUME NEW p \in Proc, InterruptEql(p)
      PROVE  Queues'
  <2>1. QueueSound'
    BY <1>13 DEF QueueSound, ReadySound, Queued, InterruptEql
  <2>2. ReadySound'
    BY <1>13 DEF QueueSound, ReadySound, Queued, InterruptEql
  <2>3. SleeperFound'
    BY <1>13 DEF SleeperFound, Queued, InterruptEql
  <2>4. QED
    BY <2>1, <2>2, <2>3
<1>14. ASSUME NEW p \in Proc, InterruptNoEql(p)
      PROVE  Queues'
  <2>1. QueueSound'
    BY <1>14 DEF QueueSound, ReadySound, Queued, InterruptNoEql, InterruptDone
  <2>2. ReadySound'
    BY <1>14 DEF QueueSound, ReadySound, Queued, InterruptNoEql, InterruptDone
  <2>3. SleeperFound'
    BY <1>14 DEF SleeperFound, Queued, InterruptNoEql, InterruptDone
  <2>4. QED
    BY <2>1, <2>2, <2>3
<1>15. ASSUME NEW p \in Proc, InterruptLock(p)
      PROVE  Queues'
  <2>1. QueueSound'
    BY <1>15 DEF QueueSound, ReadySound, Queued, InterruptLock
  <2>2. ReadySound'
    BY <1>15 DEF QueueSound, ReadySound, Queued, InterruptLock
  <2>3. SleeperFound'
    BY <1>15 DEF SleeperFound, Queued, InterruptLock
  <2>4. QED
    BY <2>1, <2>2, <2>3
<1>16. ASSUME NEW p \in Proc, InterruptMiss(p)
      PROVE  Queues'
  <2>1. QueueSound'
    BY <1>16 DEF QueueSound, ReadySound, Queued, InterruptMiss, Found
  <2>2. ReadySound'
    BY <1>16 DEF QueueSound, ReadySound, Queued, InterruptMiss, Found
  <2>3. SleeperFound'
    BY <1>16 DEF SleeperFound, Queued, InterruptMiss, Found
  <2>4. QED
    BY <2>1, <2>2, <2>3
<1>17. ASSUME NEW p \in Proc, Popnote(p)
      PROVE  Queues'
  <2>1. QueueSound'
    BY <1>17 DEF QueueSound, ReadySound, Queued, Popnote
  <2>2. ReadySound'
    BY <1>17 DEF QueueSound, ReadySound, Queued, Popnote
  <2>3. SleeperFound'
    BY <1>17 DEF SleeperFound, Queued, Popnote
  <2>4. QED
    BY <2>1, <2>2, <2>3
<1>18. ASSUME NEW p \in Proc, Schedule(p)
      PROVE  Queues'
  <2>1. QueueSound'
    <3>1. CASE Switch(p)
      BY <1>18, <3>1 DEF Schedule, Switch, QueueSound, Queued
    <3>2. CASE Dispatch(p)
      BY <1>18, <3>2 DEF Schedule, Dispatch, QueueSound, Queued
    <3>3. QED
      BY <1>18, <3>1, <3>2 DEF Schedule
  <2>2. ReadySound'
    BY <1>18 DEF QueueSound, ReadySound, Queued, Schedule, Switch, Dispatch
  <2>3. SleeperFound'
    BY <1>18 DEF SleeperFound, Queued, Schedule, Switch, Dispatch
  <2>4. QED
    BY <2>1, <2>2, <2>3
<1>19. ASSUME NEW p \in Proc, NEW q \in QLocks, NEW op \in {"qlock", "eqlock", "canqlock"},
             Enter(p, q, op)
      PROVE  Queues'
  <2>1. QueueSound'
    BY <1>19 DEF QueueSound, ReadySound, Queued, Enter
  <2>2. ReadySound'
    BY <1>19 DEF QueueSound, ReadySound, Queued, Enter
  <2>3. SleeperFound'
    BY <1>19 DEF SleeperFound, Queued, Enter
  <2>4. QED
    BY <2>1, <2>2, <2>3
<1>20. ASSUME NEW p \in Proc, NEW v \in Proc, Interrupt(p, v)
      PROVE  Queues'
  <2>1. QueueSound'
    BY <1>20 DEF QueueSound, ReadySound, Queued, Interrupt
  <2>2. ReadySound'
    BY <1>20 DEF QueueSound, ReadySound, Queued, Interrupt
  <2>3. SleeperFound'
    BY <1>20 DEF SleeperFound, Queued, Interrupt
  <2>4. QED
    BY <2>1, <2>2, <2>3
<1>21. ASSUME NEW p \in Proc, QlockWait(p)
      PROVE  Queues'
  <2>1. /\ queue' \in [QLocks -> Seq(Proc)] /\ \A q \in QLocks : IsInjective(queue'[q])
        /\ \A q \in QLocks :
             Queued(q)' = IF q = lk[p] THEN Queued(q) \cup {p} ELSE Queued(q)
    BY <1>21, EnqueueMembers
  <2>2. QueueSound'
    BY <1>21, <2>1, SMTT(60) DEF QueueSound, ReadySound, QlockWait, Enqueue
  <2>3. ReadySound'
    BY <1>21, <2>1, SMTT(60) DEF QueueSound, ReadySound, QlockWait, Enqueue
  <2>4. SleeperFound'
    <3>1. /\ pc[p] \in InUse /\ lk[p] \in QLocks
          /\ state' = [state EXCEPT ![p] = "Queueing"]
          /\ who' = who
          /\ \A k \in Proc : k # p => pc'[k] = pc[k]
      BY <1>21 DEF QlockWait, Enqueue
    <3> HIDE DEF Control, Queues, LocalsSet, BlockedWaits, InUse, Waiting
    <3>2. SUFFICES ASSUME NEW x \in Proc, x # p, state[x] = "Queueing"
                   PROVE  \/ \E q \in QLocks : x \in Queued(q)'
                          \/ \E k \in Proc : pc'[k] = "ready" /\ who'[k] = x
      BY <2>1, <3>1 DEF SleeperFound, Control
    <3>3. CASE \E q \in QLocks : x \in Queued(q)
      <4>1. PICK q \in QLocks : x \in Queued(q)
        BY <3>3
      <4>2. x \in Queued(q)'
        BY <2>1, <4>1
      <4>3. QED
        BY <4>2
    <3>4. CASE \E k \in Proc : pc[k] = "ready" /\ who[k] = x
      BY <3>1, <3>4 DEF Control, InUse
    <3>5. QED
      BY <3>2, <3>3, <3>4 DEF Queues, SleeperFound
  <2>5. QED
    BY <2>2, <2>3, <2>4
<1>22. ASSUME NEW p \in Proc, EqlockWait(p)
      PROVE  Queues'
  <2>1. /\ queue' \in [QLocks -> Seq(Proc)] /\ \A q \in QLocks : IsInjective(queue'[q])
        /\ \A q \in QLocks :
             Queued(q)' = IF q = lk[p] THEN Queued(q) \cup {p} ELSE Queued(q)
    BY <1>22, EnqueueMembers
  <2>2. QueueSound'
    BY <1>22, <2>1, SMTT(60) DEF QueueSound, ReadySound, EqlockWait, Enqueue
  <2>3. ReadySound'
    BY <1>22, <2>1, SMTT(60) DEF QueueSound, ReadySound, EqlockWait, Enqueue
  <2>4. SleeperFound'
    <3>1. /\ pc[p] \in InUse /\ lk[p] \in QLocks
          /\ state' = [state EXCEPT ![p] = "Queueing"]
          /\ who' = who
          /\ \A k \in Proc : k # p => pc'[k] = pc[k]
      BY <1>22 DEF EqlockWait, Enqueue
    <3> HIDE DEF Control, Queues, LocalsSet, BlockedWaits, InUse, Waiting
    <3>2. SUFFICES ASSUME NEW x \in Proc, x # p, state[x] = "Queueing"
                   PROVE  \/ \E q \in QLocks : x \in Queued(q)'
                          \/ \E k \in Proc : pc'[k] = "ready" /\ who'[k] = x
      BY <2>1, <3>1 DEF SleeperFound, Control
    <3>3. CASE \E q \in QLocks : x \in Queued(q)
      <4>1. PICK q \in QLocks : x \in Queued(q)
        BY <3>3
      <4>2. x \in Queued(q)'
        BY <2>1, <4>1
      <4>3. QED
        BY <4>2
    <3>4. CASE \E k \in Proc : pc[k] = "ready" /\ who[k] = x
      BY <3>1, <3>4 DEF Control, InUse
    <3>5. QED
      BY <3>2, <3>3, <3>4 DEF Queues, SleeperFound
  <2>5. QED
    BY <2>2, <2>3, <2>4
<1>23. ASSUME NEW p \in Proc, QunlockHandOff(p)
      PROVE  Queues'
  <2>1. /\ queue' \in [QLocks -> Seq(Proc)] /\ \A q \in QLocks : IsInjective(queue'[q])
        /\ who'[p] \in Queued(lk[p]) /\ who' = [who EXCEPT ![p] = who'[p]]
        /\ \A q \in QLocks :
             Queued(q)' = IF q = lk[p] THEN Queued(q) \ {who'[p]} ELSE Queued(q)
    BY <1>23, HandOffMembers
  <2>2. QueueSound'
    BY <1>23, <2>1, SMTT(60) DEF QueueSound, ReadySound, QunlockHandOff
  <2>3. ReadySound'
    BY <1>23, <2>1, SMTT(60) DEF QueueSound, ReadySound, QunlockHandOff
  <2>4. SleeperFound'
    <3>1. /\ pc[p] \in InUse /\ lk[p] \in QLocks
          /\ state' = state
          /\ pc' = [pc EXCEPT ![p] = "ready"]
          /\ \A k \in Proc : k # p => who'[k] = who[k]
      BY <2>1, <1>23 DEF QunlockHandOff
    <3> HIDE DEF Control, Queues, LocalsSet, BlockedWaits, InUse, Waiting
    <3>2. SUFFICES ASSUME NEW x \in Proc, state[x] = "Queueing"
                   PROVE  \/ \E q \in QLocks : x \in Queued(q)'
                          \/ \E k \in Proc : pc'[k] = "ready" /\ who'[k] = x
      BY <3>1 DEF SleeperFound, Control
    <3>3. CASE x = who'[p]
      BY <3>1, <3>3 DEF Control, LocalsSet
    <3>4. CASE x # who'[p] /\ \E q \in QLocks : x \in Queued(q)
      BY <2>1, <3>4
    <3>5. CASE \E k \in Proc : pc[k] = "ready" /\ who[k] = x
      BY <3>1, <3>5 DEF Control, InUse
    <3>6. QED
      BY <3>2, <3>3, <3>4, <3>5 DEF Queues, SleeperFound
  <2>5. QED
    BY <2>2, <2>3, <2>4
<1>24. ASSUME NEW p \in Proc, InterruptUnlink(p)
      PROVE  Queues'
  <2>1. /\ queue' \in [QLocks -> Seq(Proc)] /\ \A q \in QLocks : IsInjective(queue'[q])
        /\ who[p] \in Queued(lk[p])
        /\ \A q \in QLocks :
             Queued(q)' = IF q = lk[p] THEN Queued(q) \ {who[p]} ELSE Queued(q)
    BY <1>24, UnlinkMembers
  <2>2. QueueSound'
    BY <1>24, <2>1, SMTT(60) DEF QueueSound, ReadySound, InterruptUnlink, Found
  <2>3. ReadySound'
    BY <1>24, <2>1, SMTT(60) DEF QueueSound, ReadySound, InterruptUnlink, Found
  <2>4. SleeperFound'
    <3>1. /\ pc[p] \in InUse /\ lk[p] \in QLocks
          /\ state' = state
          /\ pc' = [pc EXCEPT ![p] = "ready"]
          /\ \A k \in Proc : k # p => who'[k] = who[k]
          /\ who'[p] = who[p]
      BY <2>1, <1>24 DEF InterruptUnlink
    <3> HIDE DEF Control, Queues, LocalsSet, BlockedWaits, InUse, Waiting
    <3>2. SUFFICES ASSUME NEW x \in Proc, state[x] = "Queueing"
                   PROVE  \/ \E q \in QLocks : x \in Queued(q)'
                          \/ \E k \in Proc : pc'[k] = "ready" /\ who'[k] = x
      BY <3>1 DEF SleeperFound, Control
    <3>3. CASE x = who[p]
      BY <3>1, <3>3 DEF Control, LocalsSet
    <3>4. CASE x # who[p] /\ \E q \in QLocks : x \in Queued(q)
      BY <2>1, <3>4
    <3>5. CASE \E k \in Proc : pc[k] = "ready" /\ who[k] = x
      BY <3>1, <3>5 DEF Control, InUse
    <3>6. QED
      BY <3>2, <3>3, <3>4, <3>5 DEF Queues, SleeperFound
  <2>5. QED
    BY <2>2, <2>3, <2>4
<1>25. CASE UNCHANGED vars
  BY <1>25 DEF vars, QueueSound, ReadySound, SleeperFound, Queued
<1>26. QED
  BY <1>1, <1>2, <1>3, <1>4, <1>5, <1>6, <1>7, <1>8, <1>9, <1>10, <1>11, <1>12, <1>13,
     <1>14, <1>15, <1>16, <1>17, <1>18, <1>19, <1>20, <1>21, <1>22, <1>23, <1>24, <1>25
  DEF Next

\* No step gives a lock two owners or loses it: a hand-off changes the owner
\* to the head of the queue, and an interrupted waiter owned nothing.
LEMMA OwnershipStep ==
  ASSUME Control, Queues, Ownership, [Next]_vars
  PROVE  Ownership'
<1> USE NilAssumption, QLocksAssumption DEF At, Goto, Runs, Lock, Unlock, procVars,
        InUse, Waiting, Control, TypeOK, LocalsSet
<1>1. ASSUME NEW p \in Proc, TakeFree(p)
      PROVE  Ownership'
  <2>1. /\ \A x \in Proc, y \in QLocks : Owns(x, y)' <=> Owns(x, y) \/ (x = p /\ y = lk[p])
        /\ \A y \in QLocks : Queued(y)' = Queued(y)
        /\ locked' = [locked EXCEPT ![lk[p]] = TRUE]
        /\ ~locked[lk[p]]
    BY <1>1 DEF Queues, QueueSound, BlockedWaits, EqlOfWaiter, Owns, TakeFree, Queued
  <2>2. SleepsOnTaken'
    BY <1>1 DEF UseHeld, Ownership, SleepsOnTaken, TakeFree
  <2>3. QED
    BY <2>1, <2>2 DEF Ownership, MutualExclusion, LockedIsOwned
<1>2. ASSUME NEW p \in Proc, CanqlockBusy(p)
      PROVE  Ownership'
  <2>1. /\ \A x \in Proc, y \in QLocks : Owns(x, y)' <=> Owns(x, y)
        /\ \A y \in QLocks : Queued(y)' = Queued(y)
        /\ locked' = locked
    BY <1>2 DEF Queues, QueueSound, BlockedWaits, EqlOfWaiter, Owns, CanqlockBusy, Queued
  <2>2. SleepsOnTaken'
    BY <1>2 DEF UseHeld, Ownership, SleepsOnTaken, CanqlockBusy
  <2>3. QED
    BY <2>1, <2>2 DEF Ownership, MutualExclusion, LockedIsOwned
<1>3. ASSUME NEW p \in Proc, EqlockNote(p)
      PROVE  Ownership'
  <2>1. /\ \A x \in Proc, y \in QLocks : Owns(x, y)' <=> Owns(x, y)
        /\ \A y \in QLocks : Queued(y)' = Queued(y)
        /\ locked' = locked
    BY <1>3 DEF Queues, QueueSound, BlockedWaits, EqlOfWaiter, Owns, EqlockNote, Queued
  <2>2. SleepsOnTaken'
    BY <1>3 DEF UseHeld, Ownership, SleepsOnTaken, EqlockNote
  <2>3. QED
    BY <2>1, <2>2 DEF Ownership, MutualExclusion, LockedIsOwned
<1>4. ASSUME NEW p \in Proc, EqlockCheck(p)
      PROVE  Ownership'
  <2>1. /\ \A x \in Proc, y \in QLocks : Owns(x, y)' <=> Owns(x, y)
        /\ \A y \in QLocks : Queued(y)' = Queued(y)
        /\ locked' = locked
    BY <1>4 DEF Queues, QueueSound, BlockedWaits, EqlOfWaiter, Owns, EqlockCheck, Queued
  <2>2. SleepsOnTaken'
    BY <1>4 DEF UseHeld, Ownership, SleepsOnTaken, EqlockCheck
  <2>3. QED
    BY <2>1, <2>2 DEF Ownership, MutualExclusion, LockedIsOwned
<1>5. ASSUME NEW p \in Proc, QlockReturn(p)
      PROVE  Ownership'
  <2>1. /\ \A x \in Proc, y \in QLocks : Owns(x, y)' <=> Owns(x, y)
        /\ \A y \in QLocks : Queued(y)' = Queued(y)
        /\ locked' = locked
    BY <1>5 DEF Queues, QueueSound, BlockedWaits, EqlOfWaiter, Owns, QlockReturn, Queued
  <2>2. SleepsOnTaken'
    BY <1>5 DEF UseHeld, Ownership, SleepsOnTaken, QlockReturn
  <2>3. QED
    BY <2>1, <2>2 DEF Ownership, MutualExclusion, LockedIsOwned
<1>6. ASSUME NEW p \in Proc, EqlockReturn(p)
      PROVE  Ownership'
  <2>1. /\ \A x \in Proc, y \in QLocks : Owns(x, y)' <=> Owns(x, y)
        /\ \A y \in QLocks : Queued(y)' = Queued(y)
        /\ locked' = locked
    BY <1>6 DEF Queues, QueueSound, BlockedWaits, EqlOfWaiter, Owns, EqlockReturn, Queued
  <2>2. SleepsOnTaken'
    BY <1>6 DEF UseHeld, Ownership, SleepsOnTaken, EqlockReturn
  <2>3. QED
    BY <2>1, <2>2 DEF Ownership, MutualExclusion, LockedIsOwned
<1>7. ASSUME NEW p \in Proc, EqlockInterrupted(p)
      PROVE  Ownership'
  <2>1. /\ \A x \in Proc, y \in QLocks : Owns(x, y)' <=> Owns(x, y)
        /\ \A y \in QLocks : Queued(y)' = Queued(y)
        /\ locked' = locked
    BY <1>7
    DEF Queues, QueueSound, BlockedWaits, EqlOfWaiter, Owns, EqlockInterrupted, Queued
  <2>2. SleepsOnTaken'
    BY <1>7 DEF UseHeld, Ownership, SleepsOnTaken, EqlockInterrupted
  <2>3. QED
    BY <2>1, <2>2 DEF Ownership, MutualExclusion, LockedIsOwned
<1>8. ASSUME NEW p \in Proc, QunlockEnter(p)
      PROVE  Ownership'
  <2>1. /\ \A x \in Proc, y \in QLocks : Owns(x, y)' <=> Owns(x, y)
        /\ \A y \in QLocks : Queued(y)' = Queued(y)
        /\ locked' = locked
    BY <1>8 DEF Queues, QueueSound, BlockedWaits, EqlOfWaiter, Owns, QunlockEnter, Queued
  <2>2. SleepsOnTaken'
    BY <1>8 DEF UseHeld, Ownership, SleepsOnTaken, QunlockEnter
  <2>3. QED
    BY <2>1, <2>2 DEF Ownership, MutualExclusion, LockedIsOwned
<1>9. ASSUME NEW p \in Proc, QunlockFree(p)
      PROVE  Ownership'
  <2>1. /\ \A x \in Proc, y \in QLocks : Owns(x, y)' <=> Owns(x, y) /\ ~(x = p /\ y = lk[p])
        /\ \A y \in QLocks : Queued(y)' = Queued(y)
        /\ locked' = [locked EXCEPT ![lk[p]] = FALSE]
        /\ Owns(p, lk[p])
        /\ lk[p] \in QLocks
    BY <1>9 DEF Queues, QueueSound, BlockedWaits, EqlOfWaiter, Owns, QunlockFree, Queued
  <2>2. Queued(lk[p]) = {}
    BY <1>9 DEF QunlockFree, Queued, ToSet
  <2>3. SleepsOnTaken'
    BY <1>9 DEF UseHeld, Ownership, SleepsOnTaken, QunlockFree
  <2>4. QED
    BY <2>1, <2>2, <2>3 DEF Ownership, MutualExclusion, LockedIsOwned
<1>10. ASSUME NEW p \in Proc, Ready(p)
      PROVE  Ownership'
  <2>1. /\ \A x \in Proc, y \in QLocks : Owns(x, y)' <=> Owns(x, y)
        /\ \A y \in QLocks : Queued(y)' = Queued(y)
        /\ locked' = locked
    BY <1>10
    DEF Queues, QueueSound, BlockedWaits, EqlOfWaiter, Owns, Ready, ReadyState, Blocked,
        Queued
  <2>2. SleepsOnTaken'
    BY <1>10 DEF UseHeld, Ownership, SleepsOnTaken, Ready, ReadyState, Blocked
  <2>3. QED
    BY <2>1, <2>2 DEF Ownership, MutualExclusion, LockedIsOwned
<1>11. ASSUME NEW p \in Proc, InterruptQueued(p)
      PROVE  Ownership'
  <2>1. /\ \A x \in Proc, y \in QLocks : Owns(x, y)' <=> Owns(x, y)
        /\ \A y \in QLocks : Queued(y)' = Queued(y)
        /\ locked' = locked
    BY <1>11
    DEF Queues, QueueSound, BlockedWaits, EqlOfWaiter, Owns, InterruptQueued, Queued
  <2>2. SleepsOnTaken'
    BY <1>11 DEF UseHeld, Ownership, SleepsOnTaken, InterruptQueued
  <2>3. QED
    BY <2>1, <2>2 DEF Ownership, MutualExclusion, LockedIsOwned
<1>12. ASSUME NEW p \in Proc, InterruptAwake(p)
      PROVE  Ownership'
  <2>1. /\ \A x \in Proc, y \in QLocks : Owns(x, y)' <=> Owns(x, y)
        /\ \A y \in QLocks : Queued(y)' = Queued(y)
        /\ locked' = locked
    BY <1>12
    DEF Queues, QueueSound, BlockedWaits, EqlOfWaiter, Owns, InterruptAwake, InterruptDone,
        Queued
  <2>2. SleepsOnTaken'
    BY <1>12 DEF UseHeld, Ownership, SleepsOnTaken, InterruptAwake, InterruptDone
  <2>3. QED
    BY <2>1, <2>2 DEF Ownership, MutualExclusion, LockedIsOwned
<1>13. ASSUME NEW p \in Proc, InterruptEql(p)
      PROVE  Ownership'
  <2>1. /\ \A x \in Proc, y \in QLocks : Owns(x, y)' <=> Owns(x, y)
        /\ \A y \in QLocks : Queued(y)' = Queued(y)
        /\ locked' = locked
    BY <1>13 DEF Queues, QueueSound, BlockedWaits, EqlOfWaiter, Owns, InterruptEql, Queued
  <2>2. SleepsOnTaken'
    BY <1>13 DEF UseHeld, Ownership, SleepsOnTaken, InterruptEql
  <2>3. QED
    BY <2>1, <2>2 DEF Ownership, MutualExclusion, LockedIsOwned
<1>14. ASSUME NEW p \in Proc, InterruptNoEql(p)
      PROVE  Ownership'
  <2>1. /\ \A x \in Proc, y \in QLocks : Owns(x, y)' <=> Owns(x, y)
        /\ \A y \in QLocks : Queued(y)' = Queued(y)
        /\ locked' = locked
    BY <1>14
    DEF Queues, QueueSound, BlockedWaits, EqlOfWaiter, Owns, InterruptNoEql, InterruptDone,
        Queued
  <2>2. SleepsOnTaken'
    BY <1>14 DEF UseHeld, Ownership, SleepsOnTaken, InterruptNoEql, InterruptDone
  <2>3. QED
    BY <2>1, <2>2 DEF Ownership, MutualExclusion, LockedIsOwned
<1>15. ASSUME NEW p \in Proc, InterruptLock(p)
      PROVE  Ownership'
  <2>1. /\ \A x \in Proc, y \in QLocks : Owns(x, y)' <=> Owns(x, y)
        /\ \A y \in QLocks : Queued(y)' = Queued(y)
        /\ locked' = locked
    BY <1>15 DEF Queues, QueueSound, BlockedWaits, EqlOfWaiter, Owns, InterruptLock, Queued
  <2>2. SleepsOnTaken'
    BY <1>15 DEF UseHeld, Ownership, SleepsOnTaken, InterruptLock
  <2>3. QED
    BY <2>1, <2>2 DEF Ownership, MutualExclusion, LockedIsOwned
<1>16. ASSUME NEW p \in Proc, InterruptMiss(p)
      PROVE  Ownership'
  <2>1. /\ \A x \in Proc, y \in QLocks : Owns(x, y)' <=> Owns(x, y)
        /\ \A y \in QLocks : Queued(y)' = Queued(y)
        /\ locked' = locked
    BY <1>16
    DEF Queues, QueueSound, BlockedWaits, EqlOfWaiter, Owns, InterruptMiss, Found, Queued
  <2>2. SleepsOnTaken'
    BY <1>16 DEF UseHeld, Ownership, SleepsOnTaken, InterruptMiss, Found
  <2>3. QED
    BY <2>1, <2>2 DEF Ownership, MutualExclusion, LockedIsOwned
<1>17. ASSUME NEW p \in Proc, Popnote(p)
      PROVE  Ownership'
  <2>1. /\ \A x \in Proc, y \in QLocks : Owns(x, y)' <=> Owns(x, y)
        /\ \A y \in QLocks : Queued(y)' = Queued(y)
        /\ locked' = locked
    BY <1>17 DEF Queues, QueueSound, BlockedWaits, EqlOfWaiter, Owns, Popnote, Queued
  <2>2. SleepsOnTaken'
    BY <1>17 DEF UseHeld, Ownership, SleepsOnTaken, Popnote
  <2>3. QED
    BY <2>1, <2>2 DEF Ownership, MutualExclusion, LockedIsOwned
<1>18. ASSUME NEW p \in Proc, Schedule(p)
      PROVE  Ownership'
  <2>1. /\ \A x \in Proc, y \in QLocks : Owns(x, y)' <=> Owns(x, y)
        /\ \A y \in QLocks : Queued(y)' = Queued(y)
        /\ locked' = locked
    BY <1>18
    DEF Queues, QueueSound, BlockedWaits, EqlOfWaiter, Owns, Schedule, Switch, Dispatch,
        Queued
  <2>2. SleepsOnTaken'
    BY <1>18 DEF UseHeld, Ownership, SleepsOnTaken, Schedule, Switch, Dispatch
  <2>3. QED
    BY <2>1, <2>2 DEF Ownership, MutualExclusion, LockedIsOwned
<1>19. ASSUME NEW p \in Proc, NEW q \in QLocks, NEW op \in {"qlock", "eqlock", "canqlock"},
             Enter(p, q, op)
      PROVE  Ownership'
  <2>1. /\ \A x \in Proc, y \in QLocks : Owns(x, y)' <=> Owns(x, y)
        /\ \A y \in QLocks : Queued(y)' = Queued(y)
        /\ locked' = locked
    BY <1>19 DEF Queues, QueueSound, BlockedWaits, EqlOfWaiter, Owns, Enter, Queued
  <2>2. SleepsOnTaken'
    BY <1>19 DEF UseHeld, Ownership, SleepsOnTaken, Enter
  <2>3. QED
    BY <2>1, <2>2 DEF Ownership, MutualExclusion, LockedIsOwned
<1>20. ASSUME NEW p \in Proc, NEW v \in Proc, Interrupt(p, v)
      PROVE  Ownership'
  <2>1. /\ \A x \in Proc, y \in QLocks : Owns(x, y)' <=> Owns(x, y)
        /\ \A y \in QLocks : Queued(y)' = Queued(y)
        /\ locked' = locked
    BY <1>20 DEF Queues, QueueSound, BlockedWaits, EqlOfWaiter, Owns, Interrupt, Queued
  <2>2. SleepsOnTaken'
    BY <1>20 DEF UseHeld, Ownership, SleepsOnTaken, Interrupt
  <2>3. QED
    BY <2>1, <2>2 DEF Ownership, MutualExclusion, LockedIsOwned
<1>21. ASSUME NEW p \in Proc, QlockWait(p)
      PROVE  Ownership'
  <2>1. /\ queue' \in [QLocks -> Seq(Proc)] /\ \A q \in QLocks : IsInjective(queue'[q])
        /\ \A q \in QLocks :
             Queued(q)' = IF q = lk[p] THEN Queued(q) \cup {p} ELSE Queued(q)
    BY <1>21, EnqueueMembers DEF Queues
  <2>2. /\ \A x \in Proc, y \in QLocks : Owns(x, y)' <=> Owns(x, y)
        /\ \A y \in QLocks : Queued(y)' # {} => locked[y]
        /\ locked' = locked
    BY <1>21, <2>1
    DEF Queues, QueueSound, BlockedWaits, EqlOfWaiter, Owns, QlockWait, Enqueue, Ownership,
        LockedIsOwned, SleepsOnTaken
  <2>3. SleepsOnTaken'
    BY <1>21 DEF UseHeld, Ownership, SleepsOnTaken, QlockWait, Enqueue
  <2>4. QED
    BY <2>1, <2>2, <2>3 DEF Ownership, MutualExclusion, LockedIsOwned
<1>22. ASSUME NEW p \in Proc, EqlockWait(p)
      PROVE  Ownership'
  <2>1. /\ queue' \in [QLocks -> Seq(Proc)] /\ \A q \in QLocks : IsInjective(queue'[q])
        /\ \A q \in QLocks :
             Queued(q)' = IF q = lk[p] THEN Queued(q) \cup {p} ELSE Queued(q)
    BY <1>22, EnqueueMembers DEF Queues
  <2>2. /\ \A x \in Proc, y \in QLocks : Owns(x, y)' <=> Owns(x, y)
        /\ \A y \in QLocks : Queued(y)' # {} => locked[y]
        /\ locked' = locked
    BY <1>22, <2>1
    DEF Queues, QueueSound, BlockedWaits, EqlOfWaiter, Owns, EqlockWait, Enqueue, Ownership,
        LockedIsOwned, SleepsOnTaken
  <2>3. SleepsOnTaken'
    BY <1>22 DEF UseHeld, Ownership, SleepsOnTaken, EqlockWait, Enqueue
  <2>4. QED
    BY <2>1, <2>2, <2>3 DEF Ownership, MutualExclusion, LockedIsOwned
<1>23. ASSUME NEW p \in Proc, QunlockHandOff(p)
      PROVE  Ownership'
  <2>1. /\ queue' \in [QLocks -> Seq(Proc)] /\ \A q \in QLocks : IsInjective(queue'[q])
        /\ who'[p] \in Queued(lk[p]) /\ who' = [who EXCEPT ![p] = who'[p]]
        /\ \A q \in QLocks :
             Queued(q)' = IF q = lk[p] THEN Queued(q) \ {who'[p]} ELSE Queued(q)
    BY <1>23, HandOffMembers DEF Queues
  <2>2. /\ \A x \in Proc, y \in QLocks :
              Owns(x, y)' <=> IF y = lk[p] THEN x = who'[p] ELSE Owns(x, y)
        /\ locked' = locked
        /\ lk[p] \in QLocks
        /\ who'[p] \in Proc
        /\ Owns(p, lk[p])
    BY <1>23, <2>1
    DEF Queues, QueueSound, BlockedWaits, EqlOfWaiter, Owns, QunlockHandOff, Ownership,
        MutualExclusion
  <2>3. SleepsOnTaken'
    BY <1>23 DEF UseHeld, Ownership, SleepsOnTaken, QunlockHandOff
  <2>4. QED
    BY <2>1, <2>2, <2>3 DEF Ownership, MutualExclusion, LockedIsOwned
<1>24. ASSUME NEW p \in Proc, InterruptUnlink(p)
      PROVE  Ownership'
  <2>1. /\ queue' \in [QLocks -> Seq(Proc)] /\ \A q \in QLocks : IsInjective(queue'[q])
        /\ who[p] \in Queued(lk[p])
        /\ \A q \in QLocks :
             Queued(q)' = IF q = lk[p] THEN Queued(q) \ {who[p]} ELSE Queued(q)
    BY <1>24, UnlinkMembers DEF Queues
  <2>2. /\ \A x \in Proc, y \in QLocks : Owns(x, y)' <=> Owns(x, y)
        /\ \A y \in QLocks : Queued(y)' # {} => locked[y]
        /\ locked' = locked
    <3>1. /\ pc[p] = "intrq" /\ pc' = [pc EXCEPT ![p] = "ready"]
          /\ lk' = [lk EXCEPT ![p] = Nil]
          /\ eql' = [eql EXCEPT ![who[p]] = Nil]
          /\ locked' = locked
      BY <1>24 DEF InterruptUnlink
    <3>2. PICK v \in Proc : v = who[p]
      BY <3>1
    <3>3. /\ v \in Queued(lk[p]) /\ lk[p] \in QLocks
          /\ lk[v] = lk[p] /\ pc[v] = "eqwait" /\ v # p
          /\ eql' = [eql EXCEPT ![v] = Nil]
      <4>1. eql[v] = lk[p] /\ lk[p] \in QLocks
        BY <1>24, <3>1, <3>2 DEF InterruptUnlink, Found
      <4>2. QED
        BY <2>1, <3>1, <3>2, <4>1 DEF EqlOfWaiter, Queues, QueueSound
    <3>4. ASSUME NEW x \in Proc, NEW y \in QLocks
          PROVE  Owns(x, y)' <=> Owns(x, y)
      <4>1. CASE x = v
        BY <3>1, <3>3, <4>1 DEF Owns
      <4>2. CASE x # v
        BY <2>1, <3>1, <3>2, <3>3, <4>2 DEF Owns
      <4>3. QED
        BY <4>1, <4>2
    <3>5. \A y \in QLocks : Queued(y)' # {} => locked[y]
      BY <2>1 DEF Ownership, LockedIsOwned
    <3>6. QED
      BY <3>1, <3>4, <3>5
  <2>3. SleepsOnTaken'
    BY <1>24 DEF UseHeld, Ownership, SleepsOnTaken, InterruptUnlink, Found
  <2>4. QED
    BY <2>1, <2>2, <2>3 DEF Ownership, MutualExclusion, LockedIsOwned
<1>25. CASE UNCHANGED vars
  BY <1>25 DEF vars, Ownership, SleepsOnTaken, MutualExclusion, LockedIsOwned, Owns, Queued
<1>26. QED
  BY <1>1, <1>2, <1>3, <1>4, <1>5, <1>6, <1>7, <1>8, <1>9, <1>10, <1>11, <1>12, <1>13,
     <1>14, <1>15, <1>16, <1>17, <1>18, <1>19, <1>20, <1>21, <1>22, <1>23, <1>24, <1>25
  DEF Next

-----------------------------------------------------------------------------
\* The invariant holds of every behaviour, for every set of processes and locks.
THEOREM Safety == Spec => []Inv
<1>1. Init => Inv
  BY NilAssumption, QLocksAssumption
  DEF Init, ProcInit, Inv, Control, Queues, Ownership, TypeOK, ProcTypeOK, States, PCs, UseHeld,
      LocalsSet, BlockedWaits, EqlOfWaiter, QueueSound, ReadySound, SleeperFound, SleepsOnTaken,
      MutualExclusion, LockedIsOwned, Owns, Queued, ToSet, IsInjective, InUse, Waiting
<1>2. Inv /\ [Next]_vars => Inv'
  BY ControlStep, QueuesStep, OwnershipStep DEF Inv, Queues
<1>3. QED
  BY <1>1, <1>2, PTL DEF Spec

\* Every variable keeps its type.
THEOREM TypeCorrect == Spec => []TypeOK
<1>1. Inv => TypeOK
  BY DEF Inv, Control
<1>2. QED
  BY <1>1, Safety, PTL

\* qlock.c never gives a QLock to two processes.
THEOREM OneOwner == Spec => []MutualExclusion
<1>1. Inv => MutualExclusion
  BY DEF Inv, Ownership
<1>2. QED
  BY <1>1, Safety, PTL

\* It never leaves a QLock locked that nobody owns, whatever notes arrive during
\* the hand-off.
THEOREM LockedStaysOwned == Spec => []LockedIsOwned
<1>1. Inv => LockedIsOwned
  BY DEF Inv, Ownership
<1>2. QED
  BY <1>1, Safety, PTL

\* qunlock() and procinterrupt() find in a queue only processes that still
\* sleep there, each of them once.
THEOREM QueueIsExact == Spec => []QueueExact
<1>1. Inv => QueueExact
  BY DEF Inv, Queues, QueueSound, QueueExact
<1>2. QED
  BY <1>1, Safety, PTL

\* The variables of QLock keep their types, and panic("qunlock") of port/qlock.c is
\* out of reach.
THEOREM QLockStaysConsistent == Spec => []QLockConsistent
BY TypeCorrect, QueueIsExact, PTL DEF QLockConsistent

\* A process that left its queue asleep is about to be readied, by one process.
THEOREM WaitersReadied == Spec => []ReadiedOnce
<1>1. Inv => ReadiedOnce
  BY DEF Inv, Control, Queues, ReadySound, SleeperFound, ReadiedOnce, LocalsSet, Waiting
<1>2. QED
  BY <1>1, Safety, PTL
-----------------------------------------------------------------------------
\* FifoLock's variables as functions of those of QLock.
HolderMap == [q \in QLocks |-> Holder(q)]
Soft(q) == {p \in Queued(q) : eql[p] = q}
SoftMap == [q \in QLocks |-> Soft(q)]

\* Holder(q) is the owner of q, if it has one.
HolderRight == \A q \in QLocks :
                 /\ \A p \in Proc : Owns(p, q) => Holder(q) = p
                 /\ (\A p \in Proc : ~Owns(p, q)) => Holder(q) = Nil

SameOwners == \A q \in QLocks : \A p \in Proc : Owns(p, q)' <=> Owns(p, q)
SameQueues == UNCHANGED <<queue, SoftMap>>
-----------------------------------------------------------------------------
\* At most one process owns a lock, so that CHOOSE finds the owner.
LEMMA HolderLemma == Inv => HolderRight
<1> SUFFICES ASSUME Inv, NEW q \in QLocks
             PROVE  /\ \A p \in Proc : Owns(p, q) => Holder(q) = p
                    /\ (\A p \in Proc : ~Owns(p, q)) => Holder(q) = Nil
  BY DEF HolderRight
<1>1. ASSUME NEW p \in Proc, Owns(p, q)
      PROVE  Holder(q) = p
  <2>1. \A r \in Proc : Owns(r, q) => r = p
    BY <1>1 DEF Inv, Ownership, MutualExclusion
  <2>2. (CHOOSE r \in Proc : Owns(r, q)) = p
    BY <1>1, <2>1
  <2>3. QED
    BY <1>1, <2>2 DEF Holder
<1>2. ASSUME \A p \in Proc : ~Owns(p, q)
      PROVE  Holder(q) = Nil
  BY <1>2 DEF Holder
<1>3. QED
  BY <1>1, <1>2

\* Who had a lock has it still, and nobody else got one: the holders are the same.
LEMMA SameHolders ==
  ASSUME HolderRight, HolderRight', NEW q \in QLocks,
         \A p \in Proc : Owns(p, q)' <=> Owns(p, q)
  PROVE  Holder(q)' = Holder(q)
<1>1. CASE \E p \in Proc : Owns(p, q)
  <2>1. PICK p \in Proc : Owns(p, q)
    BY <1>1
  <2>2. Holder(q) = p
    BY <2>1 DEF HolderRight
  <2>3. Holder(q)' = p
    BY <2>1 DEF HolderRight
  <2>4. QED
    BY <2>2, <2>3
<1>2. CASE \A p \in Proc : ~Owns(p, q)
  <2>1. Holder(q) = Nil
    BY <1>2 DEF HolderRight
  <2>2. Holder(q)' = Nil
    BY <1>2 DEF HolderRight
  <2>3. QED
    BY <2>1, <2>2
<1>3. QED
  BY <1>1, <1>2
-----------------------------------------------------------------------------
\* Most steps are not seen from outside: they pass no lock on, and the queues and
\* who may leave them by a note stay.
LEMMA QuietSteps ==
  ASSUME Inv, NEW p \in Proc,
         \/ \E q \in QLocks, op \in {"qlock", "eqlock", "canqlock"} : Enter(p, q, op)
         \/ CanqlockBusy(p) \/ EqlockNote(p) \/ EqlockCheck(p)
         \/ QlockReturn(p) \/ EqlockReturn(p) \/ EqlockInterrupted(p)
         \/ QunlockEnter(p) \/ Ready(p)
         \/ \E v \in Proc : Interrupt(p, v)
         \/ InterruptQueued(p) \/ InterruptAwake(p)
         \/ InterruptEql(p) \/ InterruptNoEql(p) \/ InterruptLock(p)
         \/ InterruptMiss(p) \/ Popnote(p) \/ Schedule(p)
  PROVE  SameOwners /\ SameQueues
<1> USE NilAssumption, QLocksAssumption
    DEF At, Goto, Runs, procVars, InUse, Waiting, Inv, Control, Queues, TypeOK, ProcTypeOK,
        LocalsSet, BlockedWaits, EqlOfWaiter, QueueSound
<1>1. ASSUME NEW q \in QLocks, NEW op \in {"qlock", "eqlock", "canqlock"}, Enter(p, q, op)
      PROVE  SameOwners /\ SameQueues
  <2>1. SameOwners
    BY <1>1 DEF SameOwners, Owns, Queued, Enter
  <2>2. SameQueues
    BY <1>1 DEF SameQueues, SoftMap, Soft, Queued, Enter
  <2>3. QED
    BY <2>1, <2>2
<1>2. ASSUME CanqlockBusy(p)
      PROVE  SameOwners /\ SameQueues
  <2>1. SameOwners
    BY <1>2 DEF SameOwners, Owns, Queued, CanqlockBusy
  <2>2. SameQueues
    BY <1>2 DEF SameQueues, SoftMap, Soft, Queued, CanqlockBusy
  <2>3. QED
    BY <2>1, <2>2
<1>3. ASSUME EqlockNote(p)
      PROVE  SameOwners /\ SameQueues
  <2>1. SameOwners
    BY <1>3 DEF SameOwners, Owns, Queued, EqlockNote
  <2>2. SameQueues
    BY <1>3 DEF SameQueues, SoftMap, Soft, Queued, EqlockNote
  <2>3. QED
    BY <2>1, <2>2
<1>4. ASSUME EqlockCheck(p)
      PROVE  SameOwners /\ SameQueues
  <2>1. SameOwners
    BY <1>4 DEF SameOwners, Owns, Queued, EqlockCheck
  <2>2. SameQueues
    BY <1>4 DEF SameQueues, SoftMap, Soft, Queued, EqlockCheck
  <2>3. QED
    BY <2>1, <2>2
<1>5. ASSUME QlockReturn(p)
      PROVE  SameOwners /\ SameQueues
  <2>1. SameOwners
    BY <1>5 DEF SameOwners, Owns, Queued, QlockReturn
  <2>2. SameQueues
    BY <1>5 DEF SameQueues, SoftMap, Soft, Queued, QlockReturn
  <2>3. QED
    BY <2>1, <2>2
<1>6. ASSUME EqlockReturn(p)
      PROVE  SameOwners /\ SameQueues
  <2>1. SameOwners
    BY <1>6 DEF SameOwners, Owns, Queued, EqlockReturn
  <2>2. SameQueues
    BY <1>6 DEF SameQueues, SoftMap, Soft, Queued, EqlockReturn
  <2>3. QED
    BY <2>1, <2>2
<1>7. ASSUME EqlockInterrupted(p)
      PROVE  SameOwners /\ SameQueues
  <2>1. SameOwners
    BY <1>7 DEF SameOwners, Owns, Queued, EqlockInterrupted
  <2>2. SameQueues
    BY <1>7 DEF SameQueues, SoftMap, Soft, Queued, EqlockInterrupted
  <2>3. QED
    BY <2>1, <2>2
<1>8. ASSUME QunlockEnter(p)
      PROVE  SameOwners /\ SameQueues
  <2>1. SameOwners
    BY <1>8 DEF SameOwners, Owns, Queued, QunlockEnter
  <2>2. SameQueues
    BY <1>8 DEF SameQueues, SoftMap, Soft, Queued, QunlockEnter
  <2>3. QED
    BY <2>1, <2>2
<1>9. ASSUME Ready(p)
      PROVE  SameOwners /\ SameQueues
  <2>1. SameOwners
    BY <1>9 DEF SameOwners, Owns, Queued, Ready, ReadyState, Blocked
  <2>2. SameQueues
    BY <1>9 DEF SameQueues, SoftMap, Soft, Queued, Ready, ReadyState, Blocked
  <2>3. QED
    BY <2>1, <2>2
<1>10. ASSUME InterruptQueued(p)
      PROVE  SameOwners /\ SameQueues
  <2>1. SameOwners
    BY <1>10 DEF SameOwners, Owns, Queued, InterruptQueued
  <2>2. SameQueues
    BY <1>10 DEF SameQueues, SoftMap, Soft, Queued, InterruptQueued
  <2>3. QED
    BY <2>1, <2>2
<1>11. ASSUME InterruptAwake(p)
      PROVE  SameOwners /\ SameQueues
  <2>1. SameOwners
    BY <1>11 DEF SameOwners, Owns, Queued, InterruptAwake, InterruptDone
  <2>2. SameQueues
    BY <1>11 DEF SameQueues, SoftMap, Soft, Queued, InterruptAwake, InterruptDone
  <2>3. QED
    BY <2>1, <2>2
<1>12. ASSUME InterruptEql(p)
      PROVE  SameOwners /\ SameQueues
  <2>1. SameOwners
    BY <1>12 DEF SameOwners, Owns, Queued, InterruptEql
  <2>2. SameQueues
    BY <1>12 DEF SameQueues, SoftMap, Soft, Queued, InterruptEql
  <2>3. QED
    BY <2>1, <2>2
<1>13. ASSUME InterruptNoEql(p)
      PROVE  SameOwners /\ SameQueues
  <2>1. SameOwners
    BY <1>13 DEF SameOwners, Owns, Queued, InterruptNoEql, InterruptDone
  <2>2. SameQueues
    BY <1>13 DEF SameQueues, SoftMap, Soft, Queued, InterruptNoEql, InterruptDone
  <2>3. QED
    BY <2>1, <2>2
<1>14. ASSUME InterruptLock(p)
      PROVE  SameOwners /\ SameQueues
  <2>1. SameOwners
    BY <1>14 DEF SameOwners, Owns, Queued, InterruptLock
  <2>2. SameQueues
    BY <1>14 DEF SameQueues, SoftMap, Soft, Queued, InterruptLock
  <2>3. QED
    BY <2>1, <2>2
<1>15. ASSUME InterruptMiss(p)
      PROVE  SameOwners /\ SameQueues
  <2>1. SameOwners
    BY <1>15 DEF SameOwners, Owns, Queued, InterruptMiss
  <2>2. SameQueues
    BY <1>15 DEF SameQueues, SoftMap, Soft, Queued, InterruptMiss
  <2>3. QED
    BY <2>1, <2>2
<1>16. ASSUME Popnote(p)
      PROVE  SameOwners /\ SameQueues
  <2>1. SameOwners
    BY <1>16 DEF SameOwners, Owns, Queued, Popnote
  <2>2. SameQueues
    BY <1>16 DEF SameQueues, SoftMap, Soft, Queued, Popnote
  <2>3. QED
    BY <2>1, <2>2
<1>17. ASSUME Schedule(p)
      PROVE  SameOwners /\ SameQueues
  <2>1. SameOwners
    BY <1>17 DEF SameOwners, Owns, Queued, Schedule, Switch, Dispatch
  <2>2. SameQueues
    BY <1>17 DEF SameQueues, SoftMap, Soft, Queued, Schedule, Switch, Dispatch
  <2>3. QED
    BY <2>1, <2>2
<1>18. ASSUME NEW v \in Proc, Interrupt(p, v)
      PROVE  SameOwners /\ SameQueues
  <2>1. SameOwners
    BY <1>18 DEF SameOwners, Owns, Queued, Interrupt
  <2>2. SameQueues
    BY <1>18 DEF SameQueues, SoftMap, Soft, Queued, Interrupt
  <2>3. QED
    BY <2>1, <2>2
<1>19. QED
  BY <1>1, <1>2, <1>3, <1>4, <1>5, <1>6, <1>7, <1>8, <1>9, <1>10, <1>11, <1>12, <1>13,
     <1>14, <1>15, <1>16, <1>17, <1>18
-----------------------------------------------------------------------------
\* The lock changes hands, and the others stay as they are.
LEMMA HolderChanges ==
  ASSUME HolderRight, HolderRight', NEW q \in QLocks, NEW h, Holder(q)' = h,
         \A o \in QLocks \ {q} : \A p \in Proc : Owns(p, o)' <=> Owns(p, o)
  PROVE  HolderMap' = [HolderMap EXCEPT ![q] = h]
<1>1. \A o \in QLocks \ {q} : Holder(o)' = Holder(o)
  BY SameHolders
<1>2. QED
  BY <1>1 DEF HolderMap

\* A lock that is taken has a holder, one that is free has not and nobody waits.
LEMMA TakenHeld ==
  ASSUME Inv, NEW q \in QLocks
  PROVE  /\ locked[q] => Holder(q) # Nil
         /\ ~locked[q] => Holder(q) = Nil /\ queue[q] = <<>>
<1> USE NilAssumption DEF Inv
<1>1. HolderRight
  BY HolderLemma
<1>2. locked[q] => Holder(q) # Nil
  BY <1>1 DEF HolderRight, Ownership, LockedIsOwned
<1>3. ASSUME ~locked[q]
      PROVE  Holder(q) = Nil /\ queue[q] = <<>>
  <2>1. Holder(q) = Nil
    BY <1>1, <1>3 DEF HolderRight, Ownership, LockedIsOwned
  <2>2. ToSet(queue[q]) = {} /\ queue[q] \in Seq(Proc)
    BY <1>3 DEF Ownership, LockedIsOwned, Queued, Control, TypeOK
  <2>3. queue[q] = <<>>
    BY <2>2, TailMembers DEF Queues, QueueSound
  <2>4. QED
    BY <2>1, <2>3
<1>4. QED
  BY <1>2, <1>3
-----------------------------------------------------------------------------
\* Every step of QLock is a step of FifoLock or leaves what it shows unchanged.
LEMMA StepRefines ==
  ASSUME Inv, Inv', [Next]_vars
  PROVE  [Fifo!AbsNext]_(Fifo!absVars)
<1> DEFINE Shown == <<HolderMap, queue, SoftMap>>
<1> USE NilAssumption, QLocksAssumption
<1>a. HolderRight
  BY HolderLemma
<1>b. HolderRight'
  BY HolderLemma, PTL
<1>c. UNCHANGED Shown => UNCHANGED Fifo!absVars
  BY DEF Fifo!absVars, HolderMap, SoftMap, Soft
<1>d. SameOwners => UNCHANGED HolderMap
  BY <1>a, <1>b, SameHolders DEF SameOwners, HolderMap
<1>1. ASSUME NEW p \in Proc, TakeFree(p)
      PROVE  Fifo!AbsNext
  <2>1. PICK q \in QLocks : q = lk[p]
    BY <1>1 DEF TakeFree, At, Inv, Control, LocalsSet, InUse
  <2>2. /\ pc[p] \in {"qlock", "eqlock", "canqlock"} /\ pc' = [pc EXCEPT ![p] = "held"]
        /\ ~locked[q] /\ UNCHANGED <<queue, eql, lk>>
    BY <1>1, <2>1 DEF TakeFree, At, Goto
  <2>3. Holder(q)' = p
    <3>1. Owns(p, q)'
      BY <2>1, <2>2 DEF Owns, Inv, Control, TypeOK
    <3>2. QED
      BY <1>b, <3>1 DEF HolderRight
  <2>4. \A o \in QLocks \ {q} : \A r \in Proc : Owns(r, o)' <=> Owns(r, o)
    BY <2>1, <2>2 DEF Owns, Queued, Inv, Control, TypeOK
  <2>5. HolderMap' = [HolderMap EXCEPT ![q] = p]
    BY <1>a, <1>b, <2>3, <2>4, HolderChanges
  <2>6. Holder(q) = Nil /\ queue[q] = <<>>
    BY <2>2, TakenHeld
  <2>7. UNCHANGED <<queue, SoftMap>>
    BY <2>2 DEF SoftMap, Soft, Queued
  <2>8. Fifo!Acquire(p, q)
    BY <2>5, <2>6, <2>7 DEF Fifo!Acquire, HolderMap, SoftMap, Soft
  <2>9. QED
    BY <2>8 DEF Fifo!AbsNext
<1>2. ASSUME NEW p \in Proc, QlockWait(p) \/ EqlockWait(p)
      PROVE  Fifo!AbsNext
  <2>1. PICK q \in QLocks : q = lk[p]
    BY <1>2 DEF QlockWait, EqlockWait, At, Inv, Control, LocalsSet, InUse
  <2>2. /\ pc[p] \in {"qlock", "eqsleep"}
        /\ pc' = [pc EXCEPT ![p] = IF pc[p] = "qlock" THEN "qwait" ELSE "eqwait"]
        /\ eql' = [eql EXCEPT ![p] = IF pc[p] = "qlock" THEN Nil ELSE q]
        /\ queue' = [queue EXCEPT ![q] = Append(@, p)]
        /\ UNCHANGED lk
    BY <1>2, <2>1 DEF QlockWait, EqlockWait, Enqueue, At, Goto
  <2>3. locked[q]
    BY <1>2, <2>1, <2>2 DEF QlockWait, EqlockWait, At, Inv, Ownership, SleepsOnTaken
  <2>4. \A o \in QLocks : Queued(o)' = IF o = q THEN Queued(o) \cup {p} ELSE Queued(o)
    BY <1>2, <2>1, EnqueueMembers DEF Inv, Queues
  <2>5. SameOwners
    <3> SUFFICES ASSUME NEW o \in QLocks, NEW r \in Proc
                 PROVE  Owns(r, o)' <=> Owns(r, o)
      BY DEF SameOwners
    <3>1. CASE r = p
      BY <2>1, <2>2, <2>4, <3>1 DEF Owns, Inv, Control, TypeOK
    <3>2. CASE r # p
      <4>1. pc'[r] = pc[r] /\ eql'[r] = eql[r] /\ lk'[r] = lk[r]
        BY <2>2, <3>2 DEF Inv, Control, TypeOK
      <4>2. r \in Queued(o)' <=> r \in Queued(o)
        BY <2>4, <3>2
      <4>3. QED
        BY <4>1, <4>2 DEF Owns
    <3>3. QED
      BY <3>1, <3>2
  <2>6. Holder(q) # Nil /\ Holder(q) # p
    <3>1. PICK r \in Proc : Owns(r, q)
      BY <2>3 DEF Inv, Ownership, LockedIsOwned
    <3>2. ~Owns(p, q)
      BY <2>2 DEF Owns
    <3>3. Holder(q) = r
      BY <1>a, <3>1 DEF HolderRight
    <3>4. QED
      BY <3>1, <3>2, <3>3
  <2>7. UNCHANGED SoftMap \/ SoftMap' = [SoftMap EXCEPT ![q] = @ \cup {p}]
    <3>1. \A o \in QLocks : p \notin Queued(o)
      BY <2>2 DEF Inv, Queues, QueueSound, Waiting
    <3>2. CASE pc[p] = "qlock"
      <4>1. \A o \in QLocks : Soft(o)' = Soft(o)
        <5>1. eql' = eql
          BY <2>2, <3>2 DEF Inv, Queues, Control, TypeOK, EqlOfWaiter
        <5>2. eql[p] = Nil
          BY <3>2 DEF Inv, Control, EqlOfWaiter
        <5>3. QED
          BY <2>4, <5>1, <5>2, QLocksAssumption DEF Soft
      <4>2. QED
        BY <4>1 DEF SoftMap
    <3>3. CASE pc[p] = "eqsleep"
      <4>1. \A o \in QLocks : Soft(o)' = IF o = q THEN Soft(o) \cup {p} ELSE Soft(o)
        BY <2>2, <2>4, <3>1, <3>3 DEF Soft, Inv, Control, TypeOK
      <4>2. QED
        BY <4>1 DEF SoftMap
    <3>4. QED
      BY <2>2, <3>2, <3>3
  <2>8. Fifo!Wait(p, q)
    BY <1>d, <2>2, <2>5, <2>6, <2>7 DEF Fifo!Wait, HolderMap, SoftMap, Soft
  <2>9. QED
    BY <2>8 DEF Fifo!AbsNext
<1>3. ASSUME NEW p \in Proc, QunlockFree(p)
      PROVE  Fifo!AbsNext
  <2>1. PICK q \in QLocks : q = lk[p]
    BY <1>3 DEF QunlockFree, At, Inv, Control, LocalsSet, InUse
  <2>2. /\ pc[p] = "qunlock" /\ pc' = [pc EXCEPT ![p] = "idle"]
        /\ lk' = [lk EXCEPT ![p] = Nil]
        /\ queue[q] = <<>> /\ UNCHANGED <<queue, eql>>
    BY <1>3, <2>1 DEF QunlockFree, At, Goto
  <2>3. Owns(p, q)
    BY <2>1, <2>2 DEF Owns
  <2>4. \A r \in Proc : ~Owns(r, q)'
    BY <2>1, <2>2, <2>3
    DEF Owns, Queued, Inv, Ownership, MutualExclusion, Control, TypeOK
  <2>5. \A o \in QLocks \ {q} : \A r \in Proc : Owns(r, o)' <=> Owns(r, o)
    BY <2>1, <2>2 DEF Owns, Queued, Inv, Control, TypeOK
  <2>6. Holder(q)' = Nil /\ Holder(q) # Nil
    BY <1>a, <1>b, <2>3, <2>4 DEF HolderRight
  <2>7. HolderMap' = [HolderMap EXCEPT ![q] = Nil]
    BY <1>a, <1>b, <2>5, <2>6, HolderChanges
  <2>8. UNCHANGED <<queue, SoftMap>>
    BY <2>2 DEF SoftMap, Soft, Queued
  <2>9. Fifo!Release(q)
    BY <2>2, <2>6, <2>7, <2>8 DEF Fifo!Release, HolderMap, SoftMap, Soft
  <2>10. QED
    BY <2>9 DEF Fifo!AbsNext
<1>4. ASSUME NEW p \in Proc, QunlockHandOff(p)
      PROVE  Fifo!AbsNext
  <2>1. PICK q \in QLocks : q = lk[p]
    BY <1>4 DEF QunlockHandOff, At, Inv, Control, LocalsSet, InUse
  <2>2. PICK h : h = Head(queue[q])
    OBVIOUS
  <2>3. /\ pc[p] = "qunlock" /\ pc' = [pc EXCEPT ![p] = "ready"]
        /\ lk' = [lk EXCEPT ![p] = Nil]
        /\ queue[q] # <<>> /\ queue' = [queue EXCEPT ![q] = Tail(@)]
        /\ who' = [who EXCEPT ![p] = h]
        /\ UNCHANGED eql
    BY <1>4, <2>1, <2>2 DEF QunlockHandOff, At, Goto
  <2>4. /\ h \in Queued(q)
        /\ \A o \in QLocks : Queued(o)' = IF o = q THEN Queued(o) \ {h} ELSE Queued(o)
    <3>1. who'[p] = h
      BY <2>3 DEF Inv, Control, TypeOK
    <3>2. QED
      BY <1>4, <2>1, <3>1, HandOffMembers DEF Inv, Queues
  <2>5. h \in Proc
    BY <2>4 DEF Inv, Control, TypeOK, Queued, ToSet
  <2>6. /\ h # p /\ lk[h] = q /\ pc[h] \in Waiting
        /\ pc[h] = "eqwait" => eql[h] = q
    BY <2>3, <2>4, <2>5 DEF Inv, Queues, QueueSound, Waiting
  <2>7. Holder(q)' = h
    <3>1. Owns(h, q)'
      BY <2>3, <2>4, <2>5, <2>6 DEF Owns, Waiting, Inv, Control, TypeOK
    <3>2. QED
      BY <1>b, <2>5, <3>1 DEF HolderRight
  <2>8. \A o \in QLocks \ {q} : \A r \in Proc : Owns(r, o)' <=> Owns(r, o)
    BY <2>1, <2>3, <2>4 DEF Owns, Inv, Control, TypeOK
  <2>9. HolderMap' = [HolderMap EXCEPT ![q] = h]
    BY <1>a, <1>b, <2>7, <2>8, HolderChanges
  <2>10. Holder(q) # Nil
    <3>1. Owns(p, q)
      BY <2>1, <2>3 DEF Owns
    <3>2. QED
      BY <1>a, <3>1 DEF HolderRight
  <2>11. SoftMap' = [SoftMap EXCEPT ![q] = @ \ {h}]
    <3>1. \A o \in QLocks : Soft(o)' = IF o = q THEN Soft(o) \ {h} ELSE Soft(o)
      BY <2>3, <2>4 DEF Soft
    <3>2. QED
      BY <3>1 DEF SoftMap
  <2>12. Fifo!Release(q)
    BY <2>2, <2>3, <2>9, <2>10, <2>11 DEF Fifo!Release, HolderMap, SoftMap, Soft
  <2>13. QED
    BY <2>12 DEF Fifo!AbsNext
<1>5. ASSUME NEW p \in Proc, InterruptUnlink(p)
      PROVE  Fifo!AbsNext
  <2>1. PICK q \in QLocks, v \in Proc : q = lk[p] /\ v = who[p]
    BY <1>5 DEF InterruptUnlink, At, Inv, Control, LocalsSet, InUse
  <2>2. PICK i \in DOMAIN queue[q] : /\ queue[q][i] = v
                                     /\ queue' = [queue EXCEPT ![q] = RemoveAt(@, i)]
    BY <1>5, <2>1 DEF InterruptUnlink, Found
  <2>3. /\ pc[p] = "intrq" /\ pc' = [pc EXCEPT ![p] = "ready"]
        /\ lk' = [lk EXCEPT ![p] = Nil]
        /\ eql' = [eql EXCEPT ![v] = Nil]
        /\ eql[v] = q
    BY <1>5, <2>1 DEF InterruptUnlink, Found, At, Goto
  <2>4. /\ v \in Queued(q)
        /\ \A o \in QLocks : Queued(o)' = IF o = q THEN Queued(o) \ {v} ELSE Queued(o)
    BY <1>5, <2>1, UnlinkMembers DEF Inv, Queues
  <2>5. /\ lk[v] = q /\ pc[v] = "eqwait" /\ v # p
        /\ \A o \in QLocks \ {q} : v \notin Queued(o)
    BY <2>3, <2>4 DEF Inv, Queues, QueueSound, Control, EqlOfWaiter
  <2>6. SameOwners
    BY <2>1, <2>3, <2>4, <2>5 DEF SameOwners, Owns, Inv, Control, TypeOK
  <2>7. SoftMap' = [SoftMap EXCEPT ![q] = @ \ {v}]
    <3>1. \A o \in QLocks : Soft(o)' = IF o = q THEN Soft(o) \ {v} ELSE Soft(o)
      BY <2>3, <2>4, <2>5 DEF Soft, Inv, Control, TypeOK
    <3>2. QED
      BY <3>1 DEF SoftMap
  <2>8. v \in SoftMap[q]
    BY <2>3, <2>4 DEF SoftMap, Soft
  <2>9. queue' = [queue EXCEPT ![q] = Fifo!RemoveAt(@, i)]
    BY <2>2 DEF RemoveAt, Fifo!RemoveAt
  <2>10. Fifo!Cancel(q)
    BY <1>d, <2>2, <2>6, <2>7, <2>8, <2>9 DEF Fifo!Cancel, HolderMap, SoftMap, Soft
  <2>11. QED
    BY <2>10 DEF Fifo!AbsNext
<1>6. CASE UNCHANGED vars
  <2>1. SameOwners /\ UNCHANGED <<queue, SoftMap>>
    BY <1>6 DEF vars, SameOwners, SoftMap, Soft, Owns, Queued
  <2>2. QED
    BY <1>c, <1>d, <2>1
<1>7. ASSUME NEW p \in Proc, SameOwners, SameQueues
      PROVE  UNCHANGED Fifo!absVars
  BY <1>7, <1>c, <1>d DEF SameQueues
<1>8. QED
  <2>1. CASE Next
    <3>1. PICK p \in Proc :
            \/ TakeFree(p) \/ QlockWait(p) \/ EqlockWait(p)
            \/ QunlockFree(p) \/ QunlockHandOff(p) \/ InterruptUnlink(p)
            \/ (SameOwners /\ SameQueues)
      BY <2>1, QuietSteps DEF Next
    <3>2. QED
      BY <3>1, <1>1, <1>2, <1>3, <1>4, <1>5, <1>7
  <2>2. QED
    BY <2>1, <1>6

\* The initial states map to the initial states of FifoLock.
LEMMA InitRefines == Init => Fifo!AbsInit
<1> SUFFICES ASSUME Init PROVE Fifo!AbsInit
  OBVIOUS
<1>1. \A q \in QLocks : Queued(q) = {} /\ queue[q] = <<>>
  BY DEF Init, Queued, ToSet
<1>2. \A q \in QLocks, p \in Proc : ~Owns(p, q)
  BY DEF Init, Owns
<1>3. \A q \in QLocks : Holder(q) = Nil
  BY <1>2 DEF Holder
<1>4. queue = [q \in QLocks |-> <<>>]
  BY DEF Init
<1>5. QED
  BY <1>1, <1>3, <1>4 DEF Fifo!AbsInit

\* The queued locks of port/qlock.c are first-come first-served locks: one holder,
\* nobody overtakes a waiter, and only a note takes a waiter out of eqlock().
THEOREM IsFifoLock == Spec => FifoSpec
<1>1. Inv /\ Inv' /\ [Next]_vars => [Fifo!AbsNext]_(Fifo!absVars)
  BY StepRefines
<1>2. QED
  BY <1>1, InitRefines, Safety, PTL DEF Spec, FifoSpec, Fifo!AbsSpec
-----------------------------------------------------------------------------
(*****************************************************************************)
(* The reader-writer locks of the same file: the definitions and theorems    *)
(* below are about RWLock, whose names start with RW where QLock has them.   *)
(*****************************************************************************)

\* The loop of wunlock().
Loop == {"wakereaders", "readyreader"}

\* q->use belongs to the one process that is between lock() and unlock().
RWUseHeld == \A p \in Proc : rwuse = p <=> rwpc[p] \in RWInUse

RWWhoSet == \A p \in Proc : rwwho[p] # Nil <=> rwpc[p] \in {"ready", "readyreader"}

\* p->state leaves Running only while p waits in the queue or after it left it.
RWBlockedWaits == \A p \in Proc : /\ state[p] # "Running" => rwpc[p] \in {"rwait", "wwait"}
                                  /\ state[p] = "QueueingR" => rwpc[p] = "rwait"
                                  /\ state[p] = "QueueingW" => rwpc[p] = "wwait"

\* Who is where, and what a process may touch.
RWControl == RWTypeOK /\ RWUseHeld /\ RWWhoSet /\ RWBlockedWaits

\* The queue holds waiting processes that nobody has readied, each once.
RWQueueSound == /\ IsInjective(rwqueue)
                /\ \A p \in RWQueued : state[p] \in {"QueueingR", "QueueingW"}

\* ready() is called for processes just taken out of the queue, once for each.
RWReadySound == \A k \in Proc : rwwho[k] # Nil =>
                /\ rwwho[k] \notin RWQueued
                /\ state[rwwho[k]] \in {"QueueingR", "QueueingW"}
                /\ \A j \in Proc : rwwho[j] = rwwho[k] => j = k

RWSleeperFound == \A p \in Proc : state[p] \in {"QueueingR", "QueueingW"} =>
                  p \in RWQueued \/ \E k \in Proc : rwwho[k] = p

\* The queue, and the processes taken out of it but not readied yet.
RWQueues == RWQueueSound /\ RWReadySound /\ RWSleeperFound

Readers == {p \in Proc : Reads(p)}

\* q->readers counts the processes that read.
ReadersCounted == IsFiniteSet(Readers) /\ readers = Cardinality(Readers)

\* q->writer is 1 while one process writes, or lets readers in after that.
OneWriter == /\ writer = 1 <=> \E p \in Proc : Writes(p) \/ rwpc[p] \in Loop
             /\ \A p, q \in Proc : /\ Writes(p) \/ rwpc[p] \in Loop
                                   /\ Writes(q) \/ rwpc[q] \in Loop
                                   => p = q

WritesAlone == \A p \in Proc : Writes(p) => readers = 0

\* Behind readers waits a writer, and nobody behind a free lock.
HeadWaits == /\ rwqueue # <<>> => readers > 0 \/ writer = 1
             /\ rwqueue # <<>> /\ readers > 0 /\ writer = 0 => state[Head(rwqueue)] = "QueueingW"

\* The loop of wunlock() has let a reader in, or is about to.
LoopReads == \A p \in Proc : /\ rwpc[p] = "wakereaders" => readers > 0 \/ ReaderFirst
                             /\ rwpc[p] = "readyreader" => readers > 0

\* Who has the lock.
Counts == ReadersCounted /\ OneWriter /\ WritesAlone /\ HeadWaits /\ LoopReads

\* The inductive invariant.
RWInv == RWControl /\ RWQueues /\ Counts
-----------------------------------------------------------------------------
\* A process joins the queue.
LEMMA Joins ==
  ASSUME RWTypeOK, RWQueueSound, NEW p \in Proc, p \notin RWQueued, rwqueue' = Append(rwqueue, p)
  PROVE  /\ rwqueue' \in Seq(Proc)
         /\ rwqueue' # <<>>
         /\ IsInjective(rwqueue')
         /\ RWQueued' = RWQueued \cup {p}
         /\ Head(rwqueue') = IF rwqueue = <<>> THEN p ELSE Head(rwqueue)
<1>1. rwqueue \in Seq(Proc)
  BY DEF RWTypeOK
<1>2. /\ Append(rwqueue, p) # <<>>
      /\ Head(Append(rwqueue, p)) = IF rwqueue = <<>> THEN p ELSE Head(rwqueue)
  BY <1>1
<1>. QED
  BY <1>1, <1>2, AppendMembers DEF RWQueueSound, RWQueued

\* The first process leaves the queue.
LEMMA Leaves ==
  ASSUME RWTypeOK, RWQueueSound, rwqueue # <<>>, rwqueue' = Tail(rwqueue)
  PROVE  /\ rwqueue' \in Seq(Proc)
         /\ IsInjective(rwqueue')
         /\ Head(rwqueue) \in Proc
         /\ Head(rwqueue) \in RWQueued
         /\ RWQueued' = RWQueued \ {Head(rwqueue)}
BY TailMembers DEF RWTypeOK, RWQueueSound, RWQueued

\* Whoever is first in the queue waits there.
LEMMA HeadQueued ==
  ASSUME RWTypeOK, rwqueue # <<>>
  PROVE  Head(rwqueue) \in RWQueued /\ Head(rwqueue) \in Proc
BY DEF RWTypeOK, RWQueued, ToSet
-----------------------------------------------------------------------------
\* Who reads is counted.
LEMMA ReadersPositive ==
  ASSUME RWTypeOK, ReadersCounted, NEW p \in Proc, Reads(p)
  PROVE  readers > 0
<1>1. Readers # {}
  BY DEF Readers
<1>. QED
  BY <1>1, FS_EmptySet, FS_CardinalityType DEF ReadersCounted, RWTypeOK

\* No step disturbs who is where.
LEMMA RWControlStep ==
  ASSUME RWControl, RWQueues, Counts, [RWNext]_rwvars
  PROVE  RWControl'
<1> USE NilAssumption
    DEF RWAt, Runs, RWGoto, procVars, RWInUse, RWPCs, RWControl, RWTypeOK, ProcTypeOK,
       States, RWUseHeld, RWWhoSet
<1>1. ASSUME NEW p \in Proc, Call(p)
      PROVE  RWControl'
  BY <1>1 DEF RWBlockedWaits, RWQueues, Call, RWEnter
<1>2. ASSUME NEW p \in Proc, RWUnlock(p)
      PROVE  RWControl'
  BY <1>2 DEF RWBlockedWaits, RWQueues, RWUnlock, RWEnter
<1>3. ASSUME NEW p \in Proc, RlockTake(p)
      PROVE  RWControl'
  BY <1>3 DEF RWBlockedWaits, RWQueues, RlockTake, MayRead
<1>4. ASSUME NEW p \in Proc, RlockWait(p)
      PROVE  RWControl'
  <2>1. p \notin RWQueued /\ rwqueue' = Append(rwqueue, p)
    BY <1>4 DEF RWQueues, RWQueueSound, RlockWait, RWEnqueue
  <2>2. /\ rwqueue' \in Seq(Proc)
        /\ rwqueue' # <<>>
        /\ IsInjective(rwqueue')
        /\ RWQueued' = RWQueued \cup {p}
        /\ Head(rwqueue') = IF rwqueue = <<>> THEN p ELSE Head(rwqueue)
    BY <2>1, Joins DEF RWQueues
  <2>3. RWTypeOK'
    BY <1>4, <2>2 DEF Blocked, RWBlockedWaits, RlockWait, RWEnqueue
  <2>4. RWUseHeld' /\ RWWhoSet' /\ RWBlockedWaits'
    BY <1>4, <2>2 DEF RWBlockedWaits, RlockWait, RWEnqueue
  <2>. QED
    BY <2>3, <2>4
<1>5. ASSUME NEW p \in Proc, CanrlockBusy(p)
      PROVE  RWControl'
  BY <1>5 DEF RWBlockedWaits, RWQueues, CanrlockBusy, MayRead
<1>6. ASSUME NEW p \in Proc, WlockTake(p)
      PROVE  RWControl'
  BY <1>6 DEF RWBlockedWaits, RWQueues, WlockTake, MayWrite
<1>7. ASSUME NEW p \in Proc, WlockWait(p)
      PROVE  RWControl'
  <2>1. p \notin RWQueued /\ rwqueue' = Append(rwqueue, p)
    BY <1>7 DEF RWQueues, RWQueueSound, WlockWait, RWEnqueue
  <2>2. /\ rwqueue' \in Seq(Proc)
        /\ rwqueue' # <<>>
        /\ IsInjective(rwqueue')
        /\ RWQueued' = RWQueued \cup {p}
        /\ Head(rwqueue') = IF rwqueue = <<>> THEN p ELSE Head(rwqueue)
    BY <2>1, Joins DEF RWQueues
  <2>3. RWTypeOK'
    BY <1>7, <2>2 DEF Blocked, RWBlockedWaits, WlockWait, RWEnqueue
  <2>4. RWUseHeld' /\ RWWhoSet' /\ RWBlockedWaits'
    BY <1>7, <2>2 DEF RWBlockedWaits, WlockWait, RWEnqueue
  <2>. QED
    BY <2>3, <2>4
<1>8. ASSUME NEW p \in Proc, RlockReturn(p)
      PROVE  RWControl'
  BY <1>8 DEF RWBlockedWaits, RWQueues, RlockReturn
<1>9. ASSUME NEW p \in Proc, WlockReturn(p)
      PROVE  RWControl'
  BY <1>9 DEF RWBlockedWaits, RWQueues, WlockReturn
<1>10. ASSUME NEW p \in Proc, RunlockLeave(p)
      PROVE  RWControl'
  <2>1. readers > 0
    BY <1>10, ReadersPositive DEF Counts, Reads, RunlockLeave
  <2>2. RWTypeOK'
    BY <1>10, <2>1 DEF RWBlockedWaits, RunlockLeave
  <2>3. RWUseHeld' /\ RWWhoSet' /\ RWBlockedWaits'
    BY <1>10, <2>1 DEF RWBlockedWaits, RunlockLeave
  <2>. QED
    BY <2>2, <2>3
<1>11. ASSUME NEW p \in Proc, RunlockHandOff(p)
      PROVE  RWControl'
  <2>1. rwqueue # <<>> /\ rwqueue' = Tail(rwqueue)
    BY <1>11 DEF RunlockHandOff
  <2>2. /\ rwqueue' \in Seq(Proc)
        /\ IsInjective(rwqueue')
        /\ Head(rwqueue) \in Proc
        /\ Head(rwqueue) \in RWQueued
        /\ RWQueued' = RWQueued \ {Head(rwqueue)}
    BY <2>1, Leaves DEF RWQueues
  <2>3. readers > 0
    BY <1>11, ReadersPositive DEF Counts, Reads, RunlockHandOff
  <2>4. RWTypeOK'
    BY <1>11, <2>2, <2>3 DEF RWBlockedWaits, RunlockHandOff
  <2>5. RWUseHeld' /\ RWWhoSet' /\ RWBlockedWaits'
    BY <1>11, <2>2, <2>3 DEF RWBlockedWaits, RunlockHandOff
  <2>. QED
    BY <2>4, <2>5
<1>12. ASSUME NEW p \in Proc, WunlockFree(p)
      PROVE  RWControl'
  BY <1>12 DEF RWBlockedWaits, RWQueues, WunlockFree
<1>13. ASSUME NEW p \in Proc, WunlockHandOff(p)
      PROVE  RWControl'
  <2>1. rwqueue # <<>> /\ rwqueue' = Tail(rwqueue)
    BY <1>13 DEF WunlockHandOff
  <2>2. /\ rwqueue' \in Seq(Proc)
        /\ IsInjective(rwqueue')
        /\ Head(rwqueue) \in Proc
        /\ Head(rwqueue) \in RWQueued
        /\ RWQueued' = RWQueued \ {Head(rwqueue)}
    BY <2>1, Leaves DEF RWQueues
  <2>3. RWTypeOK'
    BY <1>13, <2>2 DEF RWBlockedWaits, WunlockHandOff
  <2>4. RWUseHeld' /\ RWWhoSet' /\ RWBlockedWaits'
    BY <1>13, <2>2 DEF RWBlockedWaits, WunlockHandOff
  <2>. QED
    BY <2>3, <2>4
<1>14. ASSUME NEW p \in Proc, WunlockReaders(p)
      PROVE  RWControl'
  BY <1>14 DEF RWBlockedWaits, RWQueues, WunlockReaders
<1>15. ASSUME NEW p \in Proc, WakeReader(p)
      PROVE  RWControl'
  <2>1. rwqueue # <<>> /\ rwqueue' = Tail(rwqueue)
    BY <1>15 DEF WakeReader, ReaderFirst
  <2>2. /\ rwqueue' \in Seq(Proc)
        /\ IsInjective(rwqueue')
        /\ Head(rwqueue) \in Proc
        /\ Head(rwqueue) \in RWQueued
        /\ RWQueued' = RWQueued \ {Head(rwqueue)}
    BY <2>1, Leaves DEF RWQueues
  <2>3. RWTypeOK'
    BY <1>15, <2>2 DEF RWBlockedWaits, WakeReader, ReaderFirst
  <2>4. RWUseHeld' /\ RWWhoSet' /\ RWBlockedWaits'
    BY <1>15, <2>2 DEF RWBlockedWaits, WakeReader, ReaderFirst
  <2>. QED
    BY <2>3, <2>4
<1>16. ASSUME NEW p \in Proc, WakeDone(p)
      PROVE  RWControl'
  BY <1>16 DEF RWBlockedWaits, RWQueues, WakeDone, ReaderFirst
<1>17. ASSUME NEW p \in Proc, RWReady(p)
      PROVE  RWControl'
  BY <1>17 DEF RWBlockedWaits, RWQueues, RWReady, ReadyState, Blocked, RWReadySound
<1>18. ASSUME NEW p \in Proc, RWSchedule(p)
      PROVE  RWControl'
  <2>1. CASE Switch(p)
    BY <1>18, <2>1 DEF RWBlockedWaits, RWSchedule, Switch
  <2>2. CASE Dispatch(p)
    BY <1>18, <2>2 DEF RWBlockedWaits, RWSchedule, Dispatch
  <2>. QED
    BY <1>18, <2>1, <2>2 DEF RWSchedule
<1>19. CASE UNCHANGED rwvars
  BY <1>19 DEF RWBlockedWaits, rwvars
<1>. QED
  BY <1>1, <1>2, <1>3, <1>4, <1>5, <1>6, <1>7, <1>8, <1>9, <1>10, <1>11,
     <1>12, <1>13, <1>14, <1>15, <1>16, <1>17, <1>18, <1>19 DEF RWNext, RWSteps

\* No step leaves a process asleep outside the queue with nobody to ready it, or
\* lets two ready it.
LEMMA RWQueuesStep ==
  ASSUME RWControl, RWQueues, [RWNext]_rwvars
  PROVE  RWQueues'
<1> USE NilAssumption
    DEF RWAt, Runs, RWGoto, procVars, RWInUse, RWPCs, RWControl, RWTypeOK, ProcTypeOK,
       States, RWUseHeld, RWWhoSet
<1>1. ASSUME NEW p \in Proc, Call(p)
      PROVE  RWQueues'
  BY <1>1 DEF RWBlockedWaits, RWQueues, RWQueueSound, RWReadySound, RWSleeperFound,
     RWQueued, Call, RWEnter
<1>2. ASSUME NEW p \in Proc, RWUnlock(p)
      PROVE  RWQueues'
  BY <1>2 DEF RWBlockedWaits, RWQueues, RWQueueSound, RWReadySound, RWSleeperFound,
     RWQueued, RWUnlock, RWEnter
<1>3. ASSUME NEW p \in Proc, RlockTake(p)
      PROVE  RWQueues'
  BY <1>3 DEF RWBlockedWaits, RWQueues, RWQueueSound, RWReadySound, RWSleeperFound,
     RWQueued, RlockTake, MayRead
<1>4. ASSUME NEW p \in Proc, RlockWait(p)
      PROVE  RWQueues'
  <2>1. p \notin RWQueued /\ rwqueue' = Append(rwqueue, p)
    BY <1>4 DEF RWQueues, RWQueueSound, RlockWait, RWEnqueue
  <2>2. /\ rwqueue' \in Seq(Proc)
        /\ rwqueue' # <<>>
        /\ IsInjective(rwqueue')
        /\ RWQueued' = RWQueued \cup {p}
        /\ Head(rwqueue') = IF rwqueue = <<>> THEN p ELSE Head(rwqueue)
    BY <2>1, Joins DEF RWQueues
  <2>3. RWQueueSound'
    BY <1>4, <2>2 DEF RWBlockedWaits, RWQueues, RWQueueSound, RlockWait, RWEnqueue,
       MayRead
  <2>4. RWReadySound'
    BY <1>4, <2>2 DEF RWBlockedWaits, RWQueues, RWQueueSound, RWReadySound,
       RlockWait, RWEnqueue, MayRead
  <2>5. RWSleeperFound'
    BY <1>4, <2>2 DEF RWBlockedWaits, RWQueues, RWQueueSound, RWSleeperFound,
       RlockWait, RWEnqueue, MayRead
  <2>. QED
    BY <2>3, <2>4, <2>5 DEF RWQueues
<1>5. ASSUME NEW p \in Proc, CanrlockBusy(p)
      PROVE  RWQueues'
  BY <1>5 DEF RWBlockedWaits, RWQueues, RWQueueSound, RWReadySound, RWSleeperFound,
     RWQueued, CanrlockBusy, MayRead
<1>6. ASSUME NEW p \in Proc, WlockTake(p)
      PROVE  RWQueues'
  BY <1>6 DEF RWBlockedWaits, RWQueues, RWQueueSound, RWReadySound, RWSleeperFound,
     RWQueued, WlockTake, MayWrite
<1>7. ASSUME NEW p \in Proc, WlockWait(p)
      PROVE  RWQueues'
  <2>1. p \notin RWQueued /\ rwqueue' = Append(rwqueue, p)
    BY <1>7 DEF RWQueues, RWQueueSound, WlockWait, RWEnqueue
  <2>2. /\ rwqueue' \in Seq(Proc)
        /\ rwqueue' # <<>>
        /\ IsInjective(rwqueue')
        /\ RWQueued' = RWQueued \cup {p}
        /\ Head(rwqueue') = IF rwqueue = <<>> THEN p ELSE Head(rwqueue)
    BY <2>1, Joins DEF RWQueues
  <2>3. RWQueueSound'
    BY <1>7, <2>2 DEF RWBlockedWaits, RWQueues, RWQueueSound, WlockWait, RWEnqueue,
       MayWrite
  <2>4. RWReadySound'
    BY <1>7, <2>2 DEF RWBlockedWaits, RWQueues, RWQueueSound, RWReadySound,
       WlockWait, RWEnqueue, MayWrite
  <2>5. RWSleeperFound'
    BY <1>7, <2>2 DEF RWBlockedWaits, RWQueues, RWQueueSound, RWSleeperFound,
       WlockWait, RWEnqueue, MayWrite
  <2>. QED
    BY <2>3, <2>4, <2>5 DEF RWQueues
<1>8. ASSUME NEW p \in Proc, RlockReturn(p)
      PROVE  RWQueues'
  BY <1>8 DEF RWBlockedWaits, RWQueues, RWQueueSound, RWReadySound, RWSleeperFound,
     RWQueued, RlockReturn
<1>9. ASSUME NEW p \in Proc, WlockReturn(p)
      PROVE  RWQueues'
  BY <1>9 DEF RWBlockedWaits, RWQueues, RWQueueSound, RWReadySound, RWSleeperFound,
     RWQueued, WlockReturn
<1>10. ASSUME NEW p \in Proc, RunlockLeave(p)
      PROVE  RWQueues'
  BY <1>10 DEF RWBlockedWaits, RWQueues, RWQueueSound, RWReadySound, RWSleeperFound,
     RWQueued, RunlockLeave
<1>11. ASSUME NEW p \in Proc, RunlockHandOff(p)
      PROVE  RWQueues'
  <2>1. rwqueue # <<>> /\ rwqueue' = Tail(rwqueue)
    BY <1>11 DEF RunlockHandOff
  <2>2. /\ rwqueue' \in Seq(Proc)
        /\ IsInjective(rwqueue')
        /\ Head(rwqueue) \in Proc
        /\ Head(rwqueue) \in RWQueued
        /\ RWQueued' = RWQueued \ {Head(rwqueue)}
    BY <2>1, Leaves DEF RWQueues
  <2>3. RWQueueSound'
    BY <1>11, <2>2 DEF RWBlockedWaits, RWQueues, RWQueueSound, RunlockHandOff
  <2>4. RWReadySound'
    BY <1>11, <2>2 DEF RWBlockedWaits, RWQueues, RWQueueSound, RWReadySound,
       RunlockHandOff
  <2>5. RWSleeperFound'
    BY <1>11, <2>2 DEF RWBlockedWaits, RWQueues, RWQueueSound, RWSleeperFound,
       RunlockHandOff
  <2>. QED
    BY <2>3, <2>4, <2>5 DEF RWQueues
<1>12. ASSUME NEW p \in Proc, WunlockFree(p)
      PROVE  RWQueues'
  BY <1>12 DEF RWBlockedWaits, RWQueues, RWQueueSound, RWReadySound, RWSleeperFound,
     RWQueued, WunlockFree
<1>13. ASSUME NEW p \in Proc, WunlockHandOff(p)
      PROVE  RWQueues'
  <2>1. rwqueue # <<>> /\ rwqueue' = Tail(rwqueue)
    BY <1>13 DEF WunlockHandOff
  <2>2. /\ rwqueue' \in Seq(Proc)
        /\ IsInjective(rwqueue')
        /\ Head(rwqueue) \in Proc
        /\ Head(rwqueue) \in RWQueued
        /\ RWQueued' = RWQueued \ {Head(rwqueue)}
    BY <2>1, Leaves DEF RWQueues
  <2>3. RWQueueSound'
    BY <1>13, <2>2 DEF RWBlockedWaits, RWQueues, RWQueueSound, WunlockHandOff
  <2>4. RWReadySound'
    BY <1>13, <2>2 DEF RWBlockedWaits, RWQueues, RWQueueSound, RWReadySound,
       WunlockHandOff
  <2>5. RWSleeperFound'
    BY <1>13, <2>2 DEF RWBlockedWaits, RWQueues, RWQueueSound, RWSleeperFound,
       WunlockHandOff
  <2>. QED
    BY <2>3, <2>4, <2>5 DEF RWQueues
<1>14. ASSUME NEW p \in Proc, WunlockReaders(p)
      PROVE  RWQueues'
  BY <1>14 DEF RWBlockedWaits, RWQueues, RWQueueSound, RWReadySound, RWSleeperFound,
     RWQueued, WunlockReaders
<1>15. ASSUME NEW p \in Proc, WakeReader(p)
      PROVE  RWQueues'
  <2>1. rwqueue # <<>> /\ rwqueue' = Tail(rwqueue)
    BY <1>15 DEF WakeReader, ReaderFirst
  <2>2. /\ rwqueue' \in Seq(Proc)
        /\ IsInjective(rwqueue')
        /\ Head(rwqueue) \in Proc
        /\ Head(rwqueue) \in RWQueued
        /\ RWQueued' = RWQueued \ {Head(rwqueue)}
    BY <2>1, Leaves DEF RWQueues
  <2>3. RWQueueSound'
    BY <1>15, <2>2 DEF RWBlockedWaits, RWQueues, RWQueueSound, WakeReader,
       ReaderFirst
  <2>4. RWReadySound'
    BY <1>15, <2>2 DEF RWBlockedWaits, RWQueues, RWQueueSound, RWReadySound,
       WakeReader, ReaderFirst
  <2>5. RWSleeperFound'
    BY <1>15, <2>2 DEF RWBlockedWaits, RWQueues, RWQueueSound, RWSleeperFound,
       WakeReader, ReaderFirst
  <2>. QED
    BY <2>3, <2>4, <2>5 DEF RWQueues
<1>16. ASSUME NEW p \in Proc, WakeDone(p)
      PROVE  RWQueues'
  BY <1>16 DEF RWBlockedWaits, RWQueues, RWQueueSound, RWReadySound, RWSleeperFound,
     RWQueued, WakeDone, ReaderFirst
<1>17. ASSUME NEW p \in Proc, RWReady(p)
      PROVE  RWQueues'
  BY <1>17 DEF RWBlockedWaits, RWQueues, RWQueueSound, RWReadySound, RWSleeperFound,
     RWQueued, RWReady, ReadyState, Blocked
<1>18. ASSUME NEW p \in Proc, RWSchedule(p)
      PROVE  RWQueues'
  <2>1. CASE Switch(p)
    BY <1>18, <2>1 DEF RWBlockedWaits, RWQueues, RWQueueSound, RWReadySound,
       RWSleeperFound, RWQueued, RWSchedule, Switch
  <2>2. CASE Dispatch(p)
    BY <1>18, <2>2 DEF RWBlockedWaits, RWQueues, RWQueueSound, RWReadySound,
       RWSleeperFound, RWQueued, RWSchedule, Dispatch
  <2>. QED
    BY <1>18, <2>1, <2>2 DEF RWSchedule
<1>19. CASE UNCHANGED rwvars
  BY <1>19 DEF RWBlockedWaits, RWQueues, RWQueueSound, RWReadySound, RWSleeperFound,
     RWQueued, rwvars
<1>. QED
  BY <1>1, <1>2, <1>3, <1>4, <1>5, <1>6, <1>7, <1>8, <1>9, <1>10, <1>11,
     <1>12, <1>13, <1>14, <1>15, <1>16, <1>17, <1>18, <1>19 DEF RWNext, RWSteps

\* No step makes the counts wrong.
LEMMA CountsStep ==
  ASSUME RWControl, RWQueues, Counts, [RWNext]_rwvars
  PROVE  Counts'
<1> USE NilAssumption
    DEF RWAt, Runs, RWGoto, procVars, RWInUse, RWPCs, RWControl, RWTypeOK, ProcTypeOK,
       States, RWUseHeld, RWWhoSet
<1>1. ASSUME NEW p \in Proc, Call(p)
      PROVE  Counts'
  <2>1. Readers' = Readers
    BY <1>1 DEF Readers, Reads, RWBlockedWaits, RWQueues, RWQueueSound,
       RWReadySound, RWQueued, Call, RWEnter
  <2>2. ReadersCounted'
    BY <1>1, <2>1 DEF Counts, ReadersCounted, Call, RWEnter
  <2>3. OneWriter'
    BY <1>1, HeadQueued DEF Counts, OneWriter, WritesAlone, HeadWaits,
       LoopReads, Loop, Writes, RWBlockedWaits, RWQueues, RWQueueSound, RWReadySound,
       ReaderFirst, RWQueued, Call, RWEnter
  <2>4. WritesAlone' /\ HeadWaits' /\ LoopReads'
    BY <1>1, HeadQueued DEF Counts, OneWriter, WritesAlone, HeadWaits,
       LoopReads, Loop, Writes, RWBlockedWaits, RWQueues, RWQueueSound, RWReadySound,
       ReaderFirst, RWQueued, Call, RWEnter
  <2>. QED
    BY <2>2, <2>3, <2>4 DEF Counts
<1>2. ASSUME NEW p \in Proc, RWUnlock(p)
      PROVE  Counts'
  <2>1. Readers' = Readers
    BY <1>2 DEF Readers, Reads, RWBlockedWaits, RWQueues, RWQueueSound,
       RWReadySound, RWQueued, RWUnlock, RWEnter
  <2>2. ReadersCounted'
    BY <1>2, <2>1 DEF Counts, ReadersCounted, RWUnlock, RWEnter
  <2>3. OneWriter'
    BY <1>2, HeadQueued DEF Counts, OneWriter, WritesAlone, HeadWaits,
       LoopReads, Loop, Writes, RWBlockedWaits, RWQueues, RWQueueSound, RWReadySound,
       ReaderFirst, RWQueued, RWUnlock, RWEnter
  <2>4. WritesAlone' /\ HeadWaits' /\ LoopReads'
    BY <1>2, HeadQueued DEF Counts, OneWriter, WritesAlone, HeadWaits,
       LoopReads, Loop, Writes, RWBlockedWaits, RWQueues, RWQueueSound, RWReadySound,
       ReaderFirst, RWQueued, RWUnlock, RWEnter
  <2>. QED
    BY <2>2, <2>3, <2>4 DEF Counts
<1>3. ASSUME NEW p \in Proc, RlockTake(p)
      PROVE  Counts'
  <2>1. Readers' = Readers \cup {p}
    BY <1>3 DEF Readers, Reads, RWBlockedWaits, RWQueues, RWQueueSound,
       RWReadySound, RWQueued, RlockTake, MayRead
  <2>2. ReadersCounted'
    <3>1. /\ IsFiniteSet(Readers)
          /\ readers = Cardinality(Readers)
      BY DEF Counts, ReadersCounted
    <3>2. p \notin Readers
      BY <1>3 DEF Readers, Reads, RWBlockedWaits, RWQueues, RWQueueSound,
         RlockTake, MayRead
    <3>3. /\ IsFiniteSet(Readers \cup {p})
          /\ Cardinality(Readers \cup {p}) = readers + 1
      BY <3>1, <3>2, FS_AddElement
    <3>. QED
      BY <1>3, <2>1, <3>3 DEF ReadersCounted, RlockTake, MayRead
  <2>3. OneWriter'
    BY <1>3, HeadQueued DEF Counts, OneWriter, WritesAlone, HeadWaits,
       LoopReads, Loop, Writes, RWBlockedWaits, RWQueues, RWQueueSound, RWReadySound,
       ReaderFirst, RWQueued, RlockTake, MayRead
  <2>4. WritesAlone' /\ HeadWaits' /\ LoopReads'
    BY <1>3, HeadQueued DEF Counts, OneWriter, WritesAlone, HeadWaits,
       LoopReads, Loop, Writes, RWBlockedWaits, RWQueues, RWQueueSound, RWReadySound,
       ReaderFirst, RWQueued, RlockTake, MayRead
  <2>. QED
    BY <2>2, <2>3, <2>4 DEF Counts
<1>4. ASSUME NEW p \in Proc, RlockWait(p)
      PROVE  Counts'
  <2>1. p \notin RWQueued /\ rwqueue' = Append(rwqueue, p)
    BY <1>4 DEF RWQueues, RWQueueSound, RlockWait, RWEnqueue
  <2>2. /\ rwqueue' \in Seq(Proc)
        /\ rwqueue' # <<>>
        /\ IsInjective(rwqueue')
        /\ RWQueued' = RWQueued \cup {p}
        /\ Head(rwqueue') = IF rwqueue = <<>> THEN p ELSE Head(rwqueue)
    BY <2>1, Joins DEF RWQueues
  <2>3. Readers' = Readers
    BY <1>4, <2>2 DEF Readers, Reads, RWBlockedWaits, RWQueues, RWQueueSound,
       RWReadySound, RlockWait, RWEnqueue, MayRead
  <2>4. ReadersCounted'
    BY <1>4, <2>3 DEF Counts, ReadersCounted, RlockWait, RWEnqueue, MayRead
  <2>5. OneWriter'
    BY <1>4, <2>2, HeadQueued DEF Counts, OneWriter, WritesAlone, HeadWaits,
       LoopReads, Loop, Writes, RWBlockedWaits, RWQueues, RWQueueSound, RWReadySound,
       ReaderFirst, RlockWait, RWEnqueue, MayRead
  <2>6. WritesAlone' /\ HeadWaits' /\ LoopReads'
    BY <1>4, <2>2, HeadQueued DEF Counts, OneWriter, WritesAlone, HeadWaits,
       LoopReads, Loop, Writes, RWBlockedWaits, RWQueues, RWQueueSound, RWReadySound,
       ReaderFirst, RlockWait, RWEnqueue, MayRead
  <2>. QED
    BY <2>4, <2>5, <2>6 DEF Counts
<1>5. ASSUME NEW p \in Proc, CanrlockBusy(p)
      PROVE  Counts'
  <2>1. Readers' = Readers
    BY <1>5 DEF Readers, Reads, RWBlockedWaits, RWQueues, RWQueueSound,
       RWReadySound, RWQueued, CanrlockBusy, MayRead
  <2>2. ReadersCounted'
    BY <1>5, <2>1 DEF Counts, ReadersCounted, CanrlockBusy, MayRead
  <2>3. OneWriter'
    BY <1>5, HeadQueued DEF Counts, OneWriter, WritesAlone, HeadWaits,
       LoopReads, Loop, Writes, RWBlockedWaits, RWQueues, RWQueueSound, RWReadySound,
       ReaderFirst, RWQueued, CanrlockBusy, MayRead
  <2>4. WritesAlone' /\ HeadWaits' /\ LoopReads'
    BY <1>5, HeadQueued DEF Counts, OneWriter, WritesAlone, HeadWaits,
       LoopReads, Loop, Writes, RWBlockedWaits, RWQueues, RWQueueSound, RWReadySound,
       ReaderFirst, RWQueued, CanrlockBusy, MayRead
  <2>. QED
    BY <2>2, <2>3, <2>4 DEF Counts
<1>6. ASSUME NEW p \in Proc, WlockTake(p)
      PROVE  Counts'
  <2>1. Readers' = Readers
    BY <1>6 DEF Readers, Reads, RWBlockedWaits, RWQueues, RWQueueSound,
       RWReadySound, RWQueued, WlockTake, MayWrite
  <2>2. ReadersCounted'
    BY <1>6, <2>1 DEF Counts, ReadersCounted, WlockTake, MayWrite
  <2>3. OneWriter'
    BY <1>6, HeadQueued DEF Counts, OneWriter, WritesAlone, HeadWaits,
       LoopReads, Loop, Writes, RWBlockedWaits, RWQueues, RWQueueSound, RWReadySound,
       ReaderFirst, RWQueued, WlockTake, MayWrite
  <2>4. WritesAlone' /\ HeadWaits' /\ LoopReads'
    BY <1>6, HeadQueued DEF Counts, OneWriter, WritesAlone, HeadWaits,
       LoopReads, Loop, Writes, RWBlockedWaits, RWQueues, RWQueueSound, RWReadySound,
       ReaderFirst, RWQueued, WlockTake, MayWrite
  <2>. QED
    BY <2>2, <2>3, <2>4 DEF Counts
<1>7. ASSUME NEW p \in Proc, WlockWait(p)
      PROVE  Counts'
  <2>1. p \notin RWQueued /\ rwqueue' = Append(rwqueue, p)
    BY <1>7 DEF RWQueues, RWQueueSound, WlockWait, RWEnqueue
  <2>2. /\ rwqueue' \in Seq(Proc)
        /\ rwqueue' # <<>>
        /\ IsInjective(rwqueue')
        /\ RWQueued' = RWQueued \cup {p}
        /\ Head(rwqueue') = IF rwqueue = <<>> THEN p ELSE Head(rwqueue)
    BY <2>1, Joins DEF RWQueues
  <2>3. Readers' = Readers
    BY <1>7, <2>2 DEF Readers, Reads, RWBlockedWaits, RWQueues, RWQueueSound,
       RWReadySound, WlockWait, RWEnqueue, MayWrite
  <2>4. ReadersCounted'
    BY <1>7, <2>3 DEF Counts, ReadersCounted, WlockWait, RWEnqueue, MayWrite
  <2>5. OneWriter'
    BY <1>7, <2>2, HeadQueued DEF Counts, OneWriter, WritesAlone, HeadWaits,
       LoopReads, Loop, Writes, RWBlockedWaits, RWQueues, RWQueueSound, RWReadySound,
       ReaderFirst, WlockWait, RWEnqueue, MayWrite
  <2>6. WritesAlone' /\ HeadWaits' /\ LoopReads'
    BY <1>7, <2>2, HeadQueued DEF Counts, OneWriter, WritesAlone, HeadWaits,
       LoopReads, Loop, Writes, RWBlockedWaits, RWQueues, RWQueueSound, RWReadySound,
       ReaderFirst, WlockWait, RWEnqueue, MayWrite
  <2>. QED
    BY <2>4, <2>5, <2>6 DEF Counts
<1>8. ASSUME NEW p \in Proc, RlockReturn(p)
      PROVE  Counts'
  <2>1. Readers' = Readers
    BY <1>8 DEF Readers, Reads, RWBlockedWaits, RWQueues, RWQueueSound,
       RWReadySound, RWQueued, RlockReturn
  <2>2. ReadersCounted'
    BY <1>8, <2>1 DEF Counts, ReadersCounted, RlockReturn
  <2>3. OneWriter'
    BY <1>8, HeadQueued DEF Counts, OneWriter, WritesAlone, HeadWaits,
       LoopReads, Loop, Writes, RWBlockedWaits, RWQueues, RWQueueSound, RWReadySound,
       ReaderFirst, RWQueued, RlockReturn
  <2>4. WritesAlone' /\ HeadWaits' /\ LoopReads'
    BY <1>8, HeadQueued DEF Counts, OneWriter, WritesAlone, HeadWaits,
       LoopReads, Loop, Writes, RWBlockedWaits, RWQueues, RWQueueSound, RWReadySound,
       ReaderFirst, RWQueued, RlockReturn
  <2>. QED
    BY <2>2, <2>3, <2>4 DEF Counts
<1>9. ASSUME NEW p \in Proc, WlockReturn(p)
      PROVE  Counts'
  <2>1. Readers' = Readers
    BY <1>9 DEF Readers, Reads, RWBlockedWaits, RWQueues, RWQueueSound,
       RWReadySound, RWQueued, WlockReturn
  <2>2. ReadersCounted'
    BY <1>9, <2>1 DEF Counts, ReadersCounted, WlockReturn
  <2>3. OneWriter'
    BY <1>9, HeadQueued DEF Counts, OneWriter, WritesAlone, HeadWaits,
       LoopReads, Loop, Writes, RWBlockedWaits, RWQueues, RWQueueSound, RWReadySound,
       ReaderFirst, RWQueued, WlockReturn
  <2>4. WritesAlone' /\ HeadWaits' /\ LoopReads'
    BY <1>9, HeadQueued DEF Counts, OneWriter, WritesAlone, HeadWaits,
       LoopReads, Loop, Writes, RWBlockedWaits, RWQueues, RWQueueSound, RWReadySound,
       ReaderFirst, RWQueued, WlockReturn
  <2>. QED
    BY <2>2, <2>3, <2>4 DEF Counts
<1>10. ASSUME NEW p \in Proc, RunlockLeave(p)
      PROVE  Counts'
  <2>1. p \in Readers /\ readers > 0 /\ writer = 0
    BY <1>10, ReadersPositive DEF Counts, Readers, Reads, Writes, Loop,
       OneWriter, WritesAlone, RunlockLeave
  <2>2. Readers' = Readers \ {p}
    BY <1>10, <2>1 DEF Readers, Reads, RWBlockedWaits, RWQueues, RWQueueSound,
       RWReadySound, RWQueued, RunlockLeave
  <2>3. ReadersCounted'
    <3>1. /\ IsFiniteSet(Readers)
          /\ readers = Cardinality(Readers)
      BY DEF Counts, ReadersCounted
    <3>2. p \in Readers
      BY <1>10, <2>1 DEF Readers, Reads, RWBlockedWaits, RWQueues, RWQueueSound,
         RunlockLeave
    <3>3. /\ IsFiniteSet(Readers \ {p})
          /\ Cardinality(Readers \ {p}) = readers - 1
      BY <3>1, <3>2, FS_RemoveElement
    <3>. QED
      BY <1>10, <2>2, <3>3 DEF ReadersCounted, RunlockLeave
  <2>4. OneWriter'
    BY <1>10, <2>1, HeadQueued DEF Counts, OneWriter, WritesAlone,
       HeadWaits, LoopReads, Loop, Writes, RWBlockedWaits, RWQueues, RWQueueSound,
       RWReadySound, ReaderFirst, RWQueued, RunlockLeave
  <2>5. WritesAlone' /\ HeadWaits' /\ LoopReads'
    BY <1>10, <2>1, HeadQueued DEF Counts, OneWriter, WritesAlone,
       HeadWaits, LoopReads, Loop, Writes, RWBlockedWaits, RWQueues, RWQueueSound,
       RWReadySound, ReaderFirst, RWQueued, RunlockLeave
  <2>. QED
    BY <2>3, <2>4, <2>5 DEF Counts
<1>11. ASSUME NEW p \in Proc, RunlockHandOff(p)
      PROVE  Counts'
  <2>1. rwqueue # <<>> /\ rwqueue' = Tail(rwqueue)
    BY <1>11 DEF RunlockHandOff
  <2>2. /\ rwqueue' \in Seq(Proc)
        /\ IsInjective(rwqueue')
        /\ Head(rwqueue) \in Proc
        /\ Head(rwqueue) \in RWQueued
        /\ RWQueued' = RWQueued \ {Head(rwqueue)}
    BY <2>1, Leaves DEF RWQueues
  <2>3. /\ p \in Readers /\ readers > 0 /\ writer = 0
        /\ state[Head(rwqueue)] = "QueueingW" /\ rwpc[Head(rwqueue)] = "wwait"
    BY <1>11, <2>2, ReadersPositive DEF Counts, RWBlockedWaits, Readers,
       Reads, Writes, Loop, OneWriter, WritesAlone, HeadWaits, RunlockHandOff
  <2>4. Readers' = Readers \ {p}
    BY <1>11, <2>2, <2>3 DEF Readers, Reads, RWBlockedWaits, RWQueues,
       RWQueueSound, RWReadySound, RunlockHandOff
  <2>5. ReadersCounted'
    <3>1. /\ IsFiniteSet(Readers)
          /\ readers = Cardinality(Readers)
      BY DEF Counts, ReadersCounted
    <3>2. p \in Readers
      BY <1>11, <2>2, <2>3 DEF Readers, Reads, RWBlockedWaits, RWQueues,
         RWQueueSound, RunlockHandOff
    <3>3. /\ IsFiniteSet(Readers \ {p})
          /\ Cardinality(Readers \ {p}) = readers - 1
      BY <3>1, <3>2, FS_RemoveElement
    <3>. QED
      BY <1>11, <2>4, <3>3 DEF ReadersCounted, RunlockHandOff
  <2>6. OneWriter'
    BY <1>11, <2>2, <2>3, HeadQueued DEF Counts, OneWriter, WritesAlone,
       HeadWaits, LoopReads, Loop, Writes, RWBlockedWaits, RWQueues, RWQueueSound,
       RWReadySound, ReaderFirst, RunlockHandOff
  <2>7. WritesAlone' /\ HeadWaits' /\ LoopReads'
    BY <1>11, <2>2, <2>3, HeadQueued DEF Counts, OneWriter, WritesAlone,
       HeadWaits, LoopReads, Loop, Writes, RWBlockedWaits, RWQueues, RWQueueSound,
       RWReadySound, ReaderFirst, RunlockHandOff
  <2>. QED
    BY <2>5, <2>6, <2>7 DEF Counts
<1>12. ASSUME NEW p \in Proc, WunlockFree(p)
      PROVE  Counts'
  <2>1. Readers' = Readers
    BY <1>12 DEF Readers, Reads, RWBlockedWaits, RWQueues, RWQueueSound,
       RWReadySound, RWQueued, WunlockFree
  <2>2. ReadersCounted'
    BY <1>12, <2>1 DEF Counts, ReadersCounted, WunlockFree
  <2>3. OneWriter'
    BY <1>12, HeadQueued DEF Counts, OneWriter, WritesAlone, HeadWaits,
       LoopReads, Loop, Writes, RWBlockedWaits, RWQueues, RWQueueSound, RWReadySound,
       ReaderFirst, RWQueued, WunlockFree
  <2>4. WritesAlone' /\ HeadWaits' /\ LoopReads'
    BY <1>12, HeadQueued DEF Counts, OneWriter, WritesAlone, HeadWaits,
       LoopReads, Loop, Writes, RWBlockedWaits, RWQueues, RWQueueSound, RWReadySound,
       ReaderFirst, RWQueued, WunlockFree
  <2>. QED
    BY <2>2, <2>3, <2>4 DEF Counts
<1>13. ASSUME NEW p \in Proc, WunlockHandOff(p)
      PROVE  Counts'
  <2>1. rwqueue # <<>> /\ rwqueue' = Tail(rwqueue)
    BY <1>13 DEF WunlockHandOff
  <2>2. /\ rwqueue' \in Seq(Proc)
        /\ IsInjective(rwqueue')
        /\ Head(rwqueue) \in Proc
        /\ Head(rwqueue) \in RWQueued
        /\ RWQueued' = RWQueued \ {Head(rwqueue)}
    BY <2>1, Leaves DEF RWQueues
  <2>3. Readers' = Readers
    BY <1>13, <2>2 DEF Readers, Reads, RWBlockedWaits, RWQueues, RWQueueSound,
       RWReadySound, WunlockHandOff
  <2>4. ReadersCounted'
    BY <1>13, <2>3 DEF Counts, ReadersCounted, WunlockHandOff
  <2>5. OneWriter'
    BY <1>13, <2>2, HeadQueued DEF Counts, OneWriter, WritesAlone,
       HeadWaits, LoopReads, Loop, Writes, RWBlockedWaits, RWQueues, RWQueueSound,
       RWReadySound, ReaderFirst, WunlockHandOff
  <2>6. WritesAlone' /\ HeadWaits' /\ LoopReads'
    BY <1>13, <2>2, HeadQueued DEF Counts, OneWriter, WritesAlone,
       HeadWaits, LoopReads, Loop, Writes, RWBlockedWaits, RWQueues, RWQueueSound,
       RWReadySound, ReaderFirst, WunlockHandOff
  <2>. QED
    BY <2>4, <2>5, <2>6 DEF Counts
<1>14. ASSUME NEW p \in Proc, WunlockReaders(p)
      PROVE  Counts'
  <2>1. Readers' = Readers
    BY <1>14 DEF Readers, Reads, RWBlockedWaits, RWQueues, RWQueueSound,
       RWReadySound, RWQueued, WunlockReaders
  <2>2. ReadersCounted'
    BY <1>14, <2>1 DEF Counts, ReadersCounted, WunlockReaders
  <2>3. OneWriter'
    BY <1>14, HeadQueued DEF Counts, OneWriter, WritesAlone, HeadWaits,
       LoopReads, Loop, Writes, RWBlockedWaits, RWQueues, RWQueueSound, RWReadySound,
       ReaderFirst, RWQueued, WunlockReaders
  <2>4. WritesAlone' /\ HeadWaits' /\ LoopReads'
    BY <1>14, HeadQueued DEF Counts, OneWriter, WritesAlone, HeadWaits,
       LoopReads, Loop, Writes, RWBlockedWaits, RWQueues, RWQueueSound, RWReadySound,
       ReaderFirst, RWQueued, WunlockReaders
  <2>. QED
    BY <2>2, <2>3, <2>4 DEF Counts
<1>15. ASSUME NEW p \in Proc, WakeReader(p)
      PROVE  Counts'
  <2>1. rwqueue # <<>> /\ rwqueue' = Tail(rwqueue)
    BY <1>15 DEF WakeReader, ReaderFirst
  <2>2. /\ rwqueue' \in Seq(Proc)
        /\ IsInjective(rwqueue')
        /\ Head(rwqueue) \in Proc
        /\ Head(rwqueue) \in RWQueued
        /\ RWQueued' = RWQueued \ {Head(rwqueue)}
    BY <2>1, Leaves DEF RWQueues
  <2>3. Readers' = Readers \cup {Head(rwqueue)}
    BY <1>15, <2>2 DEF Readers, Reads, RWBlockedWaits, RWQueues, RWQueueSound,
       RWReadySound, WakeReader, ReaderFirst
  <2>4. ReadersCounted'
    <3>1. /\ IsFiniteSet(Readers)
          /\ readers = Cardinality(Readers)
      BY DEF Counts, ReadersCounted
    <3>2. Head(rwqueue) \notin Readers
      BY <1>15, <2>2 DEF Readers, Reads, RWBlockedWaits, RWQueues, RWQueueSound,
         WakeReader, ReaderFirst
    <3>3. /\ IsFiniteSet(Readers \cup {Head(rwqueue)})
          /\ Cardinality(Readers \cup {Head(rwqueue)}) = readers + 1
      BY <3>1, <3>2, FS_AddElement
    <3>. QED
      BY <1>15, <2>3, <3>3 DEF ReadersCounted, WakeReader, ReaderFirst
  <2>5. OneWriter'
    BY <1>15, <2>2, HeadQueued DEF Counts, OneWriter, WritesAlone,
       HeadWaits, LoopReads, Loop, Writes, RWBlockedWaits, RWQueues, RWQueueSound,
       RWReadySound, ReaderFirst, WakeReader, ReaderFirst
  <2>6. WritesAlone' /\ HeadWaits' /\ LoopReads'
    BY <1>15, <2>2, HeadQueued DEF Counts, OneWriter, WritesAlone,
       HeadWaits, LoopReads, Loop, Writes, RWBlockedWaits, RWQueues, RWQueueSound,
       RWReadySound, ReaderFirst, WakeReader, ReaderFirst
  <2>. QED
    BY <2>4, <2>5, <2>6 DEF Counts
<1>16. ASSUME NEW p \in Proc, WakeDone(p)
      PROVE  Counts'
  <2>1. Readers' = Readers
    BY <1>16 DEF Readers, Reads, RWBlockedWaits, RWQueues, RWQueueSound,
       RWReadySound, RWQueued, WakeDone, ReaderFirst
  <2>2. ReadersCounted'
    BY <1>16, <2>1 DEF Counts, ReadersCounted, WakeDone, ReaderFirst
  <2>3. OneWriter'
    BY <1>16, HeadQueued DEF Counts, OneWriter, WritesAlone, HeadWaits,
       LoopReads, Loop, Writes, RWBlockedWaits, RWQueues, RWQueueSound, RWReadySound,
       ReaderFirst, RWQueued, WakeDone, ReaderFirst
  <2>4. WritesAlone' /\ HeadWaits' /\ LoopReads'
    BY <1>16, HeadQueued DEF Counts, OneWriter, WritesAlone, HeadWaits,
       LoopReads, Loop, Writes, RWBlockedWaits, RWQueues, RWQueueSound, RWReadySound,
       ReaderFirst, RWQueued, WakeDone, ReaderFirst
  <2>. QED
    BY <2>2, <2>3, <2>4 DEF Counts
<1>17. ASSUME NEW p \in Proc, RWReady(p)
      PROVE  Counts'
  <2>1. Readers' = Readers
    BY <1>17 DEF Readers, Reads, RWBlockedWaits, RWQueues, RWQueueSound,
       RWReadySound, RWQueued, RWReady, ReadyState, Blocked
  <2>2. ReadersCounted'
    BY <1>17, <2>1 DEF Counts, ReadersCounted, RWReady, ReadyState, Blocked
  <2>3. OneWriter'
    BY <1>17, HeadQueued DEF Counts, OneWriter, WritesAlone, HeadWaits,
       LoopReads, Loop, Writes, RWBlockedWaits, RWQueues, RWQueueSound, RWReadySound,
       ReaderFirst, RWQueued, RWReady, ReadyState, Blocked
  <2>4. WritesAlone' /\ HeadWaits' /\ LoopReads'
    BY <1>17, HeadQueued DEF Counts, OneWriter, WritesAlone, HeadWaits,
       LoopReads, Loop, Writes, RWBlockedWaits, RWQueues, RWQueueSound, RWReadySound,
       ReaderFirst, RWQueued, RWReady, ReadyState, Blocked
  <2>. QED
    BY <2>2, <2>3, <2>4 DEF Counts
<1>18. ASSUME NEW p \in Proc, RWSchedule(p)
      PROVE  Counts'
  <2>1. Readers' = Readers
    BY <1>18 DEF Readers, Reads, RWBlockedWaits, RWQueues, RWQueueSound,
       RWReadySound, RWQueued, RWSchedule, Switch, Dispatch
  <2>2. ReadersCounted'
    BY <1>18, <2>1 DEF Counts, ReadersCounted, RWSchedule, Switch, Dispatch
  <2>3. OneWriter'
    BY <1>18, HeadQueued DEF Counts, OneWriter, WritesAlone, HeadWaits,
       LoopReads, Loop, Writes, RWBlockedWaits, RWQueues, RWQueueSound, RWReadySound,
       ReaderFirst, RWQueued, RWSchedule, Switch, Dispatch
  <2>4. WritesAlone' /\ HeadWaits' /\ LoopReads'
    BY <1>18, HeadQueued DEF Counts, OneWriter, WritesAlone, HeadWaits,
       LoopReads, Loop, Writes, RWBlockedWaits, RWQueues, RWQueueSound, RWReadySound,
       ReaderFirst, RWQueued, RWSchedule, Switch, Dispatch
  <2>. QED
    BY <2>2, <2>3, <2>4 DEF Counts
<1>19. CASE UNCHANGED rwvars
  BY <1>19 DEF Counts, ReadersCounted, Readers, Reads, Writes, Loop, RWQueued,
     ReaderFirst, OneWriter, WritesAlone, HeadWaits, LoopReads, rwvars
<1>. QED
  BY <1>1, <1>2, <1>3, <1>4, <1>5, <1>6, <1>7, <1>8, <1>9, <1>10, <1>11,
     <1>12, <1>13, <1>14, <1>15, <1>16, <1>17, <1>18, <1>19 DEF RWNext, RWSteps
-----------------------------------------------------------------------------
\* The inductive invariant holds when nothing has happened yet.
LEMMA RWInitInv == RWInit => RWInv
<1> SUFFICES ASSUME RWInit
             PROVE  RWInv
  OBVIOUS
<1> USE NilAssumption DEF RWInit, ProcInit
<1>1. RWQueued = {}
  BY DEF RWQueued, ToSet
<1>2. RWControl
  BY DEF RWControl, RWTypeOK, ProcTypeOK, States, RWPCs, RWInUse, RWUseHeld, RWWhoSet,
         RWBlockedWaits
<1>3. RWQueues
  BY <1>1 DEF RWQueues, RWQueueSound, RWReadySound, RWSleeperFound, IsInjective
<1>4. Readers = {}
  BY DEF Readers, Reads
<1>5. Counts
  BY <1>4, FS_EmptySet
     DEF Counts, ReadersCounted, OneWriter, WritesAlone, HeadWaits, LoopReads, Writes, Loop
<1>. QED
  BY <1>2, <1>3, <1>5 DEF RWInv

\* Every step keeps the inductive invariant.
LEMMA RWStep == RWInv /\ [RWNext]_rwvars => RWInv'
BY RWControlStep, RWQueuesStep, CountsStep DEF RWInv

\* The inductive invariant holds in every reachable state: its three layers are
\* preserved one upon the other.
THEOREM RWSafety == RWSpec => []RWInv
BY RWInitInv, RWStep, PTL DEF RWSpec
-----------------------------------------------------------------------------
\* The counts of rlock(), runlock(), wlock() and wunlock() of port/qlock.c are
\* those of the processes, none of their panics is met, and nobody is left
\* behind a free lock or readied twice.
THEOREM RWStaysConsistent == RWSpec => []Consistent
<1>1. ASSUME RWInv
      PROVE  Consistent
  <2>1. CountsExact
    BY <1>1 DEF RWInv, Counts, ReadersCounted, Readers, OneWriter, Loop, CountsExact
  <2>2. NoPanic
    BY <1>1 DEF RWInv, RWQueues, RWQueueSound, Counts, HeadWaits, NoPanic
  <2>3. NoStranding
    <3>1. ASSUME NEW p \in Proc, state[p] \in {"QueueingR", "QueueingW"}, p \notin RWQueued
          PROVE  Cardinality({k \in Proc : rwwho[k] = p}) = 1
      <4>1. PICK k \in Proc : rwwho[k] = p
        BY <1>1, <3>1 DEF RWInv, RWQueues, RWSleeperFound
      <4>2. {j \in Proc : rwwho[j] = p} = {k}
        BY <1>1, <4>1, NilAssumption DEF RWInv, RWQueues, RWReadySound
      <4>. QED
        BY <4>2, FS_Singleton
    <3>. QED
      BY <1>1, <3>1 DEF RWInv, Counts, HeadWaits, NoStranding
  <2>. QED
    BY <1>1, <2>1, <2>2, <2>3 DEF RWInv, RWControl, Consistent
<1>. QED
  BY RWSafety, <1>1, PTL

\* Who writes is alone, in the middle of the loop of wunlock() too.
THEOREM WritersAlone == RWSpec => []Exclusion
<1>1. ASSUME RWInv
      PROVE  Exclusion
  <2>1. ASSUME NEW p \in Proc, Writes(p), NEW q \in Proc, Reads(q)
        PROVE  FALSE
    BY <1>1, <2>1, ReadersPositive DEF RWInv, RWControl, RWTypeOK, Counts, WritesAlone
  <2>. QED
    BY <1>1, <2>1 DEF RWInv, Counts, OneWriter, Exclusion
<1>. QED
  BY RWSafety, <1>1, PTL
-----------------------------------------------------------------------------
\* Who comes to the lock is the first of the queue, or finds it empty.
LEMMA Comes ==
  ASSUME RWInv, RWNext, NEW x \in Proc,
         (~Reads(x) /\ Reads(x)') \/ (~Writes(x) /\ Writes(x)')
  PROVE  rwqueue = <<>> \/ x = Head(rwqueue)
<1> USE NilAssumption DEF RWAt, Runs, RWGoto, procVars, RWInv, RWControl, RWTypeOK, ProcTypeOK,
        RWBlockedWaits, Reads, Writes
<1>1. ASSUME NEW p \in Proc, Call(p)
      PROVE  rwqueue = <<>> \/ x = Head(rwqueue)
  BY <1>1 DEF RWQueued, RWQueues, RWQueueSound, Counts, HeadWaits, Call, RWEnter
<1>2. ASSUME NEW p \in Proc, RWUnlock(p)
      PROVE  rwqueue = <<>> \/ x = Head(rwqueue)
  BY <1>2 DEF RWQueued, RWQueues, RWQueueSound, Counts, HeadWaits, RWUnlock, RWEnter
<1>3. ASSUME NEW p \in Proc, RlockTake(p)
      PROVE  rwqueue = <<>> \/ x = Head(rwqueue)
  BY <1>3 DEF RWQueued, RWQueues, RWQueueSound, Counts, HeadWaits, RlockTake,
     MayRead
<1>4. ASSUME NEW p \in Proc, RlockWait(p)
      PROVE  rwqueue = <<>> \/ x = Head(rwqueue)
  <2>1. p \notin RWQueued /\ rwqueue' = Append(rwqueue, p)
    BY <1>4 DEF RWQueues, RWQueueSound, RlockWait, RWEnqueue
  <2>2. /\ rwqueue' \in Seq(Proc)
        /\ rwqueue' # <<>>
        /\ IsInjective(rwqueue')
        /\ RWQueued' = RWQueued \cup {p}
        /\ Head(rwqueue') = IF rwqueue = <<>> THEN p ELSE Head(rwqueue)
    BY <2>1, Joins DEF RWQueues
  <2>. QED
    BY <1>4, <2>2 DEF RlockWait, RWEnqueue
<1>5. ASSUME NEW p \in Proc, CanrlockBusy(p)
      PROVE  rwqueue = <<>> \/ x = Head(rwqueue)
  BY <1>5 DEF RWQueued, RWQueues, RWQueueSound, Counts, HeadWaits, CanrlockBusy,
     MayRead
<1>6. ASSUME NEW p \in Proc, WlockTake(p)
      PROVE  rwqueue = <<>> \/ x = Head(rwqueue)
  BY <1>6 DEF RWQueued, RWQueues, RWQueueSound, Counts, HeadWaits, WlockTake,
     MayWrite
<1>7. ASSUME NEW p \in Proc, WlockWait(p)
      PROVE  rwqueue = <<>> \/ x = Head(rwqueue)
  <2>1. p \notin RWQueued /\ rwqueue' = Append(rwqueue, p)
    BY <1>7 DEF RWQueues, RWQueueSound, WlockWait, RWEnqueue
  <2>2. /\ rwqueue' \in Seq(Proc)
        /\ rwqueue' # <<>>
        /\ IsInjective(rwqueue')
        /\ RWQueued' = RWQueued \cup {p}
        /\ Head(rwqueue') = IF rwqueue = <<>> THEN p ELSE Head(rwqueue)
    BY <2>1, Joins DEF RWQueues
  <2>. QED
    BY <1>7, <2>2 DEF WlockWait, RWEnqueue
<1>8. ASSUME NEW p \in Proc, RlockReturn(p)
      PROVE  rwqueue = <<>> \/ x = Head(rwqueue)
  BY <1>8 DEF RWQueued, RWQueues, RWQueueSound, Counts, HeadWaits, RlockReturn
<1>9. ASSUME NEW p \in Proc, WlockReturn(p)
      PROVE  rwqueue = <<>> \/ x = Head(rwqueue)
  BY <1>9 DEF RWQueued, RWQueues, RWQueueSound, Counts, HeadWaits, WlockReturn
<1>10. ASSUME NEW p \in Proc, RunlockLeave(p)
      PROVE  rwqueue = <<>> \/ x = Head(rwqueue)
  BY <1>10 DEF RWQueued, RWQueues, RWQueueSound, Counts, HeadWaits, RunlockLeave
<1>11. ASSUME NEW p \in Proc, RunlockHandOff(p)
      PROVE  rwqueue = <<>> \/ x = Head(rwqueue)
  <2>1. rwqueue # <<>> /\ rwqueue' = Tail(rwqueue)
    BY <1>11 DEF RunlockHandOff
  <2>2. /\ rwqueue' \in Seq(Proc)
        /\ IsInjective(rwqueue')
        /\ Head(rwqueue) \in Proc
        /\ Head(rwqueue) \in RWQueued
        /\ RWQueued' = RWQueued \ {Head(rwqueue)}
    BY <2>1, Leaves DEF RWQueues
  <2>. QED
    BY <1>11, <2>2 DEF RunlockHandOff
<1>12. ASSUME NEW p \in Proc, WunlockFree(p)
      PROVE  rwqueue = <<>> \/ x = Head(rwqueue)
  BY <1>12 DEF RWQueued, RWQueues, RWQueueSound, Counts, HeadWaits, WunlockFree
<1>13. ASSUME NEW p \in Proc, WunlockHandOff(p)
      PROVE  rwqueue = <<>> \/ x = Head(rwqueue)
  <2>1. rwqueue # <<>> /\ rwqueue' = Tail(rwqueue)
    BY <1>13 DEF WunlockHandOff
  <2>2. /\ rwqueue' \in Seq(Proc)
        /\ IsInjective(rwqueue')
        /\ Head(rwqueue) \in Proc
        /\ Head(rwqueue) \in RWQueued
        /\ RWQueued' = RWQueued \ {Head(rwqueue)}
    BY <2>1, Leaves DEF RWQueues
  <2>. QED
    BY <1>13, <2>2 DEF WunlockHandOff
<1>14. ASSUME NEW p \in Proc, WunlockReaders(p)
      PROVE  rwqueue = <<>> \/ x = Head(rwqueue)
  BY <1>14 DEF RWQueued, RWQueues, RWQueueSound, Counts, HeadWaits, WunlockReaders
<1>15. ASSUME NEW p \in Proc, WakeReader(p)
      PROVE  rwqueue = <<>> \/ x = Head(rwqueue)
  <2>1. rwqueue # <<>> /\ rwqueue' = Tail(rwqueue)
    BY <1>15 DEF WakeReader, ReaderFirst
  <2>2. /\ rwqueue' \in Seq(Proc)
        /\ IsInjective(rwqueue')
        /\ Head(rwqueue) \in Proc
        /\ Head(rwqueue) \in RWQueued
        /\ RWQueued' = RWQueued \ {Head(rwqueue)}
    BY <2>1, Leaves DEF RWQueues
  <2>. QED
    BY <1>15, <2>2 DEF WakeReader, ReaderFirst
<1>16. ASSUME NEW p \in Proc, WakeDone(p)
      PROVE  rwqueue = <<>> \/ x = Head(rwqueue)
  BY <1>16 DEF RWQueued, RWQueues, RWQueueSound, Counts, HeadWaits, WakeDone,
     ReaderFirst
<1>17. ASSUME NEW p \in Proc, RWReady(p)
      PROVE  rwqueue = <<>> \/ x = Head(rwqueue)
  BY <1>17 DEF RWQueued, RWQueues, RWQueueSound, Counts, HeadWaits, RWReady,
     ReadyState, Blocked
<1>18. ASSUME NEW p \in Proc, RWSchedule(p)
      PROVE  rwqueue = <<>> \/ x = Head(rwqueue)
  BY <1>18 DEF RWQueued, RWQueues, RWQueueSound, Counts, HeadWaits, RWSchedule,
     Switch, Dispatch
<1>. QED
  BY <1>1, <1>2, <1>3, <1>4, <1>5, <1>6, <1>7, <1>8, <1>9, <1>10, <1>11,
     <1>12, <1>13, <1>14, <1>15, <1>16, <1>17, <1>18 DEF RWNext, RWSteps

\* rlock() and wlock() are first come first served: nobody is overtaken.
THEOREM NobodyOvertaken == RWSpec => NoBarging
<1>1. ASSUME RWInv, [RWNext]_rwvars
      PROVE  [\A p \in Proc :
                (~Reads(p) /\ Reads(p)') \/ (~Writes(p) /\ Writes(p)')
                  => rwqueue = <<>> \/ p = Head(rwqueue)]_rwvars
  BY <1>1, Comes
<1>. QED
  BY RWSafety, <1>1, PTL DEF RWSpec, NoBarging
=============================================================================
