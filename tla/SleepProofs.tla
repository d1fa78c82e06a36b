---------------------------- MODULE SleepProofs ----------------------------
(*****************************************************************************)
(* The safety properties of Sleep hold for any number of processes, interrupt*)
(* handlers and Rendez structures: no wakeup and no note is lost.            *)
(*****************************************************************************)
EXTENDS Sleep, FiniteSetTheorems, TLAPS

\* Where a thread holds the lock of its Rendez, and a sleeper its own rlock.
OwnR == {"sllock", "slcond", "slnote", "slcancel", "slcommit", "slunlock", "wkproc", "wkboth"}
OwnP == {"slcond", "slnote", "slcancel", "slcommit"}

\* A spin lock belongs to the one thread that is between lock() and unlock().
RlkHeld == \A t \in Thread, r \in Rendez :
             rlk[r] = t <=> pc[t] \in OwnR /\ rd[t] = r

PlkHeld == \A t \in Thread, p \in Proc :
             plk[p] = t <=> \/ t = p /\ pc[t] \in OwnP
                            \/ pc[t] \in {"wkboth", "intrcheck"} /\ who[t] = p

\* A thread inside a function knows its Rendez and its process, and interrupt
\* handlers neither sleep nor post notes.
LocalsSet == \A t \in Thread :
               /\ pc[t] \in SleepPCs \cup WakePCs => rd[t] \in Rendez
               /\ pc[t] \in IntrPCs \cup {"wkproc", "wkboth", "ready"} => who[t] \in Proc
               /\ pc[t] \in SleepPCs \cup IntrPCs => t \in Proc

\* The callers' qlock: a Rendez has one process in sleep() at most.
OneSleeper == \A p, q \in Proc :
                pc[p] \in SleepPCs /\ pc[q] \in SleepPCs /\ rd[p] = rd[q] => p = q

\* p->state leaves Running only between sleep()'s commit and its resumption.
BlockedWaits == \A p \in Proc : state[p] # "Running" => pc[p] \in {"slunlock", "slwait"}

\* Who is where, and what a thread may touch.
Control == TypeOK /\ RlkHeld /\ PlkHeld /\ LocalsSet /\ OneSleeper /\ BlockedWaits

\* r->p is the process in sleep() on r, which is still at work under both locks
\* or linked back to r.
RpSound == \A r \in Rendez : rp[r] # Nil =>
             /\ rd[rp[r]] = r
             /\ \/ pc[rp[r]] \in OwnP
                \/ pc[rp[r]] \in {"slunlock", "slwait"} /\ pr[rp[r]] = r

\* p->r is set only while p sleeps, on the Rendez that points back.
PrSound == \A p \in Proc : pr[p] # Nil =>
             /\ pc[p] \in {"slunlock", "slwait"}
             /\ rd[p] = pr[p]
             /\ rp[pr[p]] = p
             /\ state[p] = "Wakeme"

\* A process under both locks is published, and wakeup() still finds the
\* process it read.
RpKept == /\ \A p \in Proc : pc[p] \in OwnP => rp[rd[p]] = p
          /\ \A t \in Thread : pc[t] \in {"wkproc", "wkboth"} => rp[rd[t]] = who[t]

\* ready() is called for sleepers just unlinked, once for each.
ReadySound == \A t \in Thread : pc[t] = "ready" =>
                /\ state[who[t]] = "Wakeme"
                /\ pr[who[t]] = Nil
                /\ pc[who[t]] \in {"slunlock", "slwait"}
                /\ \A k \in Thread : pc[k] = "ready" /\ who[k] = who[t] => k = t

SleeperFound == \A p \in Proc : state[p] = "Wakeme" /\ pr[p] = Nil =>
                  \E t \in Thread : pc[t] = "ready" /\ who[t] = p

\* The two ends of a link, and the sleepers taken off it but not readied yet.
Links == RpSound /\ PrSound /\ RpKept /\ ReadySound /\ SleeperFound

\* sleep() has tested the condition: if it is true again a wakeup() is coming.
CondTested == \A p \in Proc :
                pc[p] \in {"slnote", "slcommit"} /\ cond[rd[p]] =>
                  \E t \in Thread : pc[t] \in WakePCs /\ rd[t] = rd[p]

\* sleep() has tested notepending: if it is set again procinterrupt() is coming.
NoteTested == \A p \in Proc :
                pc[p] = "slcommit" /\ notepending[p] =>
                  \E k \in Proc : pc[k] \in IntrPCs /\ who[k] = p

\* Nothing that happens between the tests of sleep() and its commit is lost.
Events == CondTested /\ NoteTested /\ WakeupNotLost /\ NoteNotLost

\* The inductive invariant.
Inv == Control /\ Links /\ Events

-----------------------------------------------------------------------------
\* No step disturbs who is where: a spin lock has its one holder, the locals
\* of a thread match its place in the code, and only sleepers are blocked.
LEMMA ControlStep ==
  ASSUME Control, Links, [Next]_vars
  PROVE  Control'
<1> USE NilAssumption, SleepAssumption
    DEF Thread, At, Runs, Goto, LockR, LockP, procVars, lockVars, linkVars,
       ctlVars, OwnR, OwnP, SleepPCs, WakePCs, IntrPCs, Control, TypeOK,
       ProcTypeOK, LocalsSet
<1>1. ASSUME NEW p \in Proc, NEW r \in Rendez, SleepEnter(p, r)
      PROVE  Control'
  BY <1>1 DEF RlkHeld, PlkHeld, OneSleeper, BlockedWaits, Links, RpSound,
     PrSound, RpKept, ReadySound, PCs, States, Blocked, SleepEnter
<1>2. ASSUME NEW p \in Proc, SleepPublish(p)
      PROVE  Control'
  BY <1>2 DEF RlkHeld, PlkHeld, OneSleeper, BlockedWaits, Links, RpSound,
     PrSound, RpKept, ReadySound, PCs, States, Blocked, SleepPublish
<1>3. ASSUME NEW p \in Proc, SleepCond(p, Condition(p))
      PROVE  Control'
  BY <1>3 DEF RlkHeld, PlkHeld, OneSleeper, BlockedWaits, Links, RpSound,
     PrSound, RpKept, ReadySound, PCs, States, Blocked, SleepCond, Condition
<1>4. ASSUME NEW p \in Proc, SleepNote(p)
      PROVE  Control'
  BY <1>4 DEF RlkHeld, PlkHeld, OneSleeper, BlockedWaits, Links, RpSound,
     PrSound, RpKept, ReadySound, PCs, States, Blocked, SleepNote
<1>5. ASSUME NEW p \in Proc, SleepCancel(p)
      PROVE  Control'
  BY <1>5 DEF RlkHeld, PlkHeld, OneSleeper, BlockedWaits, Links, RpSound,
     PrSound, RpKept, ReadySound, PCs, States, Blocked, SleepCancel
<1>6. ASSUME NEW p \in Proc, SleepCommit(p)
      PROVE  Control'
  BY <1>6 DEF RlkHeld, PlkHeld, OneSleeper, BlockedWaits, Links, RpSound,
     PrSound, RpKept, ReadySound, PCs, States, Blocked, SleepCommit
<1>7. ASSUME NEW p \in Proc, SleepUnlock(p)
      PROVE  Control'
  BY <1>7 DEF RlkHeld, PlkHeld, OneSleeper, BlockedWaits, Links, RpSound,
     PrSound, RpKept, ReadySound, PCs, States, Blocked, SleepUnlock
<1>8. ASSUME NEW p \in Proc, Schedule(p)
      PROVE  Control'
  <2>1. TypeOK'
    <3>1. CASE Switch(p)
      BY <1>8, <3>1 DEF Schedule, Switch, PCs, States
    <3>2. CASE Dispatch(p)
      BY <1>8, <3>2 DEF Schedule, Dispatch, PCs, States
    <3>. QED
      BY <1>8, <3>1, <3>2 DEF Schedule
  <2>2. RlkHeld' /\ PlkHeld'
    BY <1>8 DEF RlkHeld, PlkHeld, Links, RpKept, PrSound, Schedule, Switch,
       Dispatch
  <2>3. LocalsSet' /\ OneSleeper' /\ BlockedWaits'
    BY <1>8 DEF RlkHeld, OneSleeper, BlockedWaits, Links, RpSound, RpKept,
       ReadySound, Schedule, Switch, Dispatch
  <2>. QED
    BY <2>1, <2>2, <2>3 DEF Control
<1>9. ASSUME NEW p \in Proc, SleepResume(p)
      PROVE  Control'
  BY <1>9 DEF RlkHeld, PlkHeld, OneSleeper, BlockedWaits, Links, RpSound,
     PrSound, RpKept, ReadySound, PCs, States, Blocked, SleepResume
<1>10. ASSUME NEW p \in Proc, SleepReturn(p)
      PROVE  Control'
  BY <1>10 DEF RlkHeld, PlkHeld, OneSleeper, BlockedWaits, Links, RpSound,
     PrSound, RpKept, ReadySound, PCs, States, Blocked, SleepReturn
<1>11. ASSUME NEW t \in Thread, NEW r \in Rendez, Signal(t, r)
      PROVE  Control'
  <2>1. TypeOK'
    BY <1>11 DEF PCs, States, Blocked, Signal
  <2>2. RlkHeld' /\ PlkHeld'
    BY <1>11 DEF RlkHeld, PlkHeld, Links, RpKept, PrSound, Signal
  <2>3. LocalsSet' /\ OneSleeper' /\ BlockedWaits'
    BY <1>11 DEF RlkHeld, OneSleeper, BlockedWaits, Links, RpSound, RpKept,
       ReadySound, Signal
  <2>. QED
    BY <2>1, <2>2, <2>3 DEF Control
<1>12. ASSUME NEW p \in Proc, NEW r \in Rendez, Consume(p, r)
      PROVE  Control'
  BY <1>12 DEF RlkHeld, PlkHeld, OneSleeper, BlockedWaits, Links, RpSound,
     PrSound, RpKept, ReadySound, PCs, States, Blocked, Consume
<1>13. ASSUME NEW t \in Thread, WakeNobody(t)
      PROVE  Control'
  BY <1>13 DEF RlkHeld, PlkHeld, OneSleeper, BlockedWaits, Links, RpSound,
     PrSound, RpKept, ReadySound, PCs, States, Blocked, WakeNobody
<1>14. ASSUME NEW t \in Thread, WakeLock(t)
      PROVE  Control'
  BY <1>14 DEF RlkHeld, PlkHeld, OneSleeper, BlockedWaits, Links, RpSound,
     PrSound, RpKept, ReadySound, PCs, States, Blocked, WakeLock
<1>15. ASSUME NEW t \in Thread, WakeLockProc(t)
      PROVE  Control'
  BY <1>15 DEF RlkHeld, PlkHeld, OneSleeper, BlockedWaits, Links, RpSound,
     PrSound, RpKept, ReadySound, PCs, States, Blocked, WakeLockProc
<1>16. ASSUME NEW t \in Thread, WakeUnlink(t)
      PROVE  Control'
  BY <1>16 DEF RlkHeld, PlkHeld, OneSleeper, BlockedWaits, Links, RpSound,
     PrSound, RpKept, ReadySound, PCs, States, Blocked, WakeUnlink, Unlink
<1>17. ASSUME NEW t \in Thread, Ready(t)
      PROVE  Control'
  BY <1>17 DEF RlkHeld, PlkHeld, OneSleeper, BlockedWaits, Links, RpSound,
     PrSound, RpKept, ReadySound, PCs, States, Blocked, Ready, ReadyState,
     Blocked
<1>18. ASSUME NEW p \in Proc, NEW v \in Proc, Interrupt(p, v)
      PROVE  Control'
  BY <1>18 DEF RlkHeld, PlkHeld, OneSleeper, BlockedWaits, Links, RpSound,
     PrSound, RpKept, ReadySound, PCs, States, Blocked, Interrupt
<1>19. ASSUME NEW p \in Proc, InterruptLock(p)
      PROVE  Control'
  BY <1>19 DEF RlkHeld, PlkHeld, OneSleeper, BlockedWaits, Links, RpSound,
     PrSound, RpKept, ReadySound, PCs, States, Blocked, InterruptLock
<1>20. ASSUME NEW p \in Proc, InterruptAwake(p)
      PROVE  Control'
  BY <1>20 DEF RlkHeld, PlkHeld, OneSleeper, BlockedWaits, Links, RpSound,
     PrSound, RpKept, ReadySound, PCs, States, Blocked, InterruptAwake
<1>21. ASSUME NEW p \in Proc, InterruptWake(p)
      PROVE  Control'
  BY <1>21 DEF RlkHeld, PlkHeld, OneSleeper, BlockedWaits, Links, RpSound,
     PrSound, RpKept, ReadySound, PCs, States, Blocked, InterruptWake, Unlink
<1>22. ASSUME NEW p \in Proc, InterruptRetry(p)
      PROVE  Control'
  BY <1>22 DEF RlkHeld, PlkHeld, OneSleeper, BlockedWaits, Links, RpSound,
     PrSound, RpKept, ReadySound, PCs, States, Blocked, InterruptRetry
<1>23. ASSUME NEW p \in Proc, Popnote(p)
      PROVE  Control'
  BY <1>23 DEF RlkHeld, PlkHeld, OneSleeper, BlockedWaits, Links, RpSound,
     PrSound, RpKept, ReadySound, PCs, States, Blocked, Popnote
<1>24. CASE UNCHANGED vars
  BY <1>24 DEF RlkHeld, PlkHeld, OneSleeper, BlockedWaits, Links, RpSound,
     PrSound, RpKept, ReadySound, PCs, States, Blocked, vars
<1>. QED
  BY <1>1, <1>2, <1>3, <1>4, <1>5, <1>6, <1>7, <1>8, <1>9, <1>10, <1>11,
     <1>12, <1>13, <1>14, <1>15, <1>16, <1>17, <1>18, <1>19, <1>20, <1>21, <1>22,
     <1>23, <1>24 DEF Next, Spin, Steps

\* No step breaks a link: r->p and p->r change together but for the process that
\* is at work in sleep() under both locks, and who is unlinked is readied once.
LEMMA LinksStep ==
  ASSUME Control, Links, [Next]_vars
  PROVE  Links'
<1> USE NilAssumption, SleepAssumption
    DEF Thread, At, Runs, Goto, LockR, LockP, procVars, lockVars, linkVars,
       ctlVars, OwnR, OwnP, SleepPCs, WakePCs, IntrPCs, Control, TypeOK,
       ProcTypeOK, LocalsSet
<1>1. ASSUME NEW p \in Proc, NEW r \in Rendez, SleepEnter(p, r)
      PROVE  Links'
  BY <1>1 DEF RlkHeld, PlkHeld, OneSleeper, BlockedWaits, Links, RpSound,
     PrSound, RpKept, ReadySound, SleeperFound, SleepEnter
<1>2. ASSUME NEW p \in Proc, SleepPublish(p)
      PROVE  Links'
  BY <1>2 DEF RlkHeld, PlkHeld, OneSleeper, BlockedWaits, Links, RpSound,
     PrSound, RpKept, ReadySound, SleeperFound, SleepPublish
<1>3. ASSUME NEW p \in Proc, SleepCond(p, Condition(p))
      PROVE  Links'
  BY <1>3 DEF RlkHeld, PlkHeld, OneSleeper, BlockedWaits, Links, RpSound,
     PrSound, RpKept, ReadySound, SleeperFound, SleepCond, Condition
<1>4. ASSUME NEW p \in Proc, SleepNote(p)
      PROVE  Links'
  BY <1>4 DEF RlkHeld, PlkHeld, OneSleeper, BlockedWaits, Links, RpSound,
     PrSound, RpKept, ReadySound, SleeperFound, SleepNote
<1>5. ASSUME NEW p \in Proc, SleepCancel(p)
      PROVE  Links'
  BY <1>5 DEF RlkHeld, PlkHeld, OneSleeper, BlockedWaits, Links, RpSound,
     PrSound, RpKept, ReadySound, SleeperFound, SleepCancel
<1>6. ASSUME NEW p \in Proc, SleepCommit(p)
      PROVE  Links'
  <2>1. RpSound' /\ PrSound' /\ RpKept'
    BY <1>6 DEF RlkHeld, PlkHeld, OneSleeper, BlockedWaits, Links, RpSound,
       PrSound, RpKept, ReadySound, SleepCommit
  <2>2. ReadySound'
    BY <1>6 DEF RlkHeld, PlkHeld, OneSleeper, BlockedWaits, Links, RpSound,
       PrSound, RpKept, ReadySound, SleepCommit
  <2>3. SleeperFound'
    BY <1>6 DEF RlkHeld, PlkHeld, OneSleeper, BlockedWaits, Links, RpSound,
       PrSound, RpKept, ReadySound, SleeperFound, SleepCommit
  <2>. QED
    BY <2>1, <2>2, <2>3 DEF Links
<1>7. ASSUME NEW p \in Proc, SleepUnlock(p)
      PROVE  Links'
  BY <1>7 DEF RlkHeld, PlkHeld, OneSleeper, BlockedWaits, Links, RpSound,
     PrSound, RpKept, ReadySound, SleeperFound, SleepUnlock
<1>8. ASSUME NEW p \in Proc, Schedule(p)
      PROVE  Links'
  BY <1>8 DEF RlkHeld, PlkHeld, OneSleeper, BlockedWaits, Links, RpSound,
     PrSound, RpKept, ReadySound, SleeperFound, Schedule, Switch, Dispatch
<1>9. ASSUME NEW p \in Proc, SleepResume(p)
      PROVE  Links'
  BY <1>9 DEF RlkHeld, PlkHeld, OneSleeper, BlockedWaits, Links, RpSound,
     PrSound, RpKept, ReadySound, SleeperFound, SleepResume
<1>10. ASSUME NEW p \in Proc, SleepReturn(p)
      PROVE  Links'
  BY <1>10 DEF RlkHeld, PlkHeld, OneSleeper, BlockedWaits, Links, RpSound,
     PrSound, RpKept, ReadySound, SleeperFound, SleepReturn
<1>11. ASSUME NEW t \in Thread, NEW r \in Rendez, Signal(t, r)
      PROVE  Links'
  BY <1>11 DEF RlkHeld, PlkHeld, OneSleeper, BlockedWaits, Links, RpSound,
     PrSound, RpKept, ReadySound, SleeperFound, Signal
<1>12. ASSUME NEW p \in Proc, NEW r \in Rendez, Consume(p, r)
      PROVE  Links'
  BY <1>12 DEF RlkHeld, PlkHeld, OneSleeper, BlockedWaits, Links, RpSound,
     PrSound, RpKept, ReadySound, SleeperFound, Consume
<1>13. ASSUME NEW t \in Thread, WakeNobody(t)
      PROVE  Links'
  BY <1>13 DEF RlkHeld, PlkHeld, OneSleeper, BlockedWaits, Links, RpSound,
     PrSound, RpKept, ReadySound, SleeperFound, WakeNobody
<1>14. ASSUME NEW t \in Thread, WakeLock(t)
      PROVE  Links'
  BY <1>14 DEF RlkHeld, PlkHeld, OneSleeper, BlockedWaits, Links, RpSound,
     PrSound, RpKept, ReadySound, SleeperFound, WakeLock
<1>15. ASSUME NEW t \in Thread, WakeLockProc(t)
      PROVE  Links'
  <2>1. RpSound' /\ PrSound' /\ RpKept'
    BY <1>15 DEF RlkHeld, PlkHeld, OneSleeper, BlockedWaits, Links, RpSound,
       PrSound, RpKept, ReadySound, WakeLockProc
  <2>2. ReadySound'
    BY <1>15 DEF RlkHeld, PlkHeld, OneSleeper, BlockedWaits, Links, RpSound,
       PrSound, RpKept, ReadySound, WakeLockProc
  <2>3. SleeperFound'
    BY <1>15 DEF RlkHeld, PlkHeld, OneSleeper, BlockedWaits, Links, RpSound,
       PrSound, RpKept, ReadySound, SleeperFound, WakeLockProc
  <2>. QED
    BY <2>1, <2>2, <2>3 DEF Links
<1>16. ASSUME NEW t \in Thread, WakeUnlink(t)
      PROVE  Links'
  <2>1. RpSound' /\ PrSound' /\ RpKept'
    BY <1>16 DEF RlkHeld, PlkHeld, OneSleeper, BlockedWaits, Links, RpSound,
       PrSound, RpKept, ReadySound, WakeUnlink, Unlink
  <2>2. ReadySound'
    BY <1>16 DEF RlkHeld, PlkHeld, OneSleeper, BlockedWaits, Links, RpSound,
       PrSound, RpKept, ReadySound, WakeUnlink, Unlink
  <2>3. SleeperFound'
    BY <1>16 DEF RlkHeld, PlkHeld, OneSleeper, BlockedWaits, Links, RpSound,
       PrSound, RpKept, ReadySound, SleeperFound, WakeUnlink, Unlink
  <2>. QED
    BY <2>1, <2>2, <2>3 DEF Links
<1>17. ASSUME NEW t \in Thread, Ready(t)
      PROVE  Links'
  <2>1. RpSound' /\ PrSound' /\ RpKept'
    BY <1>17 DEF RlkHeld, PlkHeld, OneSleeper, BlockedWaits, Links, RpSound,
       PrSound, RpKept, ReadySound, Ready, ReadyState, Blocked
  <2>2. ReadySound'
    BY <1>17 DEF RlkHeld, PlkHeld, OneSleeper, BlockedWaits, Links, RpSound,
       PrSound, RpKept, ReadySound, Ready, ReadyState, Blocked
  <2>3. SleeperFound'
    BY <1>17 DEF RlkHeld, PlkHeld, OneSleeper, BlockedWaits, Links, RpSound,
       PrSound, RpKept, ReadySound, SleeperFound, Ready, ReadyState, Blocked
  <2>. QED
    BY <2>1, <2>2, <2>3 DEF Links
<1>18. ASSUME NEW p \in Proc, NEW v \in Proc, Interrupt(p, v)
      PROVE  Links'
  BY <1>18 DEF RlkHeld, PlkHeld, OneSleeper, BlockedWaits, Links, RpSound,
     PrSound, RpKept, ReadySound, SleeperFound, Interrupt
<1>19. ASSUME NEW p \in Proc, InterruptLock(p)
      PROVE  Links'
  BY <1>19 DEF RlkHeld, PlkHeld, OneSleeper, BlockedWaits, Links, RpSound,
     PrSound, RpKept, ReadySound, SleeperFound, InterruptLock
<1>20. ASSUME NEW p \in Proc, InterruptAwake(p)
      PROVE  Links'
  <2>1. RpSound' /\ PrSound' /\ RpKept'
    BY <1>20 DEF RlkHeld, PlkHeld, OneSleeper, BlockedWaits, Links, RpSound,
       PrSound, RpKept, ReadySound, InterruptAwake
  <2>2. ReadySound'
    BY <1>20 DEF RlkHeld, PlkHeld, OneSleeper, BlockedWaits, Links, RpSound,
       PrSound, RpKept, ReadySound, InterruptAwake
  <2>3. SleeperFound'
    BY <1>20 DEF RlkHeld, PlkHeld, OneSleeper, BlockedWaits, Links, RpSound,
       PrSound, RpKept, ReadySound, SleeperFound, InterruptAwake
  <2>. QED
    BY <2>1, <2>2, <2>3 DEF Links
<1>21. ASSUME NEW p \in Proc, InterruptWake(p)
      PROVE  Links'
  <2>1. RpSound' /\ PrSound' /\ RpKept'
    BY <1>21 DEF RlkHeld, PlkHeld, OneSleeper, BlockedWaits, Links, RpSound,
       PrSound, RpKept, ReadySound, InterruptWake, Unlink
  <2>2. ReadySound'
    BY <1>21 DEF RlkHeld, PlkHeld, OneSleeper, BlockedWaits, Links, RpSound,
       PrSound, RpKept, ReadySound, InterruptWake, Unlink
  <2>3. SleeperFound'
    BY <1>21 DEF RlkHeld, PlkHeld, OneSleeper, BlockedWaits, Links, RpSound,
       PrSound, RpKept, ReadySound, SleeperFound, InterruptWake, Unlink
  <2>. QED
    BY <2>1, <2>2, <2>3 DEF Links
<1>22. ASSUME NEW p \in Proc, InterruptRetry(p)
      PROVE  Links'
  BY <1>22 DEF RlkHeld, PlkHeld, OneSleeper, BlockedWaits, Links, RpSound,
     PrSound, RpKept, ReadySound, SleeperFound, InterruptRetry
<1>23. ASSUME NEW p \in Proc, Popnote(p)
      PROVE  Links'
  BY <1>23 DEF RlkHeld, PlkHeld, OneSleeper, BlockedWaits, Links, RpSound,
     PrSound, RpKept, ReadySound, SleeperFound, Popnote
<1>24. CASE UNCHANGED vars
  BY <1>24 DEF RlkHeld, PlkHeld, OneSleeper, BlockedWaits, Links, RpSound,
     PrSound, RpKept, ReadySound, SleeperFound, vars
<1>. QED
  BY <1>1, <1>2, <1>3, <1>4, <1>5, <1>6, <1>7, <1>8, <1>9, <1>10, <1>11,
     <1>12, <1>13, <1>14, <1>15, <1>16, <1>17, <1>18, <1>19, <1>20, <1>21, <1>22,
     <1>23, <1>24 DEF Next, Spin, Steps

\* No step loses a wakeup or a note.
LEMMA EventsStep ==
  ASSUME Control, Links, Events, [Next]_vars
  PROVE  Events'
<1> USE NilAssumption, SleepAssumption
    DEF Thread, At, Runs, Goto, LockR, LockP, procVars, lockVars, linkVars,
       ctlVars, OwnR, OwnP, SleepPCs, WakePCs, IntrPCs, Control, TypeOK,
       ProcTypeOK, LocalsSet
<1>1. ASSUME NEW p \in Proc, NEW r \in Rendez, SleepEnter(p, r)
      PROVE  Events'
  BY <1>1 DEF RlkHeld, PlkHeld, OneSleeper, Links, RpSound, PrSound, RpKept,
     Events, CondTested, NoteTested, WakeupNotLost, NoteNotLost, SleepEnter
<1>2. ASSUME NEW p \in Proc, SleepPublish(p)
      PROVE  Events'
  <2>1. CondTested'
    BY <1>2 DEF RlkHeld, OneSleeper, Links, RpKept, Events, CondTested,
       SleepPublish
  <2>2. NoteTested'
    BY <1>2 DEF PlkHeld, Events, NoteTested, SleepPublish
  <2>3. WakeupNotLost'
    BY <1>2 DEF RlkHeld, Links, RpSound, PrSound, RpKept, Events, CondTested,
       WakeupNotLost, SleepPublish
  <2>4. NoteNotLost'
    BY <1>2 DEF PlkHeld, Links, PrSound, Events, NoteTested, NoteNotLost,
       SleepPublish
  <2>. QED
    BY <2>1, <2>2, <2>3, <2>4 DEF Events
<1>3. ASSUME NEW p \in Proc, SleepCond(p, Condition(p))
      PROVE  Events'
  BY <1>3 DEF RlkHeld, PlkHeld, OneSleeper, Links, RpSound, PrSound, RpKept,
     Events, CondTested, NoteTested, WakeupNotLost, NoteNotLost, SleepCond,
     Condition
<1>4. ASSUME NEW p \in Proc, SleepNote(p)
      PROVE  Events'
  BY <1>4 DEF RlkHeld, PlkHeld, OneSleeper, Links, RpSound, PrSound, RpKept,
     Events, CondTested, NoteTested, WakeupNotLost, NoteNotLost, SleepNote
<1>5. ASSUME NEW p \in Proc, SleepCancel(p)
      PROVE  Events'
  <2>1. CondTested'
    BY <1>5 DEF RlkHeld, OneSleeper, Links, RpKept, Events, CondTested,
       SleepCancel
  <2>2. NoteTested'
    BY <1>5 DEF PlkHeld, Events, NoteTested, SleepCancel
  <2>3. WakeupNotLost'
    BY <1>5 DEF RlkHeld, Links, RpSound, PrSound, RpKept, Events, CondTested,
       WakeupNotLost, SleepCancel
  <2>4. NoteNotLost'
    BY <1>5 DEF PlkHeld, Links, PrSound, Events, NoteTested, NoteNotLost,
       SleepCancel
  <2>. QED
    BY <2>1, <2>2, <2>3, <2>4 DEF Events
<1>6. ASSUME NEW p \in Proc, SleepCommit(p)
      PROVE  Events'
  <2>1. CondTested'
    BY <1>6 DEF RlkHeld, OneSleeper, Links, RpKept, Events, CondTested,
       SleepCommit
  <2>2. NoteTested'
    BY <1>6 DEF PlkHeld, Events, NoteTested, SleepCommit
  <2>3. WakeupNotLost'
    BY <1>6 DEF RlkHeld, Links, RpSound, PrSound, RpKept, Events, CondTested,
       WakeupNotLost, SleepCommit
  <2>4. NoteNotLost'
    BY <1>6 DEF PlkHeld, Links, PrSound, Events, NoteTested, NoteNotLost,
       SleepCommit
  <2>. QED
    BY <2>1, <2>2, <2>3, <2>4 DEF Events
<1>7. ASSUME NEW p \in Proc, SleepUnlock(p)
      PROVE  Events'
  BY <1>7 DEF RlkHeld, PlkHeld, OneSleeper, Links, RpSound, PrSound, RpKept,
     Events, CondTested, NoteTested, WakeupNotLost, NoteNotLost, SleepUnlock
<1>8. ASSUME NEW p \in Proc, Schedule(p)
      PROVE  Events'
  BY <1>8 DEF RlkHeld, PlkHeld, OneSleeper, Links, RpSound, PrSound, RpKept,
     Events, CondTested, NoteTested, WakeupNotLost, NoteNotLost, Schedule,
     Switch, Dispatch
<1>9. ASSUME NEW p \in Proc, SleepResume(p)
      PROVE  Events'
  BY <1>9 DEF RlkHeld, PlkHeld, OneSleeper, Links, RpSound, PrSound, RpKept,
     Events, CondTested, NoteTested, WakeupNotLost, NoteNotLost, SleepResume
<1>10. ASSUME NEW p \in Proc, SleepReturn(p)
      PROVE  Events'
  BY <1>10 DEF RlkHeld, PlkHeld, OneSleeper, Links, RpSound, PrSound, RpKept,
     Events, CondTested, NoteTested, WakeupNotLost, NoteNotLost, SleepReturn
<1>11. ASSUME NEW t \in Thread, NEW r \in Rendez, Signal(t, r)
      PROVE  Events'
  <2>1. CondTested'
    BY <1>11 DEF RlkHeld, OneSleeper, Links, RpKept, Events, CondTested,
       Signal
  <2>2. NoteTested'
    BY <1>11 DEF PlkHeld, Events, NoteTested, Signal
  <2>3. WakeupNotLost'
    BY <1>11 DEF RlkHeld, Links, RpSound, PrSound, RpKept, Events, CondTested,
       WakeupNotLost, Signal
  <2>4. NoteNotLost'
    BY <1>11 DEF PlkHeld, Links, PrSound, Events, NoteTested, NoteNotLost,
       Signal
  <2>. QED
    BY <2>1, <2>2, <2>3, <2>4 DEF Events
<1>12. ASSUME NEW p \in Proc, NEW r \in Rendez, Consume(p, r)
      PROVE  Events'
  BY <1>12 DEF RlkHeld, PlkHeld, OneSleeper, Links, RpSound, PrSound, RpKept,
     Events, CondTested, NoteTested, WakeupNotLost, NoteNotLost, Consume
<1>13. ASSUME NEW t \in Thread, WakeNobody(t)
      PROVE  Events'
  <2>1. CondTested'
    BY <1>13 DEF RlkHeld, OneSleeper, Links, RpKept, Events, CondTested,
       WakeNobody
  <2>2. NoteTested'
    BY <1>13 DEF PlkHeld, Events, NoteTested, WakeNobody
  <2>3. WakeupNotLost'
    BY <1>13 DEF RlkHeld, Links, RpSound, PrSound, RpKept, Events, CondTested,
       WakeupNotLost, WakeNobody
  <2>4. NoteNotLost'
    BY <1>13 DEF PlkHeld, Links, PrSound, Events, NoteTested, NoteNotLost,
       WakeNobody
  <2>. QED
    BY <2>1, <2>2, <2>3, <2>4 DEF Events
<1>14. ASSUME NEW t \in Thread, WakeLock(t)
      PROVE  Events'
  BY <1>14 DEF RlkHeld, PlkHeld, OneSleeper, Links, RpSound, PrSound, RpKept,
     Events, CondTested, NoteTested, WakeupNotLost, NoteNotLost, WakeLock
<1>15. ASSUME NEW t \in Thread, WakeLockProc(t)
      PROVE  Events'
  <2>1. CondTested'
    BY <1>15 DEF RlkHeld, OneSleeper, Links, RpKept, Events, CondTested,
       WakeLockProc
  <2>2. NoteTested'
    BY <1>15 DEF PlkHeld, Events, NoteTested, WakeLockProc
  <2>3. WakeupNotLost'
    BY <1>15 DEF RlkHeld, Links, RpSound, PrSound, RpKept, Events, CondTested,
       WakeupNotLost, WakeLockProc
  <2>4. NoteNotLost'
    BY <1>15 DEF PlkHeld, Links, PrSound, Events, NoteTested, NoteNotLost,
       WakeLockProc
  <2>. QED
    BY <2>1, <2>2, <2>3, <2>4 DEF Events
<1>16. ASSUME NEW t \in Thread, WakeUnlink(t)
      PROVE  Events'
  <2>1. CondTested'
    BY <1>16 DEF RlkHeld, OneSleeper, Links, RpKept, Events, CondTested,
       WakeUnlink, Unlink
  <2>2. NoteTested'
    BY <1>16 DEF PlkHeld, Events, NoteTested, WakeUnlink, Unlink
  <2>3. WakeupNotLost'
    BY <1>16 DEF RlkHeld, Links, RpSound, PrSound, RpKept, Events, CondTested,
       WakeupNotLost, WakeUnlink, Unlink
  <2>4. NoteNotLost'
    BY <1>16 DEF PlkHeld, Links, PrSound, Events, NoteTested, NoteNotLost,
       WakeUnlink, Unlink
  <2>. QED
    BY <2>1, <2>2, <2>3, <2>4 DEF Events
<1>17. ASSUME NEW t \in Thread, Ready(t)
      PROVE  Events'
  BY <1>17 DEF RlkHeld, PlkHeld, OneSleeper, Links, RpSound, PrSound, RpKept,
     Events, CondTested, NoteTested, WakeupNotLost, NoteNotLost, Ready,
     ReadyState, Blocked
<1>18. ASSUME NEW p \in Proc, NEW v \in Proc, Interrupt(p, v)
      PROVE  Events'
  BY <1>18 DEF RlkHeld, PlkHeld, OneSleeper, Links, RpSound, PrSound, RpKept,
     Events, CondTested, NoteTested, WakeupNotLost, NoteNotLost, Interrupt
<1>19. ASSUME NEW p \in Proc, InterruptLock(p)
      PROVE  Events'
  <2>1. CondTested'
    BY <1>19 DEF RlkHeld, OneSleeper, Links, RpKept, Events, CondTested,
       InterruptLock
  <2>2. NoteTested'
    BY <1>19 DEF PlkHeld, Events, NoteTested, InterruptLock
  <2>3. WakeupNotLost'
    BY <1>19 DEF RlkHeld, Links, RpSound, PrSound, RpKept, Events, CondTested,
       WakeupNotLost, InterruptLock
  <2>4. NoteNotLost'
    BY <1>19 DEF PlkHeld, Links, PrSound, Events, NoteTested, NoteNotLost,
       InterruptLock
  <2>. QED
    BY <2>1, <2>2, <2>3, <2>4 DEF Events
<1>20. ASSUME NEW p \in Proc, InterruptAwake(p)
      PROVE  Events'
  <2>1. CondTested'
    BY <1>20 DEF RlkHeld, OneSleeper, Links, RpKept, Events, CondTested,
       InterruptAwake
  <2>2. NoteTested'
    BY <1>20 DEF PlkHeld, Events, NoteTested, InterruptAwake
  <2>3. WakeupNotLost'
    BY <1>20 DEF RlkHeld, Links, RpSound, PrSound, RpKept, Events, CondTested,
       WakeupNotLost, InterruptAwake
  <2>4. NoteNotLost'
    BY <1>20 DEF PlkHeld, Links, PrSound, Events, NoteTested, NoteNotLost,
       InterruptAwake
  <2>. QED
    BY <2>1, <2>2, <2>3, <2>4 DEF Events
<1>21. ASSUME NEW p \in Proc, InterruptWake(p)
      PROVE  Events'
  <2>1. CondTested'
    BY <1>21 DEF RlkHeld, OneSleeper, Links, RpKept, Events, CondTested,
       InterruptWake, Unlink
  <2>2. NoteTested'
    BY <1>21 DEF PlkHeld, Events, NoteTested, InterruptWake, Unlink
  <2>3. WakeupNotLost'
    BY <1>21 DEF RlkHeld, Links, RpSound, PrSound, RpKept, Events, CondTested,
       WakeupNotLost, InterruptWake, Unlink
  <2>4. NoteNotLost'
    BY <1>21 DEF PlkHeld, Links, PrSound, Events, NoteTested, NoteNotLost,
       InterruptWake, Unlink
  <2>. QED
    BY <2>1, <2>2, <2>3, <2>4 DEF Events
<1>22. ASSUME NEW p \in Proc, InterruptRetry(p)
      PROVE  Events'
  <2>1. CondTested'
    BY <1>22 DEF RlkHeld, OneSleeper, Links, RpKept, Events, CondTested,
       InterruptRetry
  <2>2. NoteTested'
    BY <1>22 DEF PlkHeld, Events, NoteTested, InterruptRetry
  <2>3. WakeupNotLost'
    BY <1>22 DEF RlkHeld, Links, RpSound, PrSound, RpKept, Events, CondTested,
       WakeupNotLost, InterruptRetry
  <2>4. NoteNotLost'
    BY <1>22 DEF PlkHeld, Links, PrSound, Events, NoteTested, NoteNotLost,
       InterruptRetry
  <2>. QED
    BY <2>1, <2>2, <2>3, <2>4 DEF Events
<1>23. ASSUME NEW p \in Proc, Popnote(p)
      PROVE  Events'
  BY <1>23 DEF RlkHeld, PlkHeld, OneSleeper, Links, RpSound, PrSound, RpKept,
     Events, CondTested, NoteTested, WakeupNotLost, NoteNotLost, Popnote
<1>24. CASE UNCHANGED vars
  BY <1>24 DEF RlkHeld, PlkHeld, OneSleeper, Links, RpSound, PrSound, RpKept,
     Events, CondTested, NoteTested, WakeupNotLost, NoteNotLost, vars
<1>. QED
  BY <1>1, <1>2, <1>3, <1>4, <1>5, <1>6, <1>7, <1>8, <1>9, <1>10, <1>11,
     <1>12, <1>13, <1>14, <1>15, <1>16, <1>17, <1>18, <1>19, <1>20, <1>21, <1>22,
     <1>23, <1>24 DEF Next, Spin, Steps
-----------------------------------------------------------------------------
\* The inductive invariant holds when nothing has happened yet.
LEMMA InitInv == Init => Inv
<1> SUFFICES ASSUME Init
             PROVE  Inv
  OBVIOUS
<1> USE NilAssumption, SleepAssumption DEF Init, ProcInit, Thread
<1>1. TypeOK
  BY DEF TypeOK, ProcTypeOK, States, PCs
<1>2. RlkHeld /\ PlkHeld /\ LocalsSet /\ OneSleeper /\ BlockedWaits
  BY DEF RlkHeld, PlkHeld, LocalsSet, OneSleeper, BlockedWaits, OwnR, OwnP,
         SleepPCs, WakePCs, IntrPCs
<1>3. Links
  BY DEF Links, RpSound, PrSound, RpKept, ReadySound, SleeperFound, OwnP
<1>4. Events
  BY DEF Events, CondTested, NoteTested, WakeupNotLost, NoteNotLost
<1>. QED
  BY <1>1, <1>2, <1>3, <1>4 DEF Inv, Control

\* The inductive invariant holds in every reachable state: its three layers are
\* preserved one upon the other.
THEOREM Safety == Spec => []Inv
<1>1. Inv /\ [Next]_vars => Inv'
  BY ControlStep, LinksStep, EventsStep DEF Inv
<1>. QED
  BY InitInv, <1>1, PTL DEF Spec
-----------------------------------------------------------------------------
\* Whoever holds the lock of r, or nobody, sees r->p and p->r agree: the process
\* r->p names is at work under that lock or sleeps on r.
LEMMA LinksAgreeLemma ==
  ASSUME Control, Links
  PROVE  LinksAgree /\ NoPanic
<1> USE NilAssumption, SleepAssumption
    DEF Thread, Control, TypeOK, ProcTypeOK, LocalsSet, RlkHeld, OwnR, OwnP,
        SleepPCs, WakePCs, IntrPCs, Links, RpSound, PrSound, RpKept
<1>1. LinksAgree
  BY DEF LinksAgree
<1>2. NoPanic
  BY DEF NoPanic
<1>. QED
  BY <1>1, <1>2

\* Exactly one thread readies a sleeper that has been unlinked.
LEMMA ReadiedOnceLemma ==
  ASSUME Control, Links
  PROVE  ReadiedOnce
<1>1. ASSUME NEW p \in Proc, state[p] = "Wakeme", pr[p] = Nil
      PROVE  Cardinality({t \in Thread : pc[t] = "ready" /\ who[t] = p}) = 1
  <2>1. PICK k \in Thread : pc[k] = "ready" /\ who[k] = p
    BY <1>1 DEF Links, SleeperFound
  <2>2. {t \in Thread : pc[t] = "ready" /\ who[t] = p} = {k}
    BY <2>1 DEF Links, ReadySound
  <2>. QED
    BY <2>2, FS_Singleton
<1>. QED
  BY <1>1 DEF ReadiedOnce, Links, ReadySound

\* sleep(), wakeup() and procinterrupt() of port/proc.c keep r->p and p->r
\* consistent under their two locks, meet neither the panic of wakeup() nor that
\* of procinterrupt(), and ready each sleeper once, for any number of processes,
\* handlers and Rendez.
THEOREM StaysConsistent == Spec => []Consistent
<1>1. Inv => Consistent
  BY LinksAgreeLemma, ReadiedOnceLemma DEF Inv, Control, Consistent
<1>. QED
  BY Safety, <1>1, PTL

\* No wakeup() of port/proc.c is lost: who sleeps on a condition that has become
\* true is about to be woken.
THEOREM NoLostWakeup == Spec => []WakeupNotLost
<1>1. Inv => WakeupNotLost
  BY DEF Inv, Events
<1>. QED
  BY Safety, <1>1, PTL

\* No note is lost: who sleeps with a note pending is about to be interrupted by
\* the procinterrupt() that posted it.
THEOREM NoLostNote == Spec => []NoteNotLost
<1>1. Inv => NoteNotLost
  BY DEF Inv, Events
<1>. QED
  BY Safety, <1>1, PTL
=============================================================================
