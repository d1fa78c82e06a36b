-------------------------------- MODULE Sleep --------------------------------
(*****************************************************************************)
(* sleep() and wakeup() on a Rendez, and the part of procinterrupt() that    *)
(* pulls a process out of a sleep(): port/proc.c on several processors.      *)
(*                                                                           *)
(* sleep() and wakeup() take the lock of the Rendez and then p->rlock;       *)
(* procinterrupt() starts from p and must take them the other way round, so  *)
(* it only tries the second one and starts again when that fails.  What is   *)
(* read or written under both locks is one step; the condition is evaluated, *)
(* p->notepending is read and p->state is stored in steps of their own,      *)
(* because others set them without these locks.                              *)
(*                                                                           *)
(* wakeup() runs in processes and in interrupt handlers (Intr).  sleep()     *)
(* raises the processor's priority until it has switched away, so a handler  *)
(* only interleaves with it as another processor does.  Two processes do not *)
(* sleep on one Rendez at the same time: their callers hold a qlock.         *)
(*****************************************************************************)
EXTENDS Naturals, FiniteSets, ProcState

CONSTANTS Rendez,   \* the Rendez structures
          Intr      \* processors running an interrupt handler

ASSUME SleepAssumption == /\ Nil \notin Rendez \cup Intr
                          /\ Intr \cap Proc = {}

Thread == Proc \cup Intr

VARIABLES rlk,          \* r->Lock: the thread that holds it, or Nil
          plk,          \* p->rlock: the thread that holds it, or Nil
          rp,           \* r->p
          pr,           \* p->r
          notepending,  \* p->notepending
          cond,         \* what f(arg) of the sleepers on r evaluates to
          pc,           \* where a thread is
          rd,           \* the Rendez a thread works on
          who           \* the process wakeup() or procinterrupt() is about

lockVars == <<rlk, plk>>
linkVars == <<rp, pr>>
ctlVars  == <<pc, rd, who>>
vars == <<procVars, lockVars, linkVars, notepending, cond, ctlVars>>

\* From lock(r) in sleep() until its return, in this order.
SleepPCs == {"sllock", "slcond", "slnote", "slcancel", "slcommit", "slunlock",
             "slwait", "slret"}

WakePCs == {"wk", "wkproc", "wkboth"}
IntrPCs == {"intr", "intrcheck"}
PCs == SleepPCs \cup WakePCs \cup IntrPCs \cup {"idle", "ready"}

Init == /\ ProcInit
        /\ rlk = [r \in Rendez |-> Nil]
        /\ plk = [p \in Proc |-> Nil]
        /\ rp = [r \in Rendez |-> Nil]
        /\ pr = [p \in Proc |-> Nil]
        /\ notepending = [p \in Proc |-> FALSE]
        /\ cond = [r \in Rendez |-> FALSE]
        /\ pc = [t \in Thread |-> "idle"]
        /\ rd = [t \in Thread |-> Nil]
        /\ who = [t \in Thread |-> Nil]
-----------------------------------------------------------------------------
\* Interrupt handlers always run; a process runs until sleep() has switched.
At(t, from) == pc[t] = from /\ (t \in Proc /\ from # "slunlock" => Runs(t))
Goto(t, to) == pc' = [pc EXCEPT ![t] = to]

LockR(t, r) == rlk[r] = Nil /\ rlk' = [rlk EXCEPT ![r] = t]
LockP(t, p) == plk[p] = Nil /\ plk' = [plk EXCEPT ![p] = t]

\* sleep(r, f, arg) of p up to lock(r).
SleepEnter(p, r) == /\ At(p, "idle")
                    /\ \A k \in Proc : pc[k] \in SleepPCs => rd[k] # r
                    /\ LockR(p, r)
                    /\ rd' = [rd EXCEPT ![p] = r]
                    /\ Goto(p, "sllock")
                    /\ UNCHANGED <<procVars, plk, linkVars, notepending, cond, who>>

\* lock(&up->rlock); r->p = up.
SleepPublish(p) == /\ At(p, "sllock")
                   /\ LockP(p, p)
                   /\ rp' = [rp EXCEPT ![rd[p]] = p]
                   /\ Goto(p, "slcond")
                   /\ UNCHANGED <<procVars, rlk, pr, notepending, cond, rd, who>>

\* (*f)(arg), whose value is c.
SleepCond(p, c) == /\ At(p, "slcond")
                   /\ Goto(p, IF c THEN "slcancel" ELSE "slnote")
                   /\ UNCHANGED <<procVars, lockVars, linkVars, notepending, cond, rd, who>>

\* Mutant: a pending note is not looked for.
SleepNote_Ignored(p) == /\ At(p, "slnote")
                        /\ Goto(p, "slcommit")
                        /\ UNCHANGED <<procVars, lockVars, linkVars, notepending, cond, rd, who>>

\* || up->notepending
SleepNote(p) == /\ At(p, "slnote")
                /\ Goto(p, IF notepending[p] THEN "slcancel" ELSE "slcommit")
                /\ UNCHANGED <<procVars, lockVars, linkVars, notepending, cond, rd, who>>

\* Never mind.
SleepCancel(p) == /\ At(p, "slcancel")
                  /\ rp' = [rp EXCEPT ![rd[p]] = Nil]
                  /\ rlk' = [rlk EXCEPT ![rd[p]] = Nil]
                  /\ plk' = [plk EXCEPT ![p] = Nil]
                  /\ Goto(p, "slret")
                  /\ UNCHANGED <<procVars, pr, notepending, cond, rd, who>>

\* up->state = Wakeme; up->r = r; unlock(&up->rlock).
SleepCommit(p) == /\ At(p, "slcommit")
                  /\ state' = [state EXCEPT ![p] = "Wakeme"]
                  /\ pr' = [pr EXCEPT ![p] = rd[p]]
                  /\ plk' = [plk EXCEPT ![p] = Nil]
                  /\ Goto(p, "slunlock")
                  /\ UNCHANGED <<saved, rlk, rp, notepending, cond, rd, who>>

\* unlock(r), and into procswitch().
SleepUnlock(p) == /\ At(p, "slunlock")
                  /\ rlk' = [rlk EXCEPT ![rd[p]] = Nil]
                  /\ Goto(p, "slwait")
                  /\ UNCHANGED <<procVars, plk, linkVars, notepending, cond, rd, who>>

\* procswitch() is on its way: saved by schedinit(), run again by sched().
Schedule(p) == /\ pc[p] = "slwait"
               /\ Switch(p) \/ Dispatch(p)
               /\ UNCHANGED <<lockVars, linkVars, notepending, cond, ctlVars>>

SleepResume(p) == /\ At(p, "slwait")
                  /\ Goto(p, "slret")
                  /\ UNCHANGED <<procVars, lockVars, linkVars, notepending, cond, rd, who>>

\* sleep() returns, or leaves through interrupted() when a note is pending.
SleepReturn(p) == /\ At(p, "slret")
                  /\ notepending' = [notepending EXCEPT ![p] = FALSE]
                  /\ Goto(p, "idle")
                  /\ rd' = [rd EXCEPT ![p] = Nil]
                  /\ UNCHANGED <<procVars, lockVars, linkVars, cond, who>>
-----------------------------------------------------------------------------
\* A thread makes the condition of r true, or finds that it is no business of
\* its to do so, and goes on to call wakeup(r).
Signal(t, r) == /\ At(t, "idle")
                /\ \/ cond' = [cond EXCEPT ![r] = TRUE]
                   \/ UNCHANGED cond
                /\ rd' = [rd EXCEPT ![t] = r]
                /\ Goto(t, "wk")
                /\ UNCHANGED <<procVars, lockVars, linkVars, notepending, who>>

\* The event is consumed, by the sleeper or by somebody else.
Consume(p, r) == /\ At(p, "idle")
                 /\ cond[r]
                 /\ cond' = [cond EXCEPT ![r] = FALSE]
                 /\ UNCHANGED <<procVars, lockVars, linkVars, notepending, ctlVars>>

\* Mutant: wakeup() gives up when the lock of r is taken.
WakeNobody_Busy(t) == /\ At(t, "wk")
                      /\ rlk[rd[t]] # Nil \/ rp[rd[t]] = Nil
                      /\ Goto(t, "idle")
                      /\ rd' = [rd EXCEPT ![t] = Nil]
                      /\ UNCHANGED <<procVars, lockVars, linkVars, notepending, cond, who>>

\* lock(r); p = r->p.  Nobody sleeps: unlock(r), wakeup() returns.
WakeNobody(t) == /\ At(t, "wk")
                 /\ rlk[rd[t]] = Nil
                 /\ rp[rd[t]] = Nil
                 /\ Goto(t, "idle")
                 /\ rd' = [rd EXCEPT ![t] = Nil]
                 /\ UNCHANGED <<procVars, lockVars, linkVars, notepending, cond, who>>

WakeLock(t) == /\ At(t, "wk")
               /\ rp[rd[t]] # Nil
               /\ LockR(t, rd[t])
               /\ who' = [who EXCEPT ![t] = rp[rd[t]]]
               /\ Goto(t, "wkproc")
               /\ UNCHANGED <<procVars, plk, linkVars, notepending, cond, rd>>

\* lock(&p->rlock)
WakeLockProc(t) == /\ At(t, "wkproc")
                   /\ LockP(t, who[t])
                   /\ Goto(t, "wkboth")
                   /\ UNCHANGED <<procVars, rlk, linkVars, notepending, cond, rd, who>>

\* Mutant: p->r is not cleared.
Unlink_Half(t, r, p) == /\ rp' = [rp EXCEPT ![r] = Nil]
                        /\ rlk' = [rlk EXCEPT ![r] = Nil]
                        /\ plk' = [plk EXCEPT ![p] = Nil]
                        /\ Goto(t, "ready")
                        /\ UNCHANGED pr

\* r->p = p->r = nil, and both locks are let go.
Unlink(t, r, p) == /\ rp' = [rp EXCEPT ![r] = Nil]
                   /\ pr' = [pr EXCEPT ![p] = Nil]
                   /\ rlk' = [rlk EXCEPT ![r] = Nil]
                   /\ plk' = [plk EXCEPT ![p] = Nil]
                   /\ Goto(t, "ready")

WakeUnlink(t) == /\ At(t, "wkboth")
                 /\ Unlink(t, rd[t], who[t])
                 /\ rd' = [rd EXCEPT ![t] = Nil]
                 /\ UNCHANGED <<procVars, notepending, cond, who>>

\* Mutant: a sleeper that has not switched away yet is not queued.
Ready_Lost(t) == /\ At(t, "ready")
                 /\ state' = IF saved[who[t]] THEN ReadyState(t, who[t]) ELSE state
                 /\ Goto(t, "idle")
                 /\ who' = [who EXCEPT ![t] = Nil]
                 /\ UNCHANGED <<saved, lockVars, linkVars, notepending, cond, rd>>

\* ready(p), called by wakeup() and procinterrupt() with no lock held.
Ready(t) == /\ At(t, "ready")
            /\ state' = ReadyState(t, who[t])
            /\ Goto(t, "idle")
            /\ who' = [who EXCEPT ![t] = Nil]
            /\ UNCHANGED <<saved, lockVars, linkVars, notepending, cond, rd>>
-----------------------------------------------------------------------------
\* procinterrupt(v), called by p.
Interrupt(p, v) == /\ At(p, "idle")
                   /\ notepending' = [notepending EXCEPT ![v] = TRUE]
                   /\ who' = [who EXCEPT ![p] = v]
                   /\ Goto(p, "intr")
                   /\ UNCHANGED <<procVars, lockVars, linkVars, cond, rd>>

\* lock(&v->rlock)
InterruptLock(p) == /\ At(p, "intr")
                    /\ LockP(p, who[p])
                    /\ Goto(p, "intrcheck")
                    /\ UNCHANGED <<procVars, rlk, linkVars, notepending, cond, rd, who>>

\* v->r == nil: v waits for no wakeup.
InterruptAwake(p) == /\ At(p, "intrcheck")
                     /\ pr[who[p]] = Nil
                     /\ plk' = [plk EXCEPT ![who[p]] = Nil]
                     /\ Goto(p, "idle")
                     /\ who' = [who EXCEPT ![p] = Nil]
                     /\ UNCHANGED <<procVars, rlk, linkVars, notepending, cond, rd>>

\* canlock(r) succeeds: wake v up in place of wakeup().
InterruptWake(p) == LET r == pr[who[p]] IN
                    /\ At(p, "intrcheck")
                    /\ r # Nil
                    /\ rlk[r] = Nil
                    /\ Unlink(p, r, who[p])
                    /\ UNCHANGED <<procVars, notepending, cond, rd, who>>

\* Mutant: spin for the lock of r without giving p->rlock up.
InterruptRetry_Spins(p) == LET r == pr[who[p]] IN
                           /\ At(p, "intrcheck")
                           /\ r # Nil
                           /\ rlk[r] # Nil
                           /\ UNCHANGED vars

\* canlock(r) fails: give p->rlock up and start again.
InterruptRetry(p) == LET r == pr[who[p]] IN
                     /\ At(p, "intrcheck")
                     /\ r # Nil
                     /\ rlk[r] # Nil
                     /\ plk' = [plk EXCEPT ![who[p]] = Nil]
                     /\ Goto(p, "intr")
                     /\ UNCHANGED <<procVars, rlk, linkVars, notepending, cond, rd, who>>

\* popnote() on the way back to user mode.
Popnote(p) == /\ At(p, "idle")
              /\ notepending[p]
              /\ notepending' = [notepending EXCEPT ![p] = FALSE]
              /\ UNCHANGED <<procVars, lockVars, linkVars, cond, ctlVars>>
-----------------------------------------------------------------------------
\* The condition as the sleeper's f() sees it.
Condition(p) == rd[p] # Nil /\ cond[rd[p]]

\* What a thread does once it is inside one of the functions.
Steps(t) == \/ /\ t \in Proc
               /\ \/ SleepPublish(t) \/ SleepCond(t, Condition(t)) \/ SleepNote(t)
                  \/ SleepCancel(t) \/ SleepCommit(t) \/ SleepUnlock(t)
                  \/ Schedule(t) \/ SleepResume(t) \/ SleepReturn(t)
                  \/ InterruptAwake(t) \/ InterruptWake(t) \/ InterruptRetry(t)
            \/ WakeUnlink(t) \/ Ready(t)

\* What it does once it gets a spin lock that others fight for.
Spin(t) == \/ WakeNobody(t) \/ WakeLock(t) \/ WakeLockProc(t)
           \/ t \in Proc /\ InterruptLock(t)

Next == \/ \E p \in Proc : \/ \E r \in Rendez : SleepEnter(p, r) \/ Consume(p, r)
                           \/ \E v \in Proc : Interrupt(p, v)
                           \/ Popnote(p)
        \/ \E t \in Thread : \/ \E r \in Rendez : Signal(t, r)
                             \/ Spin(t)
                             \/ Steps(t)

Spec == Init /\ [][Next]_vars

FairSpec == /\ Spec
            /\ \A t \in Thread : WF_vars(Steps(t)) /\ SF_vars(Spin(t))
-----------------------------------------------------------------------------
TypeOK == /\ ProcTypeOK
          /\ \A p \in Proc : state[p] \in {"Running", "Ready", "Wakeme"}
          /\ rlk \in [Rendez -> Thread \cup {Nil}]
          /\ plk \in [Proc -> Thread \cup {Nil}]
          /\ rp \in [Rendez -> Proc \cup {Nil}]
          /\ pr \in [Proc -> Rendez \cup {Nil}]
          /\ notepending \in [Proc -> BOOLEAN]
          /\ cond \in [Rendez -> BOOLEAN]
          /\ pc \in [Thread -> PCs]
          /\ rd \in [Thread -> Rendez \cup {Nil}]
          /\ who \in [Thread -> Proc \cup {Nil}]

\* "We hold both locks to ensure that r->p and p->r remain consistent."
\* Whoever holds the lock of r, or nobody, sees r->p and p->r agree.
LinksAgree == /\ \A r \in Rendez : rlk[r] = Nil /\ rp[r] # Nil =>
                   pr[rp[r]] = r /\ state[rp[r]] = "Wakeme"
              /\ \A p \in Proc : pr[p] # Nil =>
                   rp[pr[p]] = p /\ state[p] = "Wakeme"

\* panic("wakeup: state") and panic("procinterrupt: state") are out of reach.
NoPanic == /\ \A t \in Thread : pc[t] = "wkboth" =>
                state[who[t]] = "Wakeme" /\ pr[who[t]] = rd[t]
           /\ \A p \in Proc : pc[p] = "intrcheck" /\ pr[who[p]] # Nil =>
                (rlk[pr[who[p]]] = Nil => rp[pr[who[p]]] = who[p]) /\ state[who[p]] = "Wakeme"

\* No lost wakeup: nobody sleeps on a condition that has become true unless
\* the wakeup() that follows is under way.
WakeupNotLost == \A p \in Proc :
                   pr[p] # Nil /\ cond[pr[p]] =>
                     \E t \in Thread : pc[t] \in WakePCs /\ rd[t] = pr[p]

\* No lost note: nobody sleeps with a note pending unless the procinterrupt()
\* that posted it is under way.
NoteNotLost == \A p \in Proc :
                 pr[p] # Nil /\ notepending[p] =>
                   \E k \in Proc : pc[k] \in IntrPCs /\ who[k] = p

\* A sleeper taken off its Rendez is readied, by exactly one thread.
ReadiedOnce == /\ \A p \in Proc : state[p] = "Wakeme" /\ pr[p] = Nil =>
                    Cardinality({t \in Thread : pc[t] = "ready" /\ who[t] = p}) = 1
               /\ \A t \in Thread : pc[t] = "ready" =>
                    state[who[t]] = "Wakeme" /\ pr[who[t]] = Nil

\* What the Rendez, the processes and their wakers say of one another agrees.
Consistent == TypeOK /\ LinksAgree /\ NoPanic /\ ReadiedOnce

\* A sleeper goes on when its condition is true for good or a note is posted.
Awakened == \A p \in Proc :
              /\ [](pc[p] = "slwait" /\ notepending[p] => <>(pc[p] # "slwait"))
              /\ [](pc[p] = "slwait" /\ Condition(p) => <>(pc[p] # "slwait" \/ ~Condition(p)))

\* The loop of procinterrupt(v) ends, or v comes out of its sleep() on its
\* own: no deadlock with wakeup(), which takes the two locks in the opposite
\* order.
InterruptEnds == \A p, v \in Proc :
                   pc[p] \in IntrPCs /\ who[p] = v
                     ~> pc[p] \notin IntrPCs \/ pc[v] = "slret"
=============================================================================
