------------------------------ MODULE Semaphore ------------------------------
(*****************************************************************************)
(* User-level semaphores: semacquire(), tsemacquire() and semrelease() of    *)
(* port/sysproc.c on several processors.  The value is changed by cmpswap()  *)
(* with no lock held; a process that waits links a Sema on its own stack     *)
(* into the list of the segment; semwakeup() walks the list under its lock   *)
(* but reads and clears p->waiting beside p, which sets it without the lock. *)
(*                                                                           *)
(* sleep() tests semawoke() and notepending and falls asleep in one step:    *)
(* no wakeup or note is lost in between (module Sleep).  canacquire() is one *)
(* step, at the cmpswap() that succeeds or the last look at the value.       *)
(*                                                                           *)
(* Left out: a fault on the user's memory in canacquire(), which leaves the  *)
(* loop as an interrupt does, and other users of the word *addr.             *)
(*****************************************************************************)
EXTENDS Naturals, FiniteSets, Sequences, SequencesExt

CONSTANTS Proc, Nil,
          Addrs,      \* the semaphores of one segment
          Kinds,      \* how semacquire() and tsemacquire() are called
          MaxValue,   \* bounds the value of a semaphore
          MaxDelta    \* bounds what one semrelease() adds

\* What the two system calls can ask for.
AllKinds == {"block", "noblock", "timed"}
Results == {"acquired", "busy", "timedout", "interrupted"}

ASSUME SemaphoreAssumption ==
         /\ IsFiniteSet(Proc)
         /\ MaxValue \in Nat \ {0} /\ MaxDelta \in 1 .. MaxValue
         /\ Kinds \subseteq AllKinds
         /\ Nil \notin Proc \cup Addrs \cup AllKinds \cup Results \cup {"release"}
         /\ Nil \notin Addrs \X AllKinds

VARIABLES value,        \* *addr
          slock,        \* s->sema.Lock: the process that walks the list, or Nil
          list,         \* s->sema.next ...: whose phore is linked
          waiting,      \* phore.waiting
          notepending,  \* p->notepending
          pc,           \* where p is
          addr,         \* addr of its call
          kind,         \* semacquire() that blocks or not, tsemacquire(), semrelease()
          result,       \* what the call is going to return, once decided
          pos,          \* where semwakeup() is in the list
          left          \* how many more it is to wake up

callVars == <<addr, kind, result>>
scanVars == <<pos, left>>
vars == <<value, slock, list, waiting, notepending, pc, callVars, scanVars>>

\* semacquire() from semqueue() to semdequeue().
Linked == {"loop", "try", "sleep", "asleep", "woken", "dequeue"}
PCs == Linked \cup {"idle", "first", "queue", "check", "lock", "scan", "kick", "ret"}

Init == /\ value \in [Addrs -> 0 .. MaxValue]
        /\ slock = Nil
        /\ list = <<>>
        /\ waiting = [p \in Proc |-> FALSE]
        /\ notepending = [p \in Proc |-> FALSE]
        /\ pc = [p \in Proc |-> "idle"]
        /\ addr = [p \in Proc |-> Nil]
        /\ kind = [p \in Proc |-> Nil]
        /\ result = [p \in Proc |-> Nil]
        /\ pos = [p \in Proc |-> 0]
        /\ left = [p \in Proc |-> 0]
-----------------------------------------------------------------------------
At(p, from) == pc[p] = from
Goto(p, to) == pc' = [pc EXCEPT ![p] = to]
Decide(p, r) == result' = [result EXCEPT ![p] = r]

\* syssemacquire(), systsemacquire().  tsemacquire() of 0 ms is "noblock".
Call(p, a, k) == /\ At(p, "idle")
                 /\ addr' = [addr EXCEPT ![p] = a]
                 /\ kind' = [kind EXCEPT ![p] = k]
                 /\ Goto(p, "first")
                 /\ UNCHANGED <<value, slock, list, waiting, notepending, result, scanVars>>

\* canacquire() that succeeds.
Canacquire(p) == /\ value[addr[p]] > 0
                 /\ value' = [value EXCEPT ![addr[p]] = @ - 1]

FirstTake(p) == /\ At(p, "first")
                /\ Canacquire(p)
                /\ Decide(p, "acquired")
                /\ Goto(p, "ret")
                /\ UNCHANGED <<slock, list, waiting, notepending, addr, kind, scanVars>>

FirstFail(p) == /\ At(p, "first")
                /\ value[addr[p]] = 0
                /\ IF kind[p] = "noblock"
                   THEN Decide(p, "busy") /\ Goto(p, "ret")
                   ELSE Goto(p, "queue") /\ UNCHANGED result
                /\ UNCHANGED <<value, slock, list, waiting, notepending, addr, kind, scanVars>>

\* semqueue(): the new phore goes to the end of the list.
Semqueue(p) == /\ At(p, "queue")
               /\ slock = Nil
               /\ list' = Append(list, p)
               /\ waiting' = [waiting EXCEPT ![p] = FALSE]
               /\ Goto(p, "loop")
               /\ UNCHANGED <<value, slock, notepending, callVars, scanVars>>

\* phore.waiting = 1
SetWaiting(p) == /\ At(p, "loop")
                 /\ waiting' = [waiting EXCEPT ![p] = TRUE]
                 /\ Goto(p, "try")
                 /\ UNCHANGED <<value, slock, list, notepending, callVars, scanVars>>

TryTake(p) == /\ At(p, "try")
              /\ Canacquire(p)
              /\ Decide(p, "acquired")
              /\ Goto(p, "dequeue")
              /\ UNCHANGED <<slock, list, waiting, notepending, addr, kind, scanVars>>

TryFail(p) == /\ At(p, "try")
              /\ value[addr[p]] = 0
              /\ Goto(p, "sleep")
              /\ UNCHANGED <<value, slock, list, waiting, notepending, callVars, scanVars>>

\* Mutant: sleep whether or not the wakeup has come.
Sleep_Anyway(p) == /\ At(p, "sleep")
                   /\ Goto(p, "asleep")
                   /\ UNCHANGED <<value, slock, list, waiting, notepending, callVars, scanVars>>

\* sleep(&phore, semawoke, &phore), or tsleep().
Sleep(p) == /\ At(p, "sleep")
            /\ Goto(p, IF ~waiting[p] \/ notepending[p] THEN "woken" ELSE "asleep")
            /\ UNCHANGED <<value, slock, list, waiting, notepending, callVars, scanVars>>

\* tsleep() times out.
Timer(p) == /\ At(p, "asleep")
            /\ kind[p] = "timed"
            /\ Goto(p, "woken")
            /\ UNCHANGED <<value, slock, list, waiting, notepending, callVars, scanVars>>

\* procinterrupt(p), while a note makes a difference.
Interrupt(p) == /\ pc[p] \in {"loop", "try", "sleep", "asleep", "woken"}
                /\ ~notepending[p]
                /\ notepending' = [notepending EXCEPT ![p] = TRUE]
                /\ IF At(p, "asleep") THEN Goto(p, "woken") ELSE UNCHANGED pc
                /\ UNCHANGED <<value, slock, list, waiting, callVars, scanVars>>

\* sleep() returns: once more around the loop.
Again(p) == /\ At(p, "woken")
            /\ ~notepending[p]
            /\ Goto(p, "loop")
            /\ UNCHANGED <<value, slock, list, waiting, notepending, callVars, scanVars>>

\* Mutant: timedout is not set.
TimedOut_Acquired(p) == /\ At(p, "woken")
                        /\ ~notepending[p]
                        /\ kind[p] = "timed"
                        /\ Decide(p, "acquired")
                        /\ Goto(p, "dequeue")
                        /\ UNCHANGED <<value, slock, list, waiting, notepending, addr, kind, scanVars>>

\* tsleep() returns, and it took ms or longer.
TimedOut(p) == /\ At(p, "woken")
               /\ ~notepending[p]
               /\ kind[p] = "timed"
               /\ Decide(p, "timedout")
               /\ Goto(p, "dequeue")
               /\ UNCHANGED <<value, slock, list, waiting, notepending, addr, kind, scanVars>>

\* sleep() raises Eintr.
Interrupted(p) == /\ At(p, "woken")
                  /\ notepending[p]
                  /\ notepending' = [notepending EXCEPT ![p] = FALSE]
                  /\ Decide(p, "interrupted")
                  /\ Goto(p, "dequeue")
                  /\ UNCHANGED <<value, slock, list, waiting, addr, kind, scanVars>>

\* Mutant: the list is not locked.
Semdequeue_NoLock(p) == /\ At(p, "dequeue")
                        /\ \E i \in DOMAIN list : list[i] = p /\ list' = RemoveAt(list, i)
                        /\ Goto(p, "check")
                        /\ UNCHANGED <<value, slock, waiting, notepending, callVars, scanVars>>

Semdequeue(p) == /\ At(p, "dequeue")
                 /\ slock = Nil
                 /\ \E i \in DOMAIN list : list[i] = p /\ list' = RemoveAt(list, i)
                 /\ Goto(p, "check")
                 /\ UNCHANGED <<value, slock, waiting, notepending, callVars, scanVars>>

\* semwakeup(s, addr, n) is called.
Wakeups(p, n) == /\ left' = [left EXCEPT ![p] = n]
                 /\ pos' = [pos EXCEPT ![p] = 1]

\* Mutant: a wakeup is passed on only if the semaphore was not acquired.
Check_IfNotAcquired(p) == /\ At(p, "check")
                          /\ IF waiting[p] \/ result[p] = "acquired"
                             THEN Goto(p, "ret") /\ UNCHANGED scanVars
                             ELSE Goto(p, "lock") /\ Wakeups(p, 1)
                          /\ UNCHANGED <<value, slock, list, waiting, notepending, callVars>>

\* A wakeup that p was sent, and needs no more, is passed on.
Check(p) == /\ At(p, "check")
            /\ IF waiting[p]
               THEN Goto(p, "ret") /\ UNCHANGED scanVars
               ELSE Goto(p, "lock") /\ Wakeups(p, 1)
            /\ UNCHANGED <<value, slock, list, waiting, notepending, callVars>>

\* semacquire(), semrelease() return: phore is gone; popnote().
Return(p) == /\ At(p, "ret")
             /\ addr' = [addr EXCEPT ![p] = Nil]
             /\ kind' = [kind EXCEPT ![p] = Nil]
             /\ Decide(p, Nil)
             /\ Goto(p, "idle")
             /\ waiting' = [waiting EXCEPT ![p] = FALSE]
             /\ notepending' = [notepending EXCEPT ![p] = FALSE]
             /\ UNCHANGED <<value, slock, list, scanVars>>
-----------------------------------------------------------------------------
\* semrelease(s, addr, n) up to semwakeup().
Release(p, a, n) == /\ At(p, "idle")
                    /\ value[a] + n <= MaxValue
                    /\ value' = [value EXCEPT ![a] = @ + n]
                    /\ addr' = [addr EXCEPT ![p] = a]
                    /\ kind' = [kind EXCEPT ![p] = "release"]
                    /\ Wakeups(p, n)
                    /\ Goto(p, "lock")
                    /\ UNCHANGED <<slock, list, waiting, notepending, result>>

SemwakeupLock(p) == /\ At(p, "lock")
                    /\ slock = Nil
                    /\ slock' = p
                    /\ Goto(p, "scan")
                    /\ UNCHANGED <<value, list, waiting, notepending, callVars, scanVars>>

InList(p) == pos[p] \in DOMAIN list /\ left[p] > 0

\* The process whose phore semwakeup() of p is at, and whether it waits.
Target(p) == list[pos[p]]
Match(p) == addr[Target(p)] = addr[p] /\ waiting[Target(p)]

\* p->waiting = 0
SemwakeupClear(p) == /\ At(p, "scan")
                     /\ InList(p) /\ Match(p)
                     /\ waiting' = [waiting EXCEPT ![Target(p)] = FALSE]
                     /\ Goto(p, "kick")
                     /\ UNCHANGED <<value, slock, list, notepending, callVars, scanVars>>

SemwakeupSkip(p) == /\ At(p, "scan")
                    /\ InList(p) /\ ~Match(p)
                    /\ pos' = [pos EXCEPT ![p] = @ + 1]
                    /\ UNCHANGED <<value, slock, list, waiting, notepending, pc, callVars, left>>

\* wakeup(p); n--.
SemwakeupKick(p) == LET q == Target(p) IN
                    /\ At(p, "kick")
                    /\ pc' = [pc EXCEPT ![p] = "scan", ![q] = IF @ = "asleep" THEN "woken" ELSE @]
                    /\ left' = [left EXCEPT ![p] = @ - 1]
                    /\ pos' = [pos EXCEPT ![p] = @ + 1]
                    /\ UNCHANGED <<value, slock, list, waiting, notepending, callVars>>

SemwakeupDone(p) == /\ At(p, "scan")
                    /\ ~InList(p)
                    /\ slock' = Nil
                    /\ Goto(p, "ret")
                    /\ pos' = [pos EXCEPT ![p] = 0]
                    /\ left' = [left EXCEPT ![p] = 0]
                    /\ UNCHANGED <<value, list, waiting, notepending, callVars>>
-----------------------------------------------------------------------------
Steps(p) == \/ FirstTake(p) \/ FirstFail(p) \/ SetWaiting(p) \/ TryTake(p) \/ TryFail(p)
            \/ Sleep(p) \/ Again(p) \/ TimedOut(p) \/ Interrupted(p)
            \/ Check(p) \/ Return(p)
            \/ SemwakeupClear(p) \/ SemwakeupSkip(p) \/ SemwakeupKick(p) \/ SemwakeupDone(p)

\* What waits for the lock of the list.
Spin(p) == Semqueue(p) \/ Semdequeue(p) \/ SemwakeupLock(p)

Next == \E p \in Proc : \/ \E a \in Addrs : \/ \E k \in Kinds : Call(p, a, k)
                                            \/ \E n \in 1 .. MaxDelta : Release(p, a, n)
                        \/ Timer(p) \/ Interrupt(p)
                        \/ Steps(p) \/ Spin(p)

Spec == Init /\ [][Next]_vars

\* Running processes go on (WF) and get the lock of the list in the end (SF).
\* Nobody has to call, to be interrupted or to time out.
FairSpec == Spec /\ \A p \in Proc : WF_vars(Steps(p)) /\ SF_vars(Spin(p))
-----------------------------------------------------------------------------
TypeOK == /\ value \in [Addrs -> 0 .. MaxValue]
          /\ slock \in Proc \cup {Nil}
          /\ list \in Seq(Proc)
          /\ waiting \in [Proc -> BOOLEAN]
          /\ notepending \in [Proc -> BOOLEAN]
          /\ pc \in [Proc -> PCs]
          /\ addr \in [Proc -> Addrs \cup {Nil}]
          /\ kind \in [Proc -> AllKinds \cup {"release", Nil}]
          /\ result \in [Proc -> Results \cup {Nil}]
          /\ pos \in [Proc -> Nat]
          /\ left \in [Proc -> 0 .. MaxDelta]

\* The list holds the phores of exactly the calls that have not left: they
\* are on the stacks of these calls, and semwakeup() never touches one whose
\* call has returned.
PhoresAlive == /\ IsInjective(list)
               /\ ToSet(list) = {p \in Proc : pc[p] \in Linked}
               /\ \A p \in Proc : pc[p] = "kick" => pos[p] \in DOMAIN list

\* No lost wakeup: while a semaphore is positive and a process sleeps on it,
\* another call on the same semaphore is under way (and will wake it, or take
\* the unit, or pass the wakeup on).
UnderWay(a) == \E p \in Proc : addr[p] = a /\ pc[p] \notin {"asleep", "ret"}

NoneStranded == \A p \in Proc :
                  pc[p] = "asleep" /\ value[addr[p]] > 0 => UnderWay(addr[p])

\* And one that has been told to wake up is not asleep for long.
ToldIsWoken == \A p \in Proc : pc[p] = "asleep" /\ ~waiting[p] =>
                 \E k \in Proc : pc[k] = "kick" /\ Target(k) = p

\* The variables have their types, and each wakeup sent is on its way.
Consistent == TypeOK /\ ToldIsWoken

Abs == INSTANCE CountingSem
         WITH count <- value,
              call <- [p \in Proc |-> IF kind[p] \in {"release", Nil} THEN Nil
                                      ELSE <<addr[p], kind[p]>>]

\* Seen from outside these are counting semaphores: a call returns 1 if and
\* only if it took one unit.
CountingSpec == Abs!AbsSpec

\* A semaphore that stays positive has no sleepers in the end.
Sleeper(a) == \E p \in Proc : pc[p] = "asleep" /\ addr[p] = a

Served == \A a \in Addrs : Sleeper(a) /\ value[a] > 0 ~> ~Sleeper(a) \/ value[a] = 0
=============================================================================
