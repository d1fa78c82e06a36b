------------------------------ MODULE Rendezvous ------------------------------
(*****************************************************************************)
(* sysrendezvous() of port/sysproc.c on several processors, with the part of *)
(* procinterrupt() of port/proc.c that pulls a process out of a rendezvous,  *)
(* and rfork(RFREND) by which a process changes its rendezvous group.        *)
(*                                                                           *)
(* The hash chains change under the lock of their group only, so the code    *)
(* between lock(up->rgrp) and unlock(up->rgrp) is one step, taken when the   *)
(* lock is free.  procinterrupt() reads p->state before it takes the lock,   *)
(* and names the group as p->rgrp each time it needs it.                     *)
(*                                                                           *)
(* All tags of a group hash to one chain.  The value a process brings is its *)
(* own name.                                                                 *)
(*****************************************************************************)
EXTENDS Sequences, SequencesExt, ProcState

CONSTANTS Tags, Rgrps,
          Cancelled   \* the value ~0

ASSUME RendezvousAssumption == /\ Nil \notin Rgrps \cup Tags \cup (Rgrps \X Tags)
                               /\ Cancelled \notin Proc \cup {Nil}

VARIABLES lock,         \* r->Lock: procinterrupt() that holds it, or Nil
          rendhash,     \* r->rendhash: who waits, in the order of the chain
          rgrp,         \* p->rgrp
          rendtag,      \* p->rendtag
          rendval,      \* p->rendval
          notepending,  \* p->notepending
          pc,           \* where p is
          val,          \* the value sysrendezvous() of p has taken
          who           \* the process ready() or procinterrupt() is about

rendVars == <<lock, rendhash, rgrp, rendtag, rendval>>
vars == <<procVars, rendVars, notepending, pc, val, who>>

PCs == {"idle", "rend", "wait", "ready", "ret", "intr", "intrlock", "intrrend", "intrready"}

Init == /\ ProcInit
        /\ lock = [g \in Rgrps |-> Nil]
        /\ rendhash = [g \in Rgrps |-> <<>>]
        /\ rgrp \in [Proc -> Rgrps]
        /\ rendtag = [p \in Proc |-> Nil]
        /\ rendval = [p \in Proc |-> Nil]
        /\ notepending = [p \in Proc |-> FALSE]
        /\ pc = [p \in Proc |-> "idle"]
        /\ val = [p \in Proc |-> Nil]
        /\ who = [p \in Proc |-> Nil]
-----------------------------------------------------------------------------
At(p, from) == Runs(p) /\ pc[p] = from
Goto(p, to) == pc' = [pc EXCEPT ![p] = to]
Free(g) == lock[g] = Nil
Chain(g) == rendhash[g]

\* rendezvous(t, p).  up->rendtag is stored later, when p has to wait; nobody
\* looks at it before.
Call(p, t) == /\ At(p, "idle")
              /\ rendtag' = [rendtag EXCEPT ![p] = t]
              /\ Goto(p, "rend")
              /\ UNCHANGED <<procVars, lock, rendhash, rgrp, rendval, notepending, val, who>>

\* The i-th in the chain of p's group is the first that waits with p's tag.
Partner(p, i) == LET c == Chain(rgrp[p]) IN
                 /\ rendtag[c[i]] = rendtag[p]
                 /\ \A j \in 1 .. i - 1 : rendtag[c[j]] # rendtag[p]

\* Mutant: the value of the second process is not handed over.
Meet_OneWay(p) == LET g == rgrp[p]
                      c == Chain(g) IN
                  /\ At(p, "rend")
                  /\ Free(g)
                  /\ \E i \in DOMAIN c :
                       /\ Partner(p, i)
                       /\ rendhash' = [rendhash EXCEPT ![g] = RemoveAt(c, i)]
                       /\ val' = [val EXCEPT ![p] = rendval[c[i]]]
                       /\ who' = [who EXCEPT ![p] = c[i]]
                  /\ Goto(p, "ready")
                  /\ UNCHANGED <<procVars, lock, rgrp, rendtag, rendval, notepending>>

\* Somebody waits with this tag: exchange values, take it off the chain.
Meet(p) == LET g == rgrp[p]
               c == Chain(g) IN
           /\ At(p, "rend")
           /\ Free(g)
           /\ \E i \in DOMAIN c :
                /\ Partner(p, i)
                /\ rendhash' = [rendhash EXCEPT ![g] = RemoveAt(c, i)]
                /\ val' = [val EXCEPT ![p] = rendval[c[i]]]
                /\ rendval' = [rendval EXCEPT ![c[i]] = p]
                /\ who' = [who EXCEPT ![p] = c[i]]
           /\ Goto(p, "ready")
           /\ UNCHANGED <<procVars, lock, rgrp, rendtag, notepending>>

\* Mutant: p waits without a look at the chain.
Wait_NoLook(p) == LET g == rgrp[p] IN
                  /\ At(p, "rend")
                  /\ Free(g)
                  /\ rendval' = [rendval EXCEPT ![p] = p]
                  /\ rendhash' = [rendhash EXCEPT ![g] = Append(@, p)]
                  /\ state' = [state EXCEPT ![p] = "Rendezvous"]
                  /\ Goto(p, "wait")
                  /\ UNCHANGED <<saved, lock, rgrp, rendtag, notepending, val, who>>

\* Nobody does: wait at the end of the chain.
Wait(p) == LET g == rgrp[p] IN
           /\ At(p, "rend")
           /\ Free(g)
           /\ \A i \in DOMAIN Chain(g) : ~Partner(p, i)
           /\ rendval' = [rendval EXCEPT ![p] = p]
           /\ rendhash' = [rendhash EXCEPT ![g] = Append(@, p)]
           /\ state' = [state EXCEPT ![p] = "Rendezvous"]
           /\ Goto(p, "wait")
           /\ UNCHANGED <<saved, lock, rgrp, rendtag, notepending, val, who>>

\* Mutant: a waiter that has not switched away yet is not queued.
Ready_Lost(p) == /\ \/ At(p, "ready") /\ Goto(p, "ret")
                    \/ At(p, "intrready") /\ Goto(p, "idle")
                 /\ state' = IF saved[who[p]] THEN ReadyState(p, who[p]) ELSE state
                 /\ who' = [who EXCEPT ![p] = Nil]
                 /\ UNCHANGED <<saved, rendVars, notepending, val>>

\* ready(p), called by sysrendezvous() and procinterrupt() with no lock held.
Ready(p) == /\ \/ At(p, "ready") /\ Goto(p, "ret")
               \/ At(p, "intrready") /\ Goto(p, "idle")
            /\ state' = ReadyState(p, who[p])
            /\ who' = [who EXCEPT ![p] = Nil]
            /\ UNCHANGED <<saved, rendVars, notepending, val>>

\* sysrendezvous() returns val, or sched() returns in it and it returns
\* up->rendval.
Return(p) == /\ At(p, "ret") \/ At(p, "wait")
             /\ Goto(p, "idle")
             /\ val' = [val EXCEPT ![p] = Nil]
             /\ rendtag' = [rendtag EXCEPT ![p] = Nil]
             /\ rendval' = [rendval EXCEPT ![p] = Nil]
             /\ UNCHANGED <<procVars, lock, rendhash, rgrp, notepending, who>>
-----------------------------------------------------------------------------
\* procinterrupt(v), called by p.  v sleeps on no Rendez and in no eqlock().
Interrupt(p, v) == /\ At(p, "idle")
                   /\ notepending' = [notepending EXCEPT ![v] = TRUE]
                   /\ who' = [who EXCEPT ![p] = v]
                   /\ Goto(p, "intr")
                   /\ UNCHANGED <<procVars, rendVars, val>>

\* switch(v->state), read without a lock.
InterruptWaits(p) == /\ At(p, "intr")
                     /\ state[who[p]] = "Rendezvous"
                     /\ Goto(p, "intrlock")
                     /\ UNCHANGED <<procVars, rendVars, notepending, val, who>>

InterruptAwake(p) == /\ At(p, "intr")
                     /\ state[who[p]] # "Rendezvous"
                     /\ Goto(p, "idle")
                     /\ who' = [who EXCEPT ![p] = Nil]
                     /\ UNCHANGED <<procVars, rendVars, notepending, val>>

\* lock(v->rgrp)
InterruptLock(p) == /\ At(p, "intrlock")
                    /\ Free(rgrp[who[p]])
                    /\ lock' = [lock EXCEPT ![rgrp[who[p]]] = p]
                    /\ Goto(p, "intrrend")
                    /\ UNCHANGED <<procVars, rendhash, rgrp, rendtag, rendval, notepending, val, who>>

\* v still waits, the i-th of its chain.
Found(p, i) == /\ state[who[p]] = "Rendezvous"
               /\ Chain(rgrp[who[p]])[i] = who[p]

\* Mutant: v is cancelled without another look at it.
InterruptCancel_Unchecked(p) == LET g == rgrp[who[p]] IN
    /\ At(p, "intrrend")
    /\ rendhash' = [rendhash EXCEPT ![g] = Remove(@, who[p])]
    /\ rendval' = [rendval EXCEPT ![who[p]] = Cancelled]
    /\ lock' = [lock EXCEPT ![g] = Nil]
    /\ Goto(p, "intrready")
    /\ UNCHANGED <<procVars, rgrp, rendtag, notepending, val, who>>

\* Take v off its chain; its rendezvous returns ~0.
InterruptCancel(p) == LET g == rgrp[who[p]] IN
                      /\ At(p, "intrrend")
                      /\ \E i \in DOMAIN Chain(g) :
                           /\ Found(p, i)
                           /\ rendhash' = [rendhash EXCEPT ![g] = RemoveAt(@, i)]
                      /\ rendval' = [rendval EXCEPT ![who[p]] = Cancelled]
                      /\ lock' = [lock EXCEPT ![g] = Nil]
                      /\ Goto(p, "intrready")
                      /\ UNCHANGED <<procVars, rgrp, rendtag, notepending, val, who>>

InterruptMiss(p) == LET g == rgrp[who[p]] IN
                    /\ At(p, "intrrend")
                    /\ \A i \in DOMAIN Chain(g) : ~Found(p, i)
                    /\ lock' = [lock EXCEPT ![g] = Nil]
                    /\ Goto(p, "idle")
                    /\ who' = [who EXCEPT ![p] = Nil]
                    /\ UNCHANGED <<procVars, rendhash, rgrp, rendtag, rendval, notepending, val>>

\* popnote() on the way back to user mode.
Popnote(p) == /\ At(p, "idle")
              /\ notepending[p]
              /\ notepending' = [notepending EXCEPT ![p] = FALSE]
              /\ UNCHANGED <<procVars, rendVars, pc, val, who>>

\* The scheduler saves a waiting process and runs a ready one.
Schedule(p) == /\ Switch(p) \/ Dispatch(p)
               /\ UNCHANGED <<rendVars, notepending, pc, val, who>>

\* rfork(RFREND) without RFPROC: up->rgrp = newrgrp().
RforkRend(p, g) == /\ At(p, "idle")
                   /\ Free(g) /\ Chain(g) = <<>> /\ \A q \in Proc : rgrp[q] # g
                   /\ rgrp' = [rgrp EXCEPT ![p] = g]
                   /\ UNCHANGED <<procVars, lock, rendhash, rendtag, rendval, notepending, pc, val, who>>
-----------------------------------------------------------------------------
\* What a process does once it is in sysrendezvous() or procinterrupt().
Steps(p) == \/ Ready(p) \/ Return(p)
            \/ InterruptWaits(p) \/ InterruptAwake(p)
            \/ InterruptCancel(p) \/ InterruptMiss(p)
            \/ Schedule(p)

\* What it does once it gets the lock of a group.
Spin(p) == Meet(p) \/ Wait(p) \/ InterruptLock(p)

Next == \E p \in Proc : \/ \E t \in Tags : Call(p, t)
                        \/ \E v \in Proc : Interrupt(p, v)
                        \/ Popnote(p)
                        \/ Spin(p) \/ Steps(p)

Spec == Init /\ [][Next]_vars

\* The groups change too.
NextRfork == Next \/ \E p \in Proc, g \in Rgrps : RforkRend(p, g)

SpecRfork == Init /\ [][NextRfork]_vars

\* Running processes and the scheduler go on (WF); a processor that spins for
\* the lock of a group gets it eventually (SF).
FairSpec == /\ Spec
            /\ \A p \in Proc : WF_vars(Steps(p)) /\ SF_vars(Spin(p))
-----------------------------------------------------------------------------
TypeOK == /\ ProcTypeOK
          /\ \A p \in Proc : state[p] \in {"Running", "Ready", "Rendezvous"}
          /\ lock \in [Rgrps -> Proc \cup {Nil}]
          /\ rendhash \in [Rgrps -> Seq(Proc)]
          /\ rgrp \in [Proc -> Rgrps]
          /\ rendtag \in [Proc -> Tags \cup {Nil}]
          /\ rendval \in [Proc -> Proc \cup {Nil, Cancelled}]
          /\ notepending \in [Proc -> BOOLEAN]
          /\ pc \in [Proc -> PCs]
          /\ val \in [Proc -> Proc \cup {Nil}]
          /\ who \in [Proc -> Proc \cup {Nil}]

Waits(p) == p \in ToSet(Chain(rgrp[p]))

\* Processes that wait in a chain are asleep, there once, and no two of them
\* could have met: their tags differ.
ChainsSound == \A g \in Rgrps :
                 /\ \A i, j \in DOMAIN Chain(g) :
                      rendtag[Chain(g)[i]] = rendtag[Chain(g)[j]] => i = j
                 /\ \A p \in ToSet(Chain(g)) :
                      rgrp[p] = g /\ state[p] = "Rendezvous" /\ pc[p] = "wait"

\* What the chains, the processes and their states say of one another agrees.
Consistent == TypeOK /\ ChainsSound

\* A process that sleeps in no chain any more is about to be readied, by
\* exactly one of its partner and procinterrupt().
Readies(k, p) == pc[k] \in {"ready", "intrready"} /\ who[k] = p

ReadiedOnce == \A p \in Proc :
                 /\ \A k1, k2 \in Proc : Readies(k1, p) /\ Readies(k2, p) => k1 = k2
                 /\ \A k \in Proc : Readies(k, p) => state[p] = "Rendezvous" /\ k # p
                 /\ state[p] = "Rendezvous" /\ ~Waits(p) => \E k \in Proc : Readies(k, p)

\* What a call of rendezvous returns, once that is decided.
Decided(p) == CASE pc[p] \in {"ready", "ret"} -> val[p]
                [] pc[p] = "wait" /\ ~Waits(p) -> rendval[p]
                [] OTHER -> Nil

\* Seen from outside, rendezvous() exchanges the values of two processes in
\* one step, or is cancelled and exchanges nothing.
Meets == INSTANCE Meeting
           WITH Keys <- Rgrps \X Tags,
                call <- [p \in Proc |-> IF rendtag[p] = Nil THEN Nil ELSE <<rgrp[p], rendtag[p]>>],
                result <- [p \in Proc |-> Decided(p)]

MeetingSpec == Meets!AbsSpec

\* "Both processes are awakened when the rendezvous succeeds" (rendezvous(2)),
\* and so is one that is interrupted.
Awakened == \A p \in Proc : pc[p] \in {"wait", "ready"} /\ Decided(p) # Nil ~> pc[p] = "idle"

\* unlock() of port/taslock.c complains of a lock that is not locked: at its
\* unlock(p->rgrp) procinterrupt() holds that lock.
UnlockHeld == \A p \in Proc : pc[p] = "intrrend" => lock[rgrp[who[p]]] = p
=============================================================================
