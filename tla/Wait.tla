---------------------------------- MODULE Wait ----------------------------------
(*****************************************************************************)
(* Exit and wait (port/proc.c, port/sysproc.c, port/devproc.c): pexit()      *)
(* leaves a wait record with the parent, pwait() and a reader of             *)
(* /proc/n/wait collect it, and a Pid outlives its process while others      *)
(* refer to it.                                                              *)
(*                                                                           *)
(* A process is a slot of procalloc.tab, used again when it is Dead: what    *)
(* others hold is a pointer to it and a pid to check it with.  The code      *)
(* between lock(&p->exl) and unlock(&p->exl) is one step, but for pidfree(); *)
(* sleep() tests and sleeps in one step (module Sleep shows why).            *)
(*                                                                           *)
(* The pid table has no lock: setnoteid() and pidfree() hold the p->debug of *)
(* one process, and another process is at the same Pid.  So pidadd() looks a *)
(* number up and counts the reference in two steps, and piddel() drops the   *)
(* last reference and forgets the number in two.                             *)
(*****************************************************************************)
EXTENDS Integers, FiniteSets, Sequences, SequencesExt

CONSTANTS Slot, Nil,
          Boot,       \* the slot of the boot process
          Pids,       \* bound: the pids, few, so that they are used again
          MaxWait,    \* the wait records a process keeps: 128
          MaxBroken,  \* the broken processes that are kept: 4
          MaxReads,   \* bound: the reads of wait records at a time
          MaxChanges, \* bound: the changes of a noteid at a time
          ReadsApart  \* bound: no noteid is changed while records are read, and
                      \* a read begins when all are in groups of their own

ASSUME WaitAssumption == /\ IsFiniteSet(Slot) /\ Boot \in Slot /\ Nil \notin Slot \cup Pids
                         /\ {MaxWait, MaxBroken} \subseteq Nat \ {0}
                         /\ {MaxReads, MaxChanges} \subseteq Nat

ASSUME ApartAssumption == ReadsApart \in BOOLEAN

VARIABLES pid, noteid, parentpid,  \* of the process in a slot; Nil is 0
          ref,      \* the pid table: Pid.ref
          table,    \* the numbers in pidhashtab: i->pid > 0
          step,     \* how far setnoteid(p) is
          group,    \* the noteid it gives p
          last,     \* the Pid of p whose last reference is gone, not its number
          parent,   \* p->parent
          nchild,   \* p->nchild
          nwait,    \* p->nwait
          waitq,    \* the length of p->waitq
          qwaitr,   \* who holds p->qwaitr, or Nil
          target,   \* the process whose wait records p reads
          qid,      \* the pid p means by that: PID(c->qid)
          broken,   \* broken.p[], oldest first
          pc        \* where the process is

ids == <<pid, noteid, parentpid, ref, table>>
changing == <<step, group, last>>
family == <<parent, nchild>>
records == <<nwait, waitq>>
reading == <<qwaitr, target, qid>>
vars == <<ids, changing, family, records, reading, broken, pc>>

Waiting == {"look", "tosleep", "asleep", "woken"}        \* p holds qwaitr
Living == {"run", "lock", "leave"} \cup Waiting          \* its parent counts it
Freeing == {"freenote", "freeparent", "freed"}           \* in pidfree(), holding p->exl
PCs == Living \cup Freeing \cup {"left", "broken", "doomed", "drain", "dead"}
Steps == {"none", "lookup", "incref", "decref", "store"}

At(p, from) == pc[p] = from
Goto(p, to) == pc' = [pc EXCEPT ![p] = to]

\* newproc(), pidalloc() of the boot process
Init == \E i \in Pids :
          LET only(x, none) == [s \in Slot |-> IF s = Boot THEN x ELSE none]
              zero == [s \in Slot |-> 0]
              nil == [s \in Slot |-> Nil]
          IN /\ pid = only(i, Nil) /\ noteid = only(i, Nil) /\ parentpid = nil
             /\ ref = [j \in Pids |-> IF j = i THEN 2 ELSE 0] /\ table = {i}
             /\ step = [s \in Slot |-> "none"] /\ group = nil /\ last = nil
             /\ parent = nil /\ nchild = zero
             /\ nwait = zero /\ waitq = zero
             /\ qwaitr = nil /\ target = nil /\ qid = nil
             /\ broken = <<>>
             /\ pc = only("run", "dead")
-----------------------------------------------------------------------------
\* The pid table: pidlookup() finds the numbers in it, pidadd(0) takes one that
\* is not.
Unused == Pids \ table

incref(f, i) == [f EXCEPT ![i] = @ + 1]

\* piddel(i) up to decref(i): the number stays in the table for the moment.
piddel(p, i) == /\ ref' = [ref EXCEPT ![i] = @ - 1]
                /\ last' = [last EXCEPT ![p] = IF ref[i] = 1 THEN i ELSE Nil]

\* piddel(): i->pid = -1 after the last reference
Forget(p) == /\ last[p] # Nil
             /\ table' = table \ {last[p]}
             /\ last' = [last EXCEPT ![p] = Nil]
             /\ UNCHANGED <<pid, noteid, parentpid, ref, step, group>>
             /\ UNCHANGED <<family, records, reading, broken, pc>>

\* "Pid's outlive ther Proc's as long as other processes hold a reference to them
\* such as noteid or parentpid": who has a reference to a Pid finds its number in
\* the table, and nobody is about to remove it.
PidsOutlive == \A i \in Pids : ref[i] > 0 => i \in table /\ \A p \in Slot : last[p] # i

\* Mutant: the parent's pid is copied without a reference.
pidalloc_NoParent(p, c, i, n) ==
  /\ pid' = [pid EXCEPT ![c] = i]
  /\ noteid' = [noteid EXCEPT ![c] = n]
  /\ parentpid' = [parentpid EXCEPT ![c] = pid[p]]
  /\ ref' = incref(incref(ref, i), n)
  /\ table' = table \cup {i}

\* p gives its new child c the unused pid i and the noteid n.  One step: p has
\* references of its own to what it gives away, and nobody knows i before.
pidalloc(p, c, i, n) ==
  /\ pid' = [pid EXCEPT ![c] = i]
  /\ noteid' = [noteid EXCEPT ![c] = n]
  /\ parentpid' = [parentpid EXCEPT ![c] = pid[p]]
  /\ ref' = incref(incref(incref(ref, pid[p]), i), n)
  /\ table' = table \cup {i}

\* setnoteid(p, n) goes on: with p->debug held, until it is at "none" again.
Step(p, to) == step' = [step EXCEPT ![p] = to]
Changes(p, n, to) == /\ step[p] = "none"
                     /\ Cardinality({q \in Slot : step[q] # "none"}) < MaxChanges
                     /\ ReadsApart => \A q \in Slot : target[q] = Nil
                     /\ group' = [group EXCEPT ![p] = n]
                     /\ Step(p, to)

\* rfork(RFNOTEG) without RFPROC; the only user of its noteid keeps it.
NewNoteGroup(p) == /\ At(p, "run") /\ ref[noteid[p]] > 1
                   /\ \E n \in Unused : /\ Changes(p, n, "decref")
                                        /\ ref' = incref(ref, n)
                                        /\ table' = table \cup {n}
                   /\ UNCHANGED <<pid, noteid, parentpid, last, family, records, reading>>
                   /\ UNCHANGED <<broken, pc>>

\* A write to /proc/n/noteid: back to its own pid, or into the group of pp.
changenoteid(p) == /\ pid[p] # Nil /\ pc[p] \notin Freeing
                   /\ \E n \in {pid[p]} \cup {noteid[pp] : pp \in Slot} :
                        n \notin {Nil, noteid[p]} /\ Changes(p, n, "lookup")
                   /\ UNCHANGED <<ids, last, family, records, reading, broken, pc>>

\* pidadd(noteid): pidlookup(), or Ebadarg
Lookup(p) == /\ step[p] = "lookup"
             /\ \/ group[p] \in table /\ Step(p, "incref") /\ UNCHANGED group
                \/ group[p] \notin table /\ Step(p, "none")
                   /\ group' = [group EXCEPT ![p] = Nil]
             /\ UNCHANGED <<ids, last, family, records, reading, broken, pc>>

\* pidadd(noteid): incref() of what was found
Incref(p) == /\ step[p] = "incref"
             /\ ref' = incref(ref, group[p])
             /\ Step(p, "decref")
             /\ UNCHANGED <<pid, noteid, parentpid, table, group, last>>
             /\ UNCHANGED <<family, records, reading, broken, pc>>

\* Mutant: the old noteid keeps its reference.
Decref_Keep(p) == /\ step[p] = "decref"
                  /\ Step(p, "store")
                  /\ UNCHANGED <<ids, group, last, family, records, reading, broken, pc>>

\* piddel(o) of the old noteid
Decref(p) == /\ step[p] = "decref"
             /\ piddel(p, noteid[p])
             /\ Step(p, "store")
             /\ UNCHANGED <<pid, noteid, parentpid, table, group>>
             /\ UNCHANGED <<family, records, reading, broken, pc>>

\* p->noteid = i->pid
Store(p) == /\ step[p] = "store" /\ last[p] = Nil
            /\ noteid' = [noteid EXCEPT ![p] = group[p]]
            /\ group' = [group EXCEPT ![p] = Nil]
            /\ Step(p, "none")
            /\ UNCHANGED <<pid, parentpid, ref, table, last>>
            /\ UNCHANGED <<family, records, reading, broken, pc>>
-----------------------------------------------------------------------------
\* rfork(RFPROC), with or without RFNOTEG and RFNOWAIT; a fork that fails after
\* newproc() and kproc() make a child without a parent.  kproc() does without
\* p->debug.
Fork(p, c) ==
  /\ At(p, "run") /\ At(c, "dead")
  /\ \E i \in Unused : \E n \in {i, noteid[p]} : \E waits \in BOOLEAN :
       /\ step[p] = "none" \/ (n = i /\ ~waits)
       /\ pidalloc(p, c, i, n)
       /\ \/ ~waits /\ UNCHANGED family
          \/ /\ waits
             /\ parent' = [parent EXCEPT ![c] = p]
             /\ nchild' = [nchild EXCEPT ![p] = @ + 1]
  /\ Goto(c, "run")
  /\ UNCHANGED <<changing, records, reading, broken>>

Waitable(p, c) == p # Nil /\ pid[p] = parentpid[c] /\ ~At(p, "broken")

\* pexit() up to lock(&p->exl): a first look at the parent.  The boot process
\* does not exit (panic).
Exit(c) == /\ At(c, "run") /\ parentpid[c] # Nil
           /\ Goto(c, IF Waitable(parent[c], c) THEN "leave" ELSE "left")
           /\ UNCHANGED <<ids, changing, family, records, reading, broken>>

\* wakeup(&t->waitr)
Wake(f, t) == [q \in Slot |-> IF f[q] = "asleep" /\ target[q] = t THEN "woken" ELSE f[q]]

Record(p) == /\ nwait' = [nwait EXCEPT ![p] = @ + 1]
             /\ waitq' = [waitq EXCEPT ![p] = @ + 1]

\* Mutant: the parent is not looked at again under its lock.
Leave_NoRecheck(c) ==
  LET p == parent[c]
      kept == nwait[p] < MaxWait
  IN /\ At(c, "leave") /\ pc[p] \notin Freeing
     /\ nchild' = [nchild EXCEPT ![p] = @ - 1]
     /\ IF kept THEN Record(p) ELSE UNCHANGED records
     /\ pc' = LET left == [pc EXCEPT ![c] = "left"]
              IN IF kept THEN Wake(left, p) ELSE left
     /\ UNCHANGED <<ids, changing, parent, reading, broken>>

\* pexit(), under p->exl, free of pidfree(p): the record is left if the parent is still there.
Leave(c) ==
  LET p == parent[c]
      counts == Waitable(p, c)
      kept == counts /\ nwait[p] < MaxWait
  IN /\ At(c, "leave") /\ pc[p] \notin Freeing
     /\ IF counts THEN nchild' = [nchild EXCEPT ![p] = @ - 1] ELSE UNCHANGED nchild
     /\ IF kept THEN Record(p) ELSE UNCHANGED records
     /\ pc' = LET left == [pc EXCEPT ![c] = "left"]
              IN IF kept THEN Wake(left, p) ELSE left
     /\ UNCHANGED <<ids, changing, parent, reading, broken>>
-----------------------------------------------------------------------------
\* pexit(exitstr, 0): addbroken(); the oldest of too many goes on to die.
addbroken(p) == /\ At(p, "left")
                /\ LET full == Len(broken) = MaxBroken
                       stay == IF full THEN Tail(broken) ELSE broken
                       next == [pc EXCEPT ![p] = "broken"]
                   IN /\ broken' = Append(stay, p)
                      /\ pc' = IF full THEN [next EXCEPT ![Head(broken)] = "doomed"] ELSE next
                /\ UNCHANGED <<ids, changing, family, records, reading>>

\* killproc() of a broken process
unbreak(p) == /\ \E i \in DOMAIN broken : broken[i] = p /\ broken' = RemoveAt(broken, i)
              /\ Goto(p, "doomed")
              /\ UNCHANGED <<ids, changing, family, records, reading>>

\* Whoever needs memory
freebroken == /\ broken # <<>>
              /\ broken' = <<>>
              /\ pc' = [p \in Slot |-> IF p \in ToSet(broken) THEN "doomed" ELSE pc[p]]
              /\ UNCHANGED <<ids, changing, family, records, reading>>

\* pexit(): pidfree(up) under up->debug and up->exl.  No child can leave a record
\* any more.
Free(p) == /\ At(p, "left") \/ At(p, "doomed")
           /\ step[p] = "none"
           /\ piddel(p, pid[p]) /\ Goto(p, "freenote")
           /\ UNCHANGED <<pid, noteid, parentpid, table, step, group>>
           /\ UNCHANGED <<family, records, reading, broken>>

FreeNote(p) == /\ At(p, "freenote") /\ last[p] = Nil
               /\ piddel(p, noteid[p]) /\ Goto(p, "freeparent")
               /\ UNCHANGED <<pid, noteid, parentpid, table, step, group>>
               /\ UNCHANGED <<family, records, reading, broken>>

FreeParent(p) == /\ At(p, "freeparent") /\ last[p] = Nil
                 /\ piddel(p, parentpid[p]) /\ Goto(p, "freed")
                 /\ UNCHANGED <<pid, noteid, parentpid, table, step, group>>
                 /\ UNCHANGED <<family, records, reading, broken>>

\* Mutant: the readers of the wait file are left asleep.
FreeEnd_NoWakeup(p) == /\ At(p, "freed") /\ last[p] = Nil
                       /\ pid' = [pid EXCEPT ![p] = Nil]
                       /\ noteid' = [noteid EXCEPT ![p] = Nil]
                       /\ parentpid' = [parentpid EXCEPT ![p] = Nil]
                       /\ parent' = [parent EXCEPT ![p] = Nil]
                       /\ nchild' = [nchild EXCEPT ![p] = 0]
                       /\ nwait' = [nwait EXCEPT ![p] = 0]
                       /\ Goto(p, "drain")
                       /\ UNCHANGED <<ref, table, changing, waitq, reading, broken>>

\* The rest up to unlock(&up->exl)
FreeEnd(p) == /\ At(p, "freed") /\ last[p] = Nil
              /\ pid' = [pid EXCEPT ![p] = Nil]
              /\ noteid' = [noteid EXCEPT ![p] = Nil]
              /\ parentpid' = [parentpid EXCEPT ![p] = Nil]
              /\ parent' = [parent EXCEPT ![p] = Nil]
              /\ nchild' = [nchild EXCEPT ![p] = 0]
              /\ nwait' = [nwait EXCEPT ![p] = 0]
              /\ pc' = Wake([pc EXCEPT ![p] = "drain"], p)
              /\ UNCHANGED <<ref, table, changing, waitq, reading, broken>>

\* The end of pexit(): the records nobody collected; the slot is Dead.
Drain(p) == /\ At(p, "drain")
            /\ waitq' = [waitq EXCEPT ![p] = 0]
            /\ Goto(p, "dead")
            /\ UNCHANGED <<ids, changing, family, nwait, reading, broken>>
-----------------------------------------------------------------------------
\* pwait(), where t is p, and a read of /proc/n/wait
Open(p, t) == /\ At(p, "run") /\ pid[t] # Nil
              /\ Cardinality({q \in Slot : target[q] # Nil}) < MaxReads
              /\ ReadsApart => \A q \in Slot : step[q] = "none" /\ noteid[q] = pid[q]
              /\ target' = [target EXCEPT ![p] = t]
              /\ qid' = [qid EXCEPT ![p] = pid[t]]
              /\ Goto(p, "lock")
              /\ UNCHANGED <<ids, changing, family, records, qwaitr, broken>>

\* The read is over, if p holds qwaitr it lets go.
Return(p) == /\ Goto(p, "run")
             /\ target' = [target EXCEPT ![p] = Nil]
             /\ qid' = [qid EXCEPT ![p] = Nil]
             /\ qwaitr' = [t \in Slot |-> IF qwaitr[t] = p THEN Nil ELSE qwaitr[t]]

\* canqlock(&p->qwaitr), or Einuse
Canqlock(p) == /\ At(p, "lock")
               /\ IF qwaitr[target[p]] = Nil
                  THEN /\ Goto(p, "look")
                       /\ qwaitr' = [qwaitr EXCEPT ![target[p]] = p]
                       /\ UNCHANGED <<target, qid>>
                  ELSE Return(p)
               /\ UNCHANGED <<ids, changing, family, records, broken>>

Gone(p) == pid[target[p]] # qid[p]

\* Under t->exl, free of pidfree(t): a record, Eprocdied, Enochild, or to sleep.
Look(p) ==
  LET t == target[p]
  IN /\ At(p, "look") \/ At(p, "woken")
     /\ pc[t] \notin Freeing
     /\ \/ /\ Gone(p) \/ (waitq[t] = 0 /\ t = p /\ nchild[p] = 0)
           /\ Return(p) /\ UNCHANGED records
        \/ /\ ~Gone(p) /\ waitq[t] > 0
           /\ waitq' = [waitq EXCEPT ![t] = @ - 1]
           /\ nwait' = [nwait EXCEPT ![t] = @ - 1]
           /\ Return(p)
        \/ /\ ~Gone(p) /\ waitq[t] = 0 /\ ~(t = p /\ nchild[p] = 0)
           /\ Goto(p, "tosleep") /\ UNCHANGED <<records, reading>>
     /\ UNCHANGED <<ids, changing, family, broken>>

prochaswaitq(p) == Gone(p) \/ waitq[target[p]] > 0

\* sleep(&p->waitr, haswaitq, up), sleep(&p->waitr, prochaswaitq, c)
Sleep(p) == /\ At(p, "tosleep")
            /\ Goto(p, IF prochaswaitq(p) THEN "woken" ELSE "asleep")
            /\ UNCHANGED <<ids, changing, family, records, reading, broken>>

\* A note ends the sleep: Eintr.
Interrupt(p) == /\ At(p, "tosleep") \/ At(p, "asleep") \/ At(p, "woken")
                /\ Return(p)
                /\ UNCHANGED <<ids, changing, family, records, broken>>
-----------------------------------------------------------------------------
\* Where a Pid is freed that somebody refers to, the model stops: the code goes on
\* with a nil Pid, or with the Pid of somebody else.
Next == /\ PidsOutlive
        /\ \/ \E p \in Slot :
                \/ NewNoteGroup(p) \/ changenoteid(p)
                \/ Lookup(p) \/ Incref(p) \/ Decref(p) \/ Forget(p) \/ Store(p)
                \/ Exit(p) \/ Leave(p) \/ addbroken(p) \/ unbreak(p)
                \/ Free(p) \/ FreeNote(p) \/ FreeParent(p) \/ FreeEnd(p) \/ Drain(p)
                \/ Canqlock(p) \/ Look(p) \/ Sleep(p) \/ Interrupt(p)
                \/ \E q \in Slot : Fork(p, q) \/ Open(p, q)
           \/ freebroken

Spec == Init /\ [][Next]_vars
-----------------------------------------------------------------------------
TypeOK == /\ pid \in [Slot -> Pids \cup {Nil}] /\ noteid \in [Slot -> Pids \cup {Nil}]
          /\ parentpid \in [Slot -> Pids \cup {Nil}]
          /\ ref \in [Pids -> Nat] /\ table \subseteq Pids
          /\ step \in [Slot -> Steps]
          /\ group \in [Slot -> Pids \cup {Nil}] /\ last \in [Slot -> Pids \cup {Nil}]
          /\ parent \in [Slot -> Slot \cup {Nil}]
          /\ {nchild, nwait, waitq} \subseteq [Slot -> Nat]
          /\ qwaitr \in [Slot -> Slot \cup {Nil}] /\ target \in [Slot -> Slot \cup {Nil}]
          /\ qid \in [Slot -> Pids \cup {Nil}]
          /\ broken \in Seq(Slot)
          /\ pc \in [Slot -> PCs]

\* The references that are counted: who is in pidfree(), or between the noteids,
\* has given some up that it still shows, and has one that it does not show yet.
OfPid == [s \in Slot |-> IF pc[s] \in Freeing THEN Nil ELSE pid[s]]
OfNote == [s \in Slot |-> IF step[s] = "store" \/ pc[s] \in {"freeparent", "freed"}
                          THEN Nil ELSE noteid[s]]
OfGroup == [s \in Slot |-> IF step[s] \in {"decref", "store"} THEN group[s] ELSE Nil]
OfParent == [s \in Slot |-> IF pc[s] = "freed" THEN Nil ELSE parentpid[s]]

\* As long as PidsOutlive, and so until changenoteid() takes a reference to a Pid
\* that is being freed: the references to a Pid are counted at every step of
\* setnoteid() and pidfree(), and two processes never share a Pid.
Uses(f, i) == Cardinality({s \in Slot : f[s] = i})
PidsCounted == \A i \in Pids : /\ ref[i] = Uses(OfPid, i) + Uses(OfNote, i)
                                             + Uses(OfGroup, i) + Uses(OfParent, i)
                               /\ Uses(OfPid, i) <= 1

\* A process that may still wait knows how many records are to come: nchild
\* counts the children it has, never those of an earlier process in its slot.
Children(p) == {c \in Slot : parent[c] = p /\ parentpid[c] = pid[p] /\ pc[c] \in Living}
NchildExact == \A p \in Slot : pc[p] \in Living \cup {"left"} =>
                 nchild[p] = Cardinality(Children(p))

\* Until the process goes it has the records nwait says, at most MaxWait; a
\* slot that is Dead has none for the next process in it.
RecordsKept == \A p \in Slot : /\ pid[p] # Nil => nwait[p] = waitq[p] /\ waitq[p] <= MaxWait
                               /\ At(p, "dead") => nwait[p] = 0 /\ waitq[p] = 0

\* Who sleeps on a waitr does so for a reason: no record is there, the process
\* has not gone, and a process that waits for its own children has one left.
\* Nobody else sleeps there.
SleepsForReason == \A p \in Slot : At(p, "asleep") =>
                     /\ ~prochaswaitq(p)
                     /\ target[p] = p => Children(p) # {}
                     /\ \A q \in Slot \ {p} : ~(At(q, "asleep") /\ target[q] = target[p])

\* The list holds the broken processes, each once: each is readied once.
BrokenListed == /\ ToSet(broken) = {p \in Slot : At(p, "broken")}
                /\ IsInjective(broken)
                /\ Len(broken) <= MaxBroken

\* What the slots, their records and the broken list say of one another agrees.
Consistent == TypeOK /\ RecordsKept /\ BrokenListed
================================================================================
