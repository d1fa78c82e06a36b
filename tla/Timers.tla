-------------------------------- MODULE Timers --------------------------------
(*****************************************************************************)
(* timeradd(), timerdel() and timerintr() of port/portclock.c on several     *)
(* processors, with the users of the timer that is part of every process:    *)
(* tsleep() and twakeup() of port/proc.c (Sleepers), the periodic sampling   *)
(* of randomseed() in port/random.c (Samplers), and the real-time scheduler  *)
(* of port/edf.c with the timer that is part of every Edf (Edfs): it sets,   *)
(* moves and deletes that timer under edflock(), one lock for all of them,   *)
(* which releaseintr(), called by timerintr(), takes too.                    *)
(*                                                                           *)
(* A timer changes lists under the lock of the list, but timerdel() looks at *)
(* t->tt and t->tactive under the lock of the timer only, which timerintr()  *)
(* does not take; so these are read and written in steps of their own.       *)
(* Code between ilock() and iunlock() runs at high priority: no timerintr()  *)
(* starts on that processor and the process stays on it.                     *)
(*                                                                           *)
(* Time is left out: any armed timer may be the next one due, and a          *)
(* real-time process may be in any state and before or past its deadline.    *)
(* sleep() tests its condition and falls asleep in one step (module Sleep is *)
(* about that).                                                              *)
(*****************************************************************************)
EXTENDS Naturals, FiniteSets

CONSTANTS Cpu, Sleepers, Samplers, Edfs,
          Rendez,    \* the Rendez structures a process sleeps on in turn
          Nil

Proc == Sleepers \cup Samplers \cup Edfs

ASSUME TimersAssumption ==
    /\ Nil \notin Cpu \cup Proc \cup Rendez
    /\ Cpu \cap Proc = {}
    /\ Sleepers \cap Samplers = {} /\ Sleepers \cap Edfs = {} /\ Samplers \cap Edfs = {}

VARIABLES list,     \* timers[c]: the timers armed on processor c
          tlk,      \* timers[c].Lock: the processor in timerintr(), or Nil
          tt,       \* t->tt: the processor whose list t is in, or Nil
          tactive,  \* t->tactive
          tmode,    \* t->tmode
          trend,    \* p->trend
          stale,    \* history: whose timeout a twakeup() has cleared that had
                    \* read the trend of an earlier tsleep()
          edlk,     \* thelock of edf.c: the process or processor that has it
          admitted, \* the real-time processes with Admitted set
          h,        \* where timerintr() is on a processor
          job,      \* the timer t that timerintr() works on
          hrend,    \* the trend that twakeup() has read
          pc,       \* where a process is
          after,    \* and where timeradd() or timerdel() returns to
          on,       \* the processor a process at high priority runs on
          seen,     \* what timeradd() or timerdel() has read of a timer's tt
                    \* or tactive
          rz        \* the Rendez of tsleep()

timerVars == <<list, tt, tactive, tmode>>
intrVars  == <<h, job, hrend>>
procVars  == <<pc, after, on, seen, rz>>
edfVars   == <<edlk, admitted>>
vars == <<timerVars, tlk, trend, stale, edfVars, intrVars, procVars>>

Init == /\ list = [c \in Cpu |-> {}]
        /\ tlk = [c \in Cpu |-> Nil]
        /\ tt = [p \in Proc |-> Nil]
        /\ tactive = [p \in Proc |-> Nil]
        /\ tmode = [p \in Proc |-> "Trelative"]
        /\ trend = [p \in Proc |-> Nil]
        /\ stale = {}
        /\ edlk = Nil
        /\ admitted = {}
        /\ h = [c \in Cpu |-> "off"]
        /\ job = [c \in Cpu |-> Nil]
        /\ hrend = [c \in Cpu |-> Nil]
        /\ pc = [p \in Proc |-> "idle"]
        /\ after = [p \in Proc |-> "idle"]
        /\ on = [p \in Proc |-> Nil]
        /\ seen = [p \in Proc |-> Nil]
        /\ rz = [p \in Proc |-> Nil]
-----------------------------------------------------------------------------
\* A processor that runs neither timerintr() nor a process at high priority.
Open(c) == h[c] = "off" /\ \A q \in Proc : on[q] # c

\* p takes a step: on its processor at high priority, or on some open one.
At(p, from) == /\ pc[p] = from
               /\ on[p] = Nil => \E c \in Cpu : Open(c)

Goto(p, to) == pc' = [pc EXCEPT ![p] = to]

\* ilock() and iunlock() around p's step; within edflock() p stays where it is.
Splhi(p) == \/ on[p] # Nil /\ UNCHANGED on
            \/ on[p] = Nil /\ \E c \in Cpu : Open(c) /\ on' = [on EXCEPT ![p] = c]
Splx(p) == on' = [on EXCEPT ![p] = IF edlk = p THEN @ ELSE Nil]

Call(p, function, return) == /\ Goto(p, function)
                             /\ after' = [after EXCEPT ![p] = return]

\* timeradd(p): ilock(nt); tt = nt->tt.
Add(p) == /\ At(p, "add")
          /\ Splhi(p)
          /\ seen' = [seen EXCEPT ![p] = tt[p]]
          /\ Goto(p, IF tt[p] = Nil THEN "addlink" ELSE "addunlink")
          /\ UNCHANGED <<timerVars, tlk, trend, intrVars, after, rz, stale, edfVars>>

\* Mutant: t->tt is not cleared.
Tdel_Stays(p) == IF tt[p] = Nil
                 THEN UNCHANGED <<list, tt>>
                 ELSE /\ list' = [list EXCEPT ![tt[p]] = @ \ {p}]
                      /\ UNCHANGED tt

\* tdel(p), with the lock of the list that p was seen in.
Tdel(p) == IF tt[p] = Nil
           THEN UNCHANGED <<list, tt>>
           ELSE /\ list' = [list EXCEPT ![tt[p]] = @ \ {p}]
                /\ tt' = [tt EXCEPT ![p] = Nil]

AddUnlink(p) == /\ At(p, "addunlink")
                /\ tlk[seen[p]] = Nil
                /\ Tdel(p)
                /\ Goto(p, "addlink")
                /\ UNCHANGED <<tactive, tmode, tlk, trend, intrVars, after, on, seen, rz, stale, edfVars>>

\* tadd(): p goes to the list of processor c.
Tadd(p, c) == /\ list' = [list EXCEPT ![c] = @ \cup {p}]
              /\ tt' = [tt EXCEPT ![p] = c]

\* tt = &timers[m->machno], locked and unlocked; iunlock(nt).
AddLink(p) == /\ At(p, "addlink")
              /\ tlk[on[p]] = Nil
              /\ Tadd(p, on[p])
              /\ Splx(p)
              /\ Goto(p, after[p])
              /\ UNCHANGED <<tactive, tmode, tlk, trend, intrVars, after, seen, rz, stale, edfVars>>

\* timerdel(p): dt->tmode = Trelative.
DelMode(p) == /\ At(p, "delmode")
              /\ tmode' = [tmode EXCEPT ![p] = "Trelative"]
              /\ Goto(p, "del")
              /\ UNCHANGED <<list, tt, tactive, tlk, trend, intrVars, after, on, seen, rz, stale, edfVars>>

\* ilock(dt); tt = dt->tt.
Del(p) == /\ At(p, "del")
          /\ Splhi(p)
          /\ seen' = [seen EXCEPT ![p] = tt[p]]
          /\ Goto(p, IF tt[p] = Nil THEN "delactive" ELSE "delunlink")
          /\ UNCHANGED <<timerVars, tlk, trend, intrVars, after, rz, stale, edfVars>>

DelUnlink(p) == /\ At(p, "delunlink")
                /\ tlk[seen[p]] = Nil
                /\ Tdel(p)
                /\ Goto(p, "delactive")
                /\ UNCHANGED <<tactive, tmode, tlk, trend, intrVars, after, on, seen, rz, stale, edfVars>>

\* mp = dt->tactive; iunlock(dt).
DelActive(p) == /\ At(p, "delactive")
                /\ seen' = [seen EXCEPT ![p] = tactive[p]]
                /\ Goto(p, IF tactive[p] \in {Nil, on[p]} THEN after[p] ELSE "delspin")
                /\ Splx(p)
                /\ UNCHANGED <<timerVars, tlk, trend, intrVars, after, rz, stale, edfVars>>

\* "rare, but tf can still be active on another cpu": the spin ends.
DelSpin(p) == /\ At(p, "delspin")
              /\ tactive[p] # seen[p] \/ tt[p] # Nil
              /\ Goto(p, after[p])
              /\ UNCHANGED <<timerVars, tlk, trend, intrVars, after, on, seen, rz, stale, edfVars>>
-----------------------------------------------------------------------------
\* tsleep(r): a timer that is still armed is deleted first.
Tsleep(p, r) == /\ p \in Sleepers
                /\ At(p, "idle")
                /\ rz' = [rz EXCEPT ![p] = r]
                /\ IF tt[p] = Nil THEN Call(p, "arm", "arm") ELSE Call(p, "delmode", "arm")
                /\ UNCHANGED <<timerVars, tlk, trend, intrVars, on, seen, stale, edfVars>>

\* The timer of up is set to twakeup(); timeradd(up).
TsleepArm(p) == /\ At(p, "arm")
                /\ tmode' = [tmode EXCEPT ![p] = "Trelative"]
                /\ trend' = [trend EXCEPT ![p] = rz[p]]
                /\ stale' = stale \ {p}
                /\ Call(p, "add", "sleep")
                /\ UNCHANGED <<list, tt, tactive, tlk, intrVars, on, seen, rz, edfVars>>

\* sleep(r, tfn, arg): the timer went off, or the condition is true or a note
\* is pending, and p does not sleep.
TsleepAwake(p) == /\ At(p, "sleep")
                  /\ Goto(p, "woken")
                  /\ UNCHANGED <<timerVars, tlk, trend, intrVars, after, on, seen, rz, stale, edfVars>>

TsleepWait(p) == /\ At(p, "sleep")
                 /\ trend[p] # Nil
                 /\ Goto(p, "asleep")
                 /\ UNCHANGED <<timerVars, tlk, trend, intrVars, after, on, seen, rz, stale, edfVars>>

\* wakeup(rz[p]) by whoever makes the condition true, or procinterrupt(p).
Event(p) == /\ pc[p] = "asleep"
            /\ Goto(p, "woken")
            /\ UNCHANGED <<timerVars, tlk, trend, intrVars, after, on, seen, rz, stale, edfVars>>

\* sleep() has returned, or failed: up->trend = nil; timerdel(up).
TsleepWoken(p) == /\ At(p, "woken")
                  /\ trend' = [trend EXCEPT ![p] = Nil]
                  /\ Call(p, "delmode", "idle")
                  /\ UNCHANGED <<timerVars, tlk, intrVars, on, seen, rz, stale, edfVars>>

\* randomseed(): a periodic timer; it is deleted when enough was sampled, and
\* once more by pexit().
SampleStart(p) == /\ p \in Samplers
                  /\ At(p, "idle")
                  /\ tmode' = [tmode EXCEPT ![p] = "Tperiodic"]
                  /\ tt' = [tt EXCEPT ![p] = Nil]
                  /\ Call(p, "add", "sampling")
                  /\ UNCHANGED <<list, tactive, tlk, trend, intrVars, on, seen, rz, stale, edfVars>>

SampleEnd(p) == /\ At(p, "sampling")
                /\ Call(p, "delmode", "sampled")
                /\ UNCHANGED <<timerVars, tlk, trend, intrVars, on, seen, rz, stale, edfVars>>

Pexit(p) == /\ At(p, "sampled")
            /\ Call(p, "delmode", "dead")
            /\ UNCHANGED <<timerVars, tlk, trend, intrVars, on, seen, rz, stale, edfVars>>

\* edflock(p) by a user of the timer of p; if p is not Admitted nothing follows.
Edflock(p) == /\ edlk = Nil /\ edlk' = p
              /\ Splhi(p)

\* edfadmit() sets Admitted before it takes the lock.
EdfAdmit(p) == /\ p \in Edfs \ admitted
               /\ At(p, "idle")
               /\ admitted' = admitted \cup {p}
               /\ UNCHANGED <<timerVars, tlk, trend, stale, edlk, intrVars, procVars>>

\* edfadmit(), edfrun(), edfready(): set the timer, armed or not.
EdfSet(p) == /\ p \in admitted
             /\ At(p, "idle")
             /\ Edflock(p)
             /\ tmode' = [tmode EXCEPT ![p] = "Trelative"]
             /\ Call(p, "add", "edfunlock")
             /\ UNCHANGED <<list, tt, tactive, tlk, trend, stale, admitted, intrVars, seen, rz>>

\* edfstop(): delete it.
EdfStop(p) == /\ p \in admitted
              /\ At(p, "idle")
              /\ Edflock(p)
              /\ admitted' = admitted \ {p}
              /\ Call(p, "delmode", "edfunlock")
              /\ UNCHANGED <<timerVars, tlk, trend, stale, intrVars, seen, rz>>

Edfunlock(p) == /\ At(p, "edfunlock")
                /\ edlk' = Nil
                /\ on' = [on EXCEPT ![p] = Nil]
                /\ Goto(p, "idle")
                /\ UNCHANGED <<timerVars, tlk, trend, stale, admitted, intrVars, after, seen, rz>>
-----------------------------------------------------------------------------
Intr(c, from, to) == h[c] = from /\ h' = [h EXCEPT ![c] = to]

\* timerintr() on c: ilock(tt).
Tick(c) == /\ Open(c)
           /\ Intr(c, "off", "run")
           /\ tlk[c] = Nil
           /\ tlk' = [tlk EXCEPT ![c] = c]
           /\ UNCHANGED <<timerVars, trend, job, hrend, procVars, stale, edfVars>>

\* No timer of the list is due.
IntrEnd(c) == /\ Intr(c, "run", "off")
              /\ tlk' = [tlk EXCEPT ![c] = Nil]
              /\ UNCHANGED <<timerVars, trend, job, hrend, procVars, stale, edfVars>>

\* Mutant: the timers behind the one that is due are lost.
Pop_Drops(c, t) == /\ Intr(c, "run", "popped")
                   /\ t \in list[c]
                   /\ list' = [list EXCEPT ![c] = {}]
                   /\ tt' = [tt EXCEPT ![t] = Nil]
                   /\ job' = [job EXCEPT ![c] = t]
                   /\ UNCHANGED <<tactive, tmode, tlk, trend, hrend, procVars, stale, edfVars>>

\* t is due: off the list; t->tt = nil.
Pop(c, t) == /\ Intr(c, "run", "popped")
             /\ t \in list[c]
             /\ list' = [list EXCEPT ![c] = @ \ {t}]
             /\ tt' = [tt EXCEPT ![t] = Nil]
             /\ job' = [job EXCEPT ![c] = t]
             /\ UNCHANGED <<tactive, tmode, tlk, trend, hrend, procVars, stale, edfVars>>

\* t->tactive = MACHP(m->machno); iunlock(tt).
SetActive(c) == /\ Intr(c, "popped", "tf")
                /\ tactive' = [tactive EXCEPT ![job[c]] = c]
                /\ tlk' = [tlk EXCEPT ![c] = Nil]
                /\ UNCHANGED <<list, tt, tmode, trend, job, hrend, procVars, stale, edfVars>>

\* (*t->tf)(u, t) is randomsample() or deadlineintr(), which take no lock and
\* touch no timer.
TfOther(c) == /\ job[c] \notin Sleepers
              /\ Intr(c, "tf", "done")
              /\ UNCHANGED <<timerVars, tlk, trend, job, hrend, procVars, stale, edfVars>>

\* twakeup(): trend = p->trend is nil.
TwakeupNone(c) == /\ job[c] \in Sleepers
                  /\ trend[job[c]] = Nil
                  /\ Intr(c, "tf", "done")
                  /\ UNCHANGED <<timerVars, tlk, trend, job, hrend, procVars, stale, edfVars>>

Twakeup(c) == /\ job[c] \in Sleepers
              /\ trend[job[c]] # Nil
              /\ Intr(c, "tf", "clear")
              /\ hrend' = [hrend EXCEPT ![c] = trend[job[c]]]
              /\ UNCHANGED <<timerVars, tlk, trend, job, procVars, stale, edfVars>>

\* p->trend = nil.
TwakeupClear(c) == /\ Intr(c, "clear", "wakeup")
                   /\ trend' = [trend EXCEPT ![job[c]] = Nil]
                   /\ stale' = IF trend[job[c]] \in {Nil, hrend[c]} THEN stale ELSE stale \cup {job[c]}
                   /\ UNCHANGED <<timerVars, tlk, job, hrend, procVars, edfVars>>

\* wakeup(trend).
TwakeupWake(c) == LET p == job[c] IN
                  /\ Intr(c, "wakeup", "done")
                  /\ IF pc[p] = "asleep" /\ rz[p] = hrend[c] THEN Goto(p, "woken") ELSE UNCHANGED pc
                  /\ hrend' = [hrend EXCEPT ![c] = Nil]
                  /\ UNCHANGED <<timerVars, tlk, trend, job, after, on, seen, rz, stale, edfVars>>

\* releaseintr(): the timer of a real-time process calls for its release.
Releaseintr(c) == /\ job[c] \in Edfs
                  /\ Intr(c, "tf", "release")
                  /\ UNCHANGED <<timerVars, tlk, trend, stale, edfVars, job, hrend, procVars>>

\* Mutant: a process that has been expelled is released all the same.
IntrEdflock_Expelled(c, from, to) ==
  /\ edlk = Nil
  /\ Intr(c, from, to)
  /\ edlk' = c
  /\ UNCHANGED <<timerVars, tlk, trend, stale, admitted, job, hrend, procVars>>

\* edflock(p), which lets go at once if p is not Admitted.
IntrEdflock(c, from, to) ==
  /\ edlk = Nil
  /\ IF job[c] \in admitted
     THEN Intr(c, from, to) /\ edlk' = c
     ELSE Intr(c, from, "done") /\ UNCHANGED edlk
  /\ UNCHANGED <<timerVars, tlk, trend, stale, admitted, job, hrend, procVars>>

\* Case Ready and Waitrelease: edfunlock(); ready(p), which calls edfready(p).
ReleaseReady(c) == /\ Intr(c, "released", "ready")
                   /\ edlk' = Nil
                   /\ UNCHANGED <<timerVars, tlk, trend, stale, admitted, job, hrend, procVars>>

\* timeradd(e), called by edfrun() (case Running) or by edfready(); edflock() keeps
\* every other user of this timer out, so its own lock is left out.
ReleaseAdd(c) == LET t == job[c] IN
                 /\ h[c] \in {"released", "readied"}
                 /\ h' = [h EXCEPT ![c] = IF tt[t] = Nil THEN "elink" ELSE "eunlink"]
                 /\ tmode' = [tmode EXCEPT ![t] = "Trelative"]
                 /\ seen' = [seen EXCEPT ![t] = tt[t]]
                 /\ UNCHANGED <<list, tt, tactive, tlk, trend, stale, edfVars, job, hrend, pc, after, on, rz>>

ReleaseUnlink(c) == /\ Intr(c, "eunlink", "elink")
                    /\ tlk[seen[job[c]]] = Nil
                    /\ Tdel(job[c])
                    /\ UNCHANGED <<tactive, tmode, tlk, trend, stale, edfVars, job, hrend, procVars>>

ReleaseLink(c) == /\ Intr(c, "elink", "eunlock")
                  /\ tlk[c] = Nil
                  /\ Tadd(job[c], c)
                  /\ UNCHANGED <<tactive, tmode, tlk, trend, stale, edfVars, job, hrend, procVars>>

\* edfunlock(), with or without the timer set.  (Case Wakeme then calls twakeup()
\* for a sleep of the process itself; that and edfyield() are left out.)
ReleaseEnd(c) == /\ h[c] \in {"released", "readied", "eunlock"}
                 /\ h' = [h EXCEPT ![c] = "done"]
                 /\ edlk' = Nil
                 /\ UNCHANGED <<timerVars, tlk, trend, stale, admitted, job, hrend, procVars>>

\* Mutant: the timer stays active.
Inactive_Kept(c) == /\ Intr(c, "done", "relock")
                    /\ UNCHANGED <<timerVars, tlk, trend, job, hrend, procVars, stale, edfVars>>

\* t->tactive = nil.
Inactive(c) == /\ Intr(c, "done", "relock")
               /\ tactive' = [tactive EXCEPT ![job[c]] = Nil]
               /\ UNCHANGED <<list, tt, tmode, tlk, trend, job, hrend, procVars, stale, edfVars>>

\* ilock(tt), and t is not periodic: the next timer.
IntrNext(c) == /\ Intr(c, "relock", "run")
               /\ tmode[job[c]] = "Trelative"
               /\ tlk[c] = Nil
               /\ tlk' = [tlk EXCEPT ![c] = c]
               /\ job' = [job EXCEPT ![c] = Nil]
               /\ UNCHANGED <<timerVars, trend, hrend, procVars, stale, edfVars>>

\* ilock(tt), and t is periodic.
IntrPeriodic(c) == /\ Intr(c, "relock", "readd")
                   /\ tmode[job[c]] = "Tperiodic"
                   /\ tlk[c] = Nil
                   /\ tlk' = [tlk EXCEPT ![c] = c]
                   /\ UNCHANGED <<timerVars, trend, job, hrend, procVars, stale, edfVars>>

\* tadd(tt, t).
Readd(c) == /\ Intr(c, "readd", "run")
            /\ Tadd(job[c], c)
            /\ job' = [job EXCEPT ![c] = Nil]
            /\ UNCHANGED <<tactive, tmode, tlk, trend, hrend, procVars, stale, edfVars>>
-----------------------------------------------------------------------------
\* A process inside one of the functions.
Steps(p) == \/ Add(p) \/ AddUnlink(p) \/ AddLink(p)
            \/ DelMode(p) \/ Del(p) \/ DelUnlink(p) \/ DelActive(p) \/ DelSpin(p)
            \/ TsleepArm(p) \/ TsleepAwake(p) \/ TsleepWait(p) \/ TsleepWoken(p)
            \/ Edfunlock(p)

Calls(p) == \/ \E r \in Rendez : Tsleep(p, r)
            \/ SampleStart(p) \/ SampleEnd(p) \/ Pexit(p)
            \/ EdfAdmit(p) \/ EdfSet(p) \/ EdfStop(p)

\* timerintr(), once it has begun.
IntrSteps(c) == \/ IntrEnd(c) \/ \E t \in Proc : Pop(c, t)
                \/ SetActive(c) \/ TfOther(c) \/ TwakeupNone(c) \/ Twakeup(c)
                \/ TwakeupClear(c) \/ TwakeupWake(c)
                \/ Releaseintr(c)
                \/ IntrEdflock(c, "release", "released") \/ IntrEdflock(c, "ready", "readied")
                \/ ReleaseReady(c) \/ ReleaseAdd(c) \/ ReleaseUnlink(c) \/ ReleaseLink(c)
                \/ ReleaseEnd(c)
                \/ Inactive(c) \/ IntrNext(c) \/ IntrPeriodic(c) \/ Readd(c)

Next == \/ \E p \in Proc : Calls(p) \/ Steps(p) \/ Event(p)
        \/ \E c \in Cpu : Tick(c) \/ IntrSteps(c)

Spec == Init /\ [][Next]_vars
-----------------------------------------------------------------------------
\* Where timerintr() is in the function of a timer.
InTwakeup == {"tf", "clear", "wakeup", "done"}
InFunction == InTwakeup \cup {"release", "released", "ready", "readied",
                              "elink", "eunlink", "eunlock"}

TypeOK == /\ list \in [Cpu -> SUBSET Proc]
          /\ tlk \in [Cpu -> Cpu \cup {Nil}]
          /\ tt \in [Proc -> Cpu \cup {Nil}]
          /\ tactive \in [Proc -> Cpu \cup {Nil}]
          /\ tmode \in [Proc -> {"Trelative", "Tperiodic"}]
          /\ trend \in [Proc -> Rendez \cup {Nil}]
          /\ stale \subseteq Sleepers
          /\ edlk \in Cpu \cup Edfs \cup {Nil}
          /\ admitted \subseteq Edfs
          /\ h \in [Cpu -> InFunction \cup {"off", "run", "popped", "relock", "readd"}]
          /\ job \in [Cpu -> Proc \cup {Nil}]
          /\ hrend \in [Cpu -> Rendez \cup {Nil}]
          /\ pc \in [Proc -> {"idle", "arm", "add", "addunlink", "addlink", "sleep", "asleep",
                              "woken", "delmode", "del", "delunlink", "delactive", "delspin",
                              "sampling", "sampled", "dead", "edfunlock"}]
          /\ after \in [Proc -> {"idle", "arm", "sleep", "sampling", "sampled", "dead", "edfunlock"}]
          /\ on \in [Proc -> Cpu \cup {Nil}]
          /\ seen \in [Proc -> Cpu \cup {Nil}]
          /\ rz \in [Proc -> Rendez \cup {Nil}]

\* A timer is in the list that t->tt names, and in no other.
ListsAgree == \A p \in Proc, c \in Cpu : p \in list[c] <=> tt[p] = c

\* assert(nt->tt == nil) in tadd(): nobody adds a timer that is armed.
AddsUnarmed == /\ \A p \in Proc : pc[p] = "addlink" => tt[p] = Nil
               /\ \A c \in Cpu : h[c] \in {"readd", "elink"} => tt[job[c]] = Nil

\* What the lists, the timers and their users say of one another agrees.
Consistent == TypeOK /\ ListsAgree /\ AddsUnarmed

\* A process asleep in tsleep() will be woken when its time is over: its timer
\* is armed, or timerintr() has it and will call, or is in, a twakeup() that
\* wakes the Rendez it sleeps on.  The exception are the processes in stale: the
\* function of the timer of an earlier tsleep(), which timerdel() did not wait
\* for (TimerdelWaits), has cleared p->trend and woken that Rendez instead.
TimeoutAhead == \A p \in Proc : pc[p] = "asleep" =>
                  \/ trend[p] # Nil /\ tt[p] # Nil /\ p \in list[tt[p]]
                  \/ trend[p] # Nil /\ \E c \in Cpu : job[c] = p /\ h[c] \in {"popped", "tf"}
                  \/ \E c \in Cpu : /\ job[c] = p /\ h[c] \in {"clear", "wakeup"}
                                   /\ hrend[c] = rz[p]
                  \/ p \in stale

\* timerdel() waits for a function that is "still active on another cpu": when
\* it has returned no timerintr() calls, or is about to call, the function.
TimerdelWaits == \A p \in Sleepers : pc[p] = "idle" =>
                   \A c \in Cpu : job[c] = p => h[c] = "relock"

\* What timerdel() spins on, t->tactive, names a processor only while that is in
\* the function of this timer, whatever other processors do with the timer
\* meanwhile: the spin is never longer than the function.  That the function ends
\* is not said: releaseintr() may wait for the edflock() that edfstop() spins with.
ActiveInside == \A p \in Proc, c \in Cpu :
                  tactive[p] = c => job[c] = p /\ h[c] \in InFunction

\* edfstop() returns without the function of the timer having returned, or even
\* begun; once it has let go of edflock() no releaseintr() that comes late arms
\* the timer of a process that is not admitted.
ExpelledUnarmed == \A p \in Edfs \ admitted : edlk # p => tt[p] = Nil
=============================================================================
