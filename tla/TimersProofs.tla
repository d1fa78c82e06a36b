---------------------------- MODULE TimersProofs ----------------------------
(*****************************************************************************)
(* The safety properties of Timers hold for any number of processors, of     *)
(* Rendez structures and of users of each kind.                              *)
(*****************************************************************************)
EXTENDS Timers, TLAPS

AddPCs == {"add", "addunlink", "addlink"}
DelPCs == {"delmode", "del", "delunlink", "delactive", "delspin"}

\* A step under the lock of a timer knows its processor and, if it is to unlink
\* the timer, the list; timerintr() has a timer from Pop until the next one.
LocalsSet == /\ \A p \in Proc :
                  /\ pc[p] \in {"addunlink", "addlink", "delunlink", "delactive"} => on[p] \in Cpu
                  /\ pc[p] \in {"addunlink", "delunlink"} => seen[p] \in Cpu
             /\ \A c \in Cpu : /\ h[c] \in {"off", "run"} <=> job[c] = Nil
                               /\ h[c] = "eunlink" => seen[job[c]] \in Cpu

\* What each kind of user does, and where its timeradd() and timerdel() return
\* to.  Only samplers have a periodic timer, which timerintr() adds again.
KindsApart == /\ \A p \in Proc :
                   /\ pc[p] \in {"arm", "sleep", "asleep", "woken"} => p \in Sleepers
                   /\ pc[p] \in {"sampling", "sampled", "dead"} => p \in Samplers
                   /\ pc[p] = "edfunlock" => p \in Edfs
                   /\ pc[p] \in AddPCs =>
                        \/ p \in Sleepers /\ after[p] = "sleep"
                        \/ p \in Samplers /\ after[p] = "sampling"
                        \/ p \in Edfs /\ after[p] = "edfunlock"
                   /\ pc[p] \in DelPCs =>
                        \/ p \in Sleepers /\ after[p] \in {"arm", "idle"}
                        \/ p \in Samplers /\ after[p] \in {"sampled", "dead"}
                        \/ p \in Edfs /\ after[p] = "edfunlock"
                   /\ tmode[p] = "Tperiodic" => p \in Samplers
              /\ \A c \in Cpu : /\ h[c] = "readd" => job[c] \in Samplers
                                /\ h[c] \in {"clear", "wakeup"} => job[c] \in Sleepers
                                /\ h[c] \in InFunction \ InTwakeup => job[c] \in Edfs

\* edflock() is held by who is between taking it and letting it go, in timeradd()
\* only for a process that is admitted, in timerdel() for one that is not.
Releasing == {"released", "readied", "elink", "eunlink", "eunlock"}
EdfLocked == /\ \A p \in Edfs : /\ edlk = p <=> pc[p] # "idle"
                                /\ edlk = p => on[p] \in Cpu
                                /\ pc[p] \in AddPCs => p \in admitted
                                /\ pc[p] \in DelPCs => p \notin admitted
             /\ \A c \in Cpu : /\ edlk = c <=> h[c] \in Releasing
                               /\ h[c] \in Releasing => job[c] \in admitted

\* Who is where, and of what kind.
Control == TypeOK /\ LocalsSet /\ KindsApart /\ EdfLocked

\* A sampler adds its timer once; from then on it is in a list or with one
\* timerintr(), never both, so nobody else adds it when timerintr() adds it again.
SampledOnce == \A p \in Samplers :
                 /\ pc[p] \in {"idle"} \cup AddPCs => tt[p] = Nil /\ \A c \in Cpu : job[c] # p
                 /\ tt[p] # Nil => \A c \in Cpu : job[c] # p
                 /\ \A c, d \in Cpu : job[c] = p /\ job[d] = p => c = d

\* The timer of a process that is not admitted is armed at most until edfstop()
\* has deleted it.
Expelled == \A p \in Edfs \ admitted :
              tt[p] # Nil => pc[p] \in {"delmode", "del", "delunlink"}

\* The lists of timers.
Armed == ListsAgree /\ AddsUnarmed /\ SampledOnce /\ Expelled

\* The Rendez of a sleep that the timer is to end is the one tsleep() was given.
TrendIsRz == \A p \in Sleepers :
               pc[p] \in AddPCs \cup {"sleep", "asleep"} => trend[p] \in {Nil, rz[p]}

\* While p->trend is set the timer is armed, or timerintr() has it and twakeup()
\* has not yet cleared p->trend.
WillClear(p) == \/ tt[p] # Nil
                \/ \E c \in Cpu : job[c] = p /\ h[c] \in {"popped", "tf"}
                \/ \E c \in Cpu : job[c] = p /\ h[c] = "clear" /\ hrend[c] = rz[p]

\* When it is cleared, a twakeup() will wake the Rendez p sleeps on.
WillWake(p) == \/ \E c \in Cpu : job[c] = p /\ h[c] \in {"clear", "wakeup"} /\ hrend[c] = rz[p]
               \/ p \in stale

\* From timeradd() on the sleep will end, or has ended before it began.
AheadOfSleep ==
  \A p \in Proc :
    /\ pc[p] \in {"sleep", "asleep"} /\ trend[p] # Nil => WillClear(p)
    /\ pc[p] = "asleep" /\ trend[p] = Nil => WillWake(p)

\* What tsleep() and timerdel() wait for.
Waits == TrendIsRz /\ AheadOfSleep /\ ActiveInside

\* The inductive invariant.
Inv == Control /\ Armed /\ Waits
-----------------------------------------------------------------------------
\* No step disturbs who is where.
LEMMA ControlStep ==
  ASSUME Control, Armed, [Next]_vars
  PROVE  Control'
<1> USE TimersAssumption
    DEF Proc, At, Open, Goto, Call, Splhi, Splx, Intr, timerVars, intrVars, procVars, edfVars,
       Control, TypeOK, AddPCs, DelPCs, InFunction, InTwakeup
<1>1. ASSUME NEW p \in Proc, Add(p)
      PROVE  Control'
  BY <1>1 DEF LocalsSet, KindsApart, EdfLocked, Releasing, Add
<1>2. ASSUME NEW p \in Proc, AddUnlink(p)
      PROVE  Control'
  BY <1>2 DEF LocalsSet, KindsApart, EdfLocked, Releasing, AddUnlink, Tdel
<1>3. ASSUME NEW p \in Proc, AddLink(p)
      PROVE  Control'
  BY <1>3 DEF LocalsSet, KindsApart, EdfLocked, Releasing, AddLink, Tadd
<1>4. ASSUME NEW p \in Proc, DelMode(p)
      PROVE  Control'
  BY <1>4 DEF LocalsSet, KindsApart, EdfLocked, Releasing, DelMode
<1>5. ASSUME NEW p \in Proc, Del(p)
      PROVE  Control'
  BY <1>5 DEF LocalsSet, KindsApart, EdfLocked, Releasing, Del
<1>6. ASSUME NEW p \in Proc, DelUnlink(p)
      PROVE  Control'
  BY <1>6 DEF LocalsSet, KindsApart, EdfLocked, Releasing, DelUnlink, Tdel
<1>7. ASSUME NEW p \in Proc, DelActive(p)
      PROVE  Control'
  BY <1>7 DEF LocalsSet, KindsApart, EdfLocked, Releasing, DelActive
<1>8. ASSUME NEW p \in Proc, DelSpin(p)
      PROVE  Control'
  BY <1>8 DEF LocalsSet, KindsApart, EdfLocked, Releasing, DelSpin
<1>9. ASSUME NEW p \in Proc, NEW r \in Rendez, Tsleep(p, r)
      PROVE  Control'
  BY <1>9 DEF LocalsSet, KindsApart, EdfLocked, Releasing, Tsleep
<1>10. ASSUME NEW p \in Proc, TsleepArm(p)
      PROVE  Control'
  BY <1>10 DEF LocalsSet, KindsApart, EdfLocked, Releasing, TsleepArm
<1>11. ASSUME NEW p \in Proc, TsleepAwake(p)
      PROVE  Control'
  BY <1>11 DEF LocalsSet, KindsApart, EdfLocked, Releasing, TsleepAwake
<1>12. ASSUME NEW p \in Proc, TsleepWait(p)
      PROVE  Control'
  BY <1>12 DEF LocalsSet, KindsApart, EdfLocked, Releasing, TsleepWait
<1>13. ASSUME NEW p \in Proc, TsleepWoken(p)
      PROVE  Control'
  BY <1>13 DEF LocalsSet, KindsApart, EdfLocked, Releasing, TsleepWoken
<1>14. ASSUME NEW p \in Proc, Event(p)
      PROVE  Control'
  BY <1>14 DEF LocalsSet, KindsApart, EdfLocked, Releasing, Event
<1>15. ASSUME NEW p \in Proc, SampleStart(p)
      PROVE  Control'
  BY <1>15 DEF LocalsSet, KindsApart, EdfLocked, Releasing, SampleStart
<1>16. ASSUME NEW p \in Proc, SampleEnd(p)
      PROVE  Control'
  BY <1>16 DEF LocalsSet, KindsApart, EdfLocked, Releasing, SampleEnd
<1>17. ASSUME NEW p \in Proc, Pexit(p)
      PROVE  Control'
  BY <1>17 DEF LocalsSet, KindsApart, EdfLocked, Releasing, Pexit
<1>18. ASSUME NEW p \in Proc, EdfAdmit(p)
      PROVE  Control'
  BY <1>18 DEF LocalsSet, KindsApart, EdfLocked, Releasing, EdfAdmit
<1>19. ASSUME NEW p \in Proc, EdfSet(p)
      PROVE  Control'
  BY <1>19 DEF LocalsSet, KindsApart, EdfLocked, Releasing, EdfSet, Edflock
<1>20. ASSUME NEW p \in Proc, EdfStop(p)
      PROVE  Control'
  BY <1>20 DEF LocalsSet, KindsApart, EdfLocked, Releasing, EdfStop, Edflock
<1>21. ASSUME NEW p \in Proc, Edfunlock(p)
      PROVE  Control'
  BY <1>21 DEF LocalsSet, KindsApart, EdfLocked, Releasing, Edfunlock
<1>22. ASSUME NEW c \in Cpu, Tick(c)
      PROVE  Control'
  BY <1>22 DEF LocalsSet, KindsApart, EdfLocked, Releasing, Tick
<1>23. ASSUME NEW c \in Cpu, IntrEnd(c)
      PROVE  Control'
  BY <1>23 DEF LocalsSet, KindsApart, EdfLocked, Releasing, IntrEnd
<1>24. ASSUME NEW c \in Cpu, NEW t \in Proc, Pop(c, t)
      PROVE  Control'
  BY <1>24 DEF LocalsSet, KindsApart, EdfLocked, Releasing, Pop
<1>25. ASSUME NEW c \in Cpu, SetActive(c)
      PROVE  Control'
  BY <1>25 DEF LocalsSet, KindsApart, EdfLocked, Releasing, SetActive
<1>26. ASSUME NEW c \in Cpu, TfOther(c)
      PROVE  Control'
  BY <1>26 DEF LocalsSet, KindsApart, EdfLocked, Releasing, TfOther
<1>27. ASSUME NEW c \in Cpu, TwakeupNone(c)
      PROVE  Control'
  BY <1>27 DEF LocalsSet, KindsApart, EdfLocked, Releasing, TwakeupNone
<1>28. ASSUME NEW c \in Cpu, Twakeup(c)
      PROVE  Control'
  BY <1>28 DEF LocalsSet, KindsApart, EdfLocked, Releasing, Twakeup
<1>29. ASSUME NEW c \in Cpu, TwakeupClear(c)
      PROVE  Control'
  BY <1>29 DEF LocalsSet, KindsApart, EdfLocked, Releasing, TwakeupClear
<1>30. ASSUME NEW c \in Cpu, TwakeupWake(c)
      PROVE  Control'
  BY <1>30 DEF LocalsSet, KindsApart, EdfLocked, Releasing, TwakeupWake
<1>31. ASSUME NEW c \in Cpu, Releaseintr(c)
      PROVE  Control'
  BY <1>31 DEF LocalsSet, KindsApart, EdfLocked, Releasing, Releaseintr
<1>32. ASSUME NEW c \in Cpu, IntrEdflock(c, "release", "released")
      PROVE  Control'
  BY <1>32 DEF LocalsSet, KindsApart, EdfLocked, Releasing, IntrEdflock
<1>33. ASSUME NEW c \in Cpu, IntrEdflock(c, "ready", "readied")
      PROVE  Control'
  BY <1>33 DEF LocalsSet, KindsApart, EdfLocked, Releasing, IntrEdflock
<1>34. ASSUME NEW c \in Cpu, ReleaseReady(c)
      PROVE  Control'
  BY <1>34 DEF LocalsSet, KindsApart, EdfLocked, Releasing, ReleaseReady
<1>35. ASSUME NEW c \in Cpu, ReleaseAdd(c)
      PROVE  Control'
  BY <1>35 DEF LocalsSet, KindsApart, EdfLocked, Releasing, ReleaseAdd
<1>36. ASSUME NEW c \in Cpu, ReleaseUnlink(c)
      PROVE  Control'
  BY <1>36 DEF LocalsSet, KindsApart, EdfLocked, Releasing, ReleaseUnlink, Tdel
<1>37. ASSUME NEW c \in Cpu, ReleaseLink(c)
      PROVE  Control'
  BY <1>37 DEF LocalsSet, KindsApart, EdfLocked, Releasing, ReleaseLink, Tadd
<1>38. ASSUME NEW c \in Cpu, ReleaseEnd(c)
      PROVE  Control'
  BY <1>38 DEF LocalsSet, KindsApart, EdfLocked, Releasing, ReleaseEnd
<1>39. ASSUME NEW c \in Cpu, Inactive(c)
      PROVE  Control'
  BY <1>39 DEF LocalsSet, KindsApart, EdfLocked, Releasing, Inactive
<1>40. ASSUME NEW c \in Cpu, IntrNext(c)
      PROVE  Control'
  BY <1>40 DEF LocalsSet, KindsApart, EdfLocked, Releasing, IntrNext
<1>41. ASSUME NEW c \in Cpu, IntrPeriodic(c)
      PROVE  Control'
  BY <1>41 DEF LocalsSet, KindsApart, EdfLocked, Releasing, IntrPeriodic
<1>42. ASSUME NEW c \in Cpu, Readd(c)
      PROVE  Control'
  BY <1>42 DEF LocalsSet, KindsApart, EdfLocked, Releasing, Readd, Tadd
<1>43. CASE UNCHANGED vars
  BY <1>43 DEF LocalsSet, KindsApart, EdfLocked, Releasing, vars
<1>. QED
  BY <1>1, <1>2, <1>3, <1>4, <1>5, <1>6, <1>7, <1>8, <1>9, <1>10, <1>11, <1>12, <1>13,
    <1>14, <1>15, <1>16, <1>17, <1>18, <1>19, <1>20, <1>21, <1>22, <1>23, <1>24, <1>25,
    <1>26, <1>27, <1>28, <1>29, <1>30, <1>31, <1>32, <1>33, <1>34, <1>35, <1>36, <1>37,
    <1>38, <1>39, <1>40, <1>41, <1>42, <1>43 DEF Next, Calls, Steps, IntrSteps

\* No step puts a timer into two lists, adds one that is armed, or arms the timer of
\* a process that is not admitted.
LEMMA ArmedStep ==
  ASSUME Control, Armed, [Next]_vars
  PROVE  Armed'
<1> USE TimersAssumption
    DEF Proc, At, Open, Goto, Call, Splhi, Splx, Intr, timerVars, intrVars, procVars, edfVars,
       Control, TypeOK, AddPCs, DelPCs, InFunction, InTwakeup
<1>1. ASSUME NEW p \in Proc, Add(p)
      PROVE  Armed'
  BY <1>1 DEF LocalsSet, KindsApart, EdfLocked, Releasing, Armed, ListsAgree,
     AddsUnarmed, SampledOnce, Expelled, Add
<1>2. ASSUME NEW p \in Proc, AddUnlink(p)
      PROVE  Armed'
  <2>1. ListsAgree'
    BY <1>2 DEF LocalsSet, KindsApart, EdfLocked, Releasing, Armed, ListsAgree,
       AddsUnarmed, AddUnlink, Tdel
  <2>2. AddsUnarmed'
    BY <1>2 DEF LocalsSet, KindsApart, EdfLocked, Releasing, Armed, ListsAgree,
       AddsUnarmed, SampledOnce, AddUnlink, Tdel
  <2>3. SampledOnce'
    BY <1>2 DEF LocalsSet, KindsApart, EdfLocked, Releasing, Armed, SampledOnce,
       ListsAgree, AddsUnarmed, AddUnlink, Tdel
  <2>4. Expelled'
    BY <1>2 DEF LocalsSet, KindsApart, EdfLocked, Releasing, Armed, Expelled, AddUnlink,
       Tdel
  <2>. QED
    BY <2>1, <2>2, <2>3, <2>4 DEF Armed
<1>3. ASSUME NEW p \in Proc, AddLink(p)
      PROVE  Armed'
  <2>1. ListsAgree'
    BY <1>3 DEF LocalsSet, KindsApart, EdfLocked, Releasing, Armed, ListsAgree,
       AddsUnarmed, AddLink, Tadd
  <2>2. AddsUnarmed'
    BY <1>3 DEF LocalsSet, KindsApart, EdfLocked, Releasing, Armed, ListsAgree,
       AddsUnarmed, SampledOnce, AddLink, Tadd
  <2>3. SampledOnce'
    BY <1>3 DEF LocalsSet, KindsApart, EdfLocked, Releasing, Armed, SampledOnce,
       ListsAgree, AddsUnarmed, AddLink, Tadd
  <2>4. Expelled'
    BY <1>3 DEF LocalsSet, KindsApart, EdfLocked, Releasing, Armed, Expelled, AddLink,
       Tadd
  <2>. QED
    BY <2>1, <2>2, <2>3, <2>4 DEF Armed
<1>4. ASSUME NEW p \in Proc, DelMode(p)
      PROVE  Armed'
  BY <1>4 DEF LocalsSet, KindsApart, EdfLocked, Releasing, Armed, ListsAgree,
     AddsUnarmed, SampledOnce, Expelled, DelMode
<1>5. ASSUME NEW p \in Proc, Del(p)
      PROVE  Armed'
  BY <1>5 DEF LocalsSet, KindsApart, EdfLocked, Releasing, Armed, ListsAgree,
     AddsUnarmed, SampledOnce, Expelled, Del
<1>6. ASSUME NEW p \in Proc, DelUnlink(p)
      PROVE  Armed'
  <2>1. ListsAgree'
    BY <1>6 DEF LocalsSet, KindsApart, EdfLocked, Releasing, Armed, ListsAgree,
       AddsUnarmed, DelUnlink, Tdel
  <2>2. AddsUnarmed'
    BY <1>6 DEF LocalsSet, KindsApart, EdfLocked, Releasing, Armed, ListsAgree,
       AddsUnarmed, SampledOnce, DelUnlink, Tdel
  <2>3. SampledOnce'
    BY <1>6 DEF LocalsSet, KindsApart, EdfLocked, Releasing, Armed, SampledOnce,
       ListsAgree, AddsUnarmed, DelUnlink, Tdel
  <2>4. Expelled'
    BY <1>6 DEF LocalsSet, KindsApart, EdfLocked, Releasing, Armed, Expelled, DelUnlink,
       Tdel
  <2>. QED
    BY <2>1, <2>2, <2>3, <2>4 DEF Armed
<1>7. ASSUME NEW p \in Proc, DelActive(p)
      PROVE  Armed'
  BY <1>7 DEF LocalsSet, KindsApart, EdfLocked, Releasing, Armed, ListsAgree,
     AddsUnarmed, SampledOnce, Expelled, DelActive
<1>8. ASSUME NEW p \in Proc, DelSpin(p)
      PROVE  Armed'
  BY <1>8 DEF LocalsSet, KindsApart, EdfLocked, Releasing, Armed, ListsAgree,
     AddsUnarmed, SampledOnce, Expelled, DelSpin
<1>9. ASSUME NEW p \in Proc, NEW r \in Rendez, Tsleep(p, r)
      PROVE  Armed'
  BY <1>9 DEF LocalsSet, KindsApart, EdfLocked, Releasing, Armed, ListsAgree,
     AddsUnarmed, SampledOnce, Expelled, Tsleep
<1>10. ASSUME NEW p \in Proc, TsleepArm(p)
      PROVE  Armed'
  BY <1>10 DEF LocalsSet, KindsApart, EdfLocked, Releasing, Armed, ListsAgree,
     AddsUnarmed, SampledOnce, Expelled, TsleepArm
<1>11. ASSUME NEW p \in Proc, TsleepAwake(p)
      PROVE  Armed'
  BY <1>11 DEF LocalsSet, KindsApart, EdfLocked, Releasing, Armed, ListsAgree,
     AddsUnarmed, SampledOnce, Expelled, TsleepAwake
<1>12. ASSUME NEW p \in Proc, TsleepWait(p)
      PROVE  Armed'
  BY <1>12 DEF LocalsSet, KindsApart, EdfLocked, Releasing, Armed, ListsAgree,
     AddsUnarmed, SampledOnce, Expelled, TsleepWait
<1>13. ASSUME NEW p \in Proc, TsleepWoken(p)
      PROVE  Armed'
  BY <1>13 DEF LocalsSet, KindsApart, EdfLocked, Releasing, Armed, ListsAgree,
     AddsUnarmed, SampledOnce, Expelled, TsleepWoken
<1>14. ASSUME NEW p \in Proc, Event(p)
      PROVE  Armed'
  BY <1>14 DEF LocalsSet, KindsApart, EdfLocked, Releasing, Armed, ListsAgree,
     AddsUnarmed, SampledOnce, Expelled, Event
<1>15. ASSUME NEW p \in Proc, SampleStart(p)
      PROVE  Armed'
  BY <1>15 DEF LocalsSet, KindsApart, EdfLocked, Releasing, Armed, ListsAgree,
     AddsUnarmed, SampledOnce, Expelled, SampleStart
<1>16. ASSUME NEW p \in Proc, SampleEnd(p)
      PROVE  Armed'
  BY <1>16 DEF LocalsSet, KindsApart, EdfLocked, Releasing, Armed, ListsAgree,
     AddsUnarmed, SampledOnce, Expelled, SampleEnd
<1>17. ASSUME NEW p \in Proc, Pexit(p)
      PROVE  Armed'
  BY <1>17 DEF LocalsSet, KindsApart, EdfLocked, Releasing, Armed, ListsAgree,
     AddsUnarmed, SampledOnce, Expelled, Pexit
<1>18. ASSUME NEW p \in Proc, EdfAdmit(p)
      PROVE  Armed'
  BY <1>18 DEF LocalsSet, KindsApart, EdfLocked, Releasing, Armed, ListsAgree,
     AddsUnarmed, SampledOnce, Expelled, EdfAdmit
<1>19. ASSUME NEW p \in Proc, EdfSet(p)
      PROVE  Armed'
  BY <1>19 DEF LocalsSet, KindsApart, EdfLocked, Releasing, Armed, ListsAgree,
     AddsUnarmed, SampledOnce, Expelled, EdfSet, Edflock
<1>20. ASSUME NEW p \in Proc, EdfStop(p)
      PROVE  Armed'
  BY <1>20 DEF LocalsSet, KindsApart, EdfLocked, Releasing, Armed, ListsAgree,
     AddsUnarmed, SampledOnce, Expelled, EdfStop, Edflock
<1>21. ASSUME NEW p \in Proc, Edfunlock(p)
      PROVE  Armed'
  BY <1>21 DEF LocalsSet, KindsApart, EdfLocked, Releasing, Armed, ListsAgree,
     AddsUnarmed, SampledOnce, Expelled, Edfunlock
<1>22. ASSUME NEW c \in Cpu, Tick(c)
      PROVE  Armed'
  BY <1>22 DEF LocalsSet, KindsApart, EdfLocked, Releasing, Armed, ListsAgree,
     AddsUnarmed, SampledOnce, Expelled, Tick
<1>23. ASSUME NEW c \in Cpu, IntrEnd(c)
      PROVE  Armed'
  BY <1>23 DEF LocalsSet, KindsApart, EdfLocked, Releasing, Armed, ListsAgree,
     AddsUnarmed, SampledOnce, Expelled, IntrEnd
<1>24. ASSUME NEW c \in Cpu, NEW t \in Proc, Pop(c, t)
      PROVE  Armed'
  <2>1. ListsAgree'
    BY <1>24 DEF LocalsSet, KindsApart, EdfLocked, Releasing, Armed, ListsAgree,
       AddsUnarmed, Pop
  <2>2. AddsUnarmed'
    BY <1>24 DEF LocalsSet, KindsApart, EdfLocked, Releasing, Armed, ListsAgree,
       AddsUnarmed, SampledOnce, Pop
  <2>3. SampledOnce'
    BY <1>24 DEF LocalsSet, KindsApart, EdfLocked, Releasing, Armed, SampledOnce,
       ListsAgree, AddsUnarmed, Pop
  <2>4. Expelled'
    BY <1>24 DEF LocalsSet, KindsApart, EdfLocked, Releasing, Armed, Expelled, Pop
  <2>. QED
    BY <2>1, <2>2, <2>3, <2>4 DEF Armed
<1>25. ASSUME NEW c \in Cpu, SetActive(c)
      PROVE  Armed'
  BY <1>25 DEF LocalsSet, KindsApart, EdfLocked, Releasing, Armed, ListsAgree,
     AddsUnarmed, SampledOnce, Expelled, SetActive
<1>26. ASSUME NEW c \in Cpu, TfOther(c)
      PROVE  Armed'
  BY <1>26 DEF LocalsSet, KindsApart, EdfLocked, Releasing, Armed, ListsAgree,
     AddsUnarmed, SampledOnce, Expelled, TfOther
<1>27. ASSUME NEW c \in Cpu, TwakeupNone(c)
      PROVE  Armed'
  BY <1>27 DEF LocalsSet, KindsApart, EdfLocked, Releasing, Armed, ListsAgree,
     AddsUnarmed, SampledOnce, Expelled, TwakeupNone
<1>28. ASSUME NEW c \in Cpu, Twakeup(c)
      PROVE  Armed'
  BY <1>28 DEF LocalsSet, KindsApart, EdfLocked, Releasing, Armed, ListsAgree,
     AddsUnarmed, SampledOnce, Expelled, Twakeup
<1>29. ASSUME NEW c \in Cpu, TwakeupClear(c)
      PROVE  Armed'
  BY <1>29 DEF LocalsSet, KindsApart, EdfLocked, Releasing, Armed, ListsAgree,
     AddsUnarmed, SampledOnce, Expelled, TwakeupClear
<1>30. ASSUME NEW c \in Cpu, TwakeupWake(c)
      PROVE  Armed'
  BY <1>30 DEF LocalsSet, KindsApart, EdfLocked, Releasing, Armed, ListsAgree,
     AddsUnarmed, SampledOnce, Expelled, TwakeupWake
<1>31. ASSUME NEW c \in Cpu, Releaseintr(c)
      PROVE  Armed'
  BY <1>31 DEF LocalsSet, KindsApart, EdfLocked, Releasing, Armed, ListsAgree,
     AddsUnarmed, SampledOnce, Expelled, Releaseintr
<1>32. ASSUME NEW c \in Cpu, IntrEdflock(c, "release", "released")
      PROVE  Armed'
  BY <1>32 DEF LocalsSet, KindsApart, EdfLocked, Releasing, Armed, ListsAgree,
     AddsUnarmed, SampledOnce, Expelled, IntrEdflock
<1>33. ASSUME NEW c \in Cpu, IntrEdflock(c, "ready", "readied")
      PROVE  Armed'
  BY <1>33 DEF LocalsSet, KindsApart, EdfLocked, Releasing, Armed, ListsAgree,
     AddsUnarmed, SampledOnce, Expelled, IntrEdflock
<1>34. ASSUME NEW c \in Cpu, ReleaseReady(c)
      PROVE  Armed'
  BY <1>34 DEF LocalsSet, KindsApart, EdfLocked, Releasing, Armed, ListsAgree,
     AddsUnarmed, SampledOnce, Expelled, ReleaseReady
<1>35. ASSUME NEW c \in Cpu, ReleaseAdd(c)
      PROVE  Armed'
  BY <1>35 DEF LocalsSet, KindsApart, EdfLocked, Releasing, Armed, ListsAgree,
     AddsUnarmed, SampledOnce, Expelled, ReleaseAdd
<1>36. ASSUME NEW c \in Cpu, ReleaseUnlink(c)
      PROVE  Armed'
  <2>1. ListsAgree'
    BY <1>36 DEF LocalsSet, KindsApart, EdfLocked, Releasing, Armed, ListsAgree,
       AddsUnarmed, ReleaseUnlink, Tdel
  <2>2. AddsUnarmed'
    BY <1>36 DEF LocalsSet, KindsApart, EdfLocked, Releasing, Armed, ListsAgree,
       AddsUnarmed, SampledOnce, ReleaseUnlink, Tdel
  <2>3. SampledOnce'
    BY <1>36 DEF LocalsSet, KindsApart, EdfLocked, Releasing, Armed, SampledOnce,
       ListsAgree, AddsUnarmed, ReleaseUnlink, Tdel
  <2>4. Expelled'
    BY <1>36 DEF LocalsSet, KindsApart, EdfLocked, Releasing, Armed, Expelled,
       ReleaseUnlink, Tdel
  <2>. QED
    BY <2>1, <2>2, <2>3, <2>4 DEF Armed
<1>37. ASSUME NEW c \in Cpu, ReleaseLink(c)
      PROVE  Armed'
  <2>1. ListsAgree'
    BY <1>37 DEF LocalsSet, KindsApart, EdfLocked, Releasing, Armed, ListsAgree,
       AddsUnarmed, ReleaseLink, Tadd
  <2>2. AddsUnarmed'
    BY <1>37 DEF LocalsSet, KindsApart, EdfLocked, Releasing, Armed, ListsAgree,
       AddsUnarmed, SampledOnce, ReleaseLink, Tadd
  <2>3. SampledOnce'
    BY <1>37 DEF LocalsSet, KindsApart, EdfLocked, Releasing, Armed, SampledOnce,
       ListsAgree, AddsUnarmed, ReleaseLink, Tadd
  <2>4. Expelled'
    BY <1>37 DEF LocalsSet, KindsApart, EdfLocked, Releasing, Armed, Expelled,
       ReleaseLink, Tadd
  <2>. QED
    BY <2>1, <2>2, <2>3, <2>4 DEF Armed
<1>38. ASSUME NEW c \in Cpu, ReleaseEnd(c)
      PROVE  Armed'
  BY <1>38 DEF LocalsSet, KindsApart, EdfLocked, Releasing, Armed, ListsAgree,
     AddsUnarmed, SampledOnce, Expelled, ReleaseEnd
<1>39. ASSUME NEW c \in Cpu, Inactive(c)
      PROVE  Armed'
  BY <1>39 DEF LocalsSet, KindsApart, EdfLocked, Releasing, Armed, ListsAgree,
     AddsUnarmed, SampledOnce, Expelled, Inactive
<1>40. ASSUME NEW c \in Cpu, IntrNext(c)
      PROVE  Armed'
  BY <1>40 DEF LocalsSet, KindsApart, EdfLocked, Releasing, Armed, ListsAgree,
     AddsUnarmed, SampledOnce, Expelled, IntrNext
<1>41. ASSUME NEW c \in Cpu, IntrPeriodic(c)
      PROVE  Armed'
  BY <1>41 DEF LocalsSet, KindsApart, EdfLocked, Releasing, Armed, ListsAgree,
     AddsUnarmed, SampledOnce, Expelled, IntrPeriodic
<1>42. ASSUME NEW c \in Cpu, Readd(c)
      PROVE  Armed'
  <2>1. ListsAgree'
    BY <1>42 DEF LocalsSet, KindsApart, EdfLocked, Releasing, Armed, ListsAgree,
       AddsUnarmed, Readd, Tadd
  <2>2. AddsUnarmed'
    BY <1>42 DEF LocalsSet, KindsApart, EdfLocked, Releasing, Armed, ListsAgree,
       AddsUnarmed, SampledOnce, Readd, Tadd
  <2>3. SampledOnce'
    BY <1>42 DEF LocalsSet, KindsApart, EdfLocked, Releasing, Armed, SampledOnce,
       ListsAgree, AddsUnarmed, Readd, Tadd
  <2>4. Expelled'
    BY <1>42 DEF LocalsSet, KindsApart, EdfLocked, Releasing, Armed, Expelled, Readd,
       Tadd
  <2>. QED
    BY <2>1, <2>2, <2>3, <2>4 DEF Armed
<1>43. CASE UNCHANGED vars
  BY <1>43 DEF LocalsSet, KindsApart, EdfLocked, Releasing, Armed, ListsAgree,
     AddsUnarmed, SampledOnce, Expelled, vars
<1>. QED
  BY <1>1, <1>2, <1>3, <1>4, <1>5, <1>6, <1>7, <1>8, <1>9, <1>10, <1>11, <1>12, <1>13,
    <1>14, <1>15, <1>16, <1>17, <1>18, <1>19, <1>20, <1>21, <1>22, <1>23, <1>24, <1>25,
    <1>26, <1>27, <1>28, <1>29, <1>30, <1>31, <1>32, <1>33, <1>34, <1>35, <1>36, <1>37,
    <1>38, <1>39, <1>40, <1>41, <1>42, <1>43 DEF Next, Calls, Steps, IntrSteps

\* No step leaves a process in tsleep() without its timeout, or t->tactive behind
\* when the function has returned.
LEMMA WaitsStep ==
  ASSUME Control, Armed, Waits, [Next]_vars
  PROVE  Waits'
<1> USE TimersAssumption
    DEF Proc, At, Open, Goto, Call, Splhi, Splx, Intr, timerVars, intrVars, procVars, edfVars,
       Control, TypeOK, AddPCs, DelPCs, InFunction, InTwakeup
<1>1. ASSUME NEW p \in Proc, Add(p)
      PROVE  Waits'
  <2>1. TrendIsRz'
    BY <1>1 DEF LocalsSet, KindsApart, EdfLocked, Releasing, Waits, TrendIsRz, Add
  <2>2. AheadOfSleep'
    BY <1>1 DEF LocalsSet, KindsApart, EdfLocked, Releasing, Waits, TrendIsRz,
       AheadOfSleep, WillClear, WillWake, Add
  <2>3. ActiveInside'
    BY <1>1 DEF LocalsSet, KindsApart, EdfLocked, Releasing, Waits, ActiveInside, Add
  <2>. QED
    BY <2>1, <2>2, <2>3 DEF Waits
<1>2. ASSUME NEW p \in Proc, AddUnlink(p)
      PROVE  Waits'
  <2>1. TrendIsRz'
    BY <1>2 DEF LocalsSet, KindsApart, EdfLocked, Releasing, Waits, TrendIsRz,
       AddUnlink, Tdel
  <2>2. AheadOfSleep'
    BY <1>2 DEF LocalsSet, KindsApart, EdfLocked, Releasing, Waits, TrendIsRz,
       AheadOfSleep, WillClear, WillWake, AddUnlink, Tdel
  <2>3. ActiveInside'
    BY <1>2 DEF LocalsSet, KindsApart, EdfLocked, Releasing, Waits, ActiveInside,
       AddUnlink, Tdel
  <2>. QED
    BY <2>1, <2>2, <2>3 DEF Waits
<1>3. ASSUME NEW p \in Proc, AddLink(p)
      PROVE  Waits'
  <2>1. TrendIsRz'
    BY <1>3 DEF LocalsSet, KindsApart, EdfLocked, Releasing, Waits, TrendIsRz, AddLink,
       Tadd
  <2>2. AheadOfSleep'
    BY <1>3 DEF LocalsSet, KindsApart, EdfLocked, Releasing, Waits, TrendIsRz,
       AheadOfSleep, WillClear, WillWake, AddLink, Tadd
  <2>3. ActiveInside'
    BY <1>3 DEF LocalsSet, KindsApart, EdfLocked, Releasing, Waits, ActiveInside,
       AddLink, Tadd
  <2>. QED
    BY <2>1, <2>2, <2>3 DEF Waits
<1>4. ASSUME NEW p \in Proc, DelMode(p)
      PROVE  Waits'
  <2>1. TrendIsRz'
    BY <1>4 DEF LocalsSet, KindsApart, EdfLocked, Releasing, Waits, TrendIsRz, DelMode
  <2>2. AheadOfSleep'
    BY <1>4 DEF LocalsSet, KindsApart, EdfLocked, Releasing, Waits, TrendIsRz,
       AheadOfSleep, WillClear, WillWake, DelMode
  <2>3. ActiveInside'
    BY <1>4 DEF LocalsSet, KindsApart, EdfLocked, Releasing, Waits, ActiveInside,
       DelMode
  <2>. QED
    BY <2>1, <2>2, <2>3 DEF Waits
<1>5. ASSUME NEW p \in Proc, Del(p)
      PROVE  Waits'
  <2>1. TrendIsRz'
    BY <1>5 DEF LocalsSet, KindsApart, EdfLocked, Releasing, Waits, TrendIsRz, Del
  <2>2. AheadOfSleep'
    BY <1>5 DEF LocalsSet, KindsApart, EdfLocked, Releasing, Waits, TrendIsRz,
       AheadOfSleep, WillClear, WillWake, Del
  <2>3. ActiveInside'
    BY <1>5 DEF LocalsSet, KindsApart, EdfLocked, Releasing, Waits, ActiveInside, Del
  <2>. QED
    BY <2>1, <2>2, <2>3 DEF Waits
<1>6. ASSUME NEW p \in Proc, DelUnlink(p)
      PROVE  Waits'
  <2>1. TrendIsRz'
    BY <1>6 DEF LocalsSet, KindsApart, EdfLocked, Releasing, Waits, TrendIsRz,
       DelUnlink, Tdel
  <2>2. AheadOfSleep'
    BY <1>6 DEF LocalsSet, KindsApart, EdfLocked, Releasing, Waits, TrendIsRz,
       AheadOfSleep, WillClear, WillWake, DelUnlink, Tdel
  <2>3. ActiveInside'
    BY <1>6 DEF LocalsSet, KindsApart, EdfLocked, Releasing, Waits, ActiveInside,
       DelUnlink, Tdel
  <2>. QED
    BY <2>1, <2>2, <2>3 DEF Waits
<1>7. ASSUME NEW p \in Proc, DelActive(p)
      PROVE  Waits'
  <2>1. TrendIsRz'
    BY <1>7 DEF LocalsSet, KindsApart, EdfLocked, Releasing, Waits, TrendIsRz, DelActive
  <2>2. AheadOfSleep'
    BY <1>7 DEF LocalsSet, KindsApart, EdfLocked, Releasing, Waits, TrendIsRz,
       AheadOfSleep, WillClear, WillWake, DelActive
  <2>3. ActiveInside'
    BY <1>7 DEF LocalsSet, KindsApart, EdfLocked, Releasing, Waits, ActiveInside,
       DelActive
  <2>. QED
    BY <2>1, <2>2, <2>3 DEF Waits
<1>8. ASSUME NEW p \in Proc, DelSpin(p)
      PROVE  Waits'
  <2>1. TrendIsRz'
    BY <1>8 DEF LocalsSet, KindsApart, EdfLocked, Releasing, Waits, TrendIsRz, DelSpin
  <2>2. AheadOfSleep'
    BY <1>8 DEF LocalsSet, KindsApart, EdfLocked, Releasing, Waits, TrendIsRz,
       AheadOfSleep, WillClear, WillWake, DelSpin
  <2>3. ActiveInside'
    BY <1>8 DEF LocalsSet, KindsApart, EdfLocked, Releasing, Waits, ActiveInside,
       DelSpin
  <2>. QED
    BY <2>1, <2>2, <2>3 DEF Waits
<1>9. ASSUME NEW p \in Proc, NEW r \in Rendez, Tsleep(p, r)
      PROVE  Waits'
  <2>1. TrendIsRz'
    BY <1>9 DEF LocalsSet, KindsApart, EdfLocked, Releasing, Waits, TrendIsRz, Tsleep
  <2>2. AheadOfSleep'
    BY <1>9 DEF LocalsSet, KindsApart, EdfLocked, Releasing, Waits, TrendIsRz,
       AheadOfSleep, WillClear, WillWake, Tsleep
  <2>3. ActiveInside'
    BY <1>9 DEF LocalsSet, KindsApart, EdfLocked, Releasing, Waits, ActiveInside, Tsleep
  <2>. QED
    BY <2>1, <2>2, <2>3 DEF Waits
<1>10. ASSUME NEW p \in Proc, TsleepArm(p)
      PROVE  Waits'
  <2>1. TrendIsRz'
    BY <1>10 DEF LocalsSet, KindsApart, EdfLocked, Releasing, Waits, TrendIsRz,
       TsleepArm
  <2>2. AheadOfSleep'
    BY <1>10 DEF LocalsSet, KindsApart, EdfLocked, Releasing, Waits, TrendIsRz,
       AheadOfSleep, WillClear, WillWake, TsleepArm
  <2>3. ActiveInside'
    BY <1>10 DEF LocalsSet, KindsApart, EdfLocked, Releasing, Waits, ActiveInside,
       TsleepArm
  <2>. QED
    BY <2>1, <2>2, <2>3 DEF Waits
<1>11. ASSUME NEW p \in Proc, TsleepAwake(p)
      PROVE  Waits'
  <2>1. TrendIsRz'
    BY <1>11 DEF LocalsSet, KindsApart, EdfLocked, Releasing, Waits, TrendIsRz,
       TsleepAwake
  <2>2. AheadOfSleep'
    BY <1>11 DEF LocalsSet, KindsApart, EdfLocked, Releasing, Waits, TrendIsRz,
       AheadOfSleep, WillClear, WillWake, TsleepAwake
  <2>3. ActiveInside'
    BY <1>11 DEF LocalsSet, KindsApart, EdfLocked, Releasing, Waits, ActiveInside,
       TsleepAwake
  <2>. QED
    BY <2>1, <2>2, <2>3 DEF Waits
<1>12. ASSUME NEW p \in Proc, TsleepWait(p)
      PROVE  Waits'
  <2>1. TrendIsRz'
    BY <1>12 DEF LocalsSet, KindsApart, EdfLocked, Releasing, Waits, TrendIsRz,
       TsleepWait
  <2>2. AheadOfSleep'
    BY <1>12 DEF LocalsSet, KindsApart, EdfLocked, Releasing, Waits, TrendIsRz,
       AheadOfSleep, WillClear, WillWake, TsleepWait
  <2>3. ActiveInside'
    BY <1>12 DEF LocalsSet, KindsApart, EdfLocked, Releasing, Waits, ActiveInside,
       TsleepWait
  <2>. QED
    BY <2>1, <2>2, <2>3 DEF Waits
<1>13. ASSUME NEW p \in Proc, TsleepWoken(p)
      PROVE  Waits'
  <2>1. TrendIsRz'
    BY <1>13 DEF LocalsSet, KindsApart, EdfLocked, Releasing, Waits, TrendIsRz,
       TsleepWoken
  <2>2. AheadOfSleep'
    BY <1>13 DEF LocalsSet, KindsApart, EdfLocked, Releasing, Waits, TrendIsRz,
       AheadOfSleep, WillClear, WillWake, TsleepWoken
  <2>3. ActiveInside'
    BY <1>13 DEF LocalsSet, KindsApart, EdfLocked, Releasing, Waits, ActiveInside,
       TsleepWoken
  <2>. QED
    BY <2>1, <2>2, <2>3 DEF Waits
<1>14. ASSUME NEW p \in Proc, Event(p)
      PROVE  Waits'
  <2>1. TrendIsRz'
    BY <1>14 DEF LocalsSet, KindsApart, EdfLocked, Releasing, Waits, TrendIsRz, Event
  <2>2. AheadOfSleep'
    BY <1>14 DEF LocalsSet, KindsApart, EdfLocked, Releasing, Waits, TrendIsRz,
       AheadOfSleep, WillClear, WillWake, Event
  <2>3. ActiveInside'
    BY <1>14 DEF LocalsSet, KindsApart, EdfLocked, Releasing, Waits, ActiveInside, Event
  <2>. QED
    BY <2>1, <2>2, <2>3 DEF Waits
<1>15. ASSUME NEW p \in Proc, SampleStart(p)
      PROVE  Waits'
  <2>1. TrendIsRz'
    BY <1>15 DEF LocalsSet, KindsApart, EdfLocked, Releasing, Waits, TrendIsRz,
       SampleStart
  <2>2. AheadOfSleep'
    BY <1>15 DEF LocalsSet, KindsApart, EdfLocked, Releasing, Waits, TrendIsRz,
       AheadOfSleep, WillClear, WillWake, SampleStart
  <2>3. ActiveInside'
    BY <1>15 DEF LocalsSet, KindsApart, EdfLocked, Releasing, Waits, ActiveInside,
       SampleStart
  <2>. QED
    BY <2>1, <2>2, <2>3 DEF Waits
<1>16. ASSUME NEW p \in Proc, SampleEnd(p)
      PROVE  Waits'
  <2>1. TrendIsRz'
    BY <1>16 DEF LocalsSet, KindsApart, EdfLocked, Releasing, Waits, TrendIsRz,
       SampleEnd
  <2>2. AheadOfSleep'
    BY <1>16 DEF LocalsSet, KindsApart, EdfLocked, Releasing, Waits, TrendIsRz,
       AheadOfSleep, WillClear, WillWake, SampleEnd
  <2>3. ActiveInside'
    BY <1>16 DEF LocalsSet, KindsApart, EdfLocked, Releasing, Waits, ActiveInside,
       SampleEnd
  <2>. QED
    BY <2>1, <2>2, <2>3 DEF Waits
<1>17. ASSUME NEW p \in Proc, Pexit(p)
      PROVE  Waits'
  <2>1. TrendIsRz'
    BY <1>17 DEF LocalsSet, KindsApart, EdfLocked, Releasing, Waits, TrendIsRz, Pexit
  <2>2. AheadOfSleep'
    BY <1>17 DEF LocalsSet, KindsApart, EdfLocked, Releasing, Waits, TrendIsRz,
       AheadOfSleep, WillClear, WillWake, Pexit
  <2>3. ActiveInside'
    BY <1>17 DEF LocalsSet, KindsApart, EdfLocked, Releasing, Waits, ActiveInside, Pexit
  <2>. QED
    BY <2>1, <2>2, <2>3 DEF Waits
<1>18. ASSUME NEW p \in Proc, EdfAdmit(p)
      PROVE  Waits'
  <2>1. TrendIsRz'
    BY <1>18 DEF LocalsSet, KindsApart, EdfLocked, Releasing, Waits, TrendIsRz, EdfAdmit
  <2>2. AheadOfSleep'
    BY <1>18 DEF LocalsSet, KindsApart, EdfLocked, Releasing, Waits, TrendIsRz,
       AheadOfSleep, WillClear, WillWake, EdfAdmit
  <2>3. ActiveInside'
    BY <1>18 DEF LocalsSet, KindsApart, EdfLocked, Releasing, Waits, ActiveInside,
       EdfAdmit
  <2>. QED
    BY <2>1, <2>2, <2>3 DEF Waits
<1>19. ASSUME NEW p \in Proc, EdfSet(p)
      PROVE  Waits'
  <2>1. TrendIsRz'
    BY <1>19 DEF LocalsSet, KindsApart, EdfLocked, Releasing, Waits, TrendIsRz, EdfSet,
       Edflock
  <2>2. AheadOfSleep'
    BY <1>19 DEF LocalsSet, KindsApart, EdfLocked, Releasing, Waits, TrendIsRz,
       AheadOfSleep, WillClear, WillWake, EdfSet, Edflock
  <2>3. ActiveInside'
    BY <1>19 DEF LocalsSet, KindsApart, EdfLocked, Releasing, Waits, ActiveInside,
       EdfSet, Edflock
  <2>. QED
    BY <2>1, <2>2, <2>3 DEF Waits
<1>20. ASSUME NEW p \in Proc, EdfStop(p)
      PROVE  Waits'
  <2>1. TrendIsRz'
    BY <1>20 DEF LocalsSet, KindsApart, EdfLocked, Releasing, Waits, TrendIsRz, EdfStop,
       Edflock
  <2>2. AheadOfSleep'
    BY <1>20 DEF LocalsSet, KindsApart, EdfLocked, Releasing, Waits, TrendIsRz,
       AheadOfSleep, WillClear, WillWake, EdfStop, Edflock
  <2>3. ActiveInside'
    BY <1>20 DEF LocalsSet, KindsApart, EdfLocked, Releasing, Waits, ActiveInside,
       EdfStop, Edflock
  <2>. QED
    BY <2>1, <2>2, <2>3 DEF Waits
<1>21. ASSUME NEW p \in Proc, Edfunlock(p)
      PROVE  Waits'
  <2>1. TrendIsRz'
    BY <1>21 DEF LocalsSet, KindsApart, EdfLocked, Releasing, Waits, TrendIsRz,
       Edfunlock
  <2>2. AheadOfSleep'
    BY <1>21 DEF LocalsSet, KindsApart, EdfLocked, Releasing, Waits, TrendIsRz,
       AheadOfSleep, WillClear, WillWake, Edfunlock
  <2>3. ActiveInside'
    BY <1>21 DEF LocalsSet, KindsApart, EdfLocked, Releasing, Waits, ActiveInside,
       Edfunlock
  <2>. QED
    BY <2>1, <2>2, <2>3 DEF Waits
<1>22. ASSUME NEW c \in Cpu, Tick(c)
      PROVE  Waits'
  <2>1. TrendIsRz'
    BY <1>22 DEF LocalsSet, KindsApart, EdfLocked, Releasing, Waits, TrendIsRz, Tick
  <2>2. AheadOfSleep'
    BY <1>22 DEF LocalsSet, KindsApart, EdfLocked, Releasing, Waits, TrendIsRz,
       AheadOfSleep, WillClear, WillWake, Tick
  <2>3. ActiveInside'
    BY <1>22 DEF LocalsSet, KindsApart, EdfLocked, Releasing, Waits, ActiveInside, Tick
  <2>. QED
    BY <2>1, <2>2, <2>3 DEF Waits
<1>23. ASSUME NEW c \in Cpu, IntrEnd(c)
      PROVE  Waits'
  <2>1. TrendIsRz'
    BY <1>23 DEF LocalsSet, KindsApart, EdfLocked, Releasing, Waits, TrendIsRz, IntrEnd
  <2>2. AheadOfSleep'
    BY <1>23 DEF LocalsSet, KindsApart, EdfLocked, Releasing, Waits, TrendIsRz,
       AheadOfSleep, WillClear, WillWake, IntrEnd
  <2>3. ActiveInside'
    BY <1>23 DEF LocalsSet, KindsApart, EdfLocked, Releasing, Waits, ActiveInside,
       IntrEnd
  <2>. QED
    BY <2>1, <2>2, <2>3 DEF Waits
<1>24. ASSUME NEW c \in Cpu, NEW t \in Proc, Pop(c, t)
      PROVE  Waits'
  <2>1. TrendIsRz'
    BY <1>24 DEF LocalsSet, KindsApart, EdfLocked, Releasing, Waits, TrendIsRz, Pop
  <2>2. AheadOfSleep'
    BY <1>24 DEF LocalsSet, KindsApart, EdfLocked, Releasing, Waits, TrendIsRz,
       AheadOfSleep, WillClear, WillWake, Pop
  <2>3. ActiveInside'
    BY <1>24 DEF LocalsSet, KindsApart, EdfLocked, Releasing, Waits, ActiveInside, Pop
  <2>. QED
    BY <2>1, <2>2, <2>3 DEF Waits
<1>25. ASSUME NEW c \in Cpu, SetActive(c)
      PROVE  Waits'
  <2>1. TrendIsRz'
    BY <1>25 DEF LocalsSet, KindsApart, EdfLocked, Releasing, Waits, TrendIsRz,
       SetActive
  <2>2. AheadOfSleep'
    BY <1>25 DEF LocalsSet, KindsApart, EdfLocked, Releasing, Waits, TrendIsRz,
       AheadOfSleep, WillClear, WillWake, SetActive
  <2>3. ActiveInside'
    BY <1>25 DEF LocalsSet, KindsApart, EdfLocked, Releasing, Waits, ActiveInside,
       SetActive
  <2>. QED
    BY <2>1, <2>2, <2>3 DEF Waits
<1>26. ASSUME NEW c \in Cpu, TfOther(c)
      PROVE  Waits'
  <2>1. TrendIsRz'
    BY <1>26 DEF LocalsSet, KindsApart, EdfLocked, Releasing, Waits, TrendIsRz, TfOther
  <2>2. AheadOfSleep'
    BY <1>26 DEF LocalsSet, KindsApart, EdfLocked, Releasing, Waits, TrendIsRz,
       AheadOfSleep, WillClear, WillWake, TfOther
  <2>3. ActiveInside'
    BY <1>26 DEF LocalsSet, KindsApart, EdfLocked, Releasing, Waits, ActiveInside,
       TfOther
  <2>. QED
    BY <2>1, <2>2, <2>3 DEF Waits
<1>27. ASSUME NEW c \in Cpu, TwakeupNone(c)
      PROVE  Waits'
  <2>1. TrendIsRz'
    BY <1>27 DEF LocalsSet, KindsApart, EdfLocked, Releasing, Waits, TrendIsRz,
       TwakeupNone
  <2>2. AheadOfSleep'
    BY <1>27 DEF LocalsSet, KindsApart, EdfLocked, Releasing, Waits, TrendIsRz,
       AheadOfSleep, WillClear, WillWake, TwakeupNone
  <2>3. ActiveInside'
    BY <1>27 DEF LocalsSet, KindsApart, EdfLocked, Releasing, Waits, ActiveInside,
       TwakeupNone
  <2>. QED
    BY <2>1, <2>2, <2>3 DEF Waits
<1>28. ASSUME NEW c \in Cpu, Twakeup(c)
      PROVE  Waits'
  <2>1. TrendIsRz'
    BY <1>28 DEF LocalsSet, KindsApart, EdfLocked, Releasing, Waits, TrendIsRz, Twakeup
  <2>2. AheadOfSleep'
    BY <1>28 DEF LocalsSet, KindsApart, EdfLocked, Releasing, Waits, TrendIsRz,
       AheadOfSleep, WillClear, WillWake, Twakeup
  <2>3. ActiveInside'
    BY <1>28 DEF LocalsSet, KindsApart, EdfLocked, Releasing, Waits, ActiveInside,
       Twakeup
  <2>. QED
    BY <2>1, <2>2, <2>3 DEF Waits
<1>29. ASSUME NEW c \in Cpu, TwakeupClear(c)
      PROVE  Waits'
  <2>1. TrendIsRz'
    BY <1>29 DEF LocalsSet, KindsApart, EdfLocked, Releasing, Waits, TrendIsRz,
       TwakeupClear
  <2>2. AheadOfSleep'
    BY <1>29 DEF LocalsSet, KindsApart, EdfLocked, Releasing, Waits, TrendIsRz,
       AheadOfSleep, WillClear, WillWake, TwakeupClear
  <2>3. ActiveInside'
    BY <1>29 DEF LocalsSet, KindsApart, EdfLocked, Releasing, Waits, ActiveInside,
       TwakeupClear
  <2>. QED
    BY <2>1, <2>2, <2>3 DEF Waits
<1>30. ASSUME NEW c \in Cpu, TwakeupWake(c)
      PROVE  Waits'
  <2>1. TrendIsRz'
    BY <1>30 DEF LocalsSet, KindsApart, EdfLocked, Releasing, Waits, TrendIsRz,
       TwakeupWake
  <2>2. AheadOfSleep'
    BY <1>30 DEF LocalsSet, KindsApart, EdfLocked, Releasing, Waits, TrendIsRz,
       AheadOfSleep, WillClear, WillWake, TwakeupWake
  <2>3. ActiveInside'
    BY <1>30 DEF LocalsSet, KindsApart, EdfLocked, Releasing, Waits, ActiveInside,
       TwakeupWake
  <2>. QED
    BY <2>1, <2>2, <2>3 DEF Waits
<1>31. ASSUME NEW c \in Cpu, Releaseintr(c)
      PROVE  Waits'
  <2>1. TrendIsRz'
    BY <1>31 DEF LocalsSet, KindsApart, EdfLocked, Releasing, Waits, TrendIsRz,
       Releaseintr
  <2>2. AheadOfSleep'
    BY <1>31 DEF LocalsSet, KindsApart, EdfLocked, Releasing, Waits, TrendIsRz,
       AheadOfSleep, WillClear, WillWake, Releaseintr
  <2>3. ActiveInside'
    BY <1>31 DEF LocalsSet, KindsApart, EdfLocked, Releasing, Waits, ActiveInside,
       Releaseintr
  <2>. QED
    BY <2>1, <2>2, <2>3 DEF Waits
<1>32. ASSUME NEW c \in Cpu, IntrEdflock(c, "release", "released")
      PROVE  Waits'
  <2>1. TrendIsRz'
    BY <1>32 DEF LocalsSet, KindsApart, EdfLocked, Releasing, Waits, TrendIsRz,
       IntrEdflock
  <2>2. AheadOfSleep'
    BY <1>32 DEF LocalsSet, KindsApart, EdfLocked, Releasing, Waits, TrendIsRz,
       AheadOfSleep, WillClear, WillWake, IntrEdflock
  <2>3. ActiveInside'
    BY <1>32 DEF LocalsSet, KindsApart, EdfLocked, Releasing, Waits, ActiveInside,
       IntrEdflock
  <2>. QED
    BY <2>1, <2>2, <2>3 DEF Waits
<1>33. ASSUME NEW c \in Cpu, IntrEdflock(c, "ready", "readied")
      PROVE  Waits'
  <2>1. TrendIsRz'
    BY <1>33 DEF LocalsSet, KindsApart, EdfLocked, Releasing, Waits, TrendIsRz,
       IntrEdflock
  <2>2. AheadOfSleep'
    BY <1>33 DEF LocalsSet, KindsApart, EdfLocked, Releasing, Waits, TrendIsRz,
       AheadOfSleep, WillClear, WillWake, IntrEdflock
  <2>3. ActiveInside'
    BY <1>33 DEF LocalsSet, KindsApart, EdfLocked, Releasing, Waits, ActiveInside,
       IntrEdflock
  <2>. QED
    BY <2>1, <2>2, <2>3 DEF Waits
<1>34. ASSUME NEW c \in Cpu, ReleaseReady(c)
      PROVE  Waits'
  <2>1. TrendIsRz'
    BY <1>34 DEF LocalsSet, KindsApart, EdfLocked, Releasing, Waits, TrendIsRz,
       ReleaseReady
  <2>2. AheadOfSleep'
    BY <1>34 DEF LocalsSet, KindsApart, EdfLocked, Releasing, Waits, TrendIsRz,
       AheadOfSleep, WillClear, WillWake, ReleaseReady
  <2>3. ActiveInside'
    BY <1>34 DEF LocalsSet, KindsApart, EdfLocked, Releasing, Waits, ActiveInside,
       ReleaseReady
  <2>. QED
    BY <2>1, <2>2, <2>3 DEF Waits
<1>35. ASSUME NEW c \in Cpu, ReleaseAdd(c)
      PROVE  Waits'
  <2>1. TrendIsRz'
    BY <1>35 DEF LocalsSet, KindsApart, EdfLocked, Releasing, Waits, TrendIsRz,
       ReleaseAdd
  <2>2. AheadOfSleep'
    BY <1>35 DEF LocalsSet, KindsApart, EdfLocked, Releasing, Waits, TrendIsRz,
       AheadOfSleep, WillClear, WillWake, ReleaseAdd
  <2>3. ActiveInside'
    BY <1>35 DEF LocalsSet, KindsApart, EdfLocked, Releasing, Waits, ActiveInside,
       ReleaseAdd
  <2>. QED
    BY <2>1, <2>2, <2>3 DEF Waits
<1>36. ASSUME NEW c \in Cpu, ReleaseUnlink(c)
      PROVE  Waits'
  <2>1. TrendIsRz'
    BY <1>36 DEF LocalsSet, KindsApart, EdfLocked, Releasing, Waits, TrendIsRz,
       ReleaseUnlink, Tdel
  <2>2. AheadOfSleep'
    BY <1>36 DEF LocalsSet, KindsApart, EdfLocked, Releasing, Waits, TrendIsRz,
       AheadOfSleep, WillClear, WillWake, ReleaseUnlink, Tdel
  <2>3. ActiveInside'
    BY <1>36 DEF LocalsSet, KindsApart, EdfLocked, Releasing, Waits, ActiveInside,
       ReleaseUnlink, Tdel
  <2>. QED
    BY <2>1, <2>2, <2>3 DEF Waits
<1>37. ASSUME NEW c \in Cpu, ReleaseLink(c)
      PROVE  Waits'
  <2>1. TrendIsRz'
    BY <1>37 DEF LocalsSet, KindsApart, EdfLocked, Releasing, Waits, TrendIsRz,
       ReleaseLink, Tadd
  <2>2. AheadOfSleep'
    BY <1>37 DEF LocalsSet, KindsApart, EdfLocked, Releasing, Waits, TrendIsRz,
       AheadOfSleep, WillClear, WillWake, ReleaseLink, Tadd
  <2>3. ActiveInside'
    BY <1>37 DEF LocalsSet, KindsApart, EdfLocked, Releasing, Waits, ActiveInside,
       ReleaseLink, Tadd
  <2>. QED
    BY <2>1, <2>2, <2>3 DEF Waits
<1>38. ASSUME NEW c \in Cpu, ReleaseEnd(c)
      PROVE  Waits'
  <2>1. TrendIsRz'
    BY <1>38 DEF LocalsSet, KindsApart, EdfLocked, Releasing, Waits, TrendIsRz,
       ReleaseEnd
  <2>2. AheadOfSleep'
    BY <1>38 DEF LocalsSet, KindsApart, EdfLocked, Releasing, Waits, TrendIsRz,
       AheadOfSleep, WillClear, WillWake, ReleaseEnd
  <2>3. ActiveInside'
    BY <1>38 DEF LocalsSet, KindsApart, EdfLocked, Releasing, Waits, ActiveInside,
       ReleaseEnd
  <2>. QED
    BY <2>1, <2>2, <2>3 DEF Waits
<1>39. ASSUME NEW c \in Cpu, Inactive(c)
      PROVE  Waits'
  <2>1. TrendIsRz'
    BY <1>39 DEF LocalsSet, KindsApart, EdfLocked, Releasing, Waits, TrendIsRz, Inactive
  <2>2. AheadOfSleep'
    BY <1>39 DEF LocalsSet, KindsApart, EdfLocked, Releasing, Waits, TrendIsRz,
       AheadOfSleep, WillClear, WillWake, Inactive
  <2>3. ActiveInside'
    BY <1>39 DEF LocalsSet, KindsApart, EdfLocked, Releasing, Waits, ActiveInside,
       Inactive
  <2>. QED
    BY <2>1, <2>2, <2>3 DEF Waits
<1>40. ASSUME NEW c \in Cpu, IntrNext(c)
      PROVE  Waits'
  <2>1. TrendIsRz'
    BY <1>40 DEF LocalsSet, KindsApart, EdfLocked, Releasing, Waits, TrendIsRz, IntrNext
  <2>2. AheadOfSleep'
    BY <1>40 DEF LocalsSet, KindsApart, EdfLocked, Releasing, Waits, TrendIsRz,
       AheadOfSleep, WillClear, WillWake, IntrNext
  <2>3. ActiveInside'
    BY <1>40 DEF LocalsSet, KindsApart, EdfLocked, Releasing, Waits, ActiveInside,
       IntrNext
  <2>. QED
    BY <2>1, <2>2, <2>3 DEF Waits
<1>41. ASSUME NEW c \in Cpu, IntrPeriodic(c)
      PROVE  Waits'
  <2>1. TrendIsRz'
    BY <1>41 DEF LocalsSet, KindsApart, EdfLocked, Releasing, Waits, TrendIsRz,
       IntrPeriodic
  <2>2. AheadOfSleep'
    BY <1>41 DEF LocalsSet, KindsApart, EdfLocked, Releasing, Waits, TrendIsRz,
       AheadOfSleep, WillClear, WillWake, IntrPeriodic
  <2>3. ActiveInside'
    BY <1>41 DEF LocalsSet, KindsApart, EdfLocked, Releasing, Waits, ActiveInside,
       IntrPeriodic
  <2>. QED
    BY <2>1, <2>2, <2>3 DEF Waits
<1>42. ASSUME NEW c \in Cpu, Readd(c)
      PROVE  Waits'
  <2>1. TrendIsRz'
    BY <1>42 DEF LocalsSet, KindsApart, EdfLocked, Releasing, Waits, TrendIsRz, Readd,
       Tadd
  <2>2. AheadOfSleep'
    BY <1>42 DEF LocalsSet, KindsApart, EdfLocked, Releasing, Waits, TrendIsRz,
       AheadOfSleep, WillClear, WillWake, Readd, Tadd
  <2>3. ActiveInside'
    BY <1>42 DEF LocalsSet, KindsApart, EdfLocked, Releasing, Waits, ActiveInside,
       Readd, Tadd
  <2>. QED
    BY <2>1, <2>2, <2>3 DEF Waits
<1>43. CASE UNCHANGED vars
  BY <1>43 DEF LocalsSet, KindsApart, EdfLocked, Releasing, Waits, TrendIsRz,
     AheadOfSleep, WillClear, WillWake, ActiveInside, vars
<1>. QED
  BY <1>1, <1>2, <1>3, <1>4, <1>5, <1>6, <1>7, <1>8, <1>9, <1>10, <1>11, <1>12, <1>13,
    <1>14, <1>15, <1>16, <1>17, <1>18, <1>19, <1>20, <1>21, <1>22, <1>23, <1>24, <1>25,
    <1>26, <1>27, <1>28, <1>29, <1>30, <1>31, <1>32, <1>33, <1>34, <1>35, <1>36, <1>37,
    <1>38, <1>39, <1>40, <1>41, <1>42, <1>43 DEF Next, Calls, Steps, IntrSteps
-----------------------------------------------------------------------------
\* The inductive invariant holds when nothing has happened yet.
LEMMA InitInv == Init => Inv
<1> SUFFICES ASSUME Init
             PROVE  Inv
  OBVIOUS
<1> USE TimersAssumption DEF Init, Proc
<1>1. Control
  BY DEF Control, TypeOK, LocalsSet, KindsApart, EdfLocked, Releasing, AddPCs, DelPCs,
        InFunction, InTwakeup
<1>2. Armed
  BY DEF Armed, ListsAgree, AddsUnarmed, SampledOnce, Expelled, AddPCs
<1>3. Waits
  BY DEF Waits, TrendIsRz, AheadOfSleep, WillClear, WillWake, ActiveInside, AddPCs
<1>. QED
  BY <1>1, <1>2, <1>3 DEF Inv

\* The inductive invariant holds in every reachable state: its three layers are
\* preserved one upon the other.
THEOREM Safety == Spec => []Inv
<1>1. Inv /\ [Next]_vars => Inv'
  BY ControlStep, ArmedStep, WaitsStep DEF Inv
<1>. QED
  BY InitInv, <1>1, PTL DEF Spec
-----------------------------------------------------------------------------
\* timeradd(), timerdel() and timerintr() of port/portclock.c keep a timer in
\* the list that t->tt names and in no other, and tadd() never meets its
\* assertion.
THEOREM StaysConsistent == Spec => []Consistent
<1>1. Inv => Consistent
  BY DEF Inv, Control, Armed, Consistent
<1>. QED
  BY Safety, <1>1, PTL

\* A process asleep in tsleep() of port/proc.c will be woken when its time is
\* over, unless the twakeup() of an earlier tsleep(), which timerdel() did not wait
\* for, has cleared its p->trend (stale).
THEOREM TimeoutStays == Spec => []TimeoutAhead
<1>1. Inv => TimeoutAhead
  <2> SUFFICES ASSUME Inv, NEW p \in Proc, pc[p] = "asleep"
               PROVE  \/ trend[p] # Nil /\ tt[p] # Nil /\ p \in list[tt[p]]
                      \/ trend[p] # Nil /\ \E c \in Cpu : job[c] = p /\ h[c] \in {"popped", "tf"}
                      \/ \E c \in Cpu : /\ job[c] = p /\ h[c] \in {"clear", "wakeup"}
                                       /\ hrend[c] = rz[p]
                      \/ p \in stale
    BY DEF TimeoutAhead
  <2>1. tt[p] # Nil => p \in list[tt[p]]
    BY DEF Inv, Control, TypeOK, Armed, ListsAgree
  <2>2. CASE trend[p] # Nil
    <3>0. AheadOfSleep /\ pc[p] \in {"sleep", "asleep"}
      BY DEF Inv, Waits
    <3>1. WillClear(p)
      BY <2>2, <3>0 DEF AheadOfSleep
    <3>. QED
      BY <2>1, <2>2, <3>1 DEF WillClear
  <2>3. CASE trend[p] = Nil
    <3>1. WillWake(p)
      BY <2>3 DEF Inv, Waits, AheadOfSleep
    <3>. QED
      BY <3>1 DEF WillWake
  <2>. QED
    BY <2>2, <2>3
<1>. QED
  BY Safety, <1>1, PTL

\* t->tactive names a processor only while that runs the timer's function: the
\* spin of timerdel() is never longer than the function, which for a sleeper or a
\* sampler waits for nothing.
THEOREM ActiveRuns == Spec => []ActiveInside
<1>1. Inv => ActiveInside
  BY DEF Inv, Waits
<1>. QED
  BY Safety, <1>1, PTL

\* After edfstop() of port/edf.c no releaseintr() that timerdel() did not wait for
\* arms the timer of the expelled process.
THEOREM ExpelledStaysOut == Spec => []ExpelledUnarmed
<1>1. Inv => ExpelledUnarmed
  BY DEF Inv, Control, EdfLocked, Armed, Expelled, ExpelledUnarmed
<1>. QED
  BY Safety, <1>1, PTL
=============================================================================
