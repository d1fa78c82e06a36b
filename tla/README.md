# TLA+ models of the Plan 9 kernel's synchronization

This directory holds TLA+ specifications of the portable Plan 9 kernel in this
repository (`src/sys/src/9/port`), the TLC configurations that check them, and
proofs for TLAPS.  The repository is 9front with a second, experimental kernel
port on top of the seL4 Microkit (`src/sys/src/9/sel4`).  The first subject is
the code everything else in the kernel blocks on: queued locks, sleep and
wakeup, notes, rendezvous, semaphores and timers.  On top of it come three of its
users: the mount driver, stream queues, and exit and wait.  The code is small,
runs on several processors at once, avoids locks on purpose in places, and its
faults (a lost wakeup, a lock lost in a hand-off, a process readied twice) hang
the machine once a month and never in a test.

All paths below are relative to `src/sys/src/9/` unless they start with `sys/`
(then to `src/`).

## 1. Inventory

| Component | State | Operations | Interacts with | Hard behaviour | What makes it correct | Here |
|---|---|---|---|---|---|---|
| Spin locks, `port/taslock.c` | `Lock.key`, holder, `nlocks` | `lock`, `canlock`, `unlock`, `ilock`, `iunlock` | every other part; `sched()` is delayed while locks are held | a holder is preempted while others spin; interrupt level | exclusion, no self-deadlock | assumed atomic |
| Scheduler, `port/proc.c` | `p->state`, `p->mach`, run queues, `runvec` | `ready`, `sched`, `schedinit`, `runproc`, `dequeueproc` | all blocking primitives end in `sched()` and `ready()` | a process is readied while it still runs on its old processor; lookups without the lock of the queue | a process runs on one processor, and is readied once per sleep | `ProcState` (what the primitives see) |
| Queued locks, `port/qlock.c` | `use`, `locked`, `head`..`tail`, `p->eql`, `p->state` | `qlock`, `eqlock`, `canqlock`, `qunlock` | `procinterrupt()` pulls waiters out of `eqlock()` | hand-off of the lock against an interrupt; state read without a lock | one owner, no lost lock, FIFO, no starvation | `QLock`, `FifoLock`, `QLockProofs` |
| Reader-writer locks, `port/qlock.c` | `readers`, `writer`, queue | `rlock`, `wlock`, `canrlock`, `runlock`, `wunlock` | `ready()` inside the loop of `wunlock()` | readers let in run before the loop has ended | exclusion, exact counts, no barging, no starvation | `RWLock`, `QLockProofs` |
| Sleep and wakeup, `port/proc.c` | `r->p`, `p->r`, two spin locks, `notepending` | `sleep`, `wakeup`, `procinterrupt` | interrupt handlers call `wakeup()` | lost wakeup, opposite lock order, notes racing with wakeups | no wakeup or note is lost, links agree, one `ready()` per sleep | `Sleep`, `SleepProofs` |
| Rendezvous, `port/sysproc.c` | hash chains of a group, `rendtag`, `rendval` | `sysrendezvous`, `procinterrupt`, `rfork(RFREND)` | notes, process groups | a partner and an interrupt for the same waiter; a group that changes under `procinterrupt()` | values are exchanged in one step, exactly once | `Rendezvous`, `Meeting`, `RendezvousProofs` |
| Semaphores, `port/sysproc.c` | the user's word, list of the segment, `Sema.waiting` | `semacquire`, `tsemacquire`, `semrelease` | `sleep`/`tsleep`, notes | only n wakeups for n units; they must be passed on; flag shared without a lock; `Sema` on the stack | no sleeper beside a positive semaphore, counting | `Semaphore`, `CountingSem`, `SemaphoreProofs` |
| Timers, `port/portclock.c` | list per processor, `t->tt`, `t->tactive`, `t->tmode`, `p->trend` | `timeradd`, `timerdel`, `timerintr`; `tsleep`, `twakeup`; `randomseed`; `edfrun`, `edfready`, `edfstop`, `releaseintr` | clock interrupts of every processor; `edflock()`, taken by `edfstop()` and inside `timerintr()` | deletion against expiry on another processor; a timer function that wants a lock the deleter holds | one list per timer, timeouts arrive, deletion is final | `Timers`, `TimersProofs` |
| Mount driver, `port/devmnt.c` | queue of RPCs, reader `rip`, tags, flush chains | `mountio`, `mountmux`, `mntgate`, `mntflushalloc`, `mntflushfree`, `mntralloc`, `mntfree` | `sleep`, notes, the 9P server | one of the callers reads for all; interrupts, flushes and replies out of order | every reply to its caller, somebody reads while somebody waits, tags not reused early | `MntMux`, `Rpc`, `MntMuxProofs` |
| Queues and pipes, `port/qio.c`, `port/devpipe.c` | block list, `Qstarve`, `Qflow`, `Qclosed` | `qread`, `qbwrite`, `qwrite`, `qiwrite`, `qflush`, `qclose`, `qhangup`, `qsetlimit` | `eqlock`, `sleep`, interrupt handlers | close and hangup against both sides; writers in line for space | no lost wakeup, a bounded queue, end of file | `Qio`, `QioProofs` |
| Exit and wait, `port/proc.c` | `parent`, `nchild`, `waitq`, `nwait`, pid table, `broken` | `pexit`, `pwait`, `newproc`, `rfork`, `setnoteid`, `changenoteid`, `pidadd`, `piddel`, `/proc/n/wait` | `sleep`, reuse of procs and pids | parent and child exit together; the 128 records; a pid table without a lock | every wait record goes to the living parent, nobody waits for a record that will not come, pids in use are not given out | `Wait`, `WaitProofs` |
| Alarms, `port/alarm.c` | sorted list, `p->alarm` | `procalarm`, `checkalarms`, `alarmkproc` | clock, `pushnote`, `p->debug` | cancelled and exited processes in the list | an alarm is delivered, in order | planned |
| Channels, name spaces, `port/chan.c` | references, mount heads | `cclose`, `cmount`, `walk`, ... | devices | reference counts under concurrency | counts, no use after close | not planned |
| Real-time scheduling, `port/edf.c` | budgets, deadlines | `edfadmit`, `edfrun`, ... | timers, run queue | arithmetic of admission | no overcommitment | timer use only |
| Memory, `port/segment.c`, `page.c`, `fault.c` | segments, page lists | `putseg`, `fault`, ... | image cache | large data | reference counts | not planned |
| seL4 port, `sel4/` | proc table, ring buffers to the microkit, fid table, pipes | its own `sleep`, `wakeup`, `ready`, `rfork`, pipes, `devmntsel4`, `9pserver` | microkit notifications | cooperative: callers must loop, sleepers overwrite one another | data is not lost, readers wake | planned |
| Devices, IP, boot, user programs | | | | | | not planned |

## 2. Modules

    CountingSem   Meeting    FifoLock                abstract specifications
        |            |           |  (refinement, INSTANCE ... WITH)
    Semaphore   Rendezvous     QLock   RWLock  Sleep    Timers
                     \___________|_______|______/
                                 |  EXTENDS
                             ProcState

    QLockProofs   RendezvousProofs   SemaphoreProofs   SleepProofs
    TimersProofs  MntMuxProofs       QioProofs         WaitProofs
                                 each EXTENDS the module it is named after,
                                 QLockProofs also RWLock

    Rpc                                              abstract specification
     |  (refinement)
    MntMux      Qio      Wait          users of the above: they take sleep(),
                                       wakeup() and qlocks as atomic steps

Each `MC...` module only adds the symmetry set for TLC; the `.cfg` files give the
constants.  Definitions whose name ends in `_Something` and which are announced
by "Mutant:" are wrong variants of the definition that follows them, one for each
property: replacing the definition by the variant makes TLC find the property
violated in the run that checks it, so none of the properties holds by
construction of the model.

### ProcState
`state` is `p->state`, `saved` says that `p->mach` is nil, that is, that the
registers of `p` are in `p->sched`.  A process blocks by storing a blocked state;
from then on `ready(p)` may be called by anybody, also before `p` has left its
processor (`Switch`); `dequeueproc()` refuses it until then (`Dispatch`).
`ReadyState` is the effect of `ready()`, including its refusal to queue a process
that is `Running` or `Ready`: a double `ready()` is not harmless in the models
that use it, because the property `ReadiedOnce` counts it as an error.
Priorities, affinity and real-time processes are left out, so any ready process
may be dispatched; preemption is a process that takes no step.

### QLock
One action for each stretch of `qlock()`, `eqlock()`, `canqlock()`, `qunlock()` and
`procinterrupt()` between two accesses that others can see.  What runs under
`q->use` and touches only what `q->use` protects is one step.  `p->state`,
`p->eql` and `p->notepending` are read by `procinterrupt()` without the lock, so
these reads are steps of their own, and so is the test of `notepending` in
`eqlock()` (`EqlockCheck`) before the state is stored (`EqlockWait`).  `use` is
the holder of the spin lock, because `procinterrupt()` and `eqlock()` hold it
over more than one step.  A process holds one QLock at a time and works on one
at a time; which lock a waiter waits for is `lk`.

### RWLock
As QLock, for one reader-writer lock.  The loop of `wunlock()` is not one step:
it readies readers while `q->writer` is still 1 and `q->use` is held.  Both locks
of `qlock.c` have their proofs in `QLockProofs`; what QLock and RWLock would call
by the same name is prefixed with `RW` (`rw` for variables) in RWLock.

### Sleep
`sleep()`, `wakeup()`, `procinterrupt()` with both spin locks.  `cond` is what
`f(arg)` of the sleeper evaluates to; `Signal` is an event that makes it true and
calls `wakeup()`, or calls it without one.  Interrupt handlers (`Intr`) call
`wakeup()` beside the processes.  `sleep()` runs at high priority until it has
switched away, hence `At` lets a process in `slunlock` go on although its state
is no longer Running.

### Rendezvous
The code under `lock(up->rgrp)` in `sysrendezvous()` is one step.
`procinterrupt()` evaluates `p->rgrp` three times, at `InterruptLock`, in the
search and at the unlock; in `Spec` groups are fixed, in `SpecRfork` processes
may also call `rfork(RFREND)`.  Tags of a group share one chain (the hash has 32
of them and a lock for all).  The value brought is the caller's name, so that
the runs see who got whose.

### Semaphore
`canacquire()` is one step; `waiting` is written by the acquirer without a lock
and read and cleared by `semwakeup()` under the lock of the list, element by
element, so every element is a step.  `sleep()` is the atomic test-and-sleep that
module Sleep justifies.  `pos` and `left` are where `semwakeup()` is in the list and
how many wakeups it has left; it holds the lock of the list meanwhile, so that
nothing is linked or unlinked before it.  The kernel's authors checked this code with a Spin model
(`port/semaphore.p`): it covers one semaphore without timeouts, one unit at a
time, and three acquirers that call once; `Semaphore` adds `tsemacquire()`,
several semaphores in a list, releases of several units and repeated calls.

### Timers
`list[c]` is the set of timers armed on processor c, `tt`, `tactive`, `tmode` the
fields of the timer that is part of every process, or of its `Edf`.  Time is left out: an armed
timer may be due at any moment.  A process at high priority (inside `ilock()`)
occupies its processor, so `timerintr()` cannot start there (`Open`).  Three
kinds of users: `tsleep()`, the periodic timer of `randomseed()`, and the
real-time scheduler that moves timers which may be armed.  The last sets and
deletes its timers under `edflock()` (`edlk`), one lock for all real-time
processes: `EdfSet` and `EdfStop` take it, `timeradd()` and `timerdel()` run with it
held and the processor at high priority, and `Edfunlock` lets it go.
`releaseintr()`, which `timerintr()` calls, spins for the same lock on its own
processor (`IntrEdflock`), gives up if the process is not `admitted` any more, and
may call `timeradd()` itself, from `edfrun()` or, after it has let the lock go,
from `ready()` and `edfready()` (`ReleaseReady`, `ReleaseAdd`, `ReleaseLink`).
`deadlineintr()` and `randomsample()` take no lock and touch no timer (`TfOther`).
`stale` is a history variable: the sleepers whose timeout the late `twakeup()` of an
earlier `tsleep()` has taken away (finding 2).

### MntMux and Rpc
Processes share one connection to a file server (`mountio()`); whoever finds
`m->rip` nil reads the replies for all until its own has come, and `mntgate()`
hands reading on.  The queue and `rip` change under `lock(m)`: one step.  An
`Mntrpc` is named by its tag, which it keeps for life; `chain[p]` is the request of
p followed by the flushes `mntflushalloc()` has added to it.  The server is
external: it answers in any order, and answers `Tflush` as flush(5) demands,
after which no answer to the request comes.  A hangup loses what the server has
not answered; what is on the wire can still be read.  `Rpc` says what a caller may
expect: its call is served or flushed, never both, and it is told which; only a
hangup leaves it in doubt.

### Qio
One `Queue`.  What runs under its ilock is a step, the `wakeup()` after `iunlock()`
is another (`wake`), as the flags are changed before it.  Blocks have one size and
are read whole, so that `wp - rp` counts them; a writer's place in the line
(`f->p`) is kept relative to `rp`.  `rlock` and `wlock` are the first-in first-out
locks of `FifoLock`.  `Others` are what drivers do at interrupt level or beside
readers and writers: produce, consume, flush, close, hang up, reopen, change the
limit.  A process is seen as a reader or as a writer of the queue, and an
interrupted one leaves `rlock` or `wlock` from wherever it stands in it.  `missed`
is a history variable for the two windows of section 5.  `qwrite()` writes a long
message in chunks of `Maxatomic` bytes: from `Flow` a writer goes on to its next block, without a look at the length, or is
done.  A note ends `qflow()` (`FlowIntr`): `qbwrite()` is over, `qbloated()` starts
again unless the process is to exit.

### Wait
A process is a slot of `procalloc.tab` that is used again; others hold a pointer
to it and a pid to check that it is still the same.  `pexit()` is in parts: the
look at the parent without its lock (`Exit`), the record left under it (`Leave`),
`addbroken()`, `pidfree()` under `up->exl` (`Free` to `FreeEnd`), the rest (`Drain`).
`pwait()` and a read of `/proc/n/wait` are the same loop (`Open`,
`Canqlock`, `Look`, `Sleep`); the reader's `qid` is the pid it believes in.
The pid table has no lock, so its functions are taken apart: `setnoteid()` on behalf
of `rfork(RFNOTEG)` or of `changenoteid()` finds a Pid (`Lookup`), counts the reference
(`Incref`), drops the old one (`Decref`) and stores the noteid (`Store`); `pidfree()`
drops three references in turn (`Free`, `FreeNote`, `FreeParent`); whoever drops the
last reference to a Pid takes its number out of the table in a step of its own
(`Forget`).  Any process may be moved into any note group at any time; `p->debug`
keeps `setnoteid(p)` and `pidfree(p)` of one process apart and nothing else.  Where a
Pid is freed that somebody refers to (finding 3) the model stops, because the
code goes on with a nil pointer or another process's Pid.  The model has few
pids, so that the wrap of the generator, which takes 2^31 forks, happens all the
time.

## 3. Runs

| Run | Instance | What it shows |
|---|---|---|
| `qlock` | 3 processes, 1 lock, fair | one owner, no lost hand-off, each waiter readied once, queue exact; QLock implements `FifoLock`; whoever queues gets out |
| `rwlock` | 4 processes, fair | exclusion, exact counts, no panic, nobody stranded, overtaken or starved |
| `sleep` | 2 processes, 1 handler, 2 Rendez, fair | no lost wakeup, no lost note, links agree, no panic; sleepers are woken; the retry loop ends |
| `rend` | 3 processes, 1 group, 2 tags, fair | chains sound, each waiter readied once; Rendezvous implements `Meeting`; both partners return |
| `rend_rfork` | 3 processes, 2 groups | finding 1 (violation) |
| `sem` | 3 processes, 1 semaphore, values and releases up to 2, fair | no sleeper stranded, no dead `Sema` touched; Semaphore implements `CountingSem`; sleepers beside a positive semaphore wake |
| `timer` | 2 processors, one user of each kind, 2 Rendez | one list per timer, no armed timer added, a timeout stays ahead but for finding 2, `t->tactive` names a processor only while it is in the function, an expelled real-time process is not armed again |
| `mnt` | 3 processes, 4 tags | every reply to its call, tags free only when no answer can come, one reader, the gate not lost, MntMux implements `Rpc` |
| `qio` | 2 readers, 2 writers, 1 handler, limits 0 and 1 | sleepers have a reason and somebody to wake them but for two windows, never two on one Rendez, the queue is bounded |
| `wait` | 3 slots, 3 pids, 1 record, 1 broken process, 2 reads, one change of a noteid at a time | records to the right parent, `nchild` exact, nobody sleeps for nothing, broken processes released once; references to Pids counted and no pid given out twice, until finding 3 |
| `timer_del` | 2 processors, one `tsleep()`er | finding 2 (violation) |
| `wait_noteid` | 3 slots, 4 pids, one change of a noteid | finding 3 (violation) |

In every module the type invariant and the invariants that only relate the
module's own bookkeeping are checked as one, `Consistent` (in QLock, which shares a
proof module with RWLock, `QLockConsistent`: `QueueExact`): counts and panics in
RWLock (`CountsExact`, `NoPanic`, `NoStranding`), the links between Rendez and
process in Sleep (`LinksAgree`, `NoPanic`, `ReadiedOnce`), `ChainsSound` in
Rendezvous, `ToldIsWoken` in Semaphore, `ListsAgree` and `AddsUnarmed` in Timers,
`QueueExact`, `OneReader` and `AnswerNotLost` in MntMux, `NoDoubleSleep` in Qio,
`RecordsKept` and `BrokenListed` in Wait.

**Bounds.**  There are no unbounded counters but the value of a semaphore
(`MaxValue`) and the size of a release (`MaxDelta`); queues are bounded by the
number of processes, and notes are a flag.  Three processes are the least that
show the races of interest: an owner, a waiter and one that interrupts the
waiter; an acquirer whose wakeup must be passed on, the one it is passed to and
the releaser.  `RWLock` takes four, for a writer that leaves, two readers in its
loop and a writer behind them.  Two locks, Rendez, groups or semaphores are
enough for a process to be on another one than an interrupter or a waker believes.
Two processors are enough for a timer that expires on one while its owner runs
on the other.  `sleep` has two processes and one handler: an
interrupter, its victim, and a waker that takes the locks in the other order.
`sem` calls no `semacquire()` that blocks for ever: a timed call may do all that a
blocking one does, and time out besides.

The locks and semaphores of a run are one where liveness is checked, because it
forbids symmetry; for locks the proofs below cover any number.

`mnt`: `Tags` bounds the calls and flushes at a time, and a note is posted only
while a tag is left for its flush (`TagLeft`), so a process may be flushed twice
while others call; three processes are a reader, one that is woken to be the
next, and one that a lost gate would strand.  `qio`: with limits 0 and 1 a queue
is over its limit after one or two blocks and `Bounded` is reached; two readers
and two writers queue behind each other, and the handler races with both.
`wait`: the boot process, its child and its grandchild; with three pids a slot is
used again while the pid of its last process is still referred to by its child.
`MaxWait` and `MaxBroken` are 128 and 4 in the code: what matters is that they
are reached.  `MaxReads` bounds the reads of wait files at a time and `MaxChanges`
the processes in `setnoteid()` at a time.  With `ReadsApart` no noteid is changed
while somebody reads wait records, and a read begins when every process is in a
note group of its own: a read touches no reference, a change touches no record,
and without this bound TLC would multiply the one by the other.  Any process may
change its group or have it changed at any other time, and the proofs are for
every value of these constants, so also for `ReadsApart` FALSE.

**Deadlock.**  It is checked for QLock, RWLock and Sleep.  In Rendezvous and
Semaphore all processes may wait for partners or units that never come, a
sampler in Timers dies, a file server may not answer, nobody may write to a
queue, and children need not exit: there `CHECK_DEADLOCK` is off, and the liveness
properties, or the invariants about sleepers (`GateNotLost`, `ReaderAwake`,
`WriterAwake`, `SleepsForReason`), say who must go on.

**Fairness.**  Weak fairness on the steps of a process inside one of the
functions: a running process goes on, the scheduler runs every ready process
(priorities decay in `reprioritize()`), spin locks are let go after a bounded
number of steps.  Strong fairness on getting a spin lock: test-and-set on the
buses this kernel runs on lets every processor through in the end; the code has
no stronger argument, and its own spin loop gives up with a message only after
100 million turns.  Nobody is made to call a function, to post a note or to time
out.  Timers, MntMux, Qio and Wait are checked for safety only: "somebody is
asleep and nobody will wake it" is stated there as an invariant, which needs no
fairness and allows symmetry.
`InterruptEnds` is stated as "ends, or the victim leaves its sleep":
`procinterrupt()` may fail `canlock(r)` again and again while others keep taking
the lock of the same Rendez.

## 4. Proofs

TLAPS proves what follows for every number of processes, locks, processors, pids
and so on.  The assumptions are those the modules name: that `Nil` is none of the
things it stands in for, that handlers are not processes, that the kinds of users
of Timers are disjoint, that the process table is finite and `MaxWait` positive
(`WaitAssumption`), that the callers of a semaphore are finitely many
(`SemaphoreAssumption`), and that the writers of a queue are and its limits have a
largest one (`QioAssumption`): `conf.nproc` is the size of the process table, and
a limit is an `int`.

| Module | Theorems |
|---|---|
| `QLockProofs`, on QLock | `QLockStaysConsistent` (`QLockConsistent`), `OneOwner` (`MutualExclusion`), `LockedStaysOwned` (`LockedIsOwned`), `WaitersReadied` (`ReadiedOnce`), `IsFifoLock`: `Spec => FifoSpec` |
| `QLockProofs`, on RWLock | `RWStaysConsistent` (`Consistent`), `WritersAlone` (`Exclusion`), `NobodyOvertaken` (`NoBarging`) |
| `SleepProofs` | `StaysConsistent`, `NoLostWakeup` (`WakeupNotLost`), `NoLostNote` (`NoteNotLost`) |
| `RendezvousProofs` | `StaysConsistent`, `SleepersReadied` (`ReadiedOnce`), `IsMeeting`: `Spec => MeetingSpec` |
| `TimersProofs` | `StaysConsistent`, `TimeoutStays` (`TimeoutAhead`), `ActiveRuns` (`ActiveInside`), `ExpelledStaysOut` (`ExpelledUnarmed`) |
| `SemaphoreProofs` | `StaysConsistent`, `ListedLives` (`PhoresAlive`), `NobodyStranded` (`NoneStranded`), `IsCountingSem`: `Spec => CountingSpec` |
| `MntMuxProofs` | `MntConsistent` (`Consistent`), `MntNoUnexpected` (`NoUnexpected`), `MntGateNotLost` (`GateNotLost`), `MntIsRpc`: `Spec => RpcSpec` |
| `QioProofs` | `StaysConsistent`, `ReadersAwake` (`ReaderAwake`), `WritersAwake` (`WriterAwake`), `StaysBounded` (`Bounded`) |
| `WaitProofs` | `StaysConsistent`, `PidsStayCounted` (`PidsCounted`), `ChildrenCounted` (`NchildExact`), `NobodyWaitsInVain` (`SleepsForReason`) |

In each module they follow from `Safety` (`RWSafety` for RWLock, `Invariance` for
MntMux), that the inductive invariant `Inv` (`RWInv`) holds.  None of the properties is inductive: what a step does depends on where
every process is in its code, and what it read before.  `Inv` has layers; a lemma
for each says that every step preserves it, given the layers before it.

* QLock: `Control` (types, which lock a process works on, who holds `use`, what
  `eql` may be), `Queues` (queues hold exactly the waiters of that lock that
  sleep, without duplicates, and a waiter outside its queue has one process about
  to ready it), `Ownership` (`locked` says that somebody owns the lock, owners are
  unique).  The case that needs all three is `procinterrupt()` that unlinks a
  waiter it looked at earlier.
* RWLock: `RWControl`, `RWQueues`, `Counts`.  `readers` is the cardinality of the set
  of processes that read, so that the steps of `runlock()` and of the loop of
  `wunlock()` are lemmas on finite sets.  The loop needs `LoopReads` (it has let
  somebody in, or is about to) and `HeadWaits` (behind readers a writer waits), or
  the last reader could leave a queue behind a free lock.
* Sleep: `Control` (each spin lock belongs to the thread between `lock()` and
  `unlock()`), `Links` (`RpSound`, `PrSound`: r->p and p->r point at one another
  but for the owner of both locks; `RpKept`: what `wakeup()` read under `r` is
  still there when it has `p->rlock` too), `Events` (`CondTested`, `NoteTested`:
  whatever happens after the tests of `sleep()` has somebody who will wake it).
* Rendezvous: `Control`, `Chains`.  `MeetEffect`, `CancelEffect` and `WaitEffect`
  say what the three steps that change a chain do to the sets of waiters.  It
  holds of `Spec`, where groups are fixed; finding 1 is that it does not hold of
  `SpecRfork`.
* Timers: `Control` with `KindsApart` (what each kind of user does) and `EdfLocked`
  (`edflock()` is held exactly between taking it and letting it go, and by
  `timeradd()` only for a process that is admitted), `Armed`, `Waits`.  `SampledOnce`:
  the periodic timer of a sampler is in a list or in the hands of one
  `timerintr()`, never both, so that the second `timeradd()` of it, by
  `timerintr()`, meets no armed timer.  `Expelled`: a process that is not admitted
  has an armed timer at most until `edfstop()` has deleted it; a `releaseintr()` that
  comes late finds it expelled when it has the lock.  `AheadOfSleep` extends
  `TimeoutAhead` to a process about to sleep and follows `p->trend`: while it is
  set, the timer is armed or a `timerintr()` will clear it (`WillClear`); when it is
  cleared, whoever did it has read the Rendez of this sleep and will wake it, or
  the process is in `stale` (`WillWake`).  So the one way to lose a timeout is
  finding 2.
* Semaphore: `Control` (the list holds exactly the calls between `semqueue()` and
  `semdequeue()`, `semwakeup()` stands at one of them, what each call knows and has
  decided), `ToldIsWoken`, and `Enough`: for every sleeper, the units of its
  semaphore are no more than the wakeups that are still to come its way.  These are
  counted over all processes (`Weight`): a `semwakeup()` brings those it has left,
  unless it has passed the sleeper; a call that was sent one brings it, for it will
  pass it on if it does not need it; and a last look at the value is as good as
  one, for it takes a unit or finds none.  `NoneStranded` alone is not inductive:
  with two units and one wakeup under way, the wakeup would be used up and a unit
  left.  Sums over processes would need induction, so the weights are added up as
  the cardinality of a set of pairs (`Units`), and each step moves, adds or removes
  known pairs.
* MntMux: `Base` (the tags of the calls are disjoint and those not answered are
  the queue; the reader is `rip`; a process holds a chain of Mntrpcs exactly from
  `mntralloc()` to `mntfree()`, and finishes when the last of it is answered),
  `Sent` and `GateNotLost`.  `NoUnexpected` alone is not inductive: a call ends when
  its newest flush is answered, and frees the tags of the request and of the
  older flushes with it, which nothing in the queue says to be safe.  `Sent` adds
  `Ordered`: along a chain, once a later Mntrpc is answered nothing of an earlier
  one is left with the server, and its reply, if there is one, comes first.  That
  is the promise of flush(5), carried through the wire, the reply being dispatched
  (`got`) and the answers (`done`).  It is given up for a call that the end of the
  connection cuts short (`Doomed`), which may link a flush that is never sent.
  `Fresh` says that a message is written once.  `GateNotLost` is kept because who
  leaves the gate wakes a sleeper whose answer has not come (`SleepersAre`), and
  who goes to sleep looked at the gate.  The 19 actions are of seven kinds
  (`Kinds`), and each layer is one lemma for each kind.
* Qio: `Control` (`rlock` and `wlock` hold exactly those who are in the functions
  that take them, and who is past `eqlock()` is the first), `Awake`, `FlowSet`,
  `Room`, `Bounded`.  `Awake` is `ReaderAwake` and `WriterAwake` extended to those on
  their way into `sleep()`: the flag they rely on is set from before their test to
  their sleep.  `Bounded` needs `Room`, because a writer that was let on while the
  queue was short may add its block much later: for every c, there is room for
  the blocks of all writers that may add one before the queue has shrunk by more
  than c (`Tokens`): those past the test of `qwrite()`, and those whom `qflow()` lets go by
  then, who may have a next chunk.  A writer that adds a block gives its token up
  and holds one again only when its place in the queue (`pos`) is near.  A consumer
  trades shrinking by n for tokens of c + n.  The bound holds although notes let writers out of `qflow()`.
* Wait: `Control` (which slots are nobody, who is in `setnoteid()`, who holds
  `qwaitr`, records, the list of broken processes), `PidTable`, `Families`,
  `Sleepers`.  `PidsCounted` says which references count at each step of
  `setnoteid()` and `pidfree()`: some are given up while the field still shows them,
  one is taken before it shows (`OfPid`, `OfNote`, `OfGroup`, `OfParent`).  It holds of
  all that is reached before a Pid is freed that somebody refers to; that this
  does not happen is false (finding 3) and not claimed.  `NchildExact` needs
  `NchildCovers`: a broken process is no longer told of its children, so its count
  is only an upper bound, which is what keeps it from going below zero when such a
  child found it in the moment before.  `NobodyWaitsInVain` needs
  `SleepsForChild`: a process on its way into `sleep()` has a child or the record
  of one, because a child that leaves no record found `MaxWait` of them.

The four refinements map each step of the detailed module to a step of the
abstract one or to a stutter (`StepRefines`).  In QLock the abstract holder is
written with CHOOSE; by `Inv` the owner is unique, so it is the owner
(`HolderLemma`).  The steps of `procinterrupt()` before it unlinks, those of the
spin locks and the scheduler are stutters (`QuietSteps`).  In Semaphore a call
decides what to return before it passes on a wakeup and returns; deciding is the
abstract step, and the walk of `semwakeup()` is stutters.  In MntMux the abstract
step is taken by the server when it answers, so that reading the reply and
dispatching it are stutters; `RefineAnswer` needs `Ordered`, by which the answer
to a call cannot come behind the answer to its flush, and `RefineFreed` that the
caller is told what the server has made of the call.

`AppendMembers`, `TailMembers` and `RemoveAtMembers` say what joining a queue,
leaving it at its head and leaving it from anywhere do to a sequence without
duplicates and to its set of elements; each proof module has those it needs.
`MntMuxProofs` has `PrependMembers`, `ConsumeMembers` and `OnlyMembers` besides.  The
last is about a recursive function over a sequence of any length (`Only`); the
induction is spelled out as the search for a least counterexample
(`LeastNatural`, from `WFMin` of the library), because the library's induction
theorem takes an operator as a parameter, which the provers cannot instantiate.

Every safety property, action property and refinement that a run finds to hold
is the subject of a theorem.  Only model-checked: liveness (`Granted`,
`RWGranted`, `Awakened`, `InterruptEnds`, `Served`), because fairness and ENABLED are
outside TLAPS, and the three findings, which are counterexamples.

## 5. Findings

1. `rend_rfork`: `procinterrupt()` can unlock another group's lock than it took,
   when its victim, readied by a partner, runs `rfork(RFREND)`.
2. `timer_del`: `timerdel()` can return with the timer function still to be
   called, because `t->tt` is cleared before `t->tactive` is set under a lock
   that `timerdel()` does not take when it finds `t->tt` nil.  A `twakeup()`
   called so late may clear the `trend` of the next `tsleep()`, whose timeout is
   then lost.
3. `wait_noteid`: `changenoteid()` of one process may find the `Pid` of a group
   between `decref()` and `i->pid = -1` of the last process that leaves the group, or
   be overtaken by both before its `incref()`; the noteid it stores then has no
   `Pid`, and `setnoteid()` or `pidfree()` dereference nil later, or belongs to
   somebody else.  The comment asks for `p->debug`, but the two processes hold
   different ones.

Five more windows are in the code and in the models, and no run reports them; the
properties that touch them except them or claim less, as said where they are
stated:

* Timers: a periodic timer can be added again after `timerdel()` has returned: the
  `timerintr()` of another processor has found `Tperiodic` before `timerdel()` stored
  `Trelative`, and calls `tadd()` (`Readd`) when that has looked at `t->tt` and
  `t->tactive` (`Del`, `DelActive`).  `randomseed()` then frees the memory its function
  writes to.
* Timers: `edfstop()` calls `timerdel()` with `edflock()` held, and `timerdel()` spins
  until the function of the timer has returned; if that is a `releaseintr()` on
  another processor that has yet to get the lock, both spin for ever.  The model
  gets there: the process at `DelSpin`, which needs `Inactive`, holds `edlk`, which
  `IntrEdflock` needs.  `ActiveInside` says that the spin is never longer than the
  function, not that the function ends.
* MntMux: `mntgate()` picks a sleeper to read next; if that one is interrupted
  and then cannot send its `Tflush` because the connection has hung up (or memory
  is short), it leaves through the error path of `mountio()`, where `m->rip` is
  nil and so `mntgate()` is not called.  Other sleepers then stay asleep at an
  open gate.  `GateNotLost` is stated for a connection that is up.
* Qio: a reader sets `Qstarve` and is about to sleep; data comes, which clears the
  flag, and is taken by `qflush()`, `qdiscard()` or `qget()` before the reader looks
  (`wifi.c` and `bcm/ether4330.c` flush a queue that another process reads).  The
  reader sleeps with `Qstarve` clear and the next producer does not wake it,
  although `qio.c` says of `iunlock_producer()` "after inserting into queue, unlock
  queue and wakeup starved reader".
* Qio: `qsetlimit()` (a `wstat` of a pipe, a change of a uart or of the loopback
  device) lowers the limit after `Qflow` was cleared at the old one while a writer
  is on its way into `sleep()` in `qflow()`: it sleeps with `Qflow` clear, and no
  consumer wakes it until another block sets the flag again.

A reader of `/proc/n/wait` that has not run since process n exited still holds
`qwaitr` of the slot, so the first `wait()` of the next process there may fail with
`Einuse`; Wait has this step and no property against it.

Two windows are in the models without a property of their own, because nothing
but the delay of a note depends on them: `eqlock()` tests `notepending` before it
stores its state, so an interrupt in between waits until the lock is handed over;
and `sysrendezvous()` does not look at `notepending` at all.

## 6. Not modelled, and why

Weak memory: the models are sequentially consistent; the code calls
`coherence()` where it relies on order.  The counters for statistics.  The
complaints of `unlock()`, `qunlock()` and `runlock()` about a lock that is not
held, except where finding 1 states one.  `sleep()` by two processes on one
Rendez, which prints "double sleep" and forgets the first, and which callers
exclude by a qlock.  Real-time processes in the scheduler, and the stopped state:
that a process is dispatched before its registers are saved is excluded by
`ProcState` and not checked.  Of timers: times and deadlines, `edfyield()`, and the
sleep that `releaseintr()` ends of a process in `Wakeme`.  Other users of a
semaphore's word.  Of the mount driver: read-ahead, malformed replies, exhausted
memory, a call begun after a hangup.  Of queues: the bytes in the blocks and their splitting, `kick`,
`bypass`, the blocks without data that `qread()` drops from a queue that coalesces,
and `qpassnolim()` and direct `qbwrite()`, which ignore the bound that `Bounded`
states.  Of exit: what `pexit()` frees besides, and debuggers.  The components marked "planned" and "not planned" above.

## 7. Plan

Done: ProcState, QLock, RWLock, Sleep, Rendezvous, Semaphore, Timers, MntMux, Qio
and Wait with their proofs.

Next, in this order:

1. `Alarms` (`port/alarm.c`): the sorted list against processes that cancel, exit
   and have their slot used again.
2. `Sched` (run queues, `readied`, `dequeueproc()`, `schedinit()`), shown to
   implement ProcState; spin locks with `nlocks` and `delaysched`.
3. `Sel4Pipe` and the ring buffers of the seL4 port.
