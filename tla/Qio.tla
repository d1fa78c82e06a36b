---------------------------------- MODULE Qio -----------------------------------
(*****************************************************************************)
(* A Queue of port/qio.c: processes that read it (qbread(), qread()) and     *)
(* write it (qwrite(), and qbwrite() in it), a producer and consumer at      *)
(* interrupt level, and close, hangup, reopen and changes of the limit.      *)
(*                                                                           *)
(* A queue changes under its ilock: that code is one step; the wakeup() that *)
(* follows iunlock() is another.  rlock and wlock are first-in first-out     *)
(* locks (module QLock), held by the head of their queue; sleep() tests its  *)
(* condition and sleeps in one step (module Sleep).  A note shows as the     *)
(* Eintr of the eqlock() or sleep() it interrupts.                           *)
(*                                                                           *)
(* Blocks have one size and are read whole, so wp - rp counts them; f->p of  *)
(* a writer is kept relative to rp, and 0 once the reader has passed it.     *)
(* kick and bypass are nil.  Left out: that qread() drops blocks without     *)
(* data from a queue that coalesces (qio.c:931) before iunlock_reader():     *)
(* nobody writes to such a queue with flow control (kprintoq does not block, *)
(* tcp, uart and keyboard produce).                                          *)
(*****************************************************************************)
EXTENDS Integers, FiniteSets, Sequences, SequencesExt

CONSTANTS Readers, Writers, Others,
          Limits,   \* the limits qsetlimit() sets
          inilim    \* q->inilim

\* Limits are bounded; a process is seen in one role.
ASSUME QioAssumption ==
         /\ Limits \subseteq Nat /\ inilim \in Limits
         /\ \E m \in Limits : \A n \in Limits : n <= m
         /\ IsFiniteSet(Writers)
         /\ Readers \cap Writers = {} /\ Others \cap (Readers \cup Writers) = {}

VARIABLES len,       \* wp - rp
          limit,     \* q->limit
          Qflow,     \* a writer wants a wakeup: the flag in q->state
          Qstarve,   \* a reader wants one
          Qclosed,   \* no more is written
          noblock,   \* q->noblock
          rlock, wlock,
          pc,        \* where p is
          wake,      \* the Rendez p has yet to call wakeup() for
          pos,       \* f->p - rp
          bloated,   \* writers in qbloated()
          missed     \* history: what two windows in the code may miss, see Miss

state == <<len, limit, Qflow, Qstarve, Qclosed, noblock>>
vars == <<state, rlock, wlock, pc, wake, pos, bloated, missed>>

Proc == Readers \cup Writers
PCs == {"idle", "qwait", "rsleep", "rr", "rwoken", "runlock",
        "write", "qflow", "wsleep", "wr", "wwoken"}

Init == /\ len = 0 /\ limit = inilim
        /\ Qflow = FALSE /\ Qstarve = TRUE /\ Qclosed = FALSE /\ noblock = FALSE
        /\ rlock = <<>> /\ wlock = <<>>
        /\ pc = [p \in Proc |-> "idle"]
        /\ wake = [p \in Proc \cup Others |-> <<>>]
        /\ pos = [w \in Writers |-> 0]
        /\ bloated = {}
        /\ missed = {}
-----------------------------------------------------------------------------
At(p, from) == pc[p] = from /\ wake[p] = <<>>
Goto(p, to) == pc' = [pc EXCEPT ![p] = to]

\* wakeup(&q->rr), wakeup(&q->wr): who sleeps there ("rr", "wr") goes on.
Woken == [rr |-> "rwoken", wr |-> "wwoken"]
Wakeup(p) == /\ wake[p] # <<>>
             /\ wake' = [wake EXCEPT ![p] = Tail(@)]
             /\ pc' = [q \in Proc |-> IF pc[q] = Head(wake[p]) THEN Woken[pc[q]] ELSE pc[q]]
             /\ UNCHANGED <<state, rlock, wlock, pos, bloated, missed>>

\* Mutants: the wakeup comes with the end of flow control only; rp stays.
iunlock_consumer_AtLimit(p, n, lim) ==
    /\ len' = len - n
    /\ limit' = lim
    /\ pos' = [w \in Writers |-> IF pos[w] < n THEN 0 ELSE pos[w] - n]
    /\ Qflow' = (Qflow /\ len - n > lim)
    /\ wake' = [wake EXCEPT ![p] = IF Qflow /\ len - n <= lim THEN <<"wr">> ELSE <<>>]
iunlock_consumer_StaleRp(p, n, lim) ==
    /\ len' = len - n
    /\ limit' = lim
    /\ Qflow' = (Qflow /\ len - n > lim)
    /\ wake' = [wake EXCEPT ![p] = IF Qflow THEN <<"wr">> ELSE <<>>]
    /\ UNCHANGED pos

\* The end of a section of p that takes n blocks from the front and sets the
\* limit to lim; one that adds a block.
iunlock_consumer(p, n, lim) ==
    /\ len' = len - n
    /\ limit' = lim
    /\ pos' = [w \in Writers |-> IF pos[w] < n THEN 0 ELSE pos[w] - n]
    /\ Qflow' = (Qflow /\ len - n > lim)
    /\ wake' = [wake EXCEPT ![p] = IF Qflow THEN <<"wr">> ELSE <<>>]

iunlock_producer(p) ==
    /\ len' = len + 1
    /\ Qflow' = (Qflow \/ len + 1 > limit)
    /\ Qstarve' = FALSE
    /\ wake' = [wake EXCEPT ![p] = IF Qstarve THEN <<"rr">> ELSE <<>>]
-----------------------------------------------------------------------------
\* qbread(q, n), qread(q, p, n): eqlock(&q->rlock).
Read(p) == /\ At(p, "idle")
           /\ rlock' = Append(rlock, p)
           /\ Goto(p, "qwait")
           /\ UNCHANGED <<state, wlock, wake, pos, bloated, missed>>

\* p holds rlock, in qwait().
Qwait(p) == At(p, "qwait") /\ Head(rlock) = p

\* qwait() finds data; qread() takes as many blocks as fit.
ReadData(p) == /\ Qwait(p)
               /\ \E n \in 1 .. len : iunlock_consumer(p, n, limit)
               /\ Goto(p, "runlock")
               /\ UNCHANGED <<Qstarve, Qclosed, noblock, rlock, wlock, bloated, missed>>

\* qwait() finds the queue empty and closed: end of file, or an error.
ReadClosed(p) == /\ Qwait(p) /\ len = 0 /\ Qclosed
                 /\ Goto(p, "runlock")
                 /\ UNCHANGED <<state, rlock, wlock, wake, pos, bloated, missed>>

\* Mutant: Qstarve is not set.
ReadStarved_NoFlag(p) == /\ Qwait(p) /\ len = 0 /\ ~Qclosed
                         /\ Goto(p, "rsleep")
                         /\ UNCHANGED <<state, rlock, wlock, wake, pos, bloated, missed>>

\* qwait() finds nothing: ask the producer for a wakeup.
ReadStarved(p) == /\ Qwait(p) /\ len = 0 /\ ~Qclosed
                  /\ Qstarve' = TRUE
                  /\ Goto(p, "rsleep")
                  /\ UNCHANGED <<len, limit, Qflow, Qclosed, noblock,
                                 rlock, wlock, wake, pos, bloated, missed>>

\* sleep(&q->rr, notempty, q), and round the loop of qwait().
notempty == len > 0 \/ Qclosed
ReadSleep(p) == /\ \/ At(p, "rsleep") /\ Goto(p, IF notempty THEN "rwoken" ELSE "rr")
                   \/ At(p, "rwoken") /\ Goto(p, "qwait")
                /\ UNCHANGED <<state, rlock, wlock, wake, pos, bloated, missed>>

\* qunlock(&q->rlock)
ReadDone(p) == /\ At(p, "runlock")
               /\ rlock' = Tail(rlock)
               /\ missed' = missed \ {"rr"}
               /\ Goto(p, "idle")
               /\ UNCHANGED <<state, wlock, wake, pos, bloated>>

\* A note interrupts eqlock() or sleep().
ReadIntr(p) == /\ \/ At(p, "qwait") /\ Head(rlock) # p
                  \/ At(p, "rsleep") \/ At(p, "rr") \/ At(p, "rwoken")
               /\ \E i \in DOMAIN rlock : rlock[i] = p /\ rlock' = RemoveAt(rlock, i)
               /\ missed' = IF Head(rlock) = p THEN missed \ {"rr"} ELSE missed
               /\ Goto(p, "idle")
               /\ UNCHANGED <<state, wlock, wake, pos, bloated>>
-----------------------------------------------------------------------------
\* Mutant: no limit but qflow().
Write_NoLimit(p) == /\ At(p, "idle")
                    /\ Goto(p, "write")
                    /\ UNCHANGED <<state, rlock, wlock, wake, pos, bloated, missed>>

\* qwrite(): a queue grown over twice its limit is waited for, uninterruptible.
Write(p) == LET full == Qflow /\ len \div 2 > limit IN
            /\ At(p, "idle")
            /\ pos' = [pos EXCEPT ![p] = IF full THEN len ELSE 0]
            /\ bloated' = IF full THEN bloated \cup {p} ELSE bloated
            /\ Goto(p, IF full THEN "qflow" ELSE "write")
            /\ UNCHANGED <<state, rlock, wlock, wake, missed>>

\* qbwrite() adds a block, and has to wait if the queue is over its limit.
WriteBlock(p) == /\ At(p, "write") /\ ~Qclosed /\ ~(Qflow /\ noblock)
                 /\ iunlock_producer(p)
                 /\ pos' = [pos EXCEPT ![p] = IF Qflow' THEN len + 1 ELSE 0]
                 /\ Goto(p, "qflow")
                 /\ UNCHANGED <<limit, Qclosed, noblock, rlock, wlock, bloated, missed>>

\* qbwrite() fails on a closed queue; what does not fit one that does not block
\* is discarded.
WriteNothing(p) == /\ At(p, "write") /\ (Qclosed \/ (Qflow /\ noblock))
                   /\ Goto(p, "idle")
                   /\ UNCHANGED <<state, rlock, wlock, wake, pos, bloated, missed>>

unblocked(p) == noblock \/ pos[p] <= limit \/ Qclosed

inFlow(p) == pc[p] \in {"qflow", "wsleep", "wr", "wwoken"}

\* qflow() returns: qbwrite() is done, qbloated() goes on to write.
FlowDone(p, to) == /\ pos' = [pos EXCEPT ![p] = 0]
                   /\ bloated' = bloated \ {p}
                   /\ missed' = IF \E w \in Writers \ {p} : inFlow(w) THEN missed ELSE missed \ {"wr"}
                   /\ Goto(p, to)

\* The test of the loop of qflow().  qwrite() is over, or has more than Maxatomic
\* bytes to write and goes on with the next block, without a look at the length.
Flow(p) == /\ At(p, "qflow")
           /\ \/ /\ unblocked(p)
                 /\ \/ FlowDone(p, "write")
                    \/ p \notin bloated /\ FlowDone(p, "idle")
                 /\ UNCHANGED wlock
              \/ /\ ~unblocked(p)
                 /\ wlock' = Append(wlock, p)
                 /\ Goto(p, "wsleep")
                 /\ UNCHANGED <<pos, bloated, missed>>
           /\ UNCHANGED <<state, rlock, wake>>

\* Mutant: sleep() without wlock.
FlowSleep_NoLock(p) == /\ At(p, "wsleep")
                       /\ Goto(p, IF unblocked(p) THEN "wwoken" ELSE "wr")
                       /\ UNCHANGED <<state, rlock, wlock, wake, pos, bloated, missed>>

\* eqlock(&q->wlock); sleep(&q->wr, unblocked, f); qunlock(&q->wlock)
FlowSleep(p) == /\ At(p, "wsleep") /\ Head(wlock) = p
                /\ Goto(p, IF unblocked(p) THEN "wwoken" ELSE "wr")
                /\ UNCHANGED <<state, rlock, wlock, wake, pos, bloated, missed>>

FlowWoken(p) == /\ At(p, "wwoken")
                /\ wlock' = Tail(wlock)
                /\ Goto(p, "qflow")
                /\ UNCHANGED <<state, rlock, wake, pos, bloated, missed>>

\* A note: qbwrite() ends with its block queued, qbloated() starts over, unless
\* the process is to exit.
FlowIntr(p) == /\ \/ At(p, "wsleep") \/ At(p, "wr") \/ At(p, "wwoken")
               /\ \E i \in DOMAIN wlock : wlock[i] = p /\ wlock' = RemoveAt(wlock, i)
               /\ \/ p \in bloated /\ Goto(p, "qflow") /\ UNCHANGED <<pos, bloated, missed>>
                  \/ FlowDone(p, "idle")
               /\ UNCHANGED <<state, rlock, wake>>
-----------------------------------------------------------------------------
\* Two windows.  A reader has set Qstarve and is about to sleep, data comes and
\* somebody else takes it: Qstarve is clear.  A writer is in qflow(), Qflow was
\* cleared at the limit, and the limit falls: Qflow is clear.
MissReader(n) == missed' = IF n > 0 /\ \E p \in Readers : pc[p] = "rsleep"
                           THEN missed \cup {"rr"} ELSE missed
MissWriter(lim) == missed' = IF lim < limit /\ \E w \in Writers : inFlow(w)
                             THEN missed \cup {"wr"} ELSE missed

\* qiwrite(), qpass(), qproduce()
Produce(o) == /\ ~Qclosed /\ ~Qflow
              /\ iunlock_producer(o)
              /\ UNCHANGED <<limit, Qclosed, noblock, pos, missed>>

\* qget(), qconsume(), qdiscard(), qflush(); the first two find nothing.
Consume(o) == /\ \E n \in 0 .. len : iunlock_consumer(o, n, limit) /\ MissReader(n)
              /\ UNCHANGED <<Qstarve, Qclosed, noblock>>

ConsumeNothing(o) == /\ len = 0 /\ Qstarve' = TRUE
                     /\ iunlock_consumer(o, 0, limit)
                     /\ UNCHANGED <<Qclosed, noblock, missed>>

\* qclose(), qhangup()
Close(o) == /\ Qclosed' = TRUE /\ Qflow' = FALSE /\ Qstarve' = FALSE
            /\ len' = 0 /\ pos' = [w \in Writers |-> 0]
            /\ noblock' = FALSE
            /\ wake' = [wake EXCEPT ![o] = <<"rr", "wr">>]
            /\ UNCHANGED <<limit, missed>>

Hangup(o) == /\ Qclosed' = TRUE
             /\ wake' = [wake EXCEPT ![o] = <<"rr", "wr">>]
             /\ UNCHANGED <<len, limit, Qflow, Qstarve, noblock, pos, missed>>

\* Bound: what is left after a hangup is read before.
Reopen(o) == /\ Qclosed /\ len = 0
             /\ Qclosed' = FALSE /\ Qstarve' = TRUE
             /\ limit' = inilim
             /\ MissWriter(inilim)
             /\ UNCHANGED <<len, Qflow, noblock, pos, wake>>

qsetlimit(o) == /\ \E lim \in Limits : /\ iunlock_consumer(o, 0, lim)
                                       /\ MissWriter(lim)
                /\ UNCHANGED <<Qstarve, Qclosed, noblock>>

\* Bound: qnoblock(q, 1) only.
qnoblock(o) == /\ ~noblock /\ noblock' = TRUE
               /\ iunlock_consumer(o, 0, limit)
               /\ UNCHANGED <<Qstarve, Qclosed, missed>>

Other(o) == /\ wake[o] = <<>>
            /\ \/ Produce(o) \/ Consume(o) \/ ConsumeNothing(o)
               \/ Close(o) \/ Hangup(o) \/ Reopen(o) \/ qsetlimit(o) \/ qnoblock(o)
            /\ UNCHANGED <<rlock, wlock, pc, bloated>>
-----------------------------------------------------------------------------
ReadSteps(p) == \/ ReadData(p) \/ ReadClosed(p) \/ ReadStarved(p)
                \/ ReadSleep(p) \/ ReadDone(p)
WriteSteps(p) == \/ WriteBlock(p) \/ WriteNothing(p)
                 \/ Flow(p) \/ FlowSleep(p) \/ FlowWoken(p)

Next == \/ \E p \in Readers : Read(p) \/ ReadSteps(p) \/ ReadIntr(p)
        \/ \E p \in Writers : Write(p) \/ WriteSteps(p) \/ FlowIntr(p)
        \/ \E o \in Others : Other(o)
        \/ \E p \in Proc \cup Others : Wakeup(p)

Spec == Init /\ [][Next]_vars
-----------------------------------------------------------------------------
TypeOK == /\ len \in Nat /\ limit \in Limits
          /\ Qflow \in BOOLEAN /\ Qstarve \in BOOLEAN
          /\ Qclosed \in BOOLEAN /\ noblock \in BOOLEAN
          /\ rlock \in Seq(Readers) /\ wlock \in Seq(Writers)
          /\ pc \in [Proc -> PCs]
          /\ wake \in [Proc \cup Others -> {<<>>, <<"rr">>, <<"wr">>, <<"rr", "wr">>}]
          /\ pos \in [Writers -> 0 .. len]
          /\ bloated \subseteq Writers
          /\ missed \subseteq {"rr", "wr"}

\* sleep() overwrites whoever sleeps on its Rendez already ("double sleep").
NoDoubleSleep == \A p, q \in Proc :
                   /\ pc[p] = "rr" /\ pc[q] = "rr" => p = q
                   /\ pc[p] = "wr" /\ pc[q] = "wr" => p = q

\* The variables have their types, and nobody sleeps beside another.
Consistent == TypeOK /\ NoDoubleSleep

Waking(z) == \E p \in DOMAIN wake : z \in ToSet(wake[p])

\* A reader that sleeps has nothing to read, and the next producer will wake
\* it; or its wakeup is under way.  (Unless it was missed.)
ReaderAwake == \A p \in Readers :
                 pc[p] = "rr" => Waking("rr") \/ (~notempty /\ Qstarve) \/ "rr" \in missed

\* A writer that sleeps is over the limit, and the next consumer will wake it;
\* or its wakeup is under way.  (Unless the limit was missed meanwhile.)
WriterAwake == \A p \in Writers :
                 pc[p] = "wr" => Waking("wr") \/ (~unblocked(p) /\ Qflow) \/ "wr" \in missed

\* Notes or not, qwrite() lets a queue grow to about twice its limit: by one
\* block for each writer.
MaxLimit == CHOOSE m \in Limits : \A n \in Limits : n <= m
Bounded == len <= 2 * MaxLimit + 1 + Cardinality(Writers)
================================================================================
