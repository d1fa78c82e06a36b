------------------------------ MODULE QioProofs -------------------------------
(*****************************************************************************)
(* The queues of Qio lose no wakeup but in the two windows that "missed"     *)
(* records, and stay bounded, for any number of readers, writers and limits. *)
(*****************************************************************************)
EXTENDS Qio, FiniteSetTheorems, TLAPS

\* Readers and writers each keep to their part of the program.
Roles == /\ \A p \in Readers : pc[p] \in {"idle", "qwait", "rsleep", "rr", "rwoken", "runlock"}
         /\ \A w \in Writers : pc[w] \in {"idle", "write", "qflow", "wsleep", "wr", "wwoken"}

\* The readers that are not idle queue for rlock; all but the first are in eqlock().
ReadLock == /\ IsInjective(rlock)
            /\ ToSet(rlock) = {p \in Readers : pc[p] # "idle"}
            /\ \A p \in Readers : pc[p] \in {"rsleep", "rr", "rwoken", "runlock"} =>
                 Head(rlock) = p

\* The writers that wait in qflow() queue for wlock.
WriteLock == /\ IsInjective(wlock)
             /\ ToSet(wlock) = {w \in Writers : pc[w] \in {"wsleep", "wr", "wwoken"}}
             /\ \A w \in Writers : pc[w] \in {"wr", "wwoken"} => Head(wlock) = w

\* qbloated() waits in qflow().
Bloats == \A w \in bloated : inFlow(w)

Control == TypeOK /\ Roles /\ ReadLock /\ WriteLock /\ Bloats

\* A reader about to sleep will be woken by the next producer, or need not sleep;
\* one that sleeps is as ReaderAwake says.
ReaderSafe(r) ==
  /\ pc[r] = "rsleep" => notempty \/ Qstarve \/ "rr" \in missed
  /\ pc[r] = "rr" => Waking("rr") \/ (~notempty /\ Qstarve) \/ "rr" \in missed

\* A writer in qflow() will be woken by the next consumer, or need not wait; one
\* that sleeps is as WriterAwake says.
WriterSafe(w) ==
  /\ inFlow(w) => unblocked(w) \/ Qflow \/ "wr" \in missed
  /\ pc[w] = "wr" => Waking("wr") \/ (~unblocked(w) /\ Qflow) \/ "wr" \in missed

Awake == (\A r \in Readers : ReaderSafe(r)) /\ (\A w \in Writers : WriterSafe(w))

\* Without flow control the queue is within the limit that was set last, or one
\* that was set before.
FlowSet == ~Qflow => len <= MaxLimit

\* The writers that may add a block before the queue has shrunk by more than c:
\* they are past the test of qwrite(), or qflow() will let them go by then.
Tokens(c) == {w \in Writers : pc[w] = "write" \/ (inFlow(w) /\ pos[w] <= MaxLimit + c)}

MaxLen == 2 * MaxLimit + 1 + Cardinality(Writers)

\* As long as blocks may be added there is room for those of all who may.
Room == ~Qclosed /\ ~(noblock /\ Qflow) =>
          \A c \in Nat : len + Cardinality(Tokens(c)) <= MaxLen + c

\* The inductive invariant.
Inv == Control /\ Awake /\ FlowSet /\ Room /\ Bounded
-----------------------------------------------------------------------------

\* What joining a queue at its tail does to the set of its members.
LEMMA AppendMembers ==
  ASSUME NEW S, NEW s \in Seq(S), NEW e \in S
  PROVE  /\ Append(s, e) \in Seq(S)
         /\ ToSet(Append(s, e)) = ToSet(s) \cup {e}
         /\ IsInjective(s) /\ e \notin ToSet(s) => IsInjective(Append(s, e))
<1>1. /\ Len(Append(s, e)) = Len(s) + 1 /\ Append(s, e)[Len(s) + 1] = e
      /\ \A i \in 1 .. Len(s) : Append(s, e)[i] = s[i]
  OBVIOUS
<1>2. ToSet(Append(s, e)) = ToSet(s) \cup {e}
  BY <1>1 DEF ToSet
<1>3. QED
  BY <1>1, <1>2 DEF IsInjective, ToSet

\* What leaving a queue, from anywhere, does to the set of its members.
LEMMA RemoveAtMembers ==
  ASSUME NEW S, NEW s \in Seq(S), NEW i \in DOMAIN s, IsInjective(s)
  PROVE  /\ RemoveAt(s, i) \in Seq(S)
         /\ ToSet(RemoveAt(s, i)) = ToSet(s) \ {s[i]}
         /\ IsInjective(RemoveAt(s, i))
<1> DEFINE t == RemoveAt(s, i)
           old(j) == IF j < i THEN j ELSE j + 1
           new(k) == IF k < i THEN k ELSE k - 1
<1>1. /\ t \in Seq(S) /\ DOMAIN t = 1 .. Len(s) - 1
      /\ \A j \in DOMAIN t : t[j] = s[old(j)] /\ old(j) \in DOMAIN s \ {i}
  <2> DEFINE a == SubSeq(s, 1, i - 1)
             b == SubSeq(s, i + 1, Len(s))
  <2>1. /\ a \in Seq(S) /\ Len(a) = i - 1 /\ \A j \in 1 .. i - 1 : a[j] = s[j]
        /\ b \in Seq(S) /\ Len(b) = Len(s) - i /\ \A j \in 1 .. Len(s) - i : b[j] = s[j + i]
    OBVIOUS
  <2>2. t = a \o b
    BY DEF RemoveAt
  <2> HIDE DEF a, b, t
  <2>3. /\ t \in Seq(S) /\ DOMAIN t = 1 .. Len(s) - 1
        /\ \A j \in 1 .. Len(s) - 1 : t[j] = IF j < i THEN a[j] ELSE b[j - (i - 1)]
    BY <2>1, <2>2
  <2>4. \A j \in 1 .. Len(s) - 1 : j >= i => b[j - (i - 1)] = s[j + 1]
    BY <2>1
  <2>5. ASSUME NEW j \in 1 .. Len(s) - 1
        PROVE  t[j] = s[old(j)] /\ old(j) \in DOMAIN s \ {i}
    <3>1. i \in 1 .. Len(s) /\ Len(s) \in Nat
      OBVIOUS
    <3>2. t[j] = s[old(j)]
      BY <2>1, <2>3, <2>4, <3>1
    <3>3. QED
      BY <3>1, <3>2
  <2>6. QED
    BY <2>3, <2>5
<1>2. \A k \in DOMAIN s \ {i} : new(k) \in DOMAIN t /\ old(new(k)) = k
  BY <1>1
<1>3. \A j \in DOMAIN t, k \in DOMAIN t : old(j) = old(k) => j = k
  BY <1>1
<1> HIDE DEF t, old, new
<1>4. IsInjective(t)
  BY <1>1, <1>3 DEF IsInjective
<1>5. ToSet(t) = ToSet(s) \ {s[i]}
  BY <1>1, <1>2 DEF ToSet, IsInjective
<1>6. QED
  BY <1>1, <1>4, <1>5 DEF t

\* What leaving a queue at its head does to the set of its members.
LEMMA TailMembers ==
  ASSUME NEW S, NEW s \in Seq(S), s # <<>>, IsInjective(s)
  PROVE  /\ Head(s) \in S
         /\ Head(s) \in ToSet(s)
         /\ Tail(s) \in Seq(S)
         /\ ToSet(Tail(s)) = ToSet(s) \ {Head(s)}
         /\ IsInjective(Tail(s))
<1>1. 1 \in DOMAIN s /\ Head(s) = s[1] /\ s[1] \in S
  OBVIOUS
<1>2. s[1] \in ToSet(s)
  BY <1>1 DEF ToSet
<1>3. Tail(s) = RemoveAt(s, 1)
  BY DEF RemoveAt
<1>4. /\ RemoveAt(s, 1) \in Seq(S) /\ IsInjective(RemoveAt(s, 1))
      /\ ToSet(RemoveAt(s, 1)) = ToSet(s) \ {s[1]}
  BY <1>1, RemoveAtMembers
<1>5. QED
  BY <1>1, <1>2, <1>3, <1>4
-----------------------------------------------------------------------------
\* Whose turn it is in a queue does not change when another joins or leaves.
LEMMA Joins ==
  ASSUME NEW S, NEW s \in Seq(S), IsInjective(s), NEW e \in S \ ToSet(s)
  PROVE  /\ Append(s, e) \in Seq(S) /\ IsInjective(Append(s, e))
         /\ ToSet(Append(s, e)) = ToSet(s) \cup {e}
         /\ \A x \in ToSet(s) : Head(s) = x => Head(Append(s, e)) = x
<1>1. \A x \in ToSet(s) : Head(s) = x => Head(Append(s, e)) = x
  <2>1. ASSUME s # <<>>
        PROVE  Head(Append(s, e)) = Head(s)
    BY <2>1
  <2>2. s = <<>> => ToSet(s) = {}
    BY DEF ToSet
  <2>3. QED
    BY <2>1, <2>2
<1>2. QED
  BY <1>1, AppendMembers

\* And when somebody leaves.
LEMMA Leaves ==
  ASSUME NEW S, NEW s \in Seq(S), IsInjective(s), NEW i \in DOMAIN s
  PROVE  /\ RemoveAt(s, i) \in Seq(S) /\ IsInjective(RemoveAt(s, i))
         /\ ToSet(RemoveAt(s, i)) = ToSet(s) \ {s[i]}
         /\ \A x \in ToSet(s) \ {s[i]} : Head(s) = x => Head(RemoveAt(s, i)) = x
<1>1. ASSUME NEW x \in ToSet(s) \ {s[i]}, Head(s) = x
      PROVE  Head(RemoveAt(s, i)) = x
  <2>1. i # 1 /\ i \in 1 .. Len(s) /\ s[1] = x
    BY <1>1 DEF ToSet
  <2>2. SubSeq(s, 1, i - 1) \in Seq(S) /\ Len(SubSeq(s, 1, i - 1)) = i - 1
        /\ SubSeq(s, 1, i - 1)[1] = x
    BY <2>1
  <2>3. SubSeq(s, i + 1, Len(s)) \in Seq(S)
    BY <2>1
  <2>4. QED
    BY <2>1, <2>2, <2>3 DEF RemoveAt
<1>2. QED
  BY <1>1, RemoveAtMembers

\* The first leaves.
LEMMA Passes ==
  ASSUME NEW S, NEW s \in Seq(S), IsInjective(s), NEW e \in ToSet(s), Head(s) = e
  PROVE  Tail(s) \in Seq(S) /\ IsInjective(Tail(s)) /\ ToSet(Tail(s)) = ToSet(s) \ {e}
<1>1. s # <<>>
  BY DEF ToSet
<1>2. QED
  BY <1>1, TailMembers
-----------------------------------------------------------------------------
\* The largest limit.
LEMMA MaxLimitIs == MaxLimit \in Nat /\ \A n \in Limits : n \in Nat /\ n <= MaxLimit
BY QioAssumption DEF MaxLimit

Wakes == {<<>>, <<"rr">>, <<"wr">>, <<"rr", "wr">>}

\* The wakeups a process has yet to send.
LEMMA WakesAre ==
  /\ ToSet(<<>>) = {} /\ ToSet(<<"rr">>) = {"rr"} /\ ToSet(<<"wr">>) = {"wr"}
  /\ ToSet(<<"rr", "wr">>) = {"rr", "wr"}
  /\ \A s \in Wakes \ {<<>>} : /\ Head(s) \in {"rr", "wr"} /\ Tail(s) \in Wakes
                               /\ ToSet(Tail(s)) = ToSet(s) \ {Head(s)}
<1>1. /\ ToSet(<<>>) = {} /\ ToSet(<<"rr">>) = {"rr"} /\ ToSet(<<"wr">>) = {"wr"}
      /\ ToSet(<<"rr", "wr">>) = {"rr", "wr"}
  BY DEF ToSet
<1>2. /\ Tail(<<"rr">>) = <<>> /\ Tail(<<"wr">>) = <<>> /\ Tail(<<"rr", "wr">>) = <<"wr">>
      /\ Head(<<"rr">>) = "rr" /\ Head(<<"wr">>) = "wr" /\ Head(<<"rr", "wr">>) = "rr"
  OBVIOUS
<1>3. ASSUME NEW s \in {<<"rr">>, <<"wr">>, <<"rr", "wr">>}
      PROVE  /\ Head(s) \in {"rr", "wr"} /\ Tail(s) \in {<<>>, <<"wr">>}
             /\ ToSet(Tail(s)) = ToSet(s) \ {Head(s)}
  <2>1. CASE s = <<"rr">>
    BY <1>1, <1>2, <2>1
  <2>2. CASE s = <<"wr">>
    BY <1>1, <1>2, <2>2
  <2>3. CASE s = <<"rr", "wr">>
    BY <1>1, <1>2, <2>3
  <2>4. QED
    BY <2>1, <2>2, <2>3
<1>4. QED
  BY <1>1, <1>3 DEF Wakes

\* What wakeup() does: all who sleep at one Rendez go on, the other is left alone.
LEMMA WakeupMoves ==
  ASSUME TypeOK, NEW p \in Proc \cup Others, Wakeup(p)
  PROVE  \E z \in {"rr", "wr"} :
           /\ z \in ToSet(wake[p])
           /\ \A q \in Proc : pc'[q] = IF pc[q] # z THEN pc[q]
                                       ELSE IF z = "rr" THEN "rwoken" ELSE "wwoken"
           /\ pc' \in [Proc -> PCs] /\ wake' \in [Proc \cup Others -> Wakes]
           /\ \A y \in {"rr", "wr"} \ {z} : Waking(y) => Waking(y)'
<1>1. wake[p] \in Wakes \ {<<>>} /\ wake \in [Proc \cup Others -> Wakes]
  BY DEF Wakeup, TypeOK, Wakes
<1>2. PICK z \in {"rr", "wr"} : z = Head(wake[p])
  BY <1>1, WakesAre
<1>3. z \in ToSet(wake[p])
  BY <1>1, <1>2, WakesAre DEF Wakes
<1>4. /\ pc' = [q \in Proc |-> IF pc[q] = z THEN Woken[pc[q]] ELSE pc[q]]
      /\ wake' = [wake EXCEPT ![p] = Tail(wake[p])]
  BY <1>2 DEF Wakeup
<1>5. \A q \in Proc : pc'[q] = IF pc[q] # z THEN pc[q]
                               ELSE IF z = "rr" THEN "rwoken" ELSE "wwoken"
  BY <1>2, <1>4 DEF Woken
<1>6. pc' \in [Proc -> PCs]
  BY <1>4, <1>5 DEF TypeOK, PCs
<1>7. /\ wake' \in [Proc \cup Others -> Wakes]
      /\ \A q \in Proc \cup Others : q # p => wake'[q] = wake[q]
  BY <1>1, <1>4, WakesAre
<1>8. ASSUME NEW y \in {"rr", "wr"} \ {z}, NEW q \in Proc \cup Others, y \in ToSet(wake[q])
      PROVE  y \in ToSet(wake'[q])
  <2>1. CASE q = p
    BY <1>1, <1>2, <1>4, <1>8, <2>1, WakesAre
  <2>2. CASE q # p
    BY <1>7, <1>8, <2>2
  <2>3. QED
    BY <2>1, <2>2
<1>9. \A y \in {"rr", "wr"} \ {z} : Waking(y) => Waking(y)'
  BY <1>1, <1>7, <1>8 DEF Waking
<1>10. QED
  BY <1>2, <1>3, <1>5, <1>6, <1>7, <1>9

\* Blocks leave the queue, or the limit changes.
LEMMA Consumes ==
  ASSUME TypeOK, NEW p \in Proc \cup Others, NEW n \in 0 .. len, NEW lim \in Limits,
         iunlock_consumer(p, n, lim)
  PROVE  /\ len' = len - n /\ len' \in 0 .. len /\ limit' = lim /\ lim \in Nat
         /\ Qflow' = (Qflow /\ len - n > lim)
         /\ wake' \in [Proc \cup Others -> Wakes]
         /\ \A q \in (Proc \cup Others) \ {p} : wake'[q] = wake[q]
         /\ Qflow => "wr" \in ToSet(wake'[p])
         /\ pos' \in [Writers -> 0 .. len']
         /\ \A w \in Writers : pos'[w] = IF pos[w] < n THEN 0 ELSE pos[w] - n
<1> USE QioAssumption
<1>1. len' = len - n /\ len' \in 0 .. len /\ limit' = lim /\ lim \in Nat
  BY DEF iunlock_consumer, TypeOK
<1>2. Qflow' = (Qflow /\ len - n > lim)
  BY DEF iunlock_consumer
<1>3. wake \in [Proc \cup Others -> Wakes]
  BY DEF TypeOK, Wakes
<1>4. wake' = [wake EXCEPT ![p] = IF Qflow THEN <<"wr">> ELSE <<>>]
  BY DEF iunlock_consumer
<1>5. /\ wake' \in [Proc \cup Others -> Wakes]
      /\ \A q \in (Proc \cup Others) \ {p} : wake'[q] = wake[q]
      /\ Qflow => "wr" \in ToSet(wake'[p])
  BY <1>3, <1>4, WakesAre DEF Wakes
<1>6. pos \in [Writers -> 0 .. len] /\ len \in Nat
  BY DEF TypeOK
<1>7. pos' = [w \in Writers |-> IF pos[w] < n THEN 0 ELSE pos[w] - n]
  BY DEF iunlock_consumer
<1>8. /\ pos' \in [Writers -> 0 .. len']
      /\ \A w \in Writers : pos'[w] = IF pos[w] < n THEN 0 ELSE pos[w] - n
  BY <1>1, <1>6, <1>7
<1>9. QED
  BY <1>1, <1>2, <1>5, <1>8

\* A block joins the queue.
LEMMA Produces ==
  ASSUME TypeOK, NEW p \in Proc \cup Others, iunlock_producer(p)
  PROVE  /\ len \in Nat /\ limit \in Nat /\ len' = len + 1
         /\ Qflow' = (Qflow \/ len + 1 > limit) /\ Qstarve' = FALSE
         /\ wake' \in [Proc \cup Others -> Wakes]
         /\ \A q \in (Proc \cup Others) \ {p} : wake'[q] = wake[q]
         /\ Qstarve => "rr" \in ToSet(wake'[p])
<1>1. wake \in [Proc \cup Others -> Wakes] /\ len \in Nat /\ limit \in Nat
  BY QioAssumption DEF TypeOK, Wakes
<1>2. wake' = [wake EXCEPT ![p] = IF Qstarve THEN <<"rr">> ELSE <<>>]
  BY DEF iunlock_producer
<1>3. QED
  BY <1>1, <1>2, WakesAre DEF iunlock_producer, Wakes
-----------------------------------------------------------------------------
\* A step of a reader leaves the writers where they are.
LEMMA ReaderAlone ==
  ASSUME Control, NEW p \in Readers,
         NEW to \in {"idle", "qwait", "rsleep", "rr", "rwoken", "runlock"}, Goto(p, to),
         UNCHANGED <<wlock, bloated>>
  PROVE  /\ pc' \in [Proc -> PCs] /\ pc'[p] = to /\ \A q \in Proc \ {p} : pc'[q] = pc[q]
         /\ Roles' /\ WriteLock' /\ Bloats'
<1>1. p \in Proc /\ p \notin Writers /\ pc \in [Proc -> PCs] /\ bloated \subseteq Writers
  BY QioAssumption DEF Proc, Control, TypeOK
<1>2. /\ pc' \in [Proc -> PCs] /\ pc'[p] = to /\ \A q \in Proc \ {p} : pc'[q] = pc[q]
  BY <1>1 DEF Goto, PCs
<1>3. \A w \in Writers : pc'[w] = pc[w]
  BY <1>1, <1>2 DEF Proc
<1>4. Roles'
  BY <1>2, <1>3 DEF Control, Roles, Proc
<1>5. WriteLock'
  BY <1>3 DEF Control, WriteLock
<1>6. Bloats'
  BY <1>1, <1>3 DEF Control, Bloats, inFlow
<1>7. QED
  BY <1>2, <1>4, <1>5, <1>6

\* A step of a writer leaves the readers where they are.
LEMMA WriterAlone ==
  ASSUME Control, NEW p \in Writers,
         NEW to \in {"idle", "write", "qflow", "wsleep", "wr", "wwoken"}, Goto(p, to),
         UNCHANGED rlock
  PROVE  /\ pc' \in [Proc -> PCs] /\ pc'[p] = to /\ \A q \in Proc \ {p} : pc'[q] = pc[q]
         /\ Roles' /\ ReadLock'
<1>1. p \in Proc /\ p \notin Readers /\ pc \in [Proc -> PCs]
  BY QioAssumption DEF Proc, Control, TypeOK
<1>2. /\ pc' \in [Proc -> PCs] /\ pc'[p] = to /\ \A q \in Proc \ {p} : pc'[q] = pc[q]
  BY <1>1 DEF Goto, PCs
<1>3. \A r \in Readers : pc'[r] = pc[r]
  BY <1>1, <1>2 DEF Proc
<1>4. Roles'
  BY <1>2, <1>3 DEF Control, Roles, Proc
<1>5. ReadLock'
  BY <1>3 DEF Control, ReadLock
<1>6. QED
  BY <1>2, <1>4, <1>5

\* eqlock(&q->rlock) ... qunlock(&q->rlock)
LEMMA ReaderControl ==
  ASSUME Control, NEW p \in Readers, Read(p) \/ ReadSteps(p) \/ ReadIntr(p)
  PROVE  Control'
<1>1. p \in Proc /\ p \in Proc \cup Others
  BY DEF Proc
<1>2. /\ rlock \in Seq(Readers) /\ IsInjective(rlock)
      /\ ToSet(rlock) = {q \in Readers : pc[q] # "idle"}
  BY DEF Control, TypeOK, ReadLock
<1>3. CASE Read(p)
  <2>1. pc[p] = "idle" /\ Goto(p, "qwait") /\ rlock' = Append(rlock, p)
        /\ UNCHANGED <<state, wlock, wake, pos, bloated, missed>>
    BY <1>3 DEF Read, At
  <2>2. /\ pc' \in [Proc -> PCs] /\ pc'[p] = "qwait" /\ \A q \in Proc \ {p} : pc'[q] = pc[q]
        /\ Roles' /\ WriteLock' /\ Bloats'
    BY <2>1, ReaderAlone
  <2>3. /\ rlock' \in Seq(Readers) /\ IsInjective(rlock') /\ ToSet(rlock') = ToSet(rlock) \cup {p}
        /\ \A x \in ToSet(rlock) : Head(rlock) = x => Head(rlock') = x
    BY <1>2, <2>1, Joins
  <2>4. ReadLock'
    BY <1>2, <2>1, <2>2, <2>3 DEF Control, ReadLock, Proc
  <2>5. TypeOK'
    BY <2>1, <2>2, <2>3 DEF Control, TypeOK, state
  <2>6. QED
    BY <2>2, <2>4, <2>5 DEF Control
<1>4. CASE ReadData(p)
  <2>1. PICK n \in 1 .. len : iunlock_consumer(p, n, limit)
    BY <1>4 DEF ReadData
  <2>2. pc[p] = "qwait" /\ Head(rlock) = p /\ Goto(p, "runlock")
        /\ UNCHANGED <<Qstarve, Qclosed, noblock, rlock, wlock, bloated, missed>>
    BY <1>4 DEF ReadData, Qwait, At
  <2>3. /\ pc' \in [Proc -> PCs] /\ pc'[p] = "runlock" /\ \A q \in Proc \ {p} : pc'[q] = pc[q]
        /\ Roles' /\ WriteLock' /\ Bloats'
    BY <2>2, ReaderAlone
  <2>4. ReadLock'
    BY <1>2, <2>2, <2>3 DEF Control, ReadLock, Proc
  <2>5. n \in 0 .. len /\ limit \in Limits /\ TypeOK
    BY DEF Control, TypeOK
  <2>6. /\ len' \in 0 .. len /\ limit' = limit /\ Qflow' \in BOOLEAN
        /\ wake' \in [Proc \cup Others -> Wakes] /\ pos' \in [Writers -> 0 .. len']
    BY <1>1, <2>1, <2>5, Consumes
  <2>7. TypeOK'
    BY <2>2, <2>3, <2>5, <2>6 DEF TypeOK, Wakes
  <2>8. QED
    BY <2>3, <2>4, <2>7 DEF Control
<1>5. CASE ReadClosed(p) \/ ReadStarved(p) \/ ReadSleep(p)
  <2>1. PICK to \in {"qwait", "rsleep", "rr", "rwoken", "runlock"} : Goto(p, to)
    BY <1>5 DEF ReadClosed, ReadStarved, ReadSleep
  <2>2. /\ pc[p] # "idle" /\ Head(rlock) = p
        /\ UNCHANGED <<rlock, wlock, wake, len, limit, Qflow, Qclosed, noblock>>
        /\ UNCHANGED <<pos, bloated, missed>>
        /\ Qstarve' \in BOOLEAN
    BY <1>5 DEF ReadClosed, ReadStarved, ReadSleep, Qwait, At, state, Control, TypeOK, ReadLock
  <2>3. /\ pc' \in [Proc -> PCs] /\ pc'[p] = to /\ \A q \in Proc \ {p} : pc'[q] = pc[q]
        /\ Roles' /\ WriteLock' /\ Bloats'
    BY <2>1, <2>2, ReaderAlone
  <2>4. ReadLock'
    BY <1>2, <2>2, <2>3 DEF Control, ReadLock, Proc
  <2>5. TypeOK'
    BY <2>2, <2>3 DEF Control, TypeOK
  <2>6. QED
    BY <2>3, <2>4, <2>5 DEF Control
<1>6. CASE ReadDone(p)
  <2>1. pc[p] = "runlock" /\ Head(rlock) = p /\ Goto(p, "idle") /\ rlock' = Tail(rlock)
        /\ UNCHANGED <<state, wlock, wake, pos, bloated>> /\ missed' \subseteq missed
    BY <1>6 DEF ReadDone, At, Control, ReadLock
  <2>2. /\ pc' \in [Proc -> PCs] /\ pc'[p] = "idle" /\ \A q \in Proc \ {p} : pc'[q] = pc[q]
        /\ Roles' /\ WriteLock' /\ Bloats'
    BY <2>1, ReaderAlone
  <2>3. rlock' \in Seq(Readers) /\ IsInjective(rlock') /\ ToSet(rlock') = ToSet(rlock) \ {p}
    BY <1>2, <2>1, Passes
  <2>4. ReadLock'
    BY <1>2, <2>1, <2>2, <2>3 DEF Control, ReadLock, Proc
  <2>5. TypeOK'
    BY <2>1, <2>2, <2>3 DEF Control, TypeOK, state
  <2>6. QED
    BY <2>2, <2>4, <2>5 DEF Control
<1>7. CASE ReadIntr(p)
  <2>1. PICK i \in DOMAIN rlock : rlock[i] = p /\ rlock' = RemoveAt(rlock, i)
    BY <1>7 DEF ReadIntr
  <2>2. /\ Goto(p, "idle") /\ UNCHANGED <<state, wlock, wake, pos, bloated>>
        /\ missed' \subseteq missed
    BY <1>7 DEF ReadIntr
  <2>3. /\ pc' \in [Proc -> PCs] /\ pc'[p] = "idle" /\ \A q \in Proc \ {p} : pc'[q] = pc[q]
        /\ Roles' /\ WriteLock' /\ Bloats'
    BY <2>2, ReaderAlone
  <2>4. /\ rlock' \in Seq(Readers) /\ IsInjective(rlock') /\ ToSet(rlock') = ToSet(rlock) \ {p}
        /\ \A x \in ToSet(rlock) \ {p} : Head(rlock) = x => Head(rlock') = x
    BY <1>2, <2>1, Leaves
  <2>5. ReadLock'
    BY <1>2, <2>3, <2>4 DEF Control, ReadLock, Proc
  <2>6. TypeOK'
    BY <2>2, <2>3, <2>4 DEF Control, TypeOK, state
  <2>7. QED
    BY <2>3, <2>5, <2>6 DEF Control
<1>8. QED
  BY <1>3, <1>4, <1>5, <1>6, <1>7 DEF ReadSteps

\* qflow() returns, with wlock given up if it was asked for.
LEMMA FlowDoneControl ==
  ASSUME Control, NEW p \in Writers, NEW to \in {"write", "idle"}, FlowDone(p, to),
         wlock' \in Seq(Writers), IsInjective(wlock'), ToSet(wlock') = ToSet(wlock) \ {p},
         \A x \in ToSet(wlock) \ {p} : Head(wlock) = x => Head(wlock') = x,
         UNCHANGED <<state, rlock, wake>>
  PROVE  Control'
<1>1. /\ Goto(p, to) /\ pos' = [pos EXCEPT ![p] = 0]
      /\ bloated' = bloated \ {p} /\ missed' \subseteq missed
  BY DEF FlowDone
<1>2. /\ pc' \in [Proc -> PCs] /\ pc'[p] = to /\ \A q \in Proc \ {p} : pc'[q] = pc[q]
      /\ Roles' /\ ReadLock'
  BY <1>1, WriterAlone
<1>3. WriteLock'
  BY <1>2 DEF Control, WriteLock, Proc
<1>4. pos' \in [Writers -> 0 .. len] /\ bloated \subseteq Writers
  BY <1>1 DEF Control, TypeOK
<1>5. Bloats'
  BY <1>1, <1>2, <1>4 DEF Control, Bloats, inFlow, Proc
<1>6. TypeOK'
  BY <1>1, <1>2, <1>4 DEF Control, TypeOK, state
<1>7. QED
  BY <1>2, <1>3, <1>5, <1>6 DEF Control

\* A writer goes on in qflow(), and joins or leaves the queue of wlock.
LEMMA FlowControl ==
  ASSUME Control, NEW p \in Writers, NEW to \in {"qflow", "wsleep"}, Goto(p, to),
         wlock' \in Seq(Writers), IsInjective(wlock'),
         ToSet(wlock') = IF to = "qflow" THEN ToSet(wlock) \ {p} ELSE ToSet(wlock) \cup {p},
         \A x \in Writers \ {p} : pc[x] \in {"wr", "wwoken"} => Head(wlock') = x,
         UNCHANGED <<state, rlock, wake, pos, bloated, missed>>
  PROVE  Control'
<1>1. /\ pc' \in [Proc -> PCs] /\ pc'[p] = to /\ \A q \in Proc \ {p} : pc'[q] = pc[q]
      /\ Roles' /\ ReadLock'
  BY WriterAlone
<1>2. WriteLock'
  BY <1>1 DEF Control, WriteLock, Proc
<1>3. Bloats'
  BY <1>1 DEF Control, TypeOK, Bloats, inFlow, Proc
<1>4. TypeOK'
  BY <1>1 DEF Control, TypeOK, state
<1>5. QED
  BY <1>1, <1>2, <1>3, <1>4 DEF Control

\* Who stays in qflow() stays bloated or not, and who leaves it has nothing to wait for.
LEMMA WriterControl ==
  ASSUME Control, NEW p \in Writers, Write(p) \/ WriteSteps(p) \/ FlowIntr(p)
  PROVE  Control'
<1>1. p \in Proc /\ p \in Proc \cup Others
  BY DEF Proc
<1>2. /\ wlock \in Seq(Writers) /\ IsInjective(wlock)
      /\ ToSet(wlock) = {w \in Writers : pc[w] \in {"wsleep", "wr", "wwoken"}}
      /\ pos \in [Writers -> 0 .. len] /\ len \in Nat /\ bloated \subseteq Writers
  BY DEF Control, TypeOK, WriteLock
<1>3. CASE Write(p)
  <2> DEFINE full == Qflow /\ len \div 2 > limit
  <2>1. PICK to \in {"qflow", "write"} : Goto(p, to) /\ (full <=> to = "qflow")
    BY <1>3 DEF Write
  <2>2. /\ pc[p] = "idle" /\ UNCHANGED <<state, rlock, wlock, wake, missed>>
        /\ pos' = [pos EXCEPT ![p] = IF full THEN len ELSE 0]
        /\ bloated' = IF to = "qflow" THEN bloated \cup {p} ELSE bloated
    BY <1>3, <2>1 DEF Write, At
  <2>3. /\ pc' \in [Proc -> PCs] /\ pc'[p] = to /\ \A q \in Proc \ {p} : pc'[q] = pc[q]
        /\ Roles' /\ ReadLock'
    BY <2>1, <2>2, WriterAlone
  <2>4. pos' \in [Writers -> 0 .. len]
    BY <1>2, <2>2
  <2>5. WriteLock'
    BY <2>2, <2>3 DEF Control, WriteLock, Proc
  <2>6. Bloats'
    BY <1>2, <2>2, <2>3 DEF Control, Bloats, inFlow, Proc
  <2>7. TypeOK'
    BY <1>2, <2>2, <2>3, <2>4 DEF Control, TypeOK, state
  <2>8. QED
    BY <2>3, <2>5, <2>6, <2>7 DEF Control
<1>4. CASE WriteBlock(p)
  <2>1. /\ pc[p] = "write" /\ Goto(p, "qflow") /\ iunlock_producer(p)
        /\ pos' = [pos EXCEPT ![p] = IF Qflow' THEN len + 1 ELSE 0]
        /\ UNCHANGED <<limit, Qclosed, noblock, rlock, wlock, bloated, missed>>
    BY <1>4 DEF WriteBlock, At
  <2>2. /\ pc' \in [Proc -> PCs] /\ pc'[p] = "qflow" /\ \A q \in Proc \ {p} : pc'[q] = pc[q]
        /\ Roles' /\ ReadLock'
    BY <2>1, WriterAlone
  <2>3. /\ len' = len + 1 /\ Qflow' \in BOOLEAN /\ Qstarve' = FALSE
        /\ wake' \in [Proc \cup Others -> Wakes]
    BY <1>1, <2>1, Produces DEF Control
  <2>4. pos' \in [Writers -> 0 .. len']
    BY <1>2, <2>1, <2>3
  <2>5. WriteLock'
    BY <2>1, <2>2 DEF Control, WriteLock, Proc
  <2>6. Bloats'
    BY <1>2, <2>1, <2>2 DEF Control, Bloats, inFlow, Proc
  <2>7. /\ len' \in Nat /\ limit' \in Limits /\ Qclosed' \in BOOLEAN /\ noblock' \in BOOLEAN
        /\ rlock' \in Seq(Readers) /\ wlock' \in Seq(Writers)
        /\ bloated' \subseteq Writers /\ missed' \subseteq {"rr", "wr"}
    BY <1>2, <2>1, <2>3 DEF Control, TypeOK
  <2>8. TypeOK'
    BY <2>2, <2>3, <2>4, <2>7 DEF TypeOK, Wakes
  <2>9. QED
    BY <2>2, <2>5, <2>6, <2>8 DEF Control
<1>5. CASE WriteNothing(p) \/ FlowSleep(p)
  <2>1. /\ UNCHANGED <<state, rlock, wlock, wake, pos, bloated, missed>>
        /\ \/ pc[p] = "write" /\ Goto(p, "idle")
           \/ pc[p] = "wsleep" /\ Head(wlock) = p /\ Goto(p, "wr")
           \/ pc[p] = "wsleep" /\ Head(wlock) = p /\ Goto(p, "wwoken")
    BY <1>5 DEF WriteNothing, FlowSleep, At
  <2>2. PICK to \in {"idle", "wr", "wwoken"} : Goto(p, to) /\ (to = "idle" <=> pc[p] = "write")
    BY <2>1
  <2>3. /\ pc' \in [Proc -> PCs] /\ pc'[p] = to /\ \A q \in Proc \ {p} : pc'[q] = pc[q]
        /\ Roles' /\ ReadLock'
    BY <2>1, <2>2, WriterAlone
  <2>4. WriteLock'
    BY <1>2, <2>1, <2>2, <2>3 DEF Control, WriteLock, Proc
  <2>5. Bloats'
    BY <1>2, <2>1, <2>2, <2>3 DEF Control, Bloats, inFlow, Proc
  <2>6. TypeOK'
    BY <2>1, <2>3 DEF Control, TypeOK, state
  <2>7. QED
    BY <2>3, <2>4, <2>5, <2>6 DEF Control
<1>6. CASE Flow(p)
  <2>1. pc[p] = "qflow" /\ UNCHANGED <<state, rlock, wake>>
    BY <1>6 DEF Flow, At
  <2>2. CASE UNCHANGED wlock /\ \E to \in {"write", "idle"} : FlowDone(p, to)
    <3>1. p \notin ToSet(wlock)
      BY <1>2, <2>1
    <3>2. QED
      BY <1>2, <2>1, <2>2, <3>1, FlowDoneControl
  <2>3. CASE wlock' = Append(wlock, p) /\ Goto(p, "wsleep") /\ UNCHANGED <<pos, bloated, missed>>
    <3>1. p \notin ToSet(wlock)
      BY <1>2, <2>1
    <3>2. /\ wlock' \in Seq(Writers) /\ IsInjective(wlock')
          /\ ToSet(wlock') = ToSet(wlock) \cup {p}
          /\ \A x \in ToSet(wlock) : Head(wlock) = x => Head(wlock') = x
      BY <1>2, <2>3, <3>1, Joins
    <3>3. \A x \in Writers \ {p} : pc[x] \in {"wr", "wwoken"} => Head(wlock') = x
      BY <1>2, <3>2 DEF Control, WriteLock
    <3>4. QED
      BY <2>1, <2>3, <3>2, <3>3, FlowControl
  <2>4. QED
    BY <1>6, <2>2, <2>3 DEF Flow
<1>7. CASE FlowWoken(p)
  <2>1. /\ pc[p] = "wwoken" /\ Head(wlock) = p /\ wlock' = Tail(wlock) /\ Goto(p, "qflow")
        /\ UNCHANGED <<state, rlock, wake, pos, bloated, missed>>
    BY <1>7 DEF FlowWoken, At, Control, WriteLock
  <2>2. wlock' \in Seq(Writers) /\ IsInjective(wlock') /\ ToSet(wlock') = ToSet(wlock) \ {p}
    BY <1>2, <2>1, Passes
  <2>3. \A x \in Writers \ {p} : pc[x] \notin {"wr", "wwoken"}
    BY <2>1 DEF Control, WriteLock
  <2>4. QED
    BY <2>1, <2>2, <2>3, FlowControl
<1>8. CASE FlowIntr(p)
  <2>1. PICK i \in DOMAIN wlock : wlock[i] = p /\ wlock' = RemoveAt(wlock, i)
    BY <1>8 DEF FlowIntr
  <2>2. /\ wlock' \in Seq(Writers) /\ IsInjective(wlock') /\ ToSet(wlock') = ToSet(wlock) \ {p}
        /\ \A x \in ToSet(wlock) \ {p} : Head(wlock) = x => Head(wlock') = x
    BY <1>2, <2>1, Leaves
  <2>3. \A x \in Writers \ {p} : pc[x] \in {"wr", "wwoken"} => Head(wlock') = x
    BY <1>2, <2>2 DEF Control, WriteLock
  <2>4. UNCHANGED <<state, rlock, wake>>
    BY <1>8 DEF FlowIntr
  <2>5. CASE Goto(p, "qflow") /\ UNCHANGED <<pos, bloated, missed>>
    BY <2>2, <2>3, <2>4, <2>5, FlowControl
  <2>6. CASE FlowDone(p, "idle")
    BY <2>2, <2>4, <2>6, FlowDoneControl
  <2>7. QED
    BY <1>8, <2>5, <2>6 DEF FlowIntr
<1>9. QED
  BY <1>3, <1>4, <1>5, <1>6, <1>7, <1>8 DEF WriteSteps

\* What is not a reader or a writer leaves the two alone.
LEMMA OtherControl ==
  ASSUME Control, NEW o \in Others, Other(o)
  PROVE  Control'
<1>1. o \in Proc \cup Others /\ TypeOK /\ limit \in Limits /\ inilim \in Limits /\ len \in Nat
  BY QioAssumption DEF Control, TypeOK
<1>2. UNCHANGED <<rlock, wlock, pc, bloated>>
  BY DEF Other
<1>3. /\ len' \in Nat /\ limit' \in Limits
      /\ Qflow' \in BOOLEAN /\ Qstarve' \in BOOLEAN
      /\ Qclosed' \in BOOLEAN /\ noblock' \in BOOLEAN
      /\ wake' \in [Proc \cup Others -> Wakes] /\ pos' \in [Writers -> 0 .. len']
      /\ missed' \subseteq {"rr", "wr"}
  <2>1. CASE Produce(o)
    <3>1. UNCHANGED <<limit, Qclosed, noblock, pos, missed>>
      BY <2>1 DEF Produce
    <3>2. /\ len' = len + 1 /\ Qflow' \in BOOLEAN /\ Qstarve' \in BOOLEAN
          /\ wake' \in [Proc \cup Others -> Wakes]
      BY <1>1, <2>1, Produces DEF Produce
    <3>3. pos' \in [Writers -> 0 .. len']
      BY <1>1, <3>1, <3>2 DEF TypeOK
    <3>4. Qclosed' \in BOOLEAN /\ noblock' \in BOOLEAN /\ missed' \subseteq {"rr", "wr"}
      BY <1>1, <3>1 DEF TypeOK
    <3>5. len' \in Nat /\ limit' \in Limits
      BY <1>1, <3>1, <3>2
    <3>6. QED
      BY <3>2, <3>3, <3>4, <3>5
  <2>2. CASE Consume(o) \/ ConsumeNothing(o) \/ qsetlimit(o) \/ qnoblock(o)
    <3>1. PICK n \in 0 .. len, lim \in Limits : iunlock_consumer(o, n, lim)
      BY <1>1, <2>2 DEF Consume, ConsumeNothing, qsetlimit, qnoblock
    <3>2. /\ len' \in 0 .. len /\ limit' \in Limits /\ Qflow' \in BOOLEAN
          /\ wake' \in [Proc \cup Others -> Wakes] /\ pos' \in [Writers -> 0 .. len']
      BY <1>1, <3>1, Consumes
    <3>3. Qstarve' \in BOOLEAN /\ Qclosed' \in BOOLEAN /\ noblock' \in BOOLEAN
      BY <1>1, <2>2 DEF Consume, ConsumeNothing, qsetlimit, qnoblock, TypeOK
    <3>4. missed' \subseteq {"rr", "wr"}
      BY <1>1, <2>2 DEF Consume, ConsumeNothing, qsetlimit, qnoblock, TypeOK, MissReader,
                        MissWriter
    <3>5. QED
      BY <1>1, <3>2, <3>3, <3>4
  <2>3. CASE Close(o)
    <3>1. wake' \in [Proc \cup Others -> Wakes]
      BY <1>1, <2>3 DEF Close, TypeOK, Wakes
    <3>2. len' \in Nat /\ pos' \in [Writers -> 0 .. len']
      BY <2>3 DEF Close
    <3>3. QED
      BY <1>1, <2>3, <3>1, <3>2 DEF Close, TypeOK
  <2>4. CASE Hangup(o)
    BY <1>1, <2>4 DEF Hangup, TypeOK, Wakes
  <2>5. CASE Reopen(o)
    BY <1>1, <2>5 DEF Reopen, TypeOK, Wakes, MissWriter
  <2>6. QED
    BY <2>1, <2>2, <2>3, <2>4, <2>5 DEF Other
<1>4. TypeOK'
  BY <1>1, <1>2, <1>3 DEF TypeOK, Wakes
<1>5. QED
  BY <1>2, <1>4 DEF Control, Roles, ReadLock, WriteLock, Bloats, inFlow

\* wakeup() takes a sleeper as far as the end of its sleep().
LEMMA WakeupControl ==
  ASSUME Control, NEW p \in Proc \cup Others, Wakeup(p)
  PROVE  Control'
<1>1. PICK z \in {"rr", "wr"} :
        /\ \A q \in Proc : pc'[q] = IF pc[q] # z THEN pc[q]
                                    ELSE IF z = "rr" THEN "rwoken" ELSE "wwoken"
        /\ pc' \in [Proc -> PCs] /\ wake' \in [Proc \cup Others -> Wakes]
  BY WakeupMoves DEF Control
<1>2. UNCHANGED <<state, rlock, wlock, pos, bloated, missed>>
  BY DEF Wakeup
<1>3. TypeOK'
  BY <1>1, <1>2 DEF Control, TypeOK, Wakes, state
<1>4. Roles'
  BY <1>1 DEF Control, Roles, Proc
<1>5. ReadLock'
  BY <1>1, <1>2 DEF Control, Roles, ReadLock, Proc
<1>6. WriteLock'
  BY <1>1, <1>2 DEF Control, Roles, WriteLock, Proc
<1>7. Bloats'
  BY <1>1, <1>2 DEF Control, TypeOK, Bloats, inFlow, Proc
<1>8. QED
  BY <1>3, <1>4, <1>5, <1>6, <1>7 DEF Control

\* Who is where.
LEMMA ControlStep ==
  ASSUME Control, [Next]_vars
  PROVE  Control'
<1>1. CASE UNCHANGED vars
  BY <1>1 DEF vars, state, Control, TypeOK, Roles, ReadLock, WriteLock, Bloats, inFlow
<1>2. QED
  BY <1>1, ReaderControl, WriterControl, OtherControl, WakeupControl DEF Next
-----------------------------------------------------------------------------
\* A wakeup stays under way until it is sent.
LEMMA WakingStays ==
  ASSUME wake \in [Proc \cup Others -> Wakes], NEW p \in Proc \cup Others, wake[p] = <<>>,
         wake' \in [Proc \cup Others -> Wakes],
         \A q \in (Proc \cup Others) \ {p} : wake'[q] = wake[q],
         NEW z, Waking(z)
  PROVE  Waking(z)'
<1>1. PICK q \in Proc \cup Others : z \in ToSet(wake[q])
  BY DEF Waking
<1>2. q # p
  BY <1>1, WakesAre
<1>3. QED
  BY <1>1, <1>2 DEF Waking

\* What was just left to send is under way.
LEMMA WakingNow ==
  ASSUME wake' \in [Proc \cup Others -> Wakes], NEW p \in Proc \cup Others,
         NEW z \in ToSet(wake'[p])
  PROVE  Waking(z)'
BY DEF Waking

\* What puts a block into the queue wakes the reader.
LEMMA ProducerReader ==
  ASSUME TypeOK, NEW p \in Proc \cup Others, wake[p] = <<>>, iunlock_producer(p),
         NEW r \in Readers, ReaderSafe(r), pc'[r] = pc[r], UNCHANGED missed
  PROVE  ReaderSafe(r)'
<1>1. /\ len \in Nat /\ len' = len + 1
      /\ wake \in [Proc \cup Others -> Wakes] /\ wake' \in [Proc \cup Others -> Wakes]
      /\ \A q \in (Proc \cup Others) \ {p} : wake'[q] = wake[q]
      /\ Qstarve => "rr" \in ToSet(wake'[p])
  BY Produces DEF TypeOK, Wakes
<1>2. notempty'
  BY <1>1 DEF notempty
<1>3. Qstarve => Waking("rr")'
  BY <1>1, WakingNow
<1>4. Waking("rr") => Waking("rr")'
  BY <1>1, WakingStays
<1>5. QED
  BY <1>2, <1>3, <1>4 DEF ReaderSafe

\* What takes blocks away leaves a reader asleep and wakes the writers.
LEMMA ConsumerReader ==
  ASSUME TypeOK, NEW p \in Proc \cup Others, wake[p] = <<>>,
         NEW n \in 0 .. len, NEW lim \in Limits, iunlock_consumer(p, n, lim),
         UNCHANGED Qclosed, Qstarve => Qstarve',
         NEW r \in Readers, ReaderSafe(r), pc'[r] = pc[r],
         "rr" \in missed => "rr" \in missed', n > 0 /\ pc[r] = "rsleep" => "rr" \in missed'
  PROVE  ReaderSafe(r)'
<1>1. /\ len \in Nat /\ len' = len - n
      /\ wake \in [Proc \cup Others -> Wakes] /\ wake' \in [Proc \cup Others -> Wakes]
      /\ \A q \in (Proc \cup Others) \ {p} : wake'[q] = wake[q]
  BY Consumes DEF TypeOK, Wakes
<1>2. (n = 0 => (notempty' <=> notempty)) /\ (notempty' => notempty)
  BY <1>1 DEF notempty
<1>3. Waking("rr") => Waking("rr")'
  BY <1>1, WakingStays
<1>4. n = 0 \/ n > 0
  BY <1>1
<1>5. QED
  BY <1>2, <1>3, <1>4 DEF ReaderSafe

\* It leaves a writer that is over the limit, or wakes it.
LEMMA ConsumerWriter ==
  ASSUME TypeOK, NEW p \in Proc \cup Others, wake[p] = <<>>,
         NEW n \in 0 .. len, NEW lim \in Limits, iunlock_consumer(p, n, lim),
         UNCHANGED Qclosed, noblock => noblock',
         NEW w \in Writers, WriterSafe(w), pc'[w] = pc[w],
         "wr" \in missed => "wr" \in missed', lim < limit /\ inFlow(w) => "wr" \in missed'
  PROVE  WriterSafe(w)'
<1>1. /\ len \in Nat /\ len' = len - n /\ limit' = lim /\ lim \in Nat /\ limit \in Nat
      /\ Qflow' = (Qflow /\ len - n > lim)
      /\ wake \in [Proc \cup Others -> Wakes] /\ wake' \in [Proc \cup Others -> Wakes]
      /\ \A q \in (Proc \cup Others) \ {p} : wake'[q] = wake[q]
      /\ Qflow => "wr" \in ToSet(wake'[p])
  BY Consumes, QioAssumption DEF TypeOK, Wakes
<1>2. pos[w] \in 0 .. len /\ pos'[w] \in 0 .. len - n /\ pos'[w] <= pos[w]
  <2>1. pos \in [Writers -> 0 .. len]
    BY DEF TypeOK
  <2>2. pos'[w] = IF pos[w] < n THEN 0 ELSE pos[w] - n
    BY Consumes
  <2>3. QED
    BY <1>1, <2>1, <2>2
<1>3. inFlow(w)' <=> inFlow(w)
  BY DEF inFlow
<1>4. unblocked(w) => unblocked(w)' \/ lim < limit
  BY <1>1, <1>2 DEF unblocked
<1>5. Qflow => Qflow' \/ unblocked(w)'
  <2>1. (len - n > lim) \/ pos'[w] <= lim
    BY <1>1, <1>2
  <2>2. pos'[w] <= lim => unblocked(w)'
    BY <1>1 DEF unblocked
  <2>3. Qflow /\ len - n > lim => Qflow'
    BY <1>1
  <2>4. QED
    BY <2>1, <2>2, <2>3
<1>6. Qflow => Waking("wr")'
  BY <1>1, WakingNow
<1>7. Waking("wr") => Waking("wr")'
  BY <1>1, WakingStays
<1>8. inFlow(w)' => unblocked(w)' \/ Qflow' \/ "wr" \in missed'
  BY <1>3, <1>4, <1>5 DEF WriterSafe
<1>9. pc'[w] = "wr" => Waking("wr")' \/ "wr" \in missed'
  BY <1>6, <1>7 DEF WriterSafe
<1>10. QED
  BY <1>8, <1>9 DEF WriterSafe
-----------------------------------------------------------------------------
\* Steps of readers.
LEMMA ReaderAwakes ==
  ASSUME Control, Control', Awake, NEW p \in Readers, Read(p) \/ ReadSteps(p) \/ ReadIntr(p)
  PROVE  Awake'
<1>1. p \in Proc \cup Others /\ p \in Proc /\ p \notin Writers /\ wake[p] = <<>>
  BY QioAssumption DEF Proc, Read, ReadSteps, ReadIntr, ReadData, ReadClosed, ReadStarved,
                       ReadSleep, ReadDone, Qwait, At
<1>2. \A q \in Proc \ {p} : pc'[q] = pc[q]
  BY DEF Read, ReadSteps, ReadIntr, ReadData, ReadClosed, ReadStarved, ReadSleep, ReadDone,
         Goto, Control, TypeOK
<1>3. ASSUME NEW r \in Readers \ {p}, pc'[r] \in {"rsleep", "rr"}
      PROVE  UNCHANGED <<state, missed, wake>>
  <2>1. r \in Proc /\ pc[r] = pc'[r]
    BY <1>2 DEF Proc
  <2>2. Head(rlock) = r
    BY <1>3, <2>1 DEF Control, ReadLock
  <2>3. pc[p] \in {"idle", "qwait"}
    BY <2>2 DEF Control, ReadLock, Roles
  <2>4. Read(p) \/ ReadIntr(p)
    BY <2>2, <2>3 DEF ReadSteps, ReadData, ReadClosed, ReadStarved, ReadSleep, ReadDone,
                      Qwait, At
  <2>5. QED
    BY <2>2, <2>4 DEF Read, ReadIntr
<1>4. ReaderSafe(p)'
  <2>1. pc \in [Proc -> PCs]
    BY DEF Control, TypeOK
  <2>2. pc'[p] = "rsleep" => Qstarve'
    BY <1>1, <2>1 DEF Read, ReadSteps, ReadIntr, ReadData, ReadClosed, ReadStarved,
                      ReadSleep, ReadDone, Goto
  <2>3. ASSUME pc'[p] = "rr"
        PROVE  pc[p] = "rsleep" /\ ~notempty /\ UNCHANGED <<state, missed>>
    BY <1>1, <2>1, <2>3 DEF Read, ReadSteps, ReadIntr, ReadData, ReadClosed, ReadStarved,
                            ReadSleep, ReadDone, Goto, At
  <2>4. pc'[p] = "rr" => (~notempty /\ Qstarve)' \/ "rr" \in missed'
    BY <2>3 DEF Awake, ReaderSafe, state, notempty
  <2>5. QED
    BY <2>2, <2>4 DEF ReaderSafe
<1>5. ASSUME NEW r \in Readers
      PROVE  ReaderSafe(r)'
  <2>1. CASE r # p /\ pc'[r] \in {"rsleep", "rr"}
    <3>1. UNCHANGED <<state, missed, wake>> /\ pc'[r] = pc[r]
      BY <1>2, <1>3, <2>1 DEF Proc
    <3>2. QED
      BY <3>1 DEF Awake, ReaderSafe, Waking, state, notempty
  <2>2. QED
    BY <1>4, <2>1 DEF ReaderSafe
<1>6. ASSUME NEW w \in Writers
      PROVE  WriterSafe(w)'
  <2>1. pc'[w] = pc[w] /\ WriterSafe(w)
    BY <1>1, <1>2 DEF Proc, Awake
  <2>2. CASE ReadData(p)
    <3>1. PICK n \in 0 .. len : iunlock_consumer(p, n, limit)
      BY <2>2 DEF ReadData
    <3>2. UNCHANGED <<Qclosed, noblock, missed>> /\ limit \in Limits /\ ~(limit < limit)
      BY <2>2, QioAssumption DEF ReadData, Control, TypeOK
    <3>3. QED
      BY <1>1, <2>1, <3>1, <3>2, ConsumerWriter DEF Control
  <2>3. CASE ~ReadData(p)
    <3>1. /\ UNCHANGED <<limit, Qflow, Qclosed, noblock, wake, pos>>
          /\ "wr" \in missed => "wr" \in missed'
      BY <2>3 DEF Read, ReadSteps, ReadIntr, ReadClosed, ReadStarved, ReadSleep, ReadDone, state
    <3>2. QED
      BY <2>1, <3>1 DEF WriterSafe, Waking, unblocked, inFlow
  <2>4. QED
    BY <2>2, <2>3
<1>7. QED
  BY <1>5, <1>6 DEF Awake

\* Steps of writers.
LEMMA WriterAwakes ==
  ASSUME Control, Control', Awake, NEW p \in Writers, Write(p) \/ WriteSteps(p) \/ FlowIntr(p)
  PROVE  Awake'
<1>1. p \in Proc \cup Others /\ p \in Proc /\ p \notin Readers /\ wake[p] = <<>>
  BY QioAssumption DEF Proc, Write, WriteSteps, FlowIntr, WriteBlock, WriteNothing, Flow,
                       FlowSleep, FlowWoken, At
<1>2. \A q \in Proc \ {p} : pc'[q] = pc[q]
  BY DEF Write, WriteSteps, FlowIntr, WriteBlock, WriteNothing, Flow, FlowSleep, FlowWoken,
         FlowDone, Goto, Control, TypeOK
<1>3. pc \in [Proc -> PCs] /\ pos \in [Writers -> 0 .. len]
  BY DEF Control, TypeOK
<1>4. CASE WriteBlock(p)
  <2>1. /\ iunlock_producer(p) /\ Goto(p, "qflow")
        /\ UNCHANGED <<limit, Qclosed, noblock, missed>>
        /\ pos' = [pos EXCEPT ![p] = IF Qflow' THEN len + 1 ELSE 0]
    BY <1>4 DEF WriteBlock
  <2>2. /\ limit \in Nat /\ (Qflow => Qflow')
        /\ wake \in [Proc \cup Others -> Wakes] /\ wake' \in [Proc \cup Others -> Wakes]
        /\ \A q \in (Proc \cup Others) \ {p} : wake'[q] = wake[q]
    BY <1>1, <2>1, Produces DEF Control, TypeOK, Wakes
  <2>3. ASSUME NEW r \in Readers
        PROVE  ReaderSafe(r)'
    BY <1>1, <1>2, <2>1, ProducerReader DEF Control, Awake, Proc
  <2>4. ASSUME NEW w \in Writers \ {p}
        PROVE  WriterSafe(w)'
    <3>1. pc'[w] = pc[w] /\ pos'[w] = pos[w] /\ WriterSafe(w)
      BY <1>2, <1>3, <2>1 DEF Proc, Awake
    <3>2. Waking("wr") => Waking("wr")'
      BY <1>1, <2>2, WakingStays
    <3>3. QED
      BY <2>1, <2>2, <3>1, <3>2 DEF WriterSafe, unblocked, inFlow
  <2>5. WriterSafe(p)'
    <3>1. pc'[p] = "qflow" /\ (~Qflow' => pos'[p] = 0)
      BY <1>1, <1>3, <2>1 DEF Goto
    <3>2. ~Qflow' => unblocked(p)'
      BY <2>1, <2>2, <3>1 DEF unblocked
    <3>3. QED
      BY <3>1, <3>2 DEF WriterSafe
  <2>6. QED
    BY <2>3, <2>4, <2>5 DEF Awake
<1>5. CASE ~WriteBlock(p)
  <2>1. UNCHANGED <<state, wake>> /\ ("rr" \in missed => "rr" \in missed')
    BY <1>5 DEF Write, WriteSteps, FlowIntr, WriteNothing, Flow, FlowSleep, FlowWoken, FlowDone
  <2>2. ASSUME NEW r \in Readers
        PROVE  ReaderSafe(r)'
    BY <1>1, <1>2, <2>1 DEF Awake, ReaderSafe, Proc, state, notempty, Waking
  <2>3. ASSUME NEW w \in Writers \ {p}
        PROVE  WriterSafe(w)'
    <3>1. pc'[w] = pc[w] /\ WriterSafe(w)
      BY <1>2 DEF Proc, Awake
    <3>2. pos'[w] = pos[w]
      BY <1>3, <1>5 DEF Write, WriteSteps, FlowIntr, WriteNothing, Flow, FlowSleep,
                        FlowWoken, FlowDone
    <3>3. inFlow(w) /\ "wr" \in missed => "wr" \in missed'
      BY <1>5 DEF Write, WriteSteps, FlowIntr, WriteNothing, Flow, FlowSleep, FlowWoken,
                  FlowDone
    <3>4. QED
      BY <2>1, <3>1, <3>2, <3>3 DEF WriterSafe, unblocked, inFlow, state, Waking
  <2>4. WriterSafe(p)'
    <3>1. CASE Write(p)
      <4>1. inFlow(p)' => Qflow /\ pc'[p] = "qflow"
        BY <1>1, <1>3, <3>1 DEF Write, Goto, inFlow
      <4>2. QED
        BY <2>1, <4>1 DEF WriterSafe, state, inFlow
    <3>2. CASE pc'[p] \in {"idle", "write"}
      BY <3>2 DEF WriterSafe, inFlow
    <3>3. CASE ~Write(p) /\ pc'[p] \notin {"idle", "write"}
      <4>1. UNCHANGED <<pos, missed>> /\ inFlow(p) /\ (pc'[p] = "wr" => ~unblocked(p))
        BY <1>1, <1>3, <1>5, <3>3 DEF WriteSteps, FlowIntr, WriteNothing, Flow, FlowSleep,
                                      FlowWoken, FlowDone, Goto, At, inFlow
      <4>2. UNCHANGED unblocked(p)
        BY <2>1, <4>1 DEF unblocked, state
      <4>3. unblocked(p) \/ Qflow \/ "wr" \in missed
        BY <4>1 DEF Awake, WriterSafe
      <4>4. QED
        BY <2>1, <4>1, <4>2, <4>3 DEF WriterSafe, state
    <3>4. QED
      BY <3>1, <3>2, <3>3
  <2>5. QED
    BY <2>2, <2>3, <2>4 DEF Awake
<1>6. QED
  BY <1>4, <1>5

\* What interrupts and other processes do.
LEMMA OtherAwakes ==
  ASSUME Control, Control', Awake, NEW o \in Others, Other(o)
  PROVE  Awake'
<1>1. /\ o \in Proc \cup Others /\ wake[o] = <<>> /\ UNCHANGED pc
      /\ limit \in Limits /\ ~(limit < limit) /\ inilim \in Limits /\ len \in Nat
      /\ wake \in [Proc \cup Others -> Wakes] /\ wake' \in [Proc \cup Others -> Wakes]
  BY QioAssumption DEF Other, Control, TypeOK, Wakes
<1>2. CASE Produce(o)
  <2>1. iunlock_producer(o) /\ ~Qflow /\ UNCHANGED <<limit, Qclosed, noblock, pos, missed>>
    BY <1>2 DEF Produce
  <2>2. ASSUME NEW r \in Readers
        PROVE  ReaderSafe(r)'
    BY <1>1, <2>1, ProducerReader DEF Control, Awake
  <2>3. ASSUME NEW w \in Writers
        PROVE  WriterSafe(w)'
    <3>1. \A q \in (Proc \cup Others) \ {o} : wake'[q] = wake[q]
      BY <1>1, <2>1, Produces DEF Control
    <3>2. Waking("wr") => Waking("wr")'
      BY <1>1, <3>1, WakingStays
    <3>3. QED
      BY <1>1, <2>1, <3>2 DEF Awake, WriterSafe, unblocked, inFlow
  <2>4. QED
    BY <2>2, <2>3 DEF Awake
<1>3. CASE Consume(o) \/ ConsumeNothing(o) \/ qsetlimit(o) \/ qnoblock(o)
  <2>1. PICK n \in 0 .. len, lim \in Limits :
          /\ iunlock_consumer(o, n, lim)
          /\ n > 0 /\ (\E r \in Readers : pc[r] = "rsleep") => "rr" \in missed'
          /\ lim < limit /\ (\E w \in Writers : inFlow(w)) => "wr" \in missed'
    <3>1. CASE Consume(o)
      BY <1>1, <3>1 DEF Consume, MissReader
    <3>2. CASE ConsumeNothing(o) \/ qnoblock(o)
      BY <1>1, <3>2 DEF ConsumeNothing, qnoblock
    <3>3. CASE qsetlimit(o)
      BY <1>1, <3>3 DEF qsetlimit, MissWriter
    <3>4. QED
      BY <1>3, <3>1, <3>2, <3>3
  <2>2. /\ UNCHANGED Qclosed /\ (Qstarve => Qstarve') /\ (noblock => noblock')
        /\ missed \subseteq missed'
    BY <1>3 DEF Consume, ConsumeNothing, qsetlimit, qnoblock, MissReader, MissWriter
  <2>3. ASSUME NEW r \in Readers
        PROVE  ReaderSafe(r)'
    BY <1>1, <2>1, <2>2, ConsumerReader DEF Control, Awake
  <2>4. ASSUME NEW w \in Writers
        PROVE  WriterSafe(w)'
    BY <1>1, <2>1, <2>2, ConsumerWriter DEF Control, Awake
  <2>5. QED
    BY <2>3, <2>4 DEF Awake
<1>4. CASE Close(o) \/ Hangup(o)
  <2>1. Qclosed' /\ wake' = [wake EXCEPT ![o] = <<"rr", "wr">>]
    BY <1>4 DEF Close, Hangup
  <2>2. Waking("rr")' /\ Waking("wr")'
    BY <1>1, <2>1, WakingNow, WakesAre
  <2>3. QED
    BY <2>1, <2>2 DEF Awake, ReaderSafe, WriterSafe, notempty, unblocked
<1>5. CASE Reopen(o)
  <2>1. Qclosed /\ Qstarve' /\ len = 0 /\ limit' = inilim /\ UNCHANGED <<wake, pos>>
        /\ missed \subseteq missed'
    BY <1>5 DEF Reopen, MissWriter
  <2>2. ASSUME NEW r \in Readers
        PROVE  ReaderSafe(r)'
    BY <1>1, <2>1 DEF Awake, ReaderSafe, Waking, notempty
  <2>3. ASSUME NEW w \in Writers
        PROVE  WriterSafe(w)'
    <3>1. pos[w] = 0 /\ inilim \in Nat
      BY <2>1, QioAssumption DEF Control, TypeOK
    <3>2. unblocked(w)' /\ unblocked(w)
      BY <2>1, <3>1 DEF unblocked
    <3>3. QED
      BY <1>1, <2>1, <3>2 DEF Awake, WriterSafe, Waking
  <2>4. QED
    BY <2>2, <2>3 DEF Awake
<1>6. QED
  BY <1>2, <1>3, <1>4, <1>5 DEF Other

\* Whom wakeup() wakes sleeps no more, and the wakeups for the others stay.
LEMMA WakeupAwakes ==
  ASSUME Control, Awake, NEW p \in Proc \cup Others, Wakeup(p)
  PROVE  Awake'
<1>1. PICK z \in {"rr", "wr"} :
        /\ \A q \in Proc : pc'[q] = IF pc[q] # z THEN pc[q]
                                    ELSE IF z = "rr" THEN "rwoken" ELSE "wwoken"
        /\ \A y \in {"rr", "wr"} \ {z} : Waking(y) => Waking(y)'
  BY WakeupMoves DEF Control
<1>2. UNCHANGED <<state, pos, missed>>
  BY DEF Wakeup
<1>3. ASSUME NEW r \in Readers
      PROVE  ReaderSafe(r)'
  <2>1. /\ pc'[r] = "rsleep" => pc[r] = "rsleep"
        /\ pc'[r] = "rr" => pc[r] = "rr" /\ z = "wr"
    BY <1>1 DEF Proc
  <2>2. QED
    BY <1>1, <1>2, <2>1 DEF Awake, ReaderSafe, state, notempty
<1>4. ASSUME NEW w \in Writers
      PROVE  WriterSafe(w)'
  <2>1. /\ inFlow(w)' => inFlow(w)
        /\ pc'[w] = "wr" => pc[w] = "wr" /\ z = "rr"
    BY <1>1 DEF Proc, inFlow, Control, Roles
  <2>2. QED
    BY <1>1, <1>2, <2>1 DEF Awake, WriterSafe, state, unblocked
<1>5. QED
  BY <1>3, <1>4 DEF Awake

\* No wakeup is lost, but those that "missed" records.
LEMMA AwakeStep ==
  ASSUME Control, Control', Awake, [Next]_vars
  PROVE  Awake'
<1>1. CASE UNCHANGED vars
  BY <1>1 DEF vars, state, Awake, ReaderSafe, WriterSafe, Waking, notempty, unblocked, inFlow
<1>2. QED
  BY <1>1, ReaderAwakes, WriterAwakes, OtherAwakes, WakeupAwakes DEF Next
-----------------------------------------------------------------------------
\* Steps by what they do to the length of the queue: take from it, end it, start
\* it again, or leave it alone.
Takes(p, n, lim) == /\ iunlock_consumer(p, n, lim)
                    /\ UNCHANGED Qclosed /\ (noblock => noblock')
                    /\ \A w \in Writers : pc'[w] = pc[w]
Ends == Qclosed' /\ (len' = 0 \/ UNCHANGED <<len, Qflow>>)
Restarts == len = 0 /\ UNCHANGED len
Quiet == UNCHANGED <<len, Qflow, Qclosed, noblock>>

\* A step that leaves the queue alone does not let a writer add a block that
\* could not before, unless the queue is short.
LEMMA QuietWriter ==
  ASSUME Control, FlowSet, NEW p \in Writers, Write(p) \/ WriteSteps(p) \/ FlowIntr(p),
         ~WriteBlock(p), ~Qclosed, ~(noblock /\ Qflow), NEW c \in Nat
  PROVE  Quiet /\ (len <= 2 * MaxLimit + 1 + c \/ Tokens(c)' \subseteq Tokens(c))
<1>1. /\ p \in Proc /\ pc \in [Proc -> PCs] /\ pos \in [Writers -> 0 .. len] /\ len \in Nat
      /\ limit \in Nat /\ limit <= MaxLimit /\ MaxLimit \in Nat
  BY MaxLimitIs DEF Proc, Control, TypeOK
<1>2. Quiet
  BY DEF Quiet, state, Write, WriteSteps, FlowIntr, WriteNothing, Flow, FlowSleep,
         FlowWoken, FlowDone
<1>3. ASSUME NEW w \in Writers \ {p}
      PROVE  w \in Tokens(c)' <=> w \in Tokens(c)
  <2>1. pc'[w] = pc[w] /\ pos'[w] = pos[w]
    BY <1>1 DEF Write, WriteSteps, FlowIntr, WriteNothing, Flow, FlowSleep, FlowWoken,
                FlowDone, Goto, Proc
  <2>2. QED
    BY <2>1 DEF Tokens, inFlow
<1>4. CASE Write(p)
  <2>1. CASE Qflow /\ len \div 2 > limit
    <3>1. pc'[p] = "qflow" /\ pos'[p] = len
      BY <1>1, <1>4, <2>1 DEF Write, Goto
    <3>2. len <= 2 * MaxLimit + 1 + c \/ len > MaxLimit + c
      BY <1>1
    <3>3. len > MaxLimit + c => ~(pos'[p] <= MaxLimit + c)
      BY <1>1, <3>1
    <3>4. len > MaxLimit + c => p \notin Tokens(c)'
      BY <3>1, <3>3 DEF Tokens, inFlow
    <3>5. len > MaxLimit + c => Tokens(c)' \subseteq Tokens(c)
      BY <1>3, <3>4 DEF Tokens
    <3>6. QED
      BY <1>2, <3>2, <3>5
  <2>2. CASE ~Qflow
    BY <1>1, <1>2, <2>2 DEF FlowSet
  <2>3. CASE ~(len \div 2 > limit)
    <3>1. len <= 2 * limit + 1
      BY <1>1, <2>3
    <3>2. QED
      BY <1>1, <1>2, <3>1
  <2>4. QED
    BY <2>1, <2>2, <2>3
<1>5. CASE ~Write(p)
  <2>1. pc'[p] = "write" => pc[p] = "qflow" /\ unblocked(p)
    BY <1>1, <1>5 DEF WriteSteps, FlowIntr, WriteNothing, Flow, FlowSleep, FlowWoken,
                      FlowDone, Goto, At
  <2>2. inFlow(p)' => inFlow(p) /\ pos'[p] = pos[p]
    BY <1>1, <1>5 DEF WriteSteps, FlowIntr, WriteNothing, Flow, FlowSleep, FlowWoken,
                      FlowDone, Goto, At, inFlow
  <2>3. pos[p] \in Int /\ pos[p] <= len
    BY <1>1
  <2>4. noblock => len <= MaxLimit
    BY DEF FlowSet
  <2>5. noblock \/ pos[p] <= limit => pos[p] <= MaxLimit + c
    BY <1>1, <2>3, <2>4
  <2>6. pc'[p] = "write" => inFlow(p) /\ pos[p] <= MaxLimit + c
    BY <2>1, <2>5 DEF unblocked, inFlow
  <2>7. p \in Tokens(c)' => p \in Tokens(c)
    BY <2>2, <2>6 DEF Tokens
  <2>8. Tokens(c)' \subseteq Tokens(c)
    BY <1>3, <2>7 DEF Tokens
  <2>9. QED
    BY <1>2, <2>8
<1>6. QED
  BY <1>4, <1>5

\* So neither do the steps of readers, nor a wakeup.
LEMMA QuietOthers ==
  ASSUME Control, NEW c,
         \/ \E p \in Readers : (Read(p) \/ ReadSteps(p) \/ ReadIntr(p)) /\ ~ReadData(p)
         \/ \E p \in Proc \cup Others : Wakeup(p)
         \/ UNCHANGED vars
  PROVE  Quiet /\ Tokens(c)' \subseteq Tokens(c)
<1>1. UNCHANGED pos /\ Quiet
  BY DEF Quiet, state, vars, Read, ReadSteps, ReadIntr, ReadClosed, ReadStarved, ReadSleep,
         ReadDone, Wakeup
<1>2. \A w \in Writers : (pc'[w] = "write" => pc[w] = "write") /\ (inFlow(w)' => inFlow(w))
  <2>1. CASE \E p \in Readers : (Read(p) \/ ReadSteps(p) \/ ReadIntr(p)) /\ ~ReadData(p)
    <3>1. PICK p \in Readers : (Read(p) \/ ReadSteps(p) \/ ReadIntr(p)) /\ ~ReadData(p)
      BY <2>1
    <3>2. p \notin Writers /\ pc \in [Proc -> PCs]
      BY QioAssumption DEF Control, TypeOK
    <3>3. QED
      BY <3>1, <3>2 DEF Read, ReadSteps, ReadIntr, ReadClosed, ReadStarved, ReadSleep,
                        ReadDone, Goto, Proc, inFlow
  <2>2. CASE \E p \in Proc \cup Others : Wakeup(p)
    BY <2>2, WakeupMoves DEF Control, Roles, Proc, inFlow
  <2>3. CASE UNCHANGED vars
    BY <2>3 DEF vars, inFlow
  <2>4. QED
    BY <2>1, <2>2, <2>3
<1>3. QED
  BY <1>1, <1>2 DEF Tokens

\* Every step is one of these.
LEMMA Kinds ==
  ASSUME Control, FlowSet, [Next]_vars
  PROVE  \/ \E p \in Proc \cup Others, n \in 0 .. len, lim \in Limits : Takes(p, n, lim)
         \/ \E p \in Writers : WriteBlock(p)
         \/ \E o \in Others : Produce(o)
         \/ Ends \/ Restarts
         \/ /\ Quiet
            /\ ~Qclosed /\ ~(noblock /\ Qflow) =>
                 \A c \in Nat : len <= 2 * MaxLimit + 1 + c \/ Tokens(c)' \subseteq Tokens(c)
<1>1. limit \in Limits /\ len \in Nat
  BY DEF Control, TypeOK
<1>2. ASSUME NEW p \in Readers, ReadData(p)
      PROVE  \E n \in 0 .. len, lim \in Limits : Takes(p, n, lim)
  <2>1. PICK n \in 1 .. len : iunlock_consumer(p, n, limit)
    BY <1>2 DEF ReadData
  <2>2. \A w \in Writers : pc'[w] = pc[w]
    BY <1>2, QioAssumption DEF ReadData, Goto, Control, TypeOK, Proc
  <2>3. Takes(p, n, limit)
    BY <1>2, <2>1, <2>2 DEF ReadData, Takes
  <2>4. QED
    BY <1>1, <2>3
<1>3. ASSUME NEW p \in Writers, Write(p) \/ WriteSteps(p) \/ FlowIntr(p), ~WriteBlock(p)
      PROVE  Quiet
  BY <1>3 DEF Quiet, state, Write, WriteSteps, FlowIntr, WriteNothing, Flow, FlowSleep,
              FlowWoken, FlowDone
<1>4. ASSUME NEW o \in Others, Other(o)
      PROVE  \/ \E n \in 0 .. len, lim \in Limits : Takes(o, n, lim)
             \/ Produce(o)
             \/ Ends \/ Restarts
  <2>1. CASE Consume(o)
    <3>1. PICK n \in 0 .. len : iunlock_consumer(o, n, limit)
      BY <2>1 DEF Consume
    <3>2. Takes(o, n, limit)
      BY <1>4, <2>1, <3>1 DEF Consume, Other, Takes
    <3>3. QED
      BY <1>1, <3>2
  <2>2. CASE ConsumeNothing(o) \/ qnoblock(o)
    <3>1. Takes(o, 0, limit)
      BY <1>4, <2>2 DEF ConsumeNothing, qnoblock, Other, Takes
    <3>2. QED
      BY <1>1, <3>1
  <2>3. CASE qsetlimit(o)
    <3>1. PICK lim \in Limits : iunlock_consumer(o, 0, lim)
      BY <2>3 DEF qsetlimit
    <3>2. Takes(o, 0, lim)
      BY <1>4, <2>3, <3>1 DEF qsetlimit, Other, Takes
    <3>3. QED
      BY <1>1, <3>2
  <2>4. CASE Close(o) \/ Hangup(o)
    BY <2>4 DEF Close, Hangup, Ends
  <2>5. CASE Reopen(o)
    BY <2>5 DEF Reopen, Restarts
  <2>6. QED
    BY <1>4, <2>1, <2>2, <2>3, <2>4, <2>5 DEF Other
<1>5. ASSUME NEW p \in Writers, Write(p) \/ WriteSteps(p) \/ FlowIntr(p), ~WriteBlock(p)
      PROVE  /\ Quiet
             /\ ~Qclosed /\ ~(noblock /\ Qflow) =>
                  \A c \in Nat : len <= 2 * MaxLimit + 1 + c \/ Tokens(c)' \subseteq Tokens(c)
  BY <1>3, <1>5, QuietWriter
<1>6. ASSUME \/ \E p \in Readers : (Read(p) \/ ReadSteps(p) \/ ReadIntr(p)) /\ ~ReadData(p)
             \/ \E p \in Proc \cup Others : Wakeup(p)
             \/ UNCHANGED vars
      PROVE  Quiet /\ \A c \in Nat : Tokens(c)' \subseteq Tokens(c)
  <2>1. ASSUME NEW c \in Nat
        PROVE  Quiet /\ Tokens(c)' \subseteq Tokens(c)
    BY <1>6, QuietOthers
  <2>2. 0 \in Nat
    OBVIOUS
  <2>3. QED
    BY <2>1, <2>2
<1>7. \/ \E p \in Readers : ReadData(p)
      \/ \E p \in Writers : WriteBlock(p)
      \/ \E p \in Writers : (Write(p) \/ WriteSteps(p) \/ FlowIntr(p)) /\ ~WriteBlock(p)
      \/ \E o \in Others : Other(o)
      \/ \E p \in Readers : (Read(p) \/ ReadSteps(p) \/ ReadIntr(p)) /\ ~ReadData(p)
      \/ \E p \in Proc \cup Others : Wakeup(p)
      \/ UNCHANGED vars
  BY DEF Next
<1>8. QED
  BY <1>2, <1>4, <1>5, <1>6, <1>7 DEF Proc
-----------------------------------------------------------------------------
\* The number of a set of writers, and of a smaller one.
LEMMA Counts ==
  /\ Cardinality(Writers) \in Nat
  /\ \A T \in SUBSET Writers :
       /\ Cardinality(T) \in Nat /\ Cardinality(T) <= Cardinality(Writers)
       /\ \A S \in SUBSET T : Cardinality(S) <= Cardinality(T)
       /\ \A p \in T : \A S \in SUBSET (T \ {p}) : Cardinality(S) + 1 <= Cardinality(T)
<1>1. IsFiniteSet(Writers) /\ Cardinality(Writers) \in Nat
  BY QioAssumption, FS_CardinalityType
<1>2. ASSUME NEW T \in SUBSET Writers
      PROVE  IsFiniteSet(T) /\ Cardinality(T) \in Nat /\ Cardinality(T) <= Cardinality(Writers)
  BY <1>1, FS_Subset, FS_CardinalityType
<1>3. ASSUME NEW T \in SUBSET Writers, NEW S \in SUBSET T
      PROVE  Cardinality(S) <= Cardinality(T)
  BY <1>2, FS_Subset
<1>4. ASSUME NEW T \in SUBSET Writers, NEW p \in T, NEW S \in SUBSET (T \ {p})
      PROVE  Cardinality(S) + 1 <= Cardinality(T)
  <2>1. IsFiniteSet(T) /\ Cardinality(T) \in Nat
    BY <1>2
  <2>2. Cardinality(T \ {p}) = Cardinality(T) - 1 /\ IsFiniteSet(T \ {p})
    BY <2>1, FS_RemoveElement
  <2>3. Cardinality(S) <= Cardinality(T \ {p}) /\ Cardinality(S) \in Nat
    BY <1>3, <1>2, <2>2
  <2>4. QED
    BY <2>1, <2>2, <2>3
<1>5. QED
  BY <1>1, <1>2, <1>3, <1>4

\* There is room for every writer in a queue that is no longer than twice the limit.
LEMMA ShortHasRoom ==
  ASSUME NEW k \in Nat, NEW c \in Nat, k <= 2 * MaxLimit + 1 + c, NEW T \in SUBSET Writers
  PROVE  k + Cardinality(T) <= MaxLen + c
<1>1. /\ MaxLimit \in Nat /\ Cardinality(Writers) \in Nat /\ Cardinality(T) \in Nat
      /\ Cardinality(T) <= Cardinality(Writers)
  BY MaxLimitIs, Counts
<1>2. QED
  BY <1>1 DEF MaxLen

\* Without flow control the queue is short.
LEMMA FlowSetStep ==
  ASSUME Control, FlowSet, [Next]_vars
  PROVE  FlowSet'
<1>1. /\ len \in Nat /\ MaxLimit \in Nat /\ limit \in Nat /\ limit <= MaxLimit
      /\ \A lim \in Limits : lim \in Nat /\ lim <= MaxLimit
  BY MaxLimitIs DEF Control, TypeOK
<1>2. ASSUME NEW p \in Proc \cup Others, NEW n \in 0 .. len, NEW lim \in Limits, Takes(p, n, lim)
      PROVE  FlowSet'
  <2>1. /\ len' = len - n /\ Qflow' = (Qflow /\ len - n > lim)
    BY <1>2 DEF Takes, iunlock_consumer
  <2>2. len' <= len /\ (len - n > lim \/ len' <= MaxLimit)
    BY <1>1, <2>1
  <2>3. len <= MaxLimit => len' <= MaxLimit
    BY <1>1, <2>1
  <2>4. QED
    BY <2>1, <2>2, <2>3 DEF FlowSet
<1>3. ASSUME NEW p \in Proc \cup Others, iunlock_producer(p)
      PROVE  FlowSet'
  <2>1. /\ len' = len + 1 /\ Qflow' = (Qflow \/ len + 1 > limit)
    BY <1>3 DEF iunlock_producer
  <2>2. len + 1 > limit \/ len' <= MaxLimit
    BY <1>1, <2>1
  <2>3. QED
    BY <2>1, <2>2 DEF FlowSet
<1>4. ASSUME NEW p \in Writers, WriteBlock(p)
      PROVE  FlowSet'
  BY <1>3, <1>4 DEF WriteBlock, Proc
<1>5. ASSUME NEW o \in Others, Produce(o)
      PROVE  FlowSet'
  BY <1>3, <1>5 DEF Produce
<1>6. CASE Ends \/ Restarts
  <2>1. len' = 0 \/ UNCHANGED <<len, Qflow>>
    BY <1>6 DEF Ends, Restarts
  <2>2. len' = 0 => FlowSet'
    BY <1>1 DEF FlowSet
  <2>3. QED
    BY <2>1, <2>2 DEF FlowSet
<1>7. CASE Quiet
  BY <1>7 DEF Quiet, FlowSet
<1>8. QED
  BY <1>2, <1>4, <1>5, <1>6, <1>7, Kinds

\* Those who may add a block are no more than there is room for: whoever adds one
\* may not add another before the queue has shrunk.
LEMMA RoomStep ==
  ASSUME Control, Control', FlowSet, FlowSet', Room, [Next]_vars
  PROVE  Room'
<1> DEFINE Open == ~Qclosed /\ ~(noblock /\ Qflow)
<1>1. SUFFICES ASSUME Open', NEW c \in Nat
               PROVE  len' + Cardinality(Tokens(c)') <= MaxLen + c
  BY DEF Room, MaxLen
<1>2. /\ len \in Nat /\ len' \in Nat /\ MaxLimit \in Nat /\ MaxLen \in Nat
      /\ \A d : Tokens(d) \in SUBSET Writers /\ Tokens(d)' \in SUBSET Writers
      /\ \A lim \in Limits : lim \in Nat /\ lim <= MaxLimit
  BY MaxLimitIs, Counts DEF Control, TypeOK, Tokens, MaxLen
<1>3. len' <= 2 * MaxLimit + 1 + c => len' + Cardinality(Tokens(c)') <= MaxLen + c
  BY <1>2, ShortHasRoom
<1>4. \A d \in Nat : Open => len + Cardinality(Tokens(d)) <= MaxLen + d
  BY DEF Room
<1>5. ~Qflow => len <= MaxLimit
  BY DEF FlowSet
<1>6. ASSUME NEW p \in Proc \cup Others, NEW n \in 0 .. len, NEW lim \in Limits, Takes(p, n, lim)
      PROVE  len' + Cardinality(Tokens(c)') <= MaxLen + c
  <2>1. /\ len' = len - n /\ Qflow' = (Qflow /\ len - n > lim)
        /\ \A w \in Writers : pos'[w] = IF pos[w] < n THEN 0 ELSE pos[w] - n
    BY <1>6, Consumes DEF Takes, Control
  <2>2. CASE Open
    <3>1. \A w \in Writers : pos[w] \in Int
      BY DEF Control, TypeOK
    <3>2. ASSUME NEW w \in Writers, pos'[w] <= MaxLimit + c
          PROVE  pos[w] <= MaxLimit + (c + n)
      BY <1>2, <2>1, <3>1, <3>2
    <3>3. Tokens(c)' \subseteq Tokens(c + n)
      BY <1>6, <3>2 DEF Tokens, Takes, inFlow
    <3>4. c + n \in Nat /\ n \in Nat
      OBVIOUS
    <3>5. len + Cardinality(Tokens(c + n)) <= MaxLen + (c + n)
      BY <1>4, <2>2, <3>4
    <3>6. /\ Cardinality(Tokens(c)') <= Cardinality(Tokens(c + n))
          /\ Cardinality(Tokens(c)') \in Nat /\ Cardinality(Tokens(c + n)) \in Nat
      BY <1>2, <3>3, Counts
    <3>7. QED
      BY <1>2, <2>1, <3>4, <3>5, <3>6
  <2>3. CASE ~Open
    <3>1. ~Qflow'
      BY <1>1, <1>6, <2>3 DEF Takes
    <3>2. len' <= MaxLimit
      BY <3>1 DEF FlowSet, MaxLimit
    <3>3. QED
      BY <1>2, <1>3, <3>2
  <2>4. QED
    BY <2>2, <2>3
<1>7. ASSUME NEW p \in Writers, WriteBlock(p)
      PROVE  len' + Cardinality(Tokens(c)') <= MaxLen + c
  <2>1. /\ pc[p] = "write" /\ Open /\ len' = len + 1
        /\ pos \in [Writers -> 0 .. len] /\ pc \in [Proc -> PCs] /\ p \in Proc
    BY <1>7 DEF WriteBlock, At, iunlock_producer, Control, TypeOK, Proc
  <2>2. pc'[p] = "qflow" /\ pos'[p] = IF Qflow' THEN len + 1 ELSE 0
    BY <1>7, <2>1 DEF WriteBlock, Goto
  <2>3. CASE len' <= MaxLimit + c
    BY <1>2, <1>3, <2>3
  <2>4. CASE ~(len' <= MaxLimit + c)
    <3>1. pos'[p] = len'
      BY <1>2, <2>1, <2>2, <2>4 DEF FlowSet, MaxLimit
    <3>2. \A w \in Writers \ {p} : pc'[w] = pc[w] /\ pos'[w] = pos[w]
      BY <1>7, <2>1 DEF WriteBlock, Goto, Proc
    <3>3. Tokens(c)' \subseteq Tokens(c) \ {p} /\ p \in Tokens(c)
      BY <2>1, <2>2, <2>4, <3>1, <3>2 DEF Tokens, MaxLimit, inFlow
    <3>4. /\ Cardinality(Tokens(c)') + 1 <= Cardinality(Tokens(c))
          /\ Cardinality(Tokens(c)') \in Nat /\ Cardinality(Tokens(c)) \in Nat
      BY <1>2, <3>3, Counts
    <3>5. len + Cardinality(Tokens(c)) <= MaxLen + c
      BY <1>4, <2>1
    <3>6. QED
      BY <1>2, <2>1, <3>4, <3>5
  <2>5. QED
    BY <2>3, <2>4
<1>8. ASSUME NEW o \in Others, Produce(o)
      PROVE  len' + Cardinality(Tokens(c)') <= MaxLen + c
  <2>1. ~Qflow /\ len' = len + 1
    BY <1>8 DEF Produce, iunlock_producer
  <2>2. QED
    BY <1>2, <1>3, <1>5, <2>1
<1>9. CASE Ends
  BY <1>1, <1>9 DEF Ends
<1>10. CASE Restarts
  <2>1. len' = 0
    BY <1>10 DEF Restarts
  <2>2. QED
    BY <1>2, <1>3, <2>1
<1>11. ASSUME Quiet,
              ~Qclosed /\ ~(noblock /\ Qflow) =>
                \A d \in Nat : len <= 2 * MaxLimit + 1 + d \/ Tokens(d)' \subseteq Tokens(d)
       PROVE  len' + Cardinality(Tokens(c)') <= MaxLen + c
  <2>1. Open /\ len' = len
    BY <1>1, <1>11 DEF Quiet
  <2>2. CASE len <= 2 * MaxLimit + 1 + c
    BY <1>3, <2>1, <2>2
  <2>3. CASE Tokens(c)' \subseteq Tokens(c)
    <3>1. /\ Cardinality(Tokens(c)') <= Cardinality(Tokens(c))
          /\ Cardinality(Tokens(c)') \in Nat /\ Cardinality(Tokens(c)) \in Nat
      BY <1>2, <2>3, Counts
    <3>2. len + Cardinality(Tokens(c)) <= MaxLen + c
      BY <1>4, <2>1
    <3>3. QED
      BY <1>2, <2>1, <3>1, <3>2
  <2>4. QED
    BY <1>11, <2>1, <2>2, <2>3
<1>12. QED
  BY <1>6, <1>7, <1>8, <1>9, <1>10, <1>11, Kinds

\* So the queue is bounded.
LEMMA BoundedStep ==
  ASSUME Control, Control', FlowSet, Room, Bounded, [Next]_vars
  PROVE  Bounded'
<1>1. /\ len \in Nat /\ len' \in Nat /\ MaxLimit \in Nat /\ MaxLen \in Nat
      /\ Cardinality(Writers) \in Nat /\ MaxLen = 2 * MaxLimit + 1 + Cardinality(Writers)
      /\ Tokens(0) \in SUBSET Writers
  BY MaxLimitIs, Counts DEF Control, TypeOK, Tokens, MaxLen
<1>2. (Bounded <=> len <= MaxLen) /\ (Bounded' <=> len' <= MaxLen)
  BY DEF Bounded, MaxLen
<1>3. ASSUME NEW p \in Proc \cup Others, NEW n \in 0 .. len, NEW lim \in Limits, Takes(p, n, lim)
      PROVE  len' <= len
  BY <1>1, <1>3 DEF Takes, iunlock_consumer
<1>4. ASSUME NEW p \in Writers, WriteBlock(p)
      PROVE  len' <= MaxLen
  <2>1. len' = len + 1 /\ p \in Tokens(0) /\ ~Qclosed /\ ~(noblock /\ Qflow)
    BY <1>4 DEF WriteBlock, At, iunlock_producer, Tokens
  <2>2. Cardinality({}) + 1 <= Cardinality(Tokens(0)) /\ Cardinality({}) \in Nat
    BY <1>1, <2>1, Counts
  <2>3. len + Cardinality(Tokens(0)) <= MaxLen + 0
    BY <2>1 DEF Room
  <2>4. Cardinality(Tokens(0)) \in Nat
    BY <1>1, Counts
  <2>5. QED
    BY <1>1, <2>1, <2>2, <2>3, <2>4
<1>5. ASSUME NEW o \in Others, Produce(o)
      PROVE  len' <= MaxLen
  <2>1. len' = len + 1 /\ len <= MaxLimit
    BY <1>5 DEF Produce, iunlock_producer, FlowSet
  <2>2. QED
    BY <1>1, <2>1
<1>6. CASE Ends \/ Restarts \/ Quiet
  <2>1. len' = 0 \/ len' = len
    BY <1>6 DEF Ends, Restarts, Quiet
  <2>2. QED
    BY <1>1, <1>2, <2>1
<1>7. QED
  BY <1>1, <1>2, <1>3, <1>4, <1>5, <1>6, Kinds
-----------------------------------------------------------------------------
\* The invariant holds at the start.
LEMMA InitInv == Init => Inv
<1>1. SUFFICES ASSUME Init
               PROVE  Inv
  OBVIOUS
<1>2. /\ len = 0 /\ limit = inilim /\ rlock = <<>> /\ wlock = <<>> /\ bloated = {} /\ missed = {}
      /\ pc = [p \in Proc |-> "idle"] /\ pos = [w \in Writers |-> 0]
      /\ wake = [p \in Proc \cup Others |-> <<>>]
      /\ Qflow = FALSE /\ Qstarve = TRUE /\ Qclosed = FALSE /\ noblock = FALSE
  BY <1>1 DEF Init
<1>3. TypeOK
  <2>1. pc \in [Proc -> PCs]
    BY <1>2 DEF PCs
  <2>2. wake \in [Proc \cup Others -> {<<>>, <<"rr">>, <<"wr">>, <<"rr", "wr">>}]
    BY <1>2
  <2>3. len \in Nat /\ pos \in [Writers -> 0 .. len]
    BY <1>2
  <2>4. rlock \in Seq(Readers) /\ wlock \in Seq(Writers)
    BY <1>2
  <2>5. QED
    BY <1>2, <2>1, <2>2, <2>3, <2>4, QioAssumption DEF TypeOK
<1>4. Roles /\ Bloats
  BY <1>2 DEF Roles, Bloats, Proc
<1>5. ReadLock /\ WriteLock
  BY <1>2 DEF ReadLock, WriteLock, Proc, IsInjective, ToSet
<1>6. Awake
  BY <1>2 DEF Awake, ReaderSafe, WriterSafe, inFlow, Proc
<1>7. MaxLimit \in Nat /\ Cardinality(Writers) \in Nat
  BY MaxLimitIs, Counts
<1>8. FlowSet /\ Bounded
  BY <1>2, <1>7 DEF FlowSet, Bounded
<1>9. Room
  <2>1. ASSUME NEW c \in Nat
        PROVE  len + Cardinality(Tokens(c)) <= MaxLen + c
    <3>1. Tokens(c) \in SUBSET Writers /\ len \in Nat /\ len <= 2 * MaxLimit + 1 + c
      BY <1>2, <1>7 DEF Tokens
    <3>2. QED
      BY <3>1, ShortHasRoom
  <2>2. QED
    BY <2>1 DEF Room
<1>10. QED
  BY <1>3, <1>4, <1>5, <1>6, <1>8, <1>9 DEF Inv, Control

\* The invariant holds.
LEMMA Safety == Spec => []Inv
<1>1. Inv /\ [Next]_vars => Inv'
  <2>1. SUFFICES ASSUME Inv, [Next]_vars
                 PROVE  Inv'
    OBVIOUS
  <2>2. Control'
    BY <2>1, ControlStep DEF Inv
  <2>3. FlowSet'
    BY <2>1, FlowSetStep DEF Inv
  <2>4. QED
    BY <2>1, <2>2, <2>3, AwakeStep, RoomStep, BoundedStep DEF Inv
<1>2. QED
  BY InitInv, <1>1, PTL DEF Spec

\* The variables keep their types, and nobody sleeps beside another: who sleeps in
\* qwait() or qflow() is the first of rlock or wlock, so that
\* sleep() never finds a "double sleep".
THEOREM StaysConsistent == Spec => []Consistent
<1>1. Inv => Consistent
  <2>1. SUFFICES ASSUME Inv
                 PROVE  Consistent
    OBVIOUS
  <2>2. ASSUME NEW p \in Proc, pc[p] = "rr"
        PROVE  Head(rlock) = p
    BY <2>1, <2>2 DEF Inv, Control, Roles, ReadLock, Proc
  <2>3. ASSUME NEW p \in Proc, pc[p] = "wr"
        PROVE  Head(wlock) = p
    BY <2>1, <2>3 DEF Inv, Control, Roles, WriteLock, Proc
  <2>4. QED
    BY <2>1, <2>2, <2>3 DEF Inv, Control, Consistent, NoDoubleSleep
<1>2. QED
  BY Safety, <1>1, PTL

\* A reader that sleeps has nothing to read and the next producer will wake it, or
\* its wakeup is under way, or it was missed in the window that sleep() leaves.
THEOREM ReadersAwake == Spec => []ReaderAwake
<1>1. Inv => ReaderAwake
  BY DEF Inv, Awake, ReaderSafe, ReaderAwake, Control, Roles, Proc
<1>2. QED
  BY Safety, <1>1, PTL

\* A writer that sleeps is over the limit and the next consumer will wake it, or
\* its wakeup is under way, or the limit fell meanwhile.
THEOREM WritersAwake == Spec => []WriterAwake
<1>1. Inv => WriterAwake
  BY DEF Inv, Awake, WriterSafe, WriterAwake
<1>2. QED
  BY Safety, <1>1, PTL

\* However many notes interrupt qflow(), the queue grows to no more than about
\* twice its largest limit and one block for each writer.
THEOREM StaysBounded == Spec => []Bounded
BY Safety, PTL DEF Inv
=============================================================================
