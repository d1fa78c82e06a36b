--------------------------- MODULE SemaphoreProofs ---------------------------
(*****************************************************************************)
(* The semaphores of Semaphore lose no wakeup and are counting semaphores,   *)
(* for any number of processes, semaphores and units.                        *)
(*****************************************************************************)
EXTENDS Semaphore, FiniteSetTheorems, TLAPS

Walks == {"scan", "kick"}
Waking == {"lock"} \cup Walks

\* The lock of the list belongs to the one process that walks it.
Held == \A p \in Proc : slock = p <=> pc[p] \in Walks

\* semwakeup() has one that waits for its semaphore in its hands.
Walker == \A p \in Proc :
            /\ pc[p] = "lock" => pos[p] = 1
            /\ pc[p] \in Walks => pos[p] >= 1
            /\ pc[p] = "kick" => /\ pos[p] \in DOMAIN list
                                 /\ left[p] > 0
                                 /\ addr[Target(p)] = addr[p]

\* What a call is for, and what is decided.
Calling == \A p \in Proc :
             /\ pc[p] = "idle" => addr[p] = Nil /\ kind[p] = Nil /\ result[p] = Nil
             /\ pc[p] # "idle" => addr[p] \in Addrs /\ kind[p] # Nil
             /\ pc[p] \in {"first", "queue", "check"} \cup Linked => kind[p] # "release"
             /\ pc[p] \in {"queue"} \cup Linked => kind[p] # "noblock"
             /\ pc[p] \in {"first", "queue"} \cup (Linked \ {"dequeue"}) => result[p] = Nil
             /\ pc[p] \in {"dequeue", "check"} => result[p] # Nil
             /\ pc[p] \in Waking \cup {"ret"} => (kind[p] = "release" <=> result[p] = Nil)

\* The list is the set of the calls that are linked.
Listed == IsInjective(list) /\ ToSet(list) = {p \in Proc : pc[p] \in Linked}

Control == TypeOK /\ Held /\ Walker /\ Calling /\ Listed

\* How many more wakeups for q, which sleeps or is about to, come from k: k walks
\* the list and has not got to q yet; or k was sent one, which it will pass on
\* if it does not need it; and a last look at the value is as good as one.
Passed(k, q) == \E i \in DOMAIN list : /\ list[i] = q
                                       /\ i < pos[k] \/ (i = pos[k] /\ pc[k] = "kick")

Weight(k, q) ==
  IF addr[k] # addr[q] THEN 0
  ELSE CASE pc[k] \in Waking -> IF Passed(k, q) THEN 0
                                ELSE IF pc[k] = "kick" THEN left[k] - 1 ELSE left[k]
         [] pc[k] = "try"    -> IF waiting[k] THEN 1 ELSE 2
         [] pc[k] \in (Linked \ {"try"}) \cup {"check"} -> IF waiting[k] THEN 0 ELSE 1
         [] OTHER            -> 0

Weights(q) == [k \in Proc |-> Weight(k, q)]
Units(w) == {x \in Proc \X (1 .. MaxDelta + 1) : x[2] <= w[x[1]]}

\* Who waits asleep, or is about to.
Sleeps(q) == pc[q] \in {"sleep", "asleep"} /\ waiting[q]

\* There is no unit for which no wakeup is under way.
Enough == \A q \in Proc : Sleeps(q) => value[addr[q]] <= Cardinality(Units(Weights(q)))

\* The inductive invariant.
Inv == Control /\ ToldIsWoken /\ Enough
-----------------------------------------------------------------------------
\* What joining a queue at its tail does to the set of its members.
LEMMA AppendMembers ==
  ASSUME NEW S, NEW s \in Seq(S), NEW e \in S
  PROVE  /\ Append(s, e) \in Seq(S)
         /\ ToSet(Append(s, e)) = ToSet(s) \cup {e}
         /\ IsInjective(s) /\ e \notin ToSet(s) => IsInjective(Append(s, e))
<1>1. /\ Len(Append(s, e)) = Len(s) + 1 /\ Append(s, e)[Len(s) + 1] = e
      /\ \A i \in 1 .. Len(s) : Append(s, e)[i] = s[i]
  OBVIOUS
<1>2. ToSet(Append(s, e)) = ToSet(s) \cup {e}
  BY <1>1 DEF ToSet
<1>3. QED
  BY <1>1, <1>2 DEF IsInjective, ToSet

\* What leaving a queue, from anywhere, does to the set of its members.
LEMMA RemoveAtMembers ==
  ASSUME NEW S, NEW s \in Seq(S), NEW i \in DOMAIN s, IsInjective(s)
  PROVE  /\ RemoveAt(s, i) \in Seq(S)
         /\ ToSet(RemoveAt(s, i)) = ToSet(s) \ {s[i]}
         /\ IsInjective(RemoveAt(s, i))
<1> DEFINE t == RemoveAt(s, i)
           old(j) == IF j < i THEN j ELSE j + 1
           new(k) == IF k < i THEN k ELSE k - 1
<1>1. /\ t \in Seq(S) /\ DOMAIN t = 1 .. Len(s) - 1
      /\ \A j \in DOMAIN t : t[j] = s[old(j)] /\ old(j) \in DOMAIN s \ {i}
  <2> DEFINE a == SubSeq(s, 1, i - 1)
             b == SubSeq(s, i + 1, Len(s))
  <2>1. /\ a \in Seq(S) /\ Len(a) = i - 1 /\ \A j \in 1 .. i - 1 : a[j] = s[j]
        /\ b \in Seq(S) /\ Len(b) = Len(s) - i /\ \A j \in 1 .. Len(s) - i : b[j] = s[j + i]
    OBVIOUS
  <2>2. t = a \o b
    BY DEF RemoveAt
  <2> HIDE DEF a, b, t
  <2>3. /\ t \in Seq(S) /\ DOMAIN t = 1 .. Len(s) - 1
        /\ \A j \in 1 .. Len(s) - 1 : t[j] = IF j < i THEN a[j] ELSE b[j - (i - 1)]
    BY <2>1, <2>2
  <2>4. \A j \in 1 .. Len(s) - 1 : j >= i => b[j - (i - 1)] = s[j + 1]
    BY <2>1
  <2>5. ASSUME NEW j \in 1 .. Len(s) - 1
        PROVE  t[j] = s[old(j)] /\ old(j) \in DOMAIN s \ {i}
    <3>1. i \in 1 .. Len(s) /\ Len(s) \in Nat
      OBVIOUS
    <3>2. t[j] = s[old(j)]
      BY <2>1, <2>3, <2>4, <3>1
    <3>3. QED
      BY <3>1, <3>2
  <2>6. QED
    BY <2>3, <2>5
<1>2. \A k \in DOMAIN s \ {i} : new(k) \in DOMAIN t /\ old(new(k)) = k
  BY <1>1
<1>3. \A j \in DOMAIN t, k \in DOMAIN t : old(j) = old(k) => j = k
  BY <1>1
<1> HIDE DEF t, old, new
<1>4. IsInjective(t)
  BY <1>1, <1>3 DEF IsInjective
<1>5. ToSet(t) = ToSet(s) \ {s[i]}
  BY <1>1, <1>2 DEF ToSet, IsInjective
<1>6. QED
  BY <1>1, <1>4, <1>5 DEF t
-----------------------------------------------------------------------------
\* Weights are added up by counting units.
Weighing == [Proc -> 0 .. MaxDelta + 1]

\* The units of a list of weights are finitely many.
LEMMA UnitsFinite ==
  ASSUME NEW w
  PROVE  IsFiniteSet(Units(w)) /\ Cardinality(Units(w)) \in Nat
<1>1. IsFiniteSet(Proc) /\ IsFiniteSet(1 .. MaxDelta + 1)
  BY SemaphoreAssumption, FS_Interval
<1>2. IsFiniteSet(Proc \X (1 .. MaxDelta + 1))
  BY <1>1, FS_Product
<1>3. Units(w) \in SUBSET (Proc \X (1 .. MaxDelta + 1))
  BY DEF Units
<1>4. QED
  BY <1>2, <1>3, FS_Subset, FS_CardinalityType

\* Weights that grow.
LEMMA UnitsGrow ==
  ASSUME NEW w \in Weighing, NEW v \in Weighing, \A k \in Proc : w[k] <= v[k]
  PROVE  Cardinality(Units(w)) <= Cardinality(Units(v))
<1>1. \A x \in Units(w) : x[1] \in Proc /\ x[2] \in 1 .. MaxDelta + 1 /\ x[2] <= v[x[1]]
  BY SemaphoreAssumption DEF Units, Weighing
<1>2. Units(w) \in SUBSET Units(v)
  BY <1>1 DEF Units
<1>3. QED
  BY <1>2, UnitsFinite, FS_Subset

\* One weight that falls by one.
LEMMA UnitsLess ==
  ASSUME NEW w \in Weighing, NEW v \in Weighing, NEW p \in Proc, w[p] <= v[p] + 1,
         \A k \in Proc \ {p} : w[k] <= v[k]
  PROVE  Cardinality(Units(w)) <= Cardinality(Units(v)) + 1
<1> DEFINE e == <<p, v[p] + 1>>
<1>1. \A x \in Units(w) : x = e \/ x \in Units(v)
  <2>1. ASSUME NEW k \in Proc, NEW i \in 1 .. MaxDelta + 1, i <= w[k]
        PROVE  <<k, i>> = e \/ i <= v[k]
    BY <2>1, SemaphoreAssumption DEF Weighing
  <2>2. QED
    BY <2>1 DEF Units
<1>2. Units(w) \in SUBSET (Units(v) \cup {e})
  BY <1>1
<1>3. /\ IsFiniteSet(Units(v) \cup {e})
      /\ Cardinality(Units(v) \cup {e}) \in {Cardinality(Units(v)), Cardinality(Units(v)) + 1}
  BY UnitsFinite, FS_AddElement
<1>4. Cardinality(Units(w)) <= Cardinality(Units(v) \cup {e})
  BY <1>2, <1>3, FS_Subset
<1> HIDE DEF e
<1>5. QED
  BY <1>3, <1>4, UnitsFinite

\* One weight that grows from nothing.
LEMMA UnitsMore ==
  ASSUME NEW w \in Weighing, NEW v \in Weighing, NEW p \in Proc, w[p] = 0,
         \A k \in Proc \ {p} : w[k] <= v[k]
  PROVE  Cardinality(Units(w)) + v[p] <= Cardinality(Units(v))
<1> DEFINE new == {p} \X (1 .. v[p])
<1>1. v[p] \in Nat /\ v[p] <= MaxDelta + 1 /\ MaxDelta \in Nat
  BY SemaphoreAssumption DEF Weighing
<1>2. IsFiniteSet(new) /\ Cardinality(new) = v[p]
  <2>1. IsFiniteSet({p}) /\ Cardinality({p}) = 1
    BY FS_Singleton
  <2>2. \A b \in Int : /\ IsFiniteSet(1 .. b)
                       /\ Cardinality(1 .. b) = IF 1 > b THEN 0 ELSE b - 1 + 1
    <3>1. 1 \in Int
      OBVIOUS
    <3>2. QED
      BY <3>1, FS_Interval, Zenon
  <2>3. IsFiniteSet(1 .. v[p]) /\ Cardinality(1 .. v[p]) = v[p]
    BY <1>1, <2>2
  <2>4. IsFiniteSet(new) /\ Cardinality(new) = Cardinality({p}) * Cardinality(1 .. v[p])
    BY <2>1, <2>3, FS_Product
  <2> HIDE DEF new
  <2>5. QED
    BY <1>1, <2>1, <2>3, <2>4
<1>3. Units(w) \cup new \in SUBSET Units(v)
  <2>1. ASSUME NEW x \in Units(w)
        PROVE  x \in Units(v)
    BY <1>1, SemaphoreAssumption DEF Units, Weighing
  <2>2. ASSUME NEW x \in new
        PROVE  x \in Units(v)
    BY <1>1 DEF Units
  <2>3. QED
    BY <2>1, <2>2
<1>4. Units(w) \cap new = {}
  BY <1>1 DEF Units
<1> HIDE DEF new
<1>5. Cardinality(Units(w) \cup new) = Cardinality(Units(w)) + v[p]
  <2>1. Cardinality(Units(w) \cup new) =
          Cardinality(Units(w)) + Cardinality(new) - Cardinality(Units(w) \cap new)
    BY <1>2, UnitsFinite, FS_Union
  <2>2. Cardinality(Units(w) \cap new) = 0
    BY <1>4, FS_EmptySet
  <2>3. QED
    BY <1>1, <1>2, <2>1, <2>2, UnitsFinite
<1>6. Cardinality(Units(w) \cup new) <= Cardinality(Units(v))
  BY <1>3, UnitsFinite, FS_Subset
<1>7. QED
  BY <1>5, <1>6

\* One unit that goes from p to t.
LEMMA UnitsMove ==
  ASSUME NEW w \in Weighing, NEW v \in Weighing, NEW p \in Proc, NEW t \in Proc, p # t,
         w[p] <= v[p] + 1, w[t] + 1 <= v[t], \A k \in Proc \ {p, t} : w[k] <= v[k]
  PROVE  Cardinality(Units(w)) <= Cardinality(Units(v))
<1> DEFINE u == [w EXCEPT ![t] = @ + 1]
<1>1. u \in Weighing /\ u[p] = w[p] /\ u[t] = w[t] + 1 /\ \A k \in Proc \ {p, t} : u[k] = w[k]
  BY SemaphoreAssumption DEF Weighing
<1> HIDE DEF u
<1>2. Cardinality(Units(u)) <= Cardinality(Units(v)) + 1
  BY <1>1, UnitsLess
<1>3. Cardinality(Units(w)) + 1 <= Cardinality(Units(u))
  <2> DEFINE e == <<t, w[t] + 1>>
  <2>1. e \in Units(u) /\ e \notin Units(w)
    BY <1>1, SemaphoreAssumption DEF Units, Weighing
  <2>2. \A x \in Units(w) : x \in Units(u)
    BY <1>1, SemaphoreAssumption DEF Units, Weighing
  <2> HIDE DEF e
  <2>3. Units(w) \in SUBSET (Units(u) \ {e})
    BY <2>1, <2>2
  <2>4. IsFiniteSet(Units(u) \ {e}) /\ Cardinality(Units(u) \ {e}) = Cardinality(Units(u)) - 1
    BY <2>1, UnitsFinite, FS_RemoveElement
  <2>5. Cardinality(Units(w)) <= Cardinality(Units(u) \ {e})
    BY <2>3, <2>4, FS_Subset
  <2>6. QED
    BY <2>4, <2>5, UnitsFinite
<1>4. QED
  BY <1>2, <1>3, UnitsFinite
-----------------------------------------------------------------------------
\* The phore that semwakeup() is at is linked.
LEMMA TargetLinked ==
  ASSUME TypeOK, Listed, NEW i \in DOMAIN list
  PROVE  list[i] \in Proc /\ pc[list[i]] \in Linked
<1>1. list[i] \in ToSet(list)
  BY DEF ToSet
<1>2. QED
  BY <1>1 DEF Listed

\* Who is where, and what each call knows.
LEMMA ControlStep ==
  ASSUME Control, [Next]_vars
  PROVE  Control'
<1> USE SemaphoreAssumption
<1>1. ASSUME NEW p \in Proc, NEW a \in Addrs, NEW k \in Kinds, Call(p, a, k)
      PROVE  Control'
  <2>1. Listed'
    BY <1>1 DEF Call, At, Goto, Control, TypeOK, Listed, Linked
  <2>2. \A q \in Proc : pc[q] = "kick" => Target(q) # p
    BY <1>1, TargetLinked DEF Control, Walker, Call, At, Linked, Target
  <2>3. TypeOK'
    BY <1>1 DEF Call, At, Goto, Control, TypeOK, PCs, Linked, scanVars
  <2>4. Held'
    BY <1>1 DEF Call, At, Goto, Control, TypeOK, Held, Walks
  <2>5. Walker'
    BY <1>1, <2>2 DEF Call, At, Goto, Control, TypeOK, Walker, Walks, Target, scanVars
  <2>6. Calling'
    BY <1>1 DEF Call, At, Goto, Control, TypeOK, Calling, Waking, Walks, Linked, AllKinds
  <2>7. QED
    BY <2>1, <2>3, <2>4, <2>5, <2>6 DEF Control
<1>2. ASSUME NEW p \in Proc, FirstTake(p)
      PROVE  Control'
  <2>1. TypeOK'
    <3>1. addr[p] \in Addrs /\ value[addr[p]] - 1 \in 0 .. MaxValue
      BY <1>2 DEF FirstTake, At, Canacquire, Control, TypeOK, Calling
    <3>2. QED
      BY <1>2, <3>1 DEF FirstTake, At, Goto, Decide, Canacquire, Control, TypeOK, PCs, Linked,
                        Results, scanVars
  <2>2. Held'
    BY <1>2 DEF FirstTake, At, Goto, Decide, Control, TypeOK, Held, Walks
  <2>3. Walker'
    BY <1>2, TargetLinked DEF FirstTake, At, Goto, Decide, Control, TypeOK, Held, Walker,
                              Linked, Walks, Target, scanVars
  <2>4. Calling'
    BY <1>2, TargetLinked DEF FirstTake, At, Goto, Decide, Control, TypeOK, Walker, Target,
                              Calling, Linked, Waking, Walks, AllKinds, Results
  <2>5. Listed'
    BY <1>2, TargetLinked DEF FirstTake, At, Goto, Decide, Control, TypeOK, Walker, Target,
                              Listed, Linked
  <2>6. QED
    BY <2>1, <2>2, <2>3, <2>4, <2>5 DEF Control
<1>3. ASSUME NEW p \in Proc, FirstFail(p)
      PROVE  Control'
  <2>1. TypeOK'
    <3>1. CASE kind[p] = "noblock"
      BY <1>3, <3>1 DEF FirstFail, At, Goto, Decide, Control, TypeOK, PCs, Results, scanVars
    <3>2. CASE ~(kind[p] = "noblock")
      BY <1>3, <3>2 DEF FirstFail, At, Goto, Decide, Control, TypeOK, PCs, Linked, scanVars
    <3>3. QED
      BY <3>1, <3>2
  <2>2. Held'
    <3>1. PICK to \in {"ret", "queue"} : pc' = [pc EXCEPT ![p] = to]
      BY <1>3 DEF FirstFail, Goto
    <3>2. QED
      BY <1>3, <3>1 DEF FirstFail, At, Control, TypeOK, Held, Walks
  <2>3. Walker'
    BY <1>3, TargetLinked DEF FirstFail, At, Goto, Decide, Control, TypeOK, Held, Walker,
                              Linked, Walks, Target, scanVars
  <2>4. Calling'
    BY <1>3, TargetLinked DEF FirstFail, At, Goto, Decide, Control, TypeOK, Walker, Target,
                              Calling, Linked, Waking, Walks, AllKinds, Results
  <2>5. Listed'
    BY <1>3, TargetLinked DEF FirstFail, At, Goto, Decide, Control, TypeOK, Walker, Target,
                              Listed, Linked
  <2>6. QED
    BY <2>1, <2>2, <2>3, <2>4, <2>5 DEF Control
<1>4. ASSUME NEW p \in Proc, SetWaiting(p)
      PROVE  Control'
  <2>1. TypeOK'
    BY <1>4 DEF SetWaiting, At, Goto, Control, TypeOK, PCs, Linked, AllKinds, Results, scanVars,
                callVars
  <2>2. Held'
    BY <1>4 DEF SetWaiting, At, Goto, Control, TypeOK, Held, Walks
  <2>3. Walker'
    BY <1>4, TargetLinked DEF SetWaiting, At, Goto, Control, TypeOK, Held, Walker, Linked,
                              Walks, Target, scanVars, callVars
  <2>4. Calling'
    BY <1>4, TargetLinked DEF SetWaiting, At, Goto, Control, TypeOK, Walker, Target, Calling,
                              Linked, Waking, Walks, AllKinds, Results, callVars
  <2>5. Listed'
    BY <1>4, TargetLinked DEF SetWaiting, At, Goto, Control, TypeOK, Walker, Target, Listed,
                              Linked
  <2>6. QED
    BY <2>1, <2>2, <2>3, <2>4, <2>5 DEF Control
<1>5. ASSUME NEW p \in Proc, TryTake(p)
      PROVE  Control'
  <2>1. TypeOK'
    <3>1. addr[p] \in Addrs /\ value[addr[p]] - 1 \in 0 .. MaxValue
      BY <1>5 DEF TryTake, At, Canacquire, Control, TypeOK, Calling
    <3>2. QED
      BY <1>5, <3>1 DEF TryTake, At, Goto, Decide, Canacquire, Control, TypeOK, PCs, Linked,
                        Results, scanVars
  <2>2. Held'
    BY <1>5 DEF TryTake, At, Goto, Decide, Control, TypeOK, Held, Walks
  <2>3. Walker'
    BY <1>5, TargetLinked DEF TryTake, At, Goto, Decide, Control, TypeOK, Held, Walker, Linked,
                              Walks, Target, scanVars
  <2>4. Calling'
    BY <1>5, TargetLinked DEF TryTake, At, Goto, Decide, Control, TypeOK, Walker, Target,
                              Calling, Linked, Waking, Walks, AllKinds, Results
  <2>5. Listed'
    BY <1>5, TargetLinked DEF TryTake, At, Goto, Decide, Control, TypeOK, Walker, Target,
                              Listed, Linked
  <2>6. QED
    BY <2>1, <2>2, <2>3, <2>4, <2>5 DEF Control
<1>6. ASSUME NEW p \in Proc, TryFail(p)
      PROVE  Control'
  <2>1. TypeOK'
    BY <1>6 DEF TryFail, At, Goto, Control, TypeOK, PCs, Linked, AllKinds, Results, scanVars,
                callVars
  <2>2. Held'
    BY <1>6 DEF TryFail, At, Goto, Control, TypeOK, Held, Walks
  <2>3. Walker'
    BY <1>6, TargetLinked DEF TryFail, At, Goto, Control, TypeOK, Held, Walker, Linked, Walks,
                              Target, scanVars, callVars
  <2>4. Calling'
    BY <1>6, TargetLinked DEF TryFail, At, Goto, Control, TypeOK, Walker, Target, Calling,
                              Linked, Waking, Walks, AllKinds, Results, callVars
  <2>5. Listed'
    BY <1>6, TargetLinked DEF TryFail, At, Goto, Control, TypeOK, Walker, Target, Listed, Linked
  <2>6. QED
    BY <2>1, <2>2, <2>3, <2>4, <2>5 DEF Control
<1>7. ASSUME NEW p \in Proc, Sleep(p)
      PROVE  Control'
  <2>1. TypeOK'
    BY <1>7 DEF Sleep, At, Goto, Control, TypeOK, PCs, Linked, AllKinds, Results, scanVars,
                callVars
  <2>2. Held'
    BY <1>7 DEF Sleep, At, Goto, Control, TypeOK, Held, Walks
  <2>3. Walker'
    BY <1>7, TargetLinked DEF Sleep, At, Goto, Control, TypeOK, Held, Walker, Linked, Walks,
                              Target, scanVars, callVars
  <2>4. Calling'
    BY <1>7, TargetLinked DEF Sleep, At, Goto, Control, TypeOK, Walker, Target, Calling, Linked,
                              Waking, Walks, AllKinds, Results, callVars
  <2>5. Listed'
    BY <1>7, TargetLinked DEF Sleep, At, Goto, Control, TypeOK, Walker, Target, Listed, Linked
  <2>6. QED
    BY <2>1, <2>2, <2>3, <2>4, <2>5 DEF Control
<1>8. ASSUME NEW p \in Proc, Timer(p)
      PROVE  Control'
  <2>1. TypeOK'
    BY <1>8 DEF Timer, At, Goto, Control, TypeOK, PCs, Linked, AllKinds, Results, scanVars,
                callVars
  <2>2. Held'
    BY <1>8 DEF Timer, At, Goto, Control, TypeOK, Held, Walks
  <2>3. Walker'
    BY <1>8, TargetLinked DEF Timer, At, Goto, Control, TypeOK, Held, Walker, Linked, Walks,
                              Target, scanVars, callVars
  <2>4. Calling'
    BY <1>8, TargetLinked DEF Timer, At, Goto, Control, TypeOK, Walker, Target, Calling, Linked,
                              Waking, Walks, AllKinds, Results, callVars
  <2>5. Listed'
    BY <1>8, TargetLinked DEF Timer, At, Goto, Control, TypeOK, Walker, Target, Listed, Linked
  <2>6. QED
    BY <2>1, <2>2, <2>3, <2>4, <2>5 DEF Control
<1>9. ASSUME NEW p \in Proc, Interrupt(p)
      PROVE  Control'
  <2>1. TypeOK'
    BY <1>9 DEF Interrupt, At, Goto, Control, TypeOK, PCs, Linked, AllKinds, Results, scanVars,
                callVars
  <2>2. Held'
    BY <1>9 DEF Interrupt, At, Goto, Control, TypeOK, Held, Walks
  <2>3. Walker'
    BY <1>9, TargetLinked DEF Interrupt, At, Goto, Control, TypeOK, Held, Walker, Linked, Walks,
                              Target, scanVars, callVars
  <2>4. Calling'
    BY <1>9, TargetLinked DEF Interrupt, At, Goto, Control, TypeOK, Walker, Target, Calling,
                              Linked, Waking, Walks, AllKinds, Results, callVars
  <2>5. Listed'
    BY <1>9, TargetLinked DEF Interrupt, At, Goto, Control, TypeOK, Walker, Target, Listed,
                              Linked
  <2>6. QED
    BY <2>1, <2>2, <2>3, <2>4, <2>5 DEF Control
<1>10. ASSUME NEW p \in Proc, Again(p)
      PROVE  Control'
  <2>1. TypeOK'
    BY <1>10 DEF Again, At, Goto, Control, TypeOK, PCs, Linked, AllKinds, Results, scanVars,
                 callVars
  <2>2. Held'
    BY <1>10 DEF Again, At, Goto, Control, TypeOK, Held, Walks
  <2>3. Walker'
    BY <1>10, TargetLinked DEF Again, At, Goto, Control, TypeOK, Held, Walker, Linked, Walks,
                               Target, scanVars, callVars
  <2>4. Calling'
    BY <1>10, TargetLinked DEF Again, At, Goto, Control, TypeOK, Walker, Target, Calling,
                               Linked, Waking, Walks, AllKinds, Results, callVars
  <2>5. Listed'
    BY <1>10, TargetLinked DEF Again, At, Goto, Control, TypeOK, Walker, Target, Listed, Linked
  <2>6. QED
    BY <2>1, <2>2, <2>3, <2>4, <2>5 DEF Control
<1>11. ASSUME NEW p \in Proc, TimedOut(p)
      PROVE  Control'
  <2>1. TypeOK'
    BY <1>11 DEF TimedOut, At, Goto, Decide, Control, TypeOK, PCs, Linked, AllKinds, Results,
                 scanVars
  <2>2. Held'
    BY <1>11 DEF TimedOut, At, Goto, Decide, Control, TypeOK, Held, Walks
  <2>3. Walker'
    BY <1>11, TargetLinked DEF TimedOut, At, Goto, Decide, Control, TypeOK, Held, Walker,
                               Linked, Walks, Target, scanVars
  <2>4. Calling'
    BY <1>11, TargetLinked DEF TimedOut, At, Goto, Decide, Control, TypeOK, Walker, Target,
                               Calling, Linked, Waking, Walks, AllKinds, Results
  <2>5. Listed'
    BY <1>11, TargetLinked DEF TimedOut, At, Goto, Decide, Control, TypeOK, Walker, Target,
                               Listed, Linked
  <2>6. QED
    BY <2>1, <2>2, <2>3, <2>4, <2>5 DEF Control
<1>12. ASSUME NEW p \in Proc, Interrupted(p)
      PROVE  Control'
  <2>1. TypeOK'
    BY <1>12 DEF Interrupted, At, Goto, Decide, Control, TypeOK, PCs, Linked, AllKinds, Results,
                 scanVars
  <2>2. Held'
    BY <1>12 DEF Interrupted, At, Goto, Decide, Control, TypeOK, Held, Walks
  <2>3. Walker'
    BY <1>12, TargetLinked DEF Interrupted, At, Goto, Decide, Control, TypeOK, Held, Walker,
                               Linked, Walks, Target, scanVars
  <2>4. Calling'
    BY <1>12, TargetLinked DEF Interrupted, At, Goto, Decide, Control, TypeOK, Walker, Target,
                               Calling, Linked, Waking, Walks, AllKinds, Results
  <2>5. Listed'
    BY <1>12, TargetLinked DEF Interrupted, At, Goto, Decide, Control, TypeOK, Walker, Target,
                               Listed, Linked
  <2>6. QED
    BY <2>1, <2>2, <2>3, <2>4, <2>5 DEF Control
<1>13. ASSUME NEW p \in Proc, Check(p)
      PROVE  Control'
  <2>1. TypeOK'
    <3>1. CASE waiting[p]
      BY <1>13, <3>1 DEF Check, At, Goto, Wakeups, Control, TypeOK, PCs, Results, scanVars,
                         callVars
    <3>2. CASE ~(waiting[p])
      <4>1. 1 \in 0 .. MaxDelta /\ 1 \in Nat
        BY SemaphoreAssumption
      <4>2. QED
        BY <1>13, <3>2, <4>1 DEF Check, At, Goto, Wakeups, Control, TypeOK, PCs, callVars
    <3>3. QED
      BY <3>1, <3>2
  <2>2. Held'
    <3>1. PICK to \in {"ret", "lock"} : pc' = [pc EXCEPT ![p] = to]
      BY <1>13 DEF Check, Goto
    <3>2. QED
      BY <1>13, <3>1 DEF Check, At, Control, TypeOK, Held, Walks
  <2>3. Walker'
    BY <1>13, TargetLinked DEF Check, At, Goto, Wakeups, Control, TypeOK, Held, Walker, Linked,
                               Walks, Target, scanVars, callVars
  <2>4. Calling'
    BY <1>13, TargetLinked DEF Check, At, Goto, Wakeups, Control, TypeOK, Walker, Target,
                               Calling, Linked, Waking, Walks, AllKinds, Results, callVars
  <2>5. Listed'
    BY <1>13, TargetLinked DEF Check, At, Goto, Wakeups, Control, TypeOK, Walker, Target,
                               Listed, Linked
  <2>6. QED
    BY <2>1, <2>2, <2>3, <2>4, <2>5 DEF Control
<1>14. ASSUME NEW p \in Proc, Return(p)
      PROVE  Control'
  <2>1. TypeOK'
    BY <1>14 DEF Return, At, Goto, Decide, Control, TypeOK, PCs, Linked, AllKinds, Results,
                 scanVars
  <2>2. Held'
    BY <1>14 DEF Return, At, Goto, Decide, Control, TypeOK, Held, Walks
  <2>3. Walker'
    BY <1>14, TargetLinked DEF Return, At, Goto, Decide, Control, TypeOK, Held, Walker, Linked,
                               Walks, Target, scanVars
  <2>4. Calling'
    BY <1>14, TargetLinked DEF Return, At, Goto, Decide, Control, TypeOK, Walker, Target,
                               Calling, Linked, Waking, Walks, AllKinds, Results
  <2>5. Listed'
    BY <1>14, TargetLinked DEF Return, At, Goto, Decide, Control, TypeOK, Walker, Target,
                               Listed, Linked
  <2>6. QED
    BY <2>1, <2>2, <2>3, <2>4, <2>5 DEF Control
<1>15. ASSUME NEW p \in Proc, SemwakeupLock(p)
      PROVE  Control'
  <2>1. TypeOK'
    BY <1>15 DEF SemwakeupLock, At, Goto, Control, TypeOK, PCs, Linked, AllKinds, Results,
                 scanVars, callVars
  <2>2. Held'
    BY <1>15 DEF SemwakeupLock, At, Goto, Control, TypeOK, Held, Walks
  <2>3. Walker'
    BY <1>15, TargetLinked DEF SemwakeupLock, At, Goto, Control, TypeOK, Held, Walker, Linked,
                               Walks, Target, scanVars, callVars
  <2>4. Calling'
    BY <1>15, TargetLinked DEF SemwakeupLock, At, Goto, Control, TypeOK, Walker, Target,
                               Calling, Linked, Waking, Walks, AllKinds, Results, callVars
  <2>5. Listed'
    BY <1>15, TargetLinked DEF SemwakeupLock, At, Goto, Control, TypeOK, Walker, Target, Listed,
                               Linked
  <2>6. QED
    BY <2>1, <2>2, <2>3, <2>4, <2>5 DEF Control
<1>16. ASSUME NEW p \in Proc, SemwakeupClear(p)
      PROVE  Control'
  <2>1. TypeOK'
    BY <1>16 DEF SemwakeupClear, At, Goto, Control, TypeOK, PCs, Linked, AllKinds, Results,
                 scanVars, callVars
  <2>2. Held'
    BY <1>16 DEF SemwakeupClear, At, Goto, Control, TypeOK, Held, Walks
  <2>3. Walker'
    BY <1>16, TargetLinked DEF SemwakeupClear, At, Goto, Control, TypeOK, Held, Walker, Linked,
                               Walks, Target, InList, Match, scanVars, callVars
  <2>4. Calling'
    BY <1>16, TargetLinked DEF SemwakeupClear, At, Goto, Control, TypeOK, Walker, Target,
                               Calling, Linked, Waking, Walks, AllKinds, Results, callVars
  <2>5. Listed'
    BY <1>16, TargetLinked DEF SemwakeupClear, At, Goto, Control, TypeOK, Walker, Target,
                               Listed, Linked
  <2>6. QED
    BY <2>1, <2>2, <2>3, <2>4, <2>5 DEF Control
<1>17. ASSUME NEW p \in Proc, SemwakeupSkip(p)
      PROVE  Control'
  <2>1. TypeOK'
    BY <1>17 DEF SemwakeupSkip, At, Control, TypeOK, PCs, Linked, AllKinds, Results, callVars
  <2>2. Held'
    BY <1>17 DEF SemwakeupSkip, At, Control, TypeOK, Held, Walks
  <2>3. Walker'
    BY <1>17, TargetLinked DEF SemwakeupSkip, At, Control, TypeOK, Held, Walker, Linked, Walks,
                               Target, InList, Match, callVars
  <2>4. Calling'
    BY <1>17, TargetLinked DEF SemwakeupSkip, At, Control, TypeOK, Walker, Target, Calling,
                               Linked, Waking, Walks, AllKinds, Results, callVars
  <2>5. Listed'
    BY <1>17, TargetLinked DEF SemwakeupSkip, At, Control, TypeOK, Walker, Target, Listed,
                               Linked
  <2>6. QED
    BY <2>1, <2>2, <2>3, <2>4, <2>5 DEF Control
<1>18. ASSUME NEW p \in Proc, SemwakeupKick(p)
      PROVE  Control'
  <2>1. TypeOK'
    <3>1. Target(p) \in Proc /\ left[p] - 1 \in 0 .. MaxDelta /\ pos[p] + 1 \in Nat
      BY <1>18, TargetLinked DEF SemwakeupKick, At, Control, TypeOK, Walker, Target
    <3>2. QED
      BY <1>18, <3>1 DEF SemwakeupKick, At, Control, TypeOK, PCs, Linked, callVars
  <2>2. Held'
    BY <1>18 DEF SemwakeupKick, At, Control, TypeOK, Held, Walks
  <2>3. Walker'
    BY <1>18, TargetLinked DEF SemwakeupKick, At, Control, TypeOK, Held, Walker, Linked, Walks,
                               Target, callVars
  <2>4. Calling'
    BY <1>18, TargetLinked DEF SemwakeupKick, At, Control, TypeOK, Walker, Target, Calling,
                               Linked, Waking, Walks, AllKinds, Results, callVars
  <2>5. Listed'
    BY <1>18, TargetLinked DEF SemwakeupKick, At, Control, TypeOK, Walker, Target, Listed,
                               Linked
  <2>6. QED
    BY <2>1, <2>2, <2>3, <2>4, <2>5 DEF Control
<1>19. ASSUME NEW p \in Proc, SemwakeupDone(p)
      PROVE  Control'
  <2>1. TypeOK'
    BY <1>19 DEF SemwakeupDone, At, Goto, Control, TypeOK, PCs, Linked, AllKinds, Results,
                 callVars
  <2>2. Held'
    BY <1>19 DEF SemwakeupDone, At, Goto, Control, TypeOK, Held, Walks
  <2>3. Walker'
    BY <1>19, TargetLinked DEF SemwakeupDone, At, Goto, Control, TypeOK, Held, Walker, Linked,
                               Walks, Target, InList, callVars
  <2>4. Calling'
    BY <1>19, TargetLinked DEF SemwakeupDone, At, Goto, Control, TypeOK, Walker, Target,
                               Calling, Linked, Waking, Walks, AllKinds, Results, callVars
  <2>5. Listed'
    BY <1>19, TargetLinked DEF SemwakeupDone, At, Goto, Control, TypeOK, Walker, Target, Listed,
                               Linked
  <2>6. QED
    BY <2>1, <2>2, <2>3, <2>4, <2>5 DEF Control
<1>20. ASSUME NEW p \in Proc, NEW a \in Addrs, NEW n \in 1 .. MaxDelta, Release(p, a, n)
       PROVE  Control'
  <2>1. TypeOK'
    BY <1>20 DEF Release, At, Goto, Wakeups, Control, TypeOK, PCs, AllKinds
  <2>2. Held'
    BY <1>20 DEF Release, At, Goto, Control, TypeOK, Held, Walks
  <2>3. Walker'
    BY <1>20, TargetLinked DEF Release, At, Goto, Wakeups, Control, TypeOK, Walker, Linked,
                               Walks, Target
  <2>4. Calling'
    BY <1>20 DEF Release, At, Goto, Wakeups, Control, TypeOK, Calling, Linked, Waking, Walks,
                 AllKinds
  <2>5. Listed'
    BY <1>20 DEF Release, At, Goto, Control, TypeOK, Listed, Linked
  <2>6. QED
    BY <2>1, <2>2, <2>3, <2>4, <2>5 DEF Control
<1>21. ASSUME NEW p \in Proc, Semqueue(p)
       PROVE  Control'
  <2>1. /\ list' \in Seq(Proc) /\ ToSet(list') = ToSet(list) \cup {p}
        /\ p \notin ToSet(list) => IsInjective(list')
    <3>1. list \in Seq(Proc) /\ IsInjective(list) /\ list' = Append(list, p)
      BY <1>21 DEF Semqueue, Control, TypeOK, Listed
    <3>2. QED
      BY <3>1, AppendMembers
  <2>2. TypeOK'
    BY <1>21, <2>1 DEF Semqueue, At, Goto, Control, TypeOK, PCs, Linked, callVars, scanVars
  <2>3. Held'
    BY <1>21 DEF Semqueue, At, Goto, Control, TypeOK, Held, Walks
  <2>4. Walker'
    BY <1>21 DEF Semqueue, At, Goto, Control, TypeOK, Held, Walker, Walks, callVars, scanVars
  <2>5. Calling'
    BY <1>21 DEF Semqueue, At, Goto, Control, TypeOK, Calling, Linked, Waking, Walks, callVars
  <2>6. Listed'
    BY <1>21, <2>1 DEF Semqueue, At, Goto, Control, TypeOK, Listed, Linked
  <2>7. QED
    BY <2>2, <2>3, <2>4, <2>5, <2>6 DEF Control
<1>22. ASSUME NEW p \in Proc, Semdequeue(p)
       PROVE  Control'
  <2>1. /\ list' \in Seq(Proc) /\ ToSet(list') = ToSet(list) \ {p} /\ IsInjective(list')
    BY <1>22, RemoveAtMembers DEF Semdequeue, Control, TypeOK, Listed
  <2>2. TypeOK'
    BY <1>22, <2>1 DEF Semdequeue, At, Goto, Control, TypeOK, PCs, callVars, scanVars
  <2>3. Held'
    BY <1>22 DEF Semdequeue, At, Goto, Control, TypeOK, Held, Walks
  <2>4. Walker'
    BY <1>22 DEF Semdequeue, At, Goto, Control, TypeOK, Held, Walker, Walks, callVars, scanVars
  <2>5. Calling'
    BY <1>22 DEF Semdequeue, At, Goto, Control, TypeOK, Calling, Linked, Waking, Walks, callVars
  <2>6. Listed'
    BY <1>22, <2>1 DEF Semdequeue, At, Goto, Control, TypeOK, Listed, Linked
  <2>7. QED
    BY <2>2, <2>3, <2>4, <2>5, <2>6 DEF Control
<1>23. CASE UNCHANGED vars
  BY <1>23 DEF vars, callVars, scanVars, Control, TypeOK, Held, Walker, Calling, Listed, Target
<1>24. QED
  BY <1>1, <1>2, <1>3, <1>4, <1>5, <1>6, <1>7, <1>8, <1>9, <1>10, <1>11, <1>12, <1>13,
     <1>14, <1>15, <1>16, <1>17, <1>18, <1>19, <1>20, <1>21, <1>22, <1>23
     DEF Next, Steps, Spin
-----------------------------------------------------------------------------
(* What the steps do to the wakeups under way. *)

\* A step of p changes what p knows of itself only.
Same(k) == /\ pc'[k] = pc[k] /\ waiting'[k] = waiting[k] /\ addr'[k] = addr[k]
           /\ left'[k] = left[k] /\ pos'[k] = pos[k]
Own(p) == \A k \in Proc \ {p} : Same(k)

\* Whoever changes the list does so while nobody walks it.
ListSafe == list' = list \/ slock = Nil

\* All steps but the two of semwakeup() that touch another's phore.
LEMMA OwnSteps ==
  ASSUME TypeOK, NEW p \in Proc,
         \/ \E a \in Addrs : \/ \E k \in Kinds : Call(p, a, k)
                             \/ \E n \in 1 .. MaxDelta : Release(p, a, n)
         \/ FirstTake(p) \/ FirstFail(p) \/ SetWaiting(p) \/ TryTake(p) \/ TryFail(p)
         \/ Sleep(p) \/ Timer(p) \/ Interrupt(p) \/ Again(p) \/ TimedOut(p) \/ Interrupted(p)
         \/ Check(p) \/ Return(p) \/ SemwakeupLock(p) \/ SemwakeupSkip(p) \/ SemwakeupDone(p)
         \/ Semqueue(p) \/ Semdequeue(p)
  PROVE  Own(p) /\ ListSafe
<1>1. CASE \E a \in Addrs : \/ \E k \in Kinds : Call(p, a, k)
                            \/ \E n \in 1 .. MaxDelta : Release(p, a, n)
  BY <1>1 DEF Call, Release, Goto, Wakeups, Own, Same, ListSafe, TypeOK, scanVars
<1>2. CASE FirstTake(p) \/ FirstFail(p) \/ SetWaiting(p) \/ TryTake(p) \/ TryFail(p)
  BY <1>2 DEF FirstTake, FirstFail, SetWaiting, TryTake, TryFail, Goto, Own, Same, ListSafe,
              TypeOK, scanVars, callVars
<1>3. CASE Sleep(p) \/ Timer(p) \/ Interrupt(p) \/ Again(p) \/ TimedOut(p) \/ Interrupted(p)
  BY <1>3 DEF Sleep, Timer, Interrupt, Again, TimedOut, Interrupted, Goto, Own, Same,
              ListSafe, TypeOK, scanVars, callVars
<1>4. CASE Check(p) \/ Return(p) \/ SemwakeupLock(p) \/ SemwakeupSkip(p) \/ SemwakeupDone(p)
  BY <1>4 DEF Check, Return, SemwakeupLock, SemwakeupSkip, SemwakeupDone, Goto, Wakeups,
              Own, Same, ListSafe, TypeOK, scanVars, callVars
<1>5. CASE Semqueue(p) \/ Semdequeue(p)
  BY <1>5 DEF Semqueue, Semdequeue, Goto, Own, Same, ListSafe, TypeOK, scanVars, callVars
<1>6. QED
  BY <1>1, <1>2, <1>3, <1>4, <1>5

\* A step of p after which it does not sleep with its wakeup sent.
LEMMA ToldOwn ==
  ASSUME Control, ToldIsWoken, NEW p \in Proc, Own(p), ListSafe,
         pc[p] # "kick", pc'[p] = "asleep" => waiting'[p]
  PROVE  ToldIsWoken'
<1> SUFFICES ASSUME NEW x \in Proc, pc'[x] = "asleep", ~waiting'[x]
             PROVE  \E k \in Proc : pc'[k] = "kick" /\ Target(k)' = x
  BY DEF ToldIsWoken
<1>1. x # p /\ pc[x] = "asleep" /\ ~waiting[x]
  BY DEF Own, Same
<1>2. PICK k \in Proc : pc[k] = "kick" /\ Target(k) = x
  BY <1>1 DEF ToldIsWoken
<1>3. k # p /\ slock = k
  BY <1>2 DEF Control, Held, Walks
<1>4. list' = list /\ pos'[k] = pos[k] /\ pc'[k] = "kick"
  BY <1>2, <1>3, SemaphoreAssumption DEF ListSafe, Own, Same
<1>5. QED
  BY <1>2, <1>4 DEF Target

\* A sleeper that has been told is about to be woken.
LEMMA ToldStep ==
  ASSUME Control, ToldIsWoken, [Next]_vars
  PROVE  ToldIsWoken'
<1>1. ASSUME NEW p \in Proc,
             \/ \E a \in Addrs : \/ \E k \in Kinds : Call(p, a, k)
                                 \/ \E n \in 1 .. MaxDelta : Release(p, a, n)
             \/ FirstTake(p) \/ FirstFail(p) \/ SetWaiting(p) \/ TryTake(p) \/ TryFail(p)
      PROVE  ToldIsWoken'
  <2>1. pc[p] # "kick" /\ pc'[p] # "asleep"
    BY <1>1 DEF Call, Release, FirstTake, FirstFail, SetWaiting, TryTake, TryFail, At, Goto,
                Control, TypeOK
  <2>2. QED
    BY <1>1, <2>1, OwnSteps, ToldOwn DEF Control
<1>2. ASSUME NEW p \in Proc,
             \/ Sleep(p) \/ Timer(p) \/ Interrupt(p) \/ Again(p) \/ TimedOut(p) \/ Interrupted(p)
      PROVE  ToldIsWoken'
  <2>1. pc[p] # "kick" /\ (pc'[p] = "asleep" => waiting'[p])
    BY <1>2 DEF Sleep, Timer, Interrupt, Again, TimedOut, Interrupted, At, Goto, Control, TypeOK
  <2>2. QED
    BY <1>2, <2>1, OwnSteps, ToldOwn DEF Control
<1>3. ASSUME NEW p \in Proc,
             \/ Check(p) \/ Return(p) \/ SemwakeupLock(p) \/ SemwakeupSkip(p) \/ SemwakeupDone(p)
             \/ Semqueue(p) \/ Semdequeue(p)
      PROVE  ToldIsWoken'
  <2>1. pc[p] # "kick" /\ pc'[p] # "asleep"
    BY <1>3 DEF Check, Return, SemwakeupLock, SemwakeupSkip, SemwakeupDone, Semqueue,
                Semdequeue, At, Goto, Control, TypeOK
  <2>2. QED
    BY <1>3, <2>1, OwnSteps, ToldOwn DEF Control
<1>4. ASSUME NEW p \in Proc, SemwakeupClear(p)
      PROVE  ToldIsWoken'
  BY <1>4 DEF SemwakeupClear, At, Goto, Control, TypeOK, Held, Walks, ToldIsWoken, Target,
              scanVars
<1>5. ASSUME NEW p \in Proc, SemwakeupKick(p)
      PROVE  ToldIsWoken'
  <2>1. \A k \in Proc : pc[k] = "kick" => k = p
    BY <1>5 DEF SemwakeupKick, At, Control, Held, Walks
  <2>2. \A x \in Proc : pc'[x] = "asleep" => pc[x] = "asleep" /\ x # Target(p)
    BY <1>5 DEF SemwakeupKick, At, Control, TypeOK
  <2>3. \A x \in Proc : pc'[x] = "asleep" => waiting[x]
    BY <2>1, <2>2 DEF ToldIsWoken
  <2>4. QED
    BY <1>5, <2>3 DEF SemwakeupKick, ToldIsWoken
<1>6. CASE UNCHANGED vars
  BY <1>6 DEF vars, scanVars, ToldIsWoken, Target
<1>7. QED
  BY <1>1, <1>2, <1>3, <1>4, <1>5, <1>6 DEF Next, Steps, Spin

\* Weights are small numbers.
WeightsSmall == \A q \in Proc : Weights(q) \in Weighing

\* A wakeup cannot bring more than a release and one passed on.
LEMMA WeightType == Control => WeightsSmall
<1> SUFFICES ASSUME Control, NEW q \in Proc
             PROVE  Weights(q) \in Weighing
  BY DEF WeightsSmall
<1>1. MaxDelta \in Nat /\ MaxDelta >= 1
  BY SemaphoreAssumption
<1>2. ASSUME NEW k \in Proc
      PROVE  Weight(k, q) \in 0 .. MaxDelta + 1
  <2>1. left[k] \in 0 .. MaxDelta /\ (pc[k] = "kick" => left[k] > 0)
    BY DEF Control, TypeOK, Walker
  <2>2. QED
    BY <1>1, <2>1 DEF Weight
<1>3. QED
  BY <1>2 DEF Weights, Weighing

\* So they are after a step.
LEMMA WeightTypeNext == Control' => WeightsSmall'
BY WeightType, PTL

\* Another process brings as many wakeups as before.
LEMMA OthersWeigh ==
  ASSUME Control, Control', ListSafe, NEW k \in Proc, Same(k), NEW q \in Proc, addr'[q] = addr[q]
  PROVE  Weight(k, q)' = Weight(k, q)
<1>1. /\ pc'[k] = pc[k] /\ waiting'[k] = waiting[k] /\ addr'[k] = addr[k]
      /\ left'[k] = left[k] /\ pos'[k] = pos[k]
  BY DEF Same
<1>2. pc[k] \in Waking => (Passed(k, q)' <=> Passed(k, q))
  <2>1. CASE list' = list
    BY <1>1, <2>1 DEF Passed
  <2>2. CASE slock = Nil /\ pc[k] \in Waking
    <3>1. pc[k] = "lock" /\ pos[k] = 1
      BY <2>2, SemaphoreAssumption DEF Control, Held, Walker, Waking
    <3>2. ~Passed(k, q) /\ ~Passed(k, q)'
      BY <1>1, <3>1 DEF Passed, Control, TypeOK
    <3>3. QED
      BY <3>2
  <2>3. QED
    BY <2>1, <2>2 DEF ListSafe
<1>3. QED
  BY <1>1, <1>2 DEF Weight

\* No weight falls, and no unit is added.
LEMMA EnoughKept ==
  ASSUME Control, Control', Enough, NEW q \in Proc, Sleeps(q), addr'[q] = addr[q],
         value'[addr[q]] <= value[addr[q]], \A k \in Proc : Weight(k, q) <= Weight(k, q)'
  PROVE  value'[addr'[q]] <= Cardinality(Units(Weights(q)))'
<1> DEFINE w == Weights(q)
           v == Weights(q)'
<1>1. w \in Weighing /\ v \in Weighing
  BY WeightType, WeightTypeNext DEF WeightsSmall
<1>2. \A k \in Proc : w[k] <= v[k]
  BY DEF Weights
<1>3. value[addr[q]] <= Cardinality(Units(w))
  BY DEF Enough
<1>4. addr[q] \in Addrs /\ value[addr[q]] \in Nat /\ value'[addr[q]] \in Nat
  BY SemaphoreAssumption DEF Control, Calling, TypeOK, Sleeps
<1> HIDE DEF w, v
<1>5. Cardinality(Units(w)) <= Cardinality(Units(v))
  BY <1>1, <1>2, UnitsGrow
<1>6. value'[addr'[q]] <= Cardinality(Units(v))
  BY <1>3, <1>4, <1>5, UnitsFinite
<1>7. QED
  BY <1>6 DEF v, Units

\* A step of p that takes no wakeup from a sleeper that may need it.
LEMMA EnoughOwn ==
  ASSUME Control, Control', Enough, NEW p \in Proc, Own(p), ListSafe,
         \A a \in Addrs : value'[a] <= value[a],
         \A q \in Proc \ {p} : Sleeps(q) => \/ Weight(p, q) <= Weight(p, q)'
                                            \/ value'[addr[q]] = 0,
         Sleeps(p)' => \/ value'[addr'[p]] = 0
                       \/ Sleeps(p) /\ addr'[p] = addr[p] /\ Weight(p, p) <= Weight(p, p)'
  PROVE  Enough'
<1> SUFFICES ASSUME NEW q \in Proc, Sleeps(q)'
             PROVE  value'[addr'[q]] <= Cardinality(Units(Weights(q)))'
  BY DEF Enough
<1>1. CASE value'[addr'[q]] = 0
  <2> DEFINE v == Weights(q)'
  <2>1. Cardinality(Units(v)) \in Nat
    BY UnitsFinite
  <2>2. 0 <= Cardinality(Units(v))
    BY <2>1
  <2>3. QED
    BY <1>1, <2>2 DEF Units
<1>2. CASE value'[addr'[q]] # 0
  <2>1. Sleeps(q) /\ addr'[q] = addr[q] /\ Weight(p, q) <= Weight(p, q)'
    <3>1. CASE q = p
      BY <1>2, <3>1
    <3>2. CASE q # p
      BY <1>2, <3>2 DEF Own, Same, Sleeps
    <3>3. QED
      BY <3>1, <3>2
  <2>2. ASSUME NEW k \in Proc
        PROVE  Weight(k, q) <= Weight(k, q)'
    <3>1. CASE k = p
      BY <2>1, <3>1
    <3>2. CASE k # p
      <4>1. Weight(k, q)' = Weight(k, q)
        BY <2>1, <3>2, OthersWeigh DEF Own
      <4>2. Weight(k, q) \in Nat
        BY WeightType DEF WeightsSmall, Weights, Weighing
      <4>3. QED
        BY <4>1, <4>2
    <3>3. QED
      BY <3>1, <3>2
  <2>3. addr[q] \in Addrs
    BY <2>1 DEF Control, Calling, Sleeps
  <2>4. QED
    BY <2>1, <2>2, <2>3, EnoughKept
<1>3. QED
  BY <1>1, <1>2
-----------------------------------------------------------------------------
(* The steps, one after the other. *)

\* Coming, going, the first look at the value, sleeping and waking up.
LEMMA EnoughQuiet ==
  ASSUME Control, Control', Enough, NEW p \in Proc,
         \/ \E a \in Addrs, k \in Kinds : Call(p, a, k)
         \/ FirstTake(p) \/ FirstFail(p) \/ SetWaiting(p) \/ TryFail(p)
         \/ Sleep(p) \/ Timer(p) \/ Interrupt(p) \/ Again(p) \/ TimedOut(p) \/ Interrupted(p)
         \/ Semqueue(p) \/ Semdequeue(p) \/ Return(p)
  PROVE  Enough'
<1>1. Own(p) /\ ListSafe
  BY OwnSteps DEF Control
<1>2. \A a \in Addrs : value'[a] <= value[a]
  <2>1. value \in [Addrs -> Nat]
    BY SemaphoreAssumption DEF Control, TypeOK
  <2>2. UNCHANGED value \/ \E a \in {addr[p]} : value' = [value EXCEPT ![a] = @ - 1]
    BY DEF Call, FirstTake, FirstFail, SetWaiting, TryFail, Canacquire, Sleep, Timer, Interrupt,
           Again, TimedOut, Interrupted, Semqueue, Semdequeue, Return
  <2>3. QED
    BY <2>1, <2>2
<1>3. ASSUME NEW q \in Proc, Sleeps(q), ~TryFail(p) \/ addr[q] # addr[p]
      PROVE  Weight(p, q) <= Weight(p, q)'
  <2>1. Weight(p, q) \in Nat /\ Weight(p, q)' \in Nat
    BY SemaphoreAssumption, WeightType, WeightTypeNext DEF WeightsSmall, Weights, Weighing
  <2>2. CASE pc[p] \in {"idle", "first", "queue", "ret"} \/ addr[p] # addr[q]
    <3>1. Weight(p, q) = 0
      BY <2>2 DEF Weight, Waking, Walks, Linked
    <3>2. QED
      BY <2>1, <3>1
  <2>3. CASE ~(pc[p] \in {"idle", "first", "queue", "ret"} \/ addr[p] # addr[q])
    <3>1. addr'[p] = addr[p] /\ addr'[q] = addr[q]
      BY <2>3 DEF Call, FirstTake, FirstFail, SetWaiting, TryFail, Sleep, Timer, Interrupt,
             Again, TimedOut, Interrupted, Semqueue, Semdequeue, Return, At, callVars
    <3>2. \/ pc[p] = "loop" /\ pc'[p] = "try" /\ waiting'[p]
          \/ pc[p] = "try" /\ pc'[p] = "try" /\ waiting'[p] = waiting[p]
          \/ /\ pc[p] \in Linked \ {"try"}
             /\ pc'[p] \in (Linked \ {"try"}) \cup {"check"}
             /\ waiting'[p] = waiting[p]
      BY <1>3, <2>3 DEF Call, FirstTake, FirstFail, SetWaiting, TryFail, Sleep, Timer,
                        Interrupt, Again, TimedOut, Interrupted, Semqueue, Semdequeue,
                        Return, At, Goto, Control, TypeOK, Linked
    <3>3. QED
      BY <2>3, <3>1, <3>2 DEF Weight, Waking, Walks, Linked
  <2>4. QED
    BY <2>2, <2>3
<1>4. Sleeps(p)' => \/ value'[addr'[p]] = 0
                    \/ Sleeps(p) /\ addr'[p] = addr[p]
  BY DEF Call, FirstTake, FirstFail, SetWaiting, TryFail, Canacquire, Sleep, Timer,
         Interrupt, Again, TimedOut, Interrupted, Semqueue, Semdequeue, Return, Control,
         TypeOK, At, Goto, Sleeps, callVars
<1>6. TryFail(p) => value'[addr[p]] = 0 /\ addr'[p] = addr[p]
  BY DEF TryFail, callVars
<1>7. QED
  BY <1>1, <1>2, <1>3, <1>4, <1>6, EnoughOwn

\* A last look at the value that finds a unit: one wakeup less, one unit less.
LEMMA EnoughTake ==
  ASSUME Control, Control', Enough, NEW p \in Proc, TryTake(p)
  PROVE  Enough'
<1> SUFFICES ASSUME NEW q \in Proc, Sleeps(q)'
             PROVE  value'[addr'[q]] <= Cardinality(Units(Weights(q)))'
  BY DEF Enough
<1> DEFINE w == Weights(q)
           v == Weights(q)'
<1>1. Own(p) /\ ListSafe
  BY OwnSteps DEF Control
<1>2. /\ q # p /\ Sleeps(q) /\ addr'[q] = addr[q] /\ addr'[p] = addr[p]
      /\ addr[q] \in Addrs /\ addr[p] \in Addrs
      /\ value \in [Addrs -> Nat] /\ value[addr[p]] > 0
      /\ value' = [value EXCEPT ![addr[p]] = @ - 1]
  BY <1>1, SemaphoreAssumption
     DEF TryTake, Canacquire, Goto, At, Sleeps, Own, Same, Control, TypeOK, Calling
<1>3. w \in Weighing /\ v \in Weighing
  BY WeightType, WeightTypeNext DEF WeightsSmall
<1>4. \A k \in Proc \ {p} : w[k] <= v[k]
  <2>1. \A k \in Proc \ {p} : v[k] = w[k]
    BY <1>1, <1>2, OthersWeigh DEF Own, Weights
  <2>2. QED
    BY <1>3, <2>1, SemaphoreAssumption DEF Weighing
<1>5. w[p] = Weight(p, q) /\ v[p] = Weight(p, q)'
  BY DEF Weights
<1>6. addr[p] = addr[q] => w[p] = v[p] + 1
  BY <1>2, <1>5 DEF TryTake, At, Goto, Weight, Waking, Walks, Linked, Control, TypeOK
<1>7. addr[p] # addr[q] => w[p] = 0 /\ v[p] = 0
  BY <1>2, <1>5 DEF Weight
<1>8. value[addr[q]] <= Cardinality(Units(w))
  BY <1>2 DEF Enough
<1> HIDE DEF w, v
<1>9. CASE addr[p] = addr[q]
  <2>1. Cardinality(Units(w)) <= Cardinality(Units(v)) + 1
    BY <1>3, <1>4, <1>6, <1>9, UnitsLess, SemaphoreAssumption DEF Weighing
  <2>2. value'[addr'[q]] <= Cardinality(Units(v))
    BY <1>2, <1>8, <1>9, <2>1, UnitsFinite
  <2>3. QED
    BY <2>2 DEF v, Units
<1>10. CASE addr[p] # addr[q]
  <2>1. Cardinality(Units(w)) <= Cardinality(Units(v))
    BY <1>3, <1>4, <1>7, <1>10, UnitsGrow
  <2>2. value'[addr'[q]] <= Cardinality(Units(v))
    BY <1>2, <1>8, <1>10, <2>1, UnitsFinite
  <2>3. QED
    BY <2>2 DEF v, Units
<1>11. QED
  BY <1>9, <1>10

\* A release: as many wakeups as units.
LEMMA EnoughRelease ==
  ASSUME Control, Control', Enough, NEW p \in Proc, NEW a \in Addrs, NEW n \in 1 .. MaxDelta,
         Release(p, a, n)
  PROVE  Enough'
<1> SUFFICES ASSUME NEW q \in Proc, Sleeps(q)'
             PROVE  value'[addr'[q]] <= Cardinality(Units(Weights(q)))'
  BY DEF Enough
<1> DEFINE w == Weights(q)
           v == Weights(q)'
<1>1. Own(p) /\ ListSafe
  BY OwnSteps DEF Control
<1>2. /\ q # p /\ Sleeps(q) /\ addr'[q] = addr[q] /\ addr[q] \in Addrs
      /\ value \in [Addrs -> Nat] /\ n \in Nat
      /\ value' = [value EXCEPT ![a] = @ + n]
  BY <1>1, SemaphoreAssumption DEF Release, Goto, At, Sleeps, Own, Same, Control, TypeOK,
                                   Calling
<1>3. w \in Weighing /\ v \in Weighing
  BY WeightType, WeightTypeNext DEF WeightsSmall
<1>4. \A k \in Proc \ {p} : w[k] <= v[k]
  <2>1. \A k \in Proc \ {p} : v[k] = w[k]
    BY <1>1, <1>2, OthersWeigh DEF Own, Weights
  <2>2. QED
    BY <1>3, <2>1, SemaphoreAssumption DEF Weighing
<1>5. w[p] = Weight(p, q) /\ v[p] = Weight(p, q)'
  BY DEF Weights
<1>6. w[p] = 0
  BY <1>5 DEF Release, At, Weight, Waking, Walks, Linked
<1>7. addr[q] = a => v[p] = n
  <2>1. pc'[p] = "lock" /\ pos'[p] = 1 /\ left'[p] = n /\ addr'[p] = a
    BY DEF Release, Goto, Wakeups, Control, TypeOK
  <2>2. list \in Seq(Proc) /\ list' = list
    BY DEF Release, Control, TypeOK
  <2>3. ~Passed(p, q)'
    BY <2>1, <2>2 DEF Passed
  <2>4. QED
    BY <1>2, <1>5, <2>1, <2>3 DEF Weight, Waking, Walks, Linked
<1>8. value[addr[q]] <= Cardinality(Units(w))
  BY <1>2 DEF Enough
<1> HIDE DEF w, v
<1>9. Cardinality(Units(w)) + v[p] <= Cardinality(Units(v))
  BY <1>3, <1>4, <1>6, UnitsMore
<1>10. v[p] \in Nat
  BY <1>3, SemaphoreAssumption DEF Weighing
<1>11. value'[addr'[q]] <= Cardinality(Units(v))
  BY <1>2, <1>7, <1>8, <1>9, <1>10, UnitsFinite
<1>12. QED
  BY <1>11 DEF v, Units

\* The steps of semwakeup() around the wakeups, and the call that passes one on.
LEMMA EnoughWalk ==
  ASSUME Control, Control', Enough, NEW p \in Proc,
         Check(p) \/ SemwakeupLock(p) \/ SemwakeupSkip(p) \/ SemwakeupDone(p)
  PROVE  Enough'
<1>1. Own(p) /\ ListSafe
  BY OwnSteps DEF Control
<1>2. UNCHANGED <<value, addr, waiting, list>>
  BY DEF Check, SemwakeupLock, SemwakeupSkip, SemwakeupDone, callVars
<1>3. \A a \in Addrs : value'[a] <= value[a]
  BY <1>2, SemaphoreAssumption DEF Control, TypeOK
<1>4. ~Sleeps(p)'
  BY DEF Check, SemwakeupLock, SemwakeupSkip, SemwakeupDone, At, Goto, Control, TypeOK, Sleeps
<1>5. ASSUME NEW q \in Proc, Sleeps(q), addr[p] = addr[q]
      PROVE  Weight(p, q) <= Weight(p, q)'
  <2>1. Weight(p, q) \in Nat /\ Weight(p, q)' \in Nat
    BY SemaphoreAssumption, WeightType, WeightTypeNext DEF WeightsSmall, Weights, Weighing
  <2>2. list \in Seq(Proc)
    BY DEF Control, TypeOK
  <2>3. CASE Check(p)
    <3>1. CASE waiting[p]
      <4>1. Weight(p, q) = 0
        BY <2>3, <3>1 DEF Check, At, Weight, Waking, Walks, Linked
      <4>2. QED
        BY <2>1, <4>1
    <3>2. CASE ~waiting[p]
      <4>1. Weight(p, q) \in {0, 1}
        BY <2>3, <3>2 DEF Check, At, Weight, Waking, Walks, Linked
      <4>2. pc'[p] = "lock" /\ pos'[p] = 1 /\ left'[p] = 1
        BY <2>3, <3>2 DEF Check, Goto, Wakeups, Control, TypeOK
      <4>3. ~Passed(p, q)'
        BY <1>2, <2>2, <4>2 DEF Passed
      <4>4. Weight(p, q)' = 1
        BY <1>2, <1>5, <4>2, <4>3 DEF Weight, Waking, Walks, Linked
      <4>5. QED
        BY <4>1, <4>4
    <3>3. QED
      BY <3>1, <3>2
  <2>4. CASE SemwakeupLock(p)
    <3>1. pc[p] = "lock" /\ pc'[p] = "scan" /\ pos'[p] = pos[p] /\ left'[p] = left[p]
      BY <2>4 DEF SemwakeupLock, At, Goto, Control, TypeOK, scanVars
    <3>2. Passed(p, q)' <=> Passed(p, q)
      BY <1>2, <3>1 DEF Passed
    <3>3. Weight(p, q)' = Weight(p, q)
      BY <1>2, <3>1, <3>2 DEF Weight, Waking, Walks, Linked
    <3>4. QED
      BY <2>1, <3>3
  <2>5. CASE SemwakeupSkip(p)
    <3>1. /\ pc[p] = "scan" /\ pc'[p] = "scan" /\ pos'[p] = pos[p] + 1 /\ left'[p] = left[p]
          /\ pos[p] \in DOMAIN list /\ pos[p] \in Nat
      BY <2>5 DEF SemwakeupSkip, At, InList, Control, TypeOK
    <3>2. list[pos[p]] # q
      BY <1>5, <2>5, <3>1 DEF SemwakeupSkip, Match, Target, Sleeps
    <3>3. \A i \in DOMAIN list : list[i] = q => (i < pos[p] + 1 <=> i < pos[p])
      BY <2>2, <3>1, <3>2
    <3>4. Passed(p, q)' <=> Passed(p, q)
      BY <1>2, <3>1, <3>3 DEF Passed
    <3>5. Weight(p, q)' = Weight(p, q)
      BY <1>2, <3>1, <3>4 DEF Weight, Waking, Walks, Linked
    <3>6. QED
      BY <2>1, <3>5
  <2>6. CASE SemwakeupDone(p)
    <3>1. pc[p] = "scan" /\ (pos[p] \notin DOMAIN list \/ left[p] = 0)
      BY <2>6 DEF SemwakeupDone, At, InList, Control, TypeOK
    <3>2. CASE left[p] = 0
      <4>1. Weight(p, q) = 0
        BY <3>1, <3>2 DEF Weight, Waking, Walks, Linked
      <4>2. QED
        BY <2>1, <4>1
    <3>3. CASE pos[p] \notin DOMAIN list
      <4>1. q \in ToSet(list)
        BY <1>5 DEF Control, Listed, Sleeps, Linked
      <4>2. PICK i \in DOMAIN list : list[i] = q
        BY <4>1 DEF ToSet
      <4>3. pos[p] \in Nat /\ pos[p] >= 1
        BY <3>1 DEF Control, TypeOK, Walker, Walks
      <4>4. i < pos[p]
        BY <2>2, <3>3, <4>3
      <4>5. Weight(p, q) = 0
        BY <3>1, <4>2, <4>4 DEF Weight, Passed, Waking, Walks, Linked
      <4>6. QED
        BY <2>1, <4>5
    <3>4. QED
      BY <3>1, <3>2, <3>3
  <2>7. QED
    BY <2>3, <2>4, <2>5, <2>6
<1>6. ASSUME NEW q \in Proc, Sleeps(q)
      PROVE  Weight(p, q) <= Weight(p, q)'
  <2>1. CASE addr[p] = addr[q]
    BY <1>5, <1>6, <2>1
  <2>2. CASE addr[p] # addr[q]
    BY <1>2, <2>2 DEF Weight
  <2>3. QED
    BY <2>1, <2>2
<1>7. QED
  BY <1>1, <1>3, <1>4, <1>6, EnoughOwn

\* semwakeup() sends a wakeup: from what it is to send to what was sent.
LEMMA EnoughClear ==
  ASSUME Control, Control', Enough, NEW p \in Proc, SemwakeupClear(p)
  PROVE  Enough'
<1> SUFFICES ASSUME NEW q \in Proc, Sleeps(q)'
             PROVE  value'[addr'[q]] <= Cardinality(Units(Weights(q)))'
  BY DEF Enough
<1> DEFINE w == Weights(q)
           v == Weights(q)'
<1>1. PICK t \in Proc : t = Target(p) /\ pc[t] \in Linked
  BY TargetLinked DEF SemwakeupClear, InList, Target, Control
<1>2. /\ t # p /\ list[pos[p]] = t /\ addr[t] = addr[p] /\ waiting[t] /\ ~waiting'[t]
      /\ pc[p] = "scan" /\ pc'[p] = "kick" /\ left[p] > 0 /\ pos[p] \in DOMAIN list
      /\ UNCHANGED <<value, list, addr, pos, left>>
      /\ pc'[t] = pc[t] /\ \A k \in Proc \ {p, t} : Same(k)
  BY <1>1 DEF SemwakeupClear, InList, Match, At, Goto, Target, Control, TypeOK, Linked, Same,
     callVars, scanVars
<1>3. q # t /\ q # p /\ Sleeps(q)
  BY <1>2 DEF Sleeps, Same
<1>4. w \in Weighing /\ v \in Weighing
  BY WeightType, WeightTypeNext DEF WeightsSmall
<1>5. \A k \in Proc \ {p, t} : w[k] <= v[k]
  <2>1. \A k \in Proc \ {p, t} : v[k] = w[k]
    BY <1>2, OthersWeigh DEF ListSafe, Weights
  <2>2. QED
    BY <1>4, <2>1, SemaphoreAssumption DEF Weighing
<1>6. /\ w[p] = Weight(p, q) /\ v[p] = Weight(p, q)'
      /\ w[t] = Weight(t, q) /\ v[t] = Weight(t, q)'
  BY DEF Weights
<1>7. value[addr[q]] <= Cardinality(Units(w))
  BY <1>3 DEF Enough
<1>8. addr[q] \in Addrs /\ value[addr[q]] \in Nat
  <2>1. pc[q] # "idle"
    BY <1>3 DEF Sleeps
  <2>2. addr[q] \in Addrs
    BY <2>1 DEF Control, Calling
  <2>3. value \in [Addrs -> 0 .. MaxValue]
    BY DEF Control, TypeOK
  <2>4. QED
    BY <2>2, <2>3, SemaphoreAssumption
<1>9. Cardinality(Units(w)) <= Cardinality(Units(v))
  <2>1. CASE addr[p] = addr[q]
    <3>1. list \in Seq(Proc) /\ left[p] \in Nat /\ pos[p] \in Nat
      BY SemaphoreAssumption DEF Control, TypeOK
    <3>2. Passed(p, q)' <=> Passed(p, q)
      BY <1>2, <1>3, <3>1 DEF Passed
    <3>3. w[p] <= v[p] + 1
      BY <1>2, <1>6, <2>1, <3>1, <3>2 DEF Weight, Waking, Walks, Linked
    <3>4. w[t] + 1 <= v[t]
      BY <1>1, <1>2, <1>6, <2>1 DEF Weight, Waking, Walks, Linked
    <3> HIDE DEF w, v
    <3>5. QED
      BY <1>2, <1>4, <1>5, <3>3, <3>4, UnitsMove
  <2>2. CASE addr[p] # addr[q]
    <3>1. w[p] = 0 /\ v[p] = 0 /\ w[t] = 0 /\ v[t] = 0
      BY <1>2, <1>6, <2>2 DEF Weight
    <3>2. \A k \in Proc : w[k] <= v[k]
      BY <1>5, <3>1
    <3> HIDE DEF w, v
    <3>3. QED
      BY <1>4, <3>2, UnitsGrow
  <2>3. QED
    BY <2>1, <2>2
<1> HIDE DEF w, v
<1>10. value'[addr'[q]] <= Cardinality(Units(v))
  BY <1>2, <1>7, <1>8, <1>9, UnitsFinite
<1>11. QED
  BY <1>10 DEF v, Units

\* Waking up itself changes nothing.
LEMMA EnoughKick ==
  ASSUME Control, Control', Enough, NEW p \in Proc, SemwakeupKick(p)
  PROVE  Enough'
<1> SUFFICES ASSUME NEW q \in Proc, Sleeps(q)'
             PROVE  value'[addr'[q]] <= Cardinality(Units(Weights(q)))'
  BY DEF Enough
<1>1. PICK t \in Proc : t = Target(p) /\ pc[t] \in Linked
  BY TargetLinked DEF SemwakeupKick, At, Walker, Target, Control
<1>2. /\ t # p /\ pc[p] = "kick" /\ pc'[p] = "scan"
      /\ left'[p] = left[p] - 1 /\ pos'[p] = pos[p] + 1
      /\ UNCHANGED <<value, list, addr, waiting>>
      /\ pc'[t] = IF pc[t] = "asleep" THEN "woken" ELSE pc[t]
      /\ pos[p] \in Nat /\ list \in Seq(Proc)
  BY <1>1 DEF SemwakeupKick, At, Control, TypeOK, Linked, callVars
<1>3. \A k \in Proc \ {p, t} : Same(k)
  BY <1>1 DEF SemwakeupKick, Control, TypeOK, Same, callVars
<1>4. Sleeps(q)
  BY <1>2, <1>3 DEF Sleeps, Same
<1>5. ASSUME NEW k \in Proc
      PROVE  Weight(k, q)' = Weight(k, q)
  <2>1. CASE k \notin {p, t}
    BY <1>2, <1>3, <2>1, OthersWeigh DEF ListSafe
  <2>2. CASE k = t
    BY <1>1, <1>2, <2>2 DEF Weight, Waking, Walks, Linked
  <2>3. CASE k = p
    <3>1. Passed(p, q)' <=> Passed(p, q)
      BY <1>2 DEF Passed
    <3>2. QED
      BY <1>2, <2>3, <3>1 DEF Weight, Waking, Walks, Linked
  <2>4. QED
    BY <2>1, <2>2, <2>3
<1>6. \A k \in Proc : Weight(k, q) <= Weight(k, q)'
  BY <1>5, WeightType, SemaphoreAssumption DEF WeightsSmall, Weights, Weighing
<1>7. addr'[q] = addr[q] /\ value'[addr[q]] <= value[addr[q]]
  <2>1. pc[q] # "idle"
    BY <1>4 DEF Sleeps
  <2>2. addr[q] \in Addrs
    BY <2>1 DEF Control, Calling
  <2>3. value \in [Addrs -> 0 .. MaxValue]
    BY DEF Control, TypeOK
  <2>4. QED
    BY <1>2, <2>2, <2>3, SemaphoreAssumption
<1>8. QED
  BY <1>4, <1>6, <1>7, EnoughKept

\* No wakeup that a sleeper may need is lost.
LEMMA EnoughStep ==
  ASSUME Control, Control', Enough, [Next]_vars
  PROVE  Enough'
<1>1. ASSUME NEW p \in Proc, NEW a \in Addrs, NEW k \in Kinds, Call(p, a, k)
      PROVE  Enough'
  BY <1>1, EnoughQuiet
<1>2. ASSUME NEW p \in Proc, NEW a \in Addrs, NEW n \in 1 .. MaxDelta, Release(p, a, n)
      PROVE  Enough'
  BY <1>2, EnoughRelease
<1>3. ASSUME NEW p \in Proc, Timer(p) \/ Interrupt(p) \/ Steps(p) \/ Spin(p)
      PROVE  Enough'
  BY <1>3, EnoughQuiet, EnoughTake, EnoughWalk, EnoughClear, EnoughKick DEF Steps, Spin
<1>4. CASE UNCHANGED vars
  BY <1>4 DEF vars, callVars, scanVars, Enough, Sleeps, Weights, Weight, Passed, Units
<1>5. QED
  BY <1>1, <1>2, <1>3, <1>4 DEF Next
-----------------------------------------------------------------------------
\* The invariant holds at the start.
LEMMA InitInv == Init => Inv
<1> SUFFICES ASSUME Init
             PROVE  Inv
  OBVIOUS
<1> USE SemaphoreAssumption DEF Init
<1>1. TypeOK
  BY DEF TypeOK, PCs
<1>2. Held /\ Walker
  BY DEF Held, Walker, Walks
<1>3. Calling
  BY DEF Calling, Linked, Waking, Walks
<1>4. Listed
  BY DEF Listed, IsInjective, ToSet, Linked
<1>5. ToldIsWoken /\ Enough
  BY DEF ToldIsWoken, Enough, Sleeps
<1>6. QED
  BY <1>1, <1>2, <1>3, <1>4, <1>5 DEF Inv, Control

\* Every step keeps it.
LEMMA Safety == Spec => []Inv
<1>1. Inv /\ [Next]_vars => Inv'
  BY ControlStep, ToldStep, EnoughStep DEF Inv
<1>2. QED
  BY <1>1, InitInv, PTL DEF Spec

\* The variables keep their types, and a process asleep whose phore semwakeup()
\* has cleared is the one it is about to wake: the wakeup that was sent arrives.
THEOREM StaysConsistent == Spec => []Consistent
<1>1. Inv => Consistent
  BY DEF Inv, Control, Consistent
<1>2. QED
  BY <1>1, Safety, PTL

\* The list of a segment holds the phores of the calls that are between
\* semqueue() and semdequeue(), on whose stacks they are, each once: semwakeup()
\* never walks to a stack frame that is gone.
THEOREM ListedLives == Spec => []PhoresAlive
<1>1. Inv => PhoresAlive
  BY DEF Inv, Control, Listed, Walker, PhoresAlive
<1>2. QED
  BY <1>1, Safety, PTL

\* Nobody is left asleep on a semaphore with units while no other call on it is
\* under way, whatever notes and timeouts take away the wakeups.
THEOREM NobodyStranded == Spec => []NoneStranded
<1>1. ASSUME Inv
      PROVE  NoneStranded
  <2> SUFFICES ASSUME NEW q \in Proc, pc[q] = "asleep", value[addr[q]] > 0
               PROVE  UnderWay(addr[q])
    BY DEF NoneStranded
  <2>1. CASE ~waiting[q]
    <3>1. PICK k \in Proc : pc[k] = "kick" /\ Target(k) = q
      BY <1>1, <2>1 DEF Inv, ToldIsWoken
    <3>2. addr[k] = addr[q]
      BY <1>1, <3>1 DEF Inv, Control, Walker
    <3>3. QED
      BY <3>1, <3>2 DEF UnderWay
  <2>2. CASE waiting[q]
    <3> DEFINE w == Weights(q)
    <3>1. value[addr[q]] <= Cardinality(Units(w)) /\ value[addr[q]] \in Nat
      BY <1>1, <2>2, SemaphoreAssumption
         DEF Inv, Enough, Sleeps, Control, Calling, TypeOK
    <3>2. Cardinality(Units(w)) # 0
      BY <3>1, UnitsFinite
    <3>3. Units(w) # {}
      BY <3>2, FS_EmptySet
    <3>w. w \in Weighing
      BY <1>1, WeightType DEF Inv, WeightsSmall
    <3>4. PICK k \in Proc : w[k] > 0
      <4> HIDE DEF w
      <4>1. PICK x \in Units(w) : TRUE
        BY <3>3
      <4>2. x[1] \in Proc /\ x[2] \in 1 .. MaxDelta + 1 /\ x[2] <= w[x[1]]
        BY <4>1 DEF Units
      <4>3. w[x[1]] \in Nat /\ x[2] \in Nat /\ x[2] >= 1
        BY <3>w, <4>2, SemaphoreAssumption DEF Weighing
      <4>4. QED
        BY <4>2, <4>3
    <3>5. Weight(k, q) > 0
      BY <3>4 DEF Weights
    <3>6. addr[k] = addr[q] /\ pc[k] # "ret"
      BY <3>5 DEF Weight, Waking, Walks, Linked
    <3>7. CASE pc[k] # "asleep"
      BY <3>6, <3>7 DEF UnderWay
    <3>8. CASE pc[k] = "asleep"
      <4>1. ~waiting[k]
        BY <3>5, <3>6, <3>8 DEF Weight, Waking, Walks, Linked
      <4>2. PICK j \in Proc : pc[j] = "kick" /\ Target(j) = k
        BY <1>1, <3>8, <4>1 DEF Inv, ToldIsWoken
      <4>3. addr[j] = addr[q]
        BY <1>1, <3>6, <4>2 DEF Inv, Control, Walker
      <4>4. QED
        BY <4>2, <4>3 DEF UnderWay
    <3>9. QED
      BY <3>7, <3>8
  <2>3. QED
    BY <2>1, <2>2
<1>2. QED
  BY <1>1, Safety, PTL
-----------------------------------------------------------------------------
\* CountingSem's calls as a function of the variables of Semaphore.
CallMap == [p \in Proc |-> IF kind[p] \in {"release", Nil} THEN Nil ELSE <<addr[p], kind[p]>>]

\* What is seen from outside: the semaphores, the calls of semacquire() and what
\* they are going to return.
Shown == <<value, CallMap, result>>

\* A call of semacquire() that has not decided yet.
Undecided(p) == /\ addr[p] \in Addrs /\ kind[p] \in AllKinds
                /\ result[p] = Nil

\* Who looks at the value, or waits, has not decided.
LEMMA WhoDecides ==
  ASSUME Control, NEW p \in Proc
  PROVE  pc[p] \in {"first", "queue"} \cup (Linked \ {"dequeue"}) => Undecided(p)
BY SemaphoreAssumption DEF Control, TypeOK, Calling, Linked, Undecided, AllKinds

\* To decide what to return is to decide in CountingSem.
LEMMA DecideRefines ==
  ASSUME Control, NEW p \in Proc, NEW r \in Results, Undecided(p), Decide(p, r),
         UNCHANGED <<addr, kind>>
  PROVE  Abs!Decide(p, r) /\ CallMap[p] = <<addr[p], kind[p]>>
<1>1. kind[p] \notin {"release", Nil} /\ <<addr[p], kind[p]>> # Nil
  BY SemaphoreAssumption DEF Undecided, AllKinds
<1>2. CallMap[p] = <<addr[p], kind[p]>> /\ CallMap[p] # Nil /\ UNCHANGED CallMap
  BY <1>1 DEF CallMap
<1>3. result[p] = Nil /\ result' = [result EXCEPT ![p] = r]
  BY DEF Undecided, Decide
<1>4. QED
  BY <1>2, <1>3 DEF Abs!Decide, CallMap

\* canacquire() takes the one unit that the call is for.
LEMMA TakeRefines ==
  ASSUME Control, NEW p \in Proc, FirstTake(p) \/ TryTake(p)
  PROVE  Abs!Take(p)
<1>1. Undecided(p)
  BY WhoDecides DEF FirstTake, TryTake, At, Linked
<1>2. /\ Decide(p, "acquired") /\ UNCHANGED <<addr, kind>>
      /\ value[addr[p]] > 0 /\ value' = [value EXCEPT ![addr[p]] = @ - 1]
  BY DEF FirstTake, TryTake, Canacquire
<1>3. Abs!Decide(p, "acquired") /\ CallMap[p] = <<addr[p], kind[p]>>
  BY <1>1, <1>2, DecideRefines DEF Results
<1>4. CallMap[p][1] = addr[p]
  BY <1>3
<1>5. QED
  BY <1>2, <1>3, <1>4 DEF Abs!Take, CallMap

\* A call that does not get its unit has the right to give up.
LEMMA GiveUpRefines ==
  ASSUME Control, NEW p \in Proc, NEW r \in {"busy", "timedout", "interrupted"},
         Undecided(p), Decide(p, r), UNCHANGED <<value, addr, kind>>,
         r = "busy" => kind[p] = "noblock" /\ value[addr[p]] = 0,
         r = "timedout" => kind[p] = "timed",
         r = "interrupted" => kind[p] # "noblock"
  PROVE  Abs!GiveUp(p)
<1>1. Abs!Decide(p, r) /\ CallMap[p] = <<addr[p], kind[p]>>
  BY DecideRefines DEF Results
<1>2. CallMap[p][1] = addr[p] /\ CallMap[p][2] = kind[p]
  BY <1>1
<1>3. Abs!Refused(p, r)
  BY <1>2 DEF Abs!Refused, CallMap
<1>4. QED
  BY <1>1, <1>3 DEF Abs!GiveUp

\* Every step of Semaphore is a step of CountingSem or is not seen from outside.
LEMMA StepRefines ==
  ASSUME Control, Control', [Next]_vars
  PROVE  [Abs!AbsNext]_(Abs!absVars)
<1>a. UNCHANGED Shown => UNCHANGED Abs!absVars
  BY DEF Shown, CallMap, Abs!absVars
<1>1. ASSUME NEW p \in Proc, NEW a \in Addrs, NEW k \in Kinds, Call(p, a, k)
      PROVE  Abs!AbsNext
  <2>1. pc[p] = "idle" /\ kind[p] = Nil /\ UNCHANGED <<value, result>>
        /\ addr' = [addr EXCEPT ![p] = a] /\ kind' = [kind EXCEPT ![p] = k]
    BY <1>1 DEF Call, At, Control, Calling
  <2>2. k \in {"block", "noblock", "timed"} /\ k # Nil
    BY SemaphoreAssumption DEF AllKinds
  <2>3. CallMap[p] = Nil
    BY <2>1 DEF CallMap
  <2>4. CallMap' = [CallMap EXCEPT ![p] = <<a, k>>]
    BY <2>1, <2>2 DEF CallMap, Control, TypeOK
  <2>5. Abs!Come(p, a, k)
    BY <2>1, <2>3, <2>4 DEF Abs!Come, CallMap
  <2>6. QED
    BY <2>2, <2>5 DEF Abs!AbsNext
<1>2. ASSUME NEW p \in Proc, NEW a \in Addrs, NEW n \in 1 .. MaxDelta, Release(p, a, n)
      PROVE  Abs!AbsNext
  <2>1. pc[p] = "idle" /\ kind[p] = Nil /\ kind' = [kind EXCEPT ![p] = "release"]
        /\ addr' = [addr EXCEPT ![p] = a]
        /\ value' = [value EXCEPT ![a] = @ + n] /\ UNCHANGED result
    BY <1>2 DEF Release, At, Control, Calling
  <2>2. UNCHANGED CallMap
    BY <2>1 DEF CallMap, Control, TypeOK
  <2>3. value \in [Addrs -> 0 .. MaxValue] /\ value' \in [Addrs -> 0 .. MaxValue]
    BY DEF Control, TypeOK
  <2>4. /\ value' \in [Addrs -> Nat] /\ value'[a] >= value[a]
        /\ \A b \in Addrs \ {a} : value'[b] = value[b]
    BY <2>1, <2>3, SemaphoreAssumption
  <2>5. Abs!Add(a)
    BY <2>1, <2>2, <2>4 DEF Abs!Add, CallMap
  <2>6. QED
    BY <2>5 DEF Abs!AbsNext
<1>3. ASSUME NEW p \in Proc, FirstTake(p) \/ TryTake(p)
      PROVE  Abs!AbsNext
  BY <1>3, TakeRefines DEF Abs!AbsNext
<1>4. ASSUME NEW p \in Proc, FirstFail(p)
      PROVE  Abs!AbsNext \/ UNCHANGED Shown
  <2>1. CASE kind[p] = "noblock"
    <3>1. Undecided(p)
      BY <1>4, WhoDecides DEF FirstFail, At
    <3>2. Decide(p, "busy") /\ value[addr[p]] = 0 /\ UNCHANGED <<value, addr, kind>>
      BY <1>4, <2>1 DEF FirstFail
    <3>3. Abs!GiveUp(p)
      BY <2>1, <3>1, <3>2, GiveUpRefines
    <3>4. QED
      BY <3>3 DEF Abs!AbsNext
  <2>2. CASE kind[p] # "noblock"
    BY <1>4, <2>2 DEF FirstFail, Shown, CallMap
  <2>3. QED
    BY <2>1, <2>2
<1>5. ASSUME NEW p \in Proc, TimedOut(p)
      PROVE  Abs!AbsNext
  <2>1. Undecided(p)
    BY <1>5, WhoDecides DEF TimedOut, At, Linked
  <2>2. Abs!GiveUp(p)
    BY <1>5, <2>1, GiveUpRefines DEF TimedOut
  <2>3. QED
    BY <2>2 DEF Abs!AbsNext
<1>6. ASSUME NEW p \in Proc, Interrupted(p)
      PROVE  Abs!AbsNext
  <2>1. Undecided(p) /\ kind[p] # "noblock"
    BY <1>6, WhoDecides DEF Interrupted, At, Linked, Control, Calling
  <2>2. Abs!GiveUp(p)
    BY <1>6, <2>1, GiveUpRefines DEF Interrupted
  <2>3. QED
    BY <2>2 DEF Abs!AbsNext
<1>7. ASSUME NEW p \in Proc, Return(p)
      PROVE  Abs!AbsNext \/ UNCHANGED Shown
  <2>1. /\ pc[p] = "ret" /\ (kind[p] = "release" <=> result[p] = Nil)
        /\ kind' = [kind EXCEPT ![p] = Nil] /\ addr' = [addr EXCEPT ![p] = Nil]
        /\ result' = [result EXCEPT ![p] = Nil] /\ UNCHANGED value
    BY <1>7 DEF Return, At, Decide, Control, Calling, Waking
  <2>2. CallMap' = [CallMap EXCEPT ![p] = Nil]
    BY <2>1 DEF CallMap, Control, TypeOK
  <2>3. CASE result[p] # Nil
    <3>1. Abs!Leave(p)
      BY <2>1, <2>2, <2>3 DEF Abs!Leave, CallMap
    <3>2. QED
      BY <3>1 DEF Abs!AbsNext
  <2>4. CASE result[p] = Nil
    <3>1. CallMap' = CallMap
      BY <2>1, <2>2, <2>4 DEF CallMap
    <3>2. result' = result
      BY <2>1, <2>4 DEF Control, TypeOK
    <3>3. QED
      BY <2>1, <3>1, <3>2 DEF Shown
  <2>5. QED
    BY <2>3, <2>4
<1>8. ASSUME NEW p \in Proc,
             \/ SetWaiting(p) \/ TryFail(p) \/ Sleep(p) \/ Timer(p) \/ Interrupt(p) \/ Again(p)
             \/ Check(p) \/ SemwakeupLock(p) \/ SemwakeupClear(p) \/ SemwakeupSkip(p)
             \/ SemwakeupKick(p) \/ SemwakeupDone(p) \/ Semqueue(p) \/ Semdequeue(p)
      PROVE  UNCHANGED Shown
  <2>1. UNCHANGED <<value, callVars>>
    BY <1>8 DEF SetWaiting, TryFail, Sleep, Timer, Interrupt, Again, Check, SemwakeupLock,
                SemwakeupClear, SemwakeupSkip, SemwakeupKick, SemwakeupDone, Semqueue,
                Semdequeue
  <2>2. QED
    BY <2>1 DEF callVars, Shown, CallMap
<1>9. ASSUME UNCHANGED vars
      PROVE  UNCHANGED Shown
  BY <1>9 DEF vars, callVars, Shown, CallMap
<1>10. Abs!AbsNext \/ UNCHANGED Shown
  BY <1>1, <1>2, <1>3, <1>4, <1>5, <1>6, <1>7, <1>8, <1>9 DEF Next, Steps, Spin
<1>11. QED
  BY <1>a, <1>10

\* The initial states map to the initial states of CountingSem.
LEMMA InitRefines == Init => Abs!AbsInit
<1> SUFFICES ASSUME Init
             PROVE  Abs!AbsInit
  OBVIOUS
<1>1. value \in [Addrs -> Nat]
  BY SemaphoreAssumption DEF Init
<1>2. QED
  BY <1>1 DEF Init, Abs!AbsInit

\* semacquire(), tsemacquire() and semrelease() of port/sysproc.c are counting
\* semaphores: a call returns 1 if and only if it took one unit of its semaphore,
\* and otherwise it may not block, timed out or was interrupted.
THEOREM IsCountingSem == Spec => CountingSpec
<1>1. Inv /\ Inv' /\ [Next]_vars => [Abs!AbsNext]_(Abs!absVars)
  BY StepRefines DEF Inv
<1>2. QED
  BY <1>1, InitRefines, Safety, PTL DEF Spec, CountingSpec, Abs!AbsSpec
=============================================================================
