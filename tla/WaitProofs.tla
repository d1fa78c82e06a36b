------------------------------ MODULE WaitProofs ------------------------------
(*****************************************************************************)
(* The safety properties of exit and wait hold for any number of slots,      *)
(* pids, wait records and broken processes.                                  *)
(*****************************************************************************)
EXTENDS Wait, FiniteSetTheorems, TLAPS

\* The types of what is not counted.
Types == /\ pid \in [Slot -> Pids \cup {Nil}] /\ noteid \in [Slot -> Pids \cup {Nil}]
         /\ parentpid \in [Slot -> Pids \cup {Nil}]
         /\ parent \in [Slot -> Slot \cup {Nil}]
         /\ nwait \in [Slot -> Nat] /\ waitq \in [Slot -> Nat]
         /\ qwaitr \in [Slot -> Slot \cup {Nil}] /\ target \in [Slot -> Slot \cup {Nil}]
         /\ qid \in [Slot -> Pids \cup {Nil}]
         /\ broken \in Seq(Slot)
         /\ pc \in [Slot -> PCs]

\* A slot that is Dead, or drains its last records, is nobody; whoever exits
\* had a parent.
Slots == \A s \in Slot :
           /\ pid[s] = Nil <=> pc[s] \in {"dead", "drain"}
           /\ noteid[s] = Nil <=> pid[s] = Nil
           /\ pid[s] = Nil => parentpid[s] = Nil /\ parent[s] = Nil /\ nwait[s] = 0
           /\ pc[s] \in {"leave", "left", "broken", "doomed"} \cup Freeing => parentpid[s] # Nil
           /\ pc[s] = "leave" => parent[s] # Nil
           /\ pc[s] = "dead" => waitq[s] = 0

\* Who reads wait records has a target and the pid it means; qwaitr belongs to
\* the one reader that got it.
Reading == Waiting \cup {"lock"}
Readers == \A s \in Slot :
             /\ target[s] # Nil <=> pc[s] \in Reading
             /\ qid[s] # Nil <=> target[s] # Nil
             /\ \A t \in Slot : qwaitr[t] = s <=> pc[s] \in Waiting /\ target[s] = t

\* A noteid is changed of a process, which is kept from pidfree() meanwhile.
Underway == /\ step \in [Slot -> Steps]
            /\ group \in [Slot -> Pids \cup {Nil}] /\ last \in [Slot -> Pids \cup {Nil}]
            /\ \A s \in Slot : /\ group[s] # Nil <=> step[s] # "none"
                               /\ step[s] # "none" => pid[s] # Nil /\ pc[s] \notin Freeing

\* Who is where, and has how many records.
Control == Types /\ Slots /\ Underway /\ Readers /\ RecordsKept /\ BrokenListed

\* The references to pids are counted.
PidTable == ref \in [Pids -> Nat] /\ table \subseteq Pids /\ PidsCounted

\* A process that is broken does not count the children that exit any more.
NchildCovers == \A p \in Slot : IF pid[p] = Nil THEN nchild[p] = 0
                                ELSE nchild[p] >= Cardinality(Children(p))

Families == nchild \in [Slot -> Nat] /\ NchildExact /\ NchildCovers

\* Who sleeps has nothing to read; who is about to wait for its own children has
\* one, or the record of one.
NothingThere == \A p \in Slot : At(p, "asleep") => ~prochaswaitq(p)
SleepsForChild == \A p \in Slot : pc[p] \in {"tosleep", "asleep"} /\ target[p] = p =>
                    waitq[p] > 0 \/ nchild[p] > 0

Sleepers == NothingThere /\ SleepsForChild

\* The inductive invariant.
Inv == Control /\ PidTable /\ Families /\ Sleepers

\* What a step does to the places: p goes on, and some sleepers wake up; or
\* some that have left become broken, or will die.
Moves(p, to) ==
  /\ pc' \in [Slot -> PCs] /\ pc'[p] = to
  /\ \A s \in Slot \ {p} : pc'[s] = pc[s] \/ (pc[s] = "asleep" /\ pc'[s] = "woken")
Breaks ==
  /\ pc' \in [Slot -> PCs]
  /\ \A s \in Slot : \/ pc'[s] = pc[s]
                     \/ pc[s] \in {"left", "broken"} /\ pc'[s] \in {"broken", "doomed"}
-----------------------------------------------------------------------------
\* What joining a queue at its tail does to the set of its members.
LEMMA AppendMembers ==
  ASSUME NEW S, NEW s \in Seq(S), NEW e \in S
  PROVE  /\ Append(s, e) \in Seq(S)
         /\ ToSet(Append(s, e)) = ToSet(s) \cup {e}
         /\ IsInjective(s) /\ e \notin ToSet(s) => IsInjective(Append(s, e))
<1>1. /\ Len(Append(s, e)) = Len(s) + 1 /\ Append(s, e)[Len(s) + 1] = e
      /\ \A i \in 1 .. Len(s) : Append(s, e)[i] = s[i]
  OBVIOUS
<1>2. ToSet(Append(s, e)) = ToSet(s) \cup {e}
  BY <1>1 DEF ToSet
<1>3. QED
  BY <1>1, <1>2 DEF IsInjective, ToSet

\* What leaving a queue, from anywhere, does to the set of its members.
LEMMA RemoveAtMembers ==
  ASSUME NEW S, NEW s \in Seq(S), NEW i \in DOMAIN s, IsInjective(s)
  PROVE  /\ RemoveAt(s, i) \in Seq(S)
         /\ ToSet(RemoveAt(s, i)) = ToSet(s) \ {s[i]}
         /\ IsInjective(RemoveAt(s, i))
<1> DEFINE t == RemoveAt(s, i)
           old(j) == IF j < i THEN j ELSE j + 1
           new(k) == IF k < i THEN k ELSE k - 1
<1>1. /\ t \in Seq(S) /\ DOMAIN t = 1 .. Len(s) - 1
      /\ \A j \in DOMAIN t : t[j] = s[old(j)] /\ old(j) \in DOMAIN s \ {i}
  <2> DEFINE a == SubSeq(s, 1, i - 1)
             b == SubSeq(s, i + 1, Len(s))
  <2>1. /\ a \in Seq(S) /\ Len(a) = i - 1 /\ \A j \in 1 .. i - 1 : a[j] = s[j]
        /\ b \in Seq(S) /\ Len(b) = Len(s) - i /\ \A j \in 1 .. Len(s) - i : b[j] = s[j + i]
    OBVIOUS
  <2>2. t = a \o b
    BY DEF RemoveAt
  <2> HIDE DEF a, b, t
  <2>3. /\ t \in Seq(S) /\ DOMAIN t = 1 .. Len(s) - 1
        /\ \A j \in 1 .. Len(s) - 1 : t[j] = IF j < i THEN a[j] ELSE b[j - (i - 1)]
    BY <2>1, <2>2
  <2>4. \A j \in 1 .. Len(s) - 1 : j >= i => b[j - (i - 1)] = s[j + 1]
    BY <2>1
  <2>5. ASSUME NEW j \in 1 .. Len(s) - 1
        PROVE  t[j] = s[old(j)] /\ old(j) \in DOMAIN s \ {i}
    <3>1. i \in 1 .. Len(s) /\ Len(s) \in Nat
      OBVIOUS
    <3>2. t[j] = s[old(j)]
      BY <2>1, <2>3, <2>4, <3>1
    <3>3. QED
      BY <3>1, <3>2
  <2>6. QED
    BY <2>3, <2>5
<1>2. \A k \in DOMAIN s \ {i} : new(k) \in DOMAIN t /\ old(new(k)) = k
  BY <1>1
<1>3. \A j \in DOMAIN t, k \in DOMAIN t : old(j) = old(k) => j = k
  BY <1>1
<1> HIDE DEF t, old, new
<1>4. IsInjective(t)
  BY <1>1, <1>3 DEF IsInjective
<1>5. ToSet(t) = ToSet(s) \ {s[i]}
  BY <1>1, <1>2 DEF ToSet, IsInjective
<1>6. QED
  BY <1>1, <1>4, <1>5 DEF t

\* What leaving a queue at its head does to the set of its members.
LEMMA TailMembers ==
  ASSUME NEW S, NEW s \in Seq(S), s # <<>>, IsInjective(s)
  PROVE  /\ Head(s) \in S
         /\ Head(s) \in ToSet(s)
         /\ Tail(s) \in Seq(S)
         /\ ToSet(Tail(s)) = ToSet(s) \ {Head(s)}
         /\ IsInjective(Tail(s))
<1>1. 1 \in DOMAIN s /\ Head(s) = s[1] /\ s[1] \in S
  OBVIOUS
<1>2. s[1] \in ToSet(s)
  BY <1>1 DEF ToSet
<1>3. Tail(s) = RemoveAt(s, 1)
  BY DEF RemoveAt
<1>4. /\ RemoveAt(s, 1) \in Seq(S) /\ IsInjective(RemoveAt(s, 1))
      /\ ToSet(RemoveAt(s, 1)) = ToSet(s) \ {s[1]}
  BY <1>1, RemoveAtMembers
<1>5. QED
  BY <1>1, <1>2, <1>3, <1>4
-----------------------------------------------------------------------------
(* Counting *)

\* One more, one less.
LEMMA CardPut ==
  ASSUME NEW S, IsFiniteSet(S), NEW x
  PROVE  /\ Cardinality(S) \in Nat
         /\ IsFiniteSet(S \cup {x}) /\ IsFiniteSet(S \ {x})
         /\ Cardinality(S \cup {x}) = IF x \in S THEN Cardinality(S) ELSE Cardinality(S) + 1
         /\ Cardinality(S \ {x}) = IF x \in S THEN Cardinality(S) - 1 ELSE Cardinality(S)
         /\ x \in S => Cardinality(S) >= 1
         /\ Cardinality(S) = 0 => S = {}
BY FS_CardinalityType, FS_AddElement, FS_RemoveElement, FS_EmptySet

\* How often the slots name a pid.
LEMMA UsesNat ==
  ASSUME NEW f \in [Slot -> Pids \cup {Nil}], NEW s \in Slot, NEW i \in Pids
  PROVE  Uses(f, i) \in Nat /\ (f[s] = i => Uses(f, i) >= 1)
<1> DEFINE A == {t \in Slot : f[t] = i}
<1>1. IsFiniteSet(A) /\ (f[s] = i => s \in A)
  BY WaitAssumption, FS_Subset
<1> HIDE DEF A
<1>2. Cardinality(A) \in Nat /\ (f[s] = i => Cardinality(A) >= 1)
  BY <1>1, CardPut
<1>3. QED
  BY <1>2 DEF Uses, A

\* How often they name it when one of them changes.
LEMMA UsesPut ==
  ASSUME NEW f \in [Slot -> Pids \cup {Nil}], NEW g \in [Slot -> Pids \cup {Nil}], NEW s \in Slot,
         NEW i \in Pids, \A t \in Slot \ {s} : g[t] = f[t]
  PROVE  Uses(g, i) = Uses(f, i) - (IF f[s] = i THEN 1 ELSE 0) + (IF g[s] = i THEN 1 ELSE 0)
<1> DEFINE A == {t \in Slot : f[t] = i}
           B == {t \in Slot : g[t] = i}
<1>1. IsFiniteSet(A) /\ (s \in A <=> f[s] = i)
  BY WaitAssumption, FS_Subset
<1>2. /\ Cardinality(A) \in Nat
      /\ Cardinality(A \cup {s}) = IF s \in A THEN Cardinality(A) ELSE Cardinality(A) + 1
      /\ Cardinality(A \ {s}) = IF s \in A THEN Cardinality(A) - 1 ELSE Cardinality(A)
  BY <1>1, CardPut
<1>3. B = IF g[s] = i THEN A \cup {s} ELSE A \ {s}
  OBVIOUS
<1>4. Cardinality(B) = Cardinality(A) - (IF f[s] = i THEN 1 ELSE 0) + (IF g[s] = i THEN 1 ELSE 0)
  <2> HIDE DEF A, B
  <2>1. CASE g[s] = i
    BY <1>1, <1>2, <1>3, <2>1
  <2>2. CASE g[s] # i
    BY <1>1, <1>2, <1>3, <2>2
  <2>3. QED
    BY <2>1, <2>2
<1>5. QED
  BY <1>4 DEF Uses

\* What a slot adds to the uses of a pid.
One(f, s, i) == IF f[s] = i THEN 1 ELSE 0

\* The references that are counted are references to pids.
LEMMA OfTypes ==
  ASSUME Types, Underway
  PROVE  {OfPid, OfNote, OfGroup, OfParent} \subseteq [Slot -> Pids \cup {Nil}]
BY DEF Types, Underway, OfPid, OfNote, OfGroup, OfParent

\* A pid that is not in the table is nowhere that counts.
LEMMA UnusedNowhere ==
  ASSUME Types, Underway, PidTable, PidsOutlive, NEW i \in Unused
  PROVE  /\ i \in Pids /\ ref[i] = 0
         /\ \A s \in Slot : OfPid[s] # i /\ OfNote[s] # i /\ OfGroup[s] # i /\ OfParent[s] # i
<1>1. i \in Pids /\ i \notin table /\ ref[i] \in Nat
  BY DEF Unused, PidTable
<1>2. ref[i] = 0
  BY <1>1 DEF PidsOutlive
<1>3. ASSUME NEW s \in Slot
      PROVE  OfPid[s] # i /\ OfNote[s] # i /\ OfGroup[s] # i /\ OfParent[s] # i
  <2> DEFINE a == Uses(OfPid, i)
             b == Uses(OfNote, i)
             g == Uses(OfGroup, i)
             c == Uses(OfParent, i)
  <2>1. /\ a \in Nat /\ (OfPid[s] = i => a >= 1)
        /\ b \in Nat /\ (OfNote[s] = i => b >= 1)
        /\ g \in Nat /\ (OfGroup[s] = i => g >= 1)
        /\ c \in Nat /\ (OfParent[s] = i => c >= 1)
    BY <1>1, OfTypes, UsesNat
  <2>2. 0 = a + b + g + c
    BY <1>1, <1>2 DEF PidTable, PidsCounted
  <2> HIDE DEF a, b, g, c
  <2>3. QED
    BY <2>1, <2>2
<1>4. QED
  BY <1>1, <1>2, <1>3

\* What the references that slot s holds to a pid become more.
Gain(s, i) == (One(OfPid', s, i) - One(OfPid, s, i)) + (One(OfNote', s, i) - One(OfNote, s, i))
              + (One(OfGroup', s, i) - One(OfGroup, s, i))
              + (One(OfParent', s, i) - One(OfParent, s, i))

\* The references stay counted when one slot changes what it holds and the counts
\* change with it, and nobody takes a pid that is referred to.
LEMMA Recount ==
  ASSUME Types, Underway, Types', Underway', PidTable, NEW p \in Slot,
         \A t \in Slot \ {p} : /\ OfPid'[t] = OfPid[t] /\ OfNote'[t] = OfNote[t]
                               /\ OfGroup'[t] = OfGroup[t] /\ OfParent'[t] = OfParent[t],
         DOMAIN ref' = Pids, ref' = [i \in Pids |-> ref'[i]], table' \subseteq Pids,
         \A i \in Pids : ref'[i] = ref[i] + Gain(p, i),
         \A i \in Pids : OfPid'[p] = i => OfPid[p] = i \/ ref[i] = 0
  PROVE  PidTable'
<1>1. /\ {OfPid, OfNote, OfGroup, OfParent} \subseteq [Slot -> Pids \cup {Nil}]
      /\ {OfPid', OfNote', OfGroup', OfParent'} \subseteq [Slot -> Pids \cup {Nil}]
  <2>1. {OfPid, OfNote, OfGroup, OfParent} \subseteq [Slot -> Pids \cup {Nil}]
    BY OfTypes
  <2>2. {OfPid', OfNote', OfGroup', OfParent'} \subseteq [Slot -> Pids \cup {Nil}]
    BY DEF Types, Underway, OfPid, OfNote, OfGroup, OfParent
  <2>3. QED
    BY <2>1, <2>2
<1>2. ASSUME NEW i \in Pids
      PROVE  /\ ref'[i] \in Nat
             /\ ref'[i] = Uses(OfPid', i) + Uses(OfNote', i) + Uses(OfGroup', i)
                            + Uses(OfParent', i)
             /\ Uses(OfPid', i) <= 1
  <2> DEFINE a == Uses(OfPid, i)
             b == Uses(OfNote, i)
             g == Uses(OfGroup, i)
             c == Uses(OfParent, i)
             a1 == Uses(OfPid', i)
             b1 == Uses(OfNote', i)
             g1 == Uses(OfGroup', i)
             c1 == Uses(OfParent', i)
             xa == One(OfPid, p, i)
             ya == One(OfPid', p, i)
             xb == One(OfNote, p, i)
             yb == One(OfNote', p, i)
             xg == One(OfGroup, p, i)
             yg == One(OfGroup', p, i)
             xc == One(OfParent, p, i)
             yc == One(OfParent', p, i)
  <2>1. /\ a \in Nat /\ b \in Nat /\ g \in Nat /\ c \in Nat
        /\ a1 \in Nat /\ b1 \in Nat /\ g1 \in Nat /\ c1 \in Nat
    BY <1>1, UsesNat
  <2>2. a1 = a - xa + ya
    BY <1>1, UsesPut DEF One
  <2>3. b1 = b - xb + yb
    BY <1>1, UsesPut DEF One
  <2>4. g1 = g - xg + yg
    BY <1>1, UsesPut DEF One
  <2>5. c1 = c - xc + yc
    BY <1>1, UsesPut DEF One
  <2>6. ref[i] = a + b + g + c /\ a <= 1
    BY DEF PidTable, PidsCounted
  <2>7. ref'[i] = ref[i] + ((ya - xa) + (yb - xb) + (yg - xg) + (yc - xc))
    BY DEF Gain
  <2>8. xa \in {0, 1} /\ ya \in {0, 1} /\ (ya = 1 => xa = 1 \/ ref[i] = 0)
    BY DEF One
  <2>9. xb \in Int /\ yb \in Int /\ xg \in Int /\ yg \in Int /\ xc \in Int /\ yc \in Int
    BY DEF One
  <2> HIDE DEF a, b, g, c, a1, b1, g1, c1, xa, ya, xb, yb, xg, yg, xc, yc
  <2>10. ref'[i] = a1 + b1 + g1 + c1
    <3>1. ref'[i] = (a + b + g + c) + ((ya - xa) + (yb - xb) + (yg - xg) + (yc - xc))
      BY <2>6, <2>7
    <3>2. xa \in Int /\ ya \in Int
      BY <2>8
    <3>3. QED
      BY <2>1, <2>2, <2>3, <2>4, <2>5, <2>9, <3>1, <3>2
  <2>11. a1 <= 1
    BY <2>1, <2>2, <2>6, <2>8
  <2>12. ref'[i] \in Nat
    BY <2>1, <2>10
  <2>13. QED
    BY <2>10, <2>11, <2>12 DEF a1, b1, g1, c1
<1>3. ref' \in [Pids -> Nat]
  BY <1>2
<1>4. PidsCounted'
  <2>1. ASSUME NEW i \in Pids
        PROVE  /\ ref'[i] = Uses(OfPid, i)' + Uses(OfNote, i)' + Uses(OfGroup, i)'
                              + Uses(OfParent, i)'
               /\ Uses(OfPid, i)' <= 1
    <3>1. /\ Uses(OfPid, i)' = Uses(OfPid', i) /\ Uses(OfNote, i)' = Uses(OfNote', i)
          /\ Uses(OfGroup, i)' = Uses(OfGroup', i) /\ Uses(OfParent, i)' = Uses(OfParent', i)
      BY DEF Uses
    <3>2. QED
      BY <1>2, <3>1
  <2>2. QED
    BY <2>1 DEF PidsCounted
<1>5. QED
  BY <1>3, <1>4 DEF PidTable
-----------------------------------------------------------------------------
(* Where the processes are *)

\* Going on is a move.
LEMMA GotoMoves ==
  ASSUME Types, NEW p \in Slot, NEW to \in PCs, Goto(p, to)
  PROVE  Moves(p, to)
BY DEF Types, Goto, Moves

\* So is going on and waking who sleeps on one's waitr.
LEMMA WakeMoves ==
  ASSUME Types, NEW p \in Slot, NEW to \in PCs \ {"asleep"}, NEW t,
         pc' = Wake([pc EXCEPT ![p] = to], t)
  PROVE  /\ Moves(p, to)
         /\ \A q \in Slot \ {p} : pc'[q] = "asleep" => target[q] # t
BY DEF Types, Wake, Moves, PCs, Living, Waiting

\* Processes that do not read, and stay away from it, leave the readers alone.
LEMMA ReadersFrame ==
  ASSUME Readers, NEW p \in Slot, NEW to, Moves(p, to),
         pc[p] \notin Reading, to \notin Reading, UNCHANGED reading
  PROVE  Readers'
BY DEF Readers, Moves, Reading, Waiting, reading

\* The end of a read, for whatever reason.
LEMMA ReturnEffect ==
  ASSUME Types, Readers, NEW p \in Slot, pc[p] \in Reading, Return(p)
  PROVE  /\ Moves(p, "run") /\ Readers'
         /\ qwaitr' \in [Slot -> Slot \cup {Nil}] /\ target' \in [Slot -> Slot \cup {Nil}]
         /\ qid' \in [Slot -> Pids \cup {Nil}]
<1> USE WaitAssumption
<1>1. Moves(p, "run") /\ pc' = [pc EXCEPT ![p] = "run"]
  BY GotoMoves DEF Return, PCs, Living, Goto
<1>2. /\ qwaitr' \in [Slot -> Slot \cup {Nil}] /\ target' \in [Slot -> Slot \cup {Nil}]
      /\ qid' \in [Slot -> Pids \cup {Nil}]
  BY DEF Types, Return
<1>3. /\ target' = [target EXCEPT ![p] = Nil] /\ qid' = [qid EXCEPT ![p] = Nil]
      /\ \A t \in Slot : qwaitr'[t] = IF qwaitr[t] = p THEN Nil ELSE qwaitr[t]
  BY DEF Return
<1>4. Readers'
  BY <1>1, <1>3 DEF Types, Readers, Reading, Waiting
<1>5. QED
  BY <1>1, <1>2, <1>4

\* The first goes and another joins.
LEMMA AppendToTail ==
  ASSUME NEW S, NEW s \in Seq(S), s # <<>>, IsInjective(s), NEW e \in S, e \notin ToSet(s)
  PROVE  /\ Append(Tail(s), e) \in Seq(S) /\ IsInjective(Append(Tail(s), e))
         /\ ToSet(Append(Tail(s), e)) = (ToSet(s) \ {Head(s)}) \cup {e}
<1> DEFINE t == Tail(s)
<1>1. t \in Seq(S) /\ IsInjective(t) /\ ToSet(t) = ToSet(s) \ {Head(s)}
  BY TailMembers
<1>2. e \notin ToSet(t)
  BY <1>1
<1> HIDE DEF t
<1>3. Append(t, e) \in Seq(S)
  BY <1>1, AppendMembers
<1>4. ToSet(Append(t, e)) = ToSet(t) \cup {e}
  BY <1>1, AppendMembers
<1>5. IsInjective(Append(t, e))
  BY <1>1, <1>2, AppendMembers
<1> USE DEF t
<1>6. QED
  BY <1>1, <1>3, <1>4, <1>5

\* Who leaves the list makes it shorter by one.
LEMMA RemoveAtLen ==
  ASSUME NEW S, NEW s \in Seq(S), NEW i \in DOMAIN s
  PROVE  Len(RemoveAt(s, i)) = Len(s) - 1
<1> DEFINE a == SubSeq(s, 1, i - 1)
           b == SubSeq(s, i + 1, Len(s))
<1>1. i \in 1..Len(s) /\ Len(s) \in Nat
  OBVIOUS
<1>2. a \in Seq(S) /\ Len(a) = i - 1
  BY <1>1
<1>3. b \in Seq(S) /\ Len(b) = Len(s) - i
  BY <1>1
<1>4. RemoveAt(s, i) = a \o b
  BY DEF RemoveAt
<1> HIDE DEF a, b
<1>5. a \o b \in Seq(S) /\ DOMAIN (a \o b) = 1..Len(s) - 1
  BY <1>1, <1>2, <1>3
<1>6. Len(a \o b) = Len(s) - 1
  BY <1>1, <1>5
<1>7. QED
  BY <1>4, <1>6

\* Each process that is broken is in the list once, and the list is not longer
\* than it may be.
LEMMA BrokenStep ==
  ASSUME Types, BrokenListed, NEW p \in Slot, addbroken(p) \/ unbreak(p) \/ freebroken
  PROVE  /\ Breaks /\ BrokenListed' /\ broken' \in Seq(Slot)
         /\ UNCHANGED <<ids, changing, family, records, reading>>
<1> USE WaitAssumption DEF At, Goto, Types, BrokenListed, Breaks
<1>1. CASE addbroken(p)
  <2> DEFINE full == Len(broken) = MaxBroken
  <2>1. /\ pc[p] = "left" /\ UNCHANGED <<ids, changing, family, records, reading>>
        /\ broken' = Append(IF full THEN Tail(broken) ELSE broken, p)
        /\ full => pc' = [pc EXCEPT ![p] = "broken", ![Head(broken)] = "doomed"]
        /\ ~full => pc' = [pc EXCEPT ![p] = "broken"]
    BY <1>1 DEF addbroken
  <2>2. Len(broken) \in Nat /\ MaxBroken \in Nat \ {0} /\ (full => broken # <<>>)
    OBVIOUS
  <2>3. p \notin ToSet(broken)
    BY <2>1
  <2>4. CASE full
    <3>1. PICK h \in Slot : h = Head(broken)
      BY <2>2, <2>4, TailMembers
    <3>2. broken' = Append(Tail(broken), p) /\ h \in ToSet(broken)
      BY <2>1, <2>2, <2>4, <3>1, TailMembers
    <3>3. /\ broken' \in Seq(Slot) /\ IsInjective(broken')
          /\ ToSet(broken') = (ToSet(broken) \ {h}) \cup {p}
      BY <2>2, <2>3, <2>4, <3>1, <3>2, AppendToTail
    <3>4. Len(Tail(broken)) = MaxBroken - 1
      BY <2>2, <2>4
    <3>5. Len(broken') <= MaxBroken
      BY <2>2, <3>2, <3>4
    <3>6. h # p /\ pc[h] = "broken"
      BY <2>3, <3>2
    <3>7. /\ pc' \in [Slot -> PCs] /\ pc'[p] = "broken" /\ pc'[h] = "doomed"
          /\ \A s \in Slot \ {p, h} : pc'[s] = pc[s]
      <4>1. pc' = [pc EXCEPT ![p] = "broken", ![h] = "doomed"]
        BY <2>1, <2>4, <3>1
      <4>2. QED
        BY <3>6, <4>1 DEF PCs
    <3>8. ToSet(broken') = {s \in Slot : pc'[s] = "broken"}
      <4>1. ToSet(broken) = {s \in Slot : pc[s] = "broken"}
        OBVIOUS
      <4>2. QED
        BY <3>3, <3>6, <3>7, <4>1
    <3>9. QED
      BY <2>1, <3>3, <3>5, <3>6, <3>7, <3>8
  <2>5. CASE ~full
    <3>1. /\ broken' \in Seq(Slot) /\ IsInjective(broken')
          /\ ToSet(broken') = ToSet(broken) \cup {p}
      BY <2>1, <2>3, <2>5, AppendMembers
    <3>2. Len(broken') <= MaxBroken
      BY <2>1, <2>2, <2>5
    <3>3. /\ pc' \in [Slot -> PCs] /\ pc'[p] = "broken"
          /\ \A s \in Slot \ {p} : pc'[s] = pc[s]
      BY <2>1, <2>5 DEF PCs
    <3>4. ToSet(broken') = {s \in Slot : pc'[s] = "broken"}
      BY <3>1, <3>3
    <3>5. QED
      BY <2>1, <3>1, <3>2, <3>3, <3>4
  <2>6. QED
    BY <2>4, <2>5
<1>2. CASE unbreak(p)
  <2>1. PICK i \in DOMAIN broken : broken[i] = p /\ broken' = RemoveAt(broken, i)
    BY <1>2 DEF unbreak
  <2>2. /\ broken' \in Seq(Slot) /\ IsInjective(broken')
        /\ ToSet(broken') = ToSet(broken) \ {p}
    BY <2>1, RemoveAtMembers
  <2>3. Len(broken') <= MaxBroken
    <3>1. Len(broken) \in Nat /\ Len(broken') = Len(broken) - 1
      <4>1. broken \in Seq(Slot)
        BY DEF Types
      <4>2. Len(RemoveAt(broken, i)) = Len(broken) - 1
        BY ONLY <4>1, RemoveAtLen
      <4>3. QED
        BY ONLY <2>1, <4>1, <4>2
    <3>2. QED
      BY <3>1
  <2>4. p \in ToSet(broken)
    BY <2>1 DEF ToSet
  <2>5. /\ pc[p] = "broken" /\ pc' \in [Slot -> PCs] /\ pc'[p] = "doomed"
        /\ \A s \in Slot \ {p} : pc'[s] = pc[s]
        /\ UNCHANGED <<ids, changing, family, records, reading>>
    BY <1>2, <2>4 DEF unbreak, PCs
  <2>6. ToSet(broken') = {s \in Slot : pc'[s] = "broken"}
    BY <2>2, <2>5
  <2>7. QED
    BY <2>2, <2>3, <2>5, <2>6
<1>3. CASE freebroken
  <2>1. broken' = <<>> /\ ToSet(broken') = {} /\ IsInjective(broken') /\ Len(broken') = 0
    BY <1>3 DEF freebroken, ToSet, IsInjective
  <2>2. /\ pc' \in [Slot -> PCs] /\ UNCHANGED <<ids, changing, family, records, reading>>
        /\ \A s \in Slot : pc'[s] = IF pc[s] = "broken" THEN "doomed" ELSE pc[s]
    BY <1>3 DEF freebroken, PCs
  <2>3. {s \in Slot : pc'[s] = "broken"} = {}
    BY <2>2
  <2>4. Len(broken') <= MaxBroken
    BY <2>1
  <2>5. QED
    BY <2>1, <2>2, <2>3, <2>4
<1>4. QED
  BY <1>1, <1>2, <1>3

\* A process that leaves stays out of the list, and so do its waiters.
LEMMA BrokenFrame ==
  ASSUME BrokenListed, NEW p \in Slot, NEW to, Moves(p, to), pc[p] # "broken", to # "broken",
         UNCHANGED broken
  PROVE  BrokenListed'
BY DEF BrokenListed, Moves, At

\* Whoever changes a noteid goes on undisturbed.
LEMMA UnderwayFrame ==
  ASSUME Underway, UNCHANGED changing,
         \A s \in Slot : step[s] # "none" => pid'[s] # Nil /\ pc'[s] \notin Freeing
  PROVE  Underway'
BY DEF Underway, changing

\* In particular while the others move.
LEMMA UnderwayMoves ==
  ASSUME Underway, UNCHANGED <<changing, pid>>, NEW p \in Slot, NEW to, Moves(p, to),
         to \notin Freeing
  PROVE  Underway'
BY UnderwayFrame DEF Underway, Moves, Freeing

\* No step disturbs who is where, with whose pid, how many records and whose lock.
LEMMA ControlStep ==
  ASSUME Control, [Next]_vars
  PROVE  Control'
<1> USE WaitAssumption DEF At, ids, family, records, reading, Control, Freeing
<1>1. ASSUME Underway',
             UNCHANGED <<pid, noteid, parentpid, family, records, reading, broken, pc>>
      PROVE  Control'
  <2>1. Types' /\ Slots'
    BY <1>1 DEF Types, Slots
  <2>2. Readers' /\ RecordsKept' /\ BrokenListed'
    BY <1>1 DEF Readers, RecordsKept, BrokenListed
  <2>3. QED
    BY <1>1, <2>1, <2>2
<1>2. ASSUME NEW p \in Slot, NewNoteGroup(p) \/ changenoteid(p)
      PROVE  Control'
  <2>1. PICK n \in Pids, to \in {"lookup", "decref"} : Changes(p, n, to)
    BY <1>2 DEF NewNoteGroup, changenoteid, Unused, Types
  <2>2. pid[p] # Nil /\ pc[p] \notin Freeing /\ UNCHANGED <<pid, pc, last>>
    BY <1>2 DEF NewNoteGroup, changenoteid, Slots, Freeing
  <2>3. Underway'
    BY <2>1, <2>2 DEF Underway, Changes, Step, Steps
  <2>4. QED
    BY <1>1, <1>2, <2>3 DEF NewNoteGroup, changenoteid
<1>3. ASSUME NEW p \in Slot, Lookup(p) \/ Incref(p) \/ Decref(p) \/ Forget(p)
      PROVE  Control'
  <2>1. UNCHANGED <<pid, noteid, parentpid, family, records, reading, broken, pc>>
    BY <1>3 DEF Lookup, Incref, Decref, Forget
  <2>2. Lookup(p) => Underway'
    BY <2>1 DEF Lookup, Underway, Step, Steps
  <2>3. Incref(p) => Underway'
    BY <2>1 DEF Incref, Underway, Step, Steps
  <2>4. ASSUME Decref(p)
        PROVE  Underway'
    <3>1. last' \in [Slot -> Pids \cup {Nil}]
      BY <2>4 DEF Decref, piddel, Underway, Types
    <3>2. QED
      BY <2>1, <2>4, <3>1 DEF Decref, Underway, Step, Steps
  <2>5. Forget(p) => Underway'
    BY <2>1 DEF Forget, Underway
  <2>6. Underway'
    BY <1>3, <2>2, <2>3, <2>4, <2>5
  <2>7. QED
    BY <1>1, <2>1, <2>6
<1>17. ASSUME NEW p \in Slot, Store(p)
       PROVE  Control'
  <2>1. /\ step[p] = "store" /\ group[p] \in Pids /\ pid[p] # Nil /\ pc[p] \notin Freeing
        /\ noteid' = [noteid EXCEPT ![p] = group[p]]
        /\ UNCHANGED <<pid, parentpid, last, family, records, reading, broken, pc>>
    BY <1>17 DEF Store, Underway
  <2>2. Underway'
    BY <1>17, <2>1 DEF Store, Underway, Step, Steps
  <2>3. Types' /\ Slots'
    BY <2>1 DEF Types, Slots
  <2>4. Readers' /\ RecordsKept' /\ BrokenListed'
    BY <2>1 DEF Readers, RecordsKept, BrokenListed
  <2>5. QED
    BY <2>2, <2>3, <2>4
<1>18. ASSUME NEW p \in Slot, Free(p) \/ FreeNote(p) \/ FreeParent(p)
       PROVE  Control'
  <2>1. PICK to \in Freeing : Goto(p, to)
    BY <1>18 DEF Free, FreeNote, FreeParent, Freeing
  <2>2. /\ pc[p] \in {"left", "doomed"} \cup Freeing /\ step[p] = "none"
        /\ UNCHANGED <<pid, noteid, parentpid, step, group, family, records, reading, broken>>
    BY <1>18 DEF Free, FreeNote, FreeParent, Freeing, Underway
  <2>3. Moves(p, to) /\ to \notin Reading
    BY <2>1, GotoMoves DEF PCs, Freeing, Reading, Waiting
  <2>4. \E i \in Pids : piddel(p, i)
    BY <1>18, <2>2 DEF Free, FreeNote, FreeParent, Types, Slots, Freeing
  <2>5. Underway'
    <3>1. last' \in [Slot -> Pids \cup {Nil}]
      BY <2>4 DEF piddel, Underway
    <3>2. QED
      BY <2>2, <2>3, <3>1 DEF Underway, Moves, Freeing
  <2>6. Types'
    BY <2>2, <2>3 DEF Types, Moves
  <2>7. Slots'
    BY <2>2, <2>3 DEF Slots, Moves, Freeing
  <2>8. RecordsKept'
    BY <2>2, <2>3 DEF RecordsKept, Moves, Freeing
  <2>9. Readers' /\ BrokenListed'
    BY <2>2, <2>3, ReadersFrame, BrokenFrame DEF Reading, Waiting, Freeing
  <2>10. QED
    BY <2>5, <2>6, <2>7, <2>8, <2>9
<1>4. ASSUME NEW p \in Slot, Exit(p)
      PROVE  Control'
  <2>1. PICK to \in {"leave", "left"} : Goto(p, to) /\ (to = "leave" => parent[p] # Nil)
    BY <1>4 DEF Exit, Waitable
  <2>2. to \in PCs /\ Moves(p, to)
    BY <2>1, GotoMoves DEF PCs, Living
  <2>3. pc[p] = "run" /\ parentpid[p] # Nil /\ UNCHANGED <<ids, family, records, reading, broken>>
    BY <1>4 DEF Exit
  <2>4. Types' /\ Slots'
    BY <2>1, <2>2, <2>3 DEF Types, Slots, Moves
  <2>5. Readers' /\ BrokenListed'
    BY <2>1, <2>2, <2>3, ReadersFrame, BrokenFrame DEF Reading, Waiting
  <2>6. RecordsKept'
    BY <2>1, <2>2, <2>3 DEF RecordsKept, Moves
  <2>7. Underway'
    BY <1>4, <2>1, <2>2, UnderwayMoves DEF Exit, Freeing
  <2>8. QED
    BY <2>4, <2>5, <2>6, <2>7
<1>5. ASSUME NEW p \in Slot, Leave(p)
      PROVE  Control'
  <2> DEFINE q == parent[p]
  <2>1. /\ pc[p] = "leave" /\ q \in Slot /\ parentpid[p] # Nil
        /\ UNCHANGED <<ids, parent, reading, broken>>
    BY <1>5 DEF Leave, Types, Slots
  <2>2. Moves(p, "left")
    <3>1. "left" \in PCs \ {"asleep"}
      BY DEF PCs, Living, Waiting
    <3>2. Goto(p, "left") \/ pc' = Wake([pc EXCEPT ![p] = "left"], q)
      BY <1>5 DEF Leave, Goto
    <3>3. QED
      BY <3>1, <3>2, GotoMoves, WakeMoves
  <2>3. \/ UNCHANGED records
        \/ /\ pid[q] # Nil /\ nwait[q] < MaxWait /\ Record(q)
    BY <1>5, <2>1 DEF Leave, Waitable
  <2>4. RecordsKept' /\ nwait' \in [Slot -> Nat] /\ waitq' \in [Slot -> Nat]
    <3>1. CASE UNCHANGED records
      BY <2>1, <2>2, <3>1 DEF RecordsKept, Moves, Types
    <3>2. CASE pid[q] # Nil /\ nwait[q] < MaxWait /\ Record(q)
      <4>1. /\ nwait' = [nwait EXCEPT ![q] = @ + 1] /\ waitq' = [waitq EXCEPT ![q] = @ + 1]
            /\ nwait[q] = waitq[q] /\ waitq[q] + 1 <= MaxWait
        BY <2>1, <3>2 DEF Record, RecordsKept, Types
      <4>2. q # p => pc'[q] # "dead"
        BY <2>1, <2>2, <3>2 DEF Moves, Slots
      <4>3. nwait' \in [Slot -> Nat] /\ waitq' \in [Slot -> Nat]
        BY <2>1, <4>1 DEF Types
      <4>4. RecordsKept'
        BY <2>1, <2>2, <4>1, <4>2 DEF RecordsKept, Moves, Types
      <4>5. QED
        BY <4>3, <4>4
    <3>3. QED
      BY <2>3, <3>1, <3>2
  <2>5. Types'
    BY <2>1, <2>2, <2>4 DEF Types, Moves
  <2>6. Slots'
    <3>1. \A s \in Slot : pid[s] = Nil => nwait'[s] = nwait[s] /\ waitq'[s] = waitq[s]
      BY <2>3 DEF Record, Types
    <3>2. QED
      BY <2>1, <2>2, <3>1 DEF Slots, Moves
  <2>7. Readers' /\ BrokenListed'
    BY <2>1, <2>2, ReadersFrame, BrokenFrame DEF Reading, Waiting
  <2>8. Underway'
    BY <1>5, <2>2, UnderwayMoves DEF Leave, Freeing
  <2>9. QED
    BY <2>4, <2>5, <2>6, <2>7, <2>8
<1>6. ASSUME NEW p \in Slot, addbroken(p) \/ unbreak(p) \/ freebroken
      PROVE  Control'
  <2>1. /\ Breaks /\ BrokenListed' /\ broken' \in Seq(Slot)
        /\ UNCHANGED <<ids, changing, family, records, reading>>
    BY <1>6, BrokenStep
  <2>2. Types'
    BY <2>1 DEF Types, Breaks
  <2>3. Slots'
    BY <2>1 DEF Slots, Breaks
  <2>4. Readers'
    BY <2>1 DEF Readers, Breaks, Reading, Waiting
  <2>5. RecordsKept'
    BY <2>1 DEF RecordsKept, Breaks
  <2>6. Underway'
    BY <2>1, UnderwayFrame DEF Underway, Breaks, Freeing
  <2>7. QED
    BY <2>1, <2>2, <2>3, <2>4, <2>5, <2>6
<1>7. ASSUME NEW p \in Slot, FreeEnd(p)
      PROVE  Control'
  <2>1. /\ pc[p] = "freed" /\ step[p] = "none" /\ UNCHANGED <<changing, waitq, reading, broken>>
        /\ pid' = [pid EXCEPT ![p] = Nil] /\ noteid' = [noteid EXCEPT ![p] = Nil]
        /\ parentpid' = [parentpid EXCEPT ![p] = Nil]
        /\ parent' = [parent EXCEPT ![p] = Nil] /\ nwait' = [nwait EXCEPT ![p] = 0]
    BY <1>7 DEF FreeEnd, Underway, Freeing
  <2>2. Moves(p, "drain")
    BY <1>7, WakeMoves DEF FreeEnd, PCs, Living, Waiting
  <2>3. Types'
    BY <2>1, <2>2 DEF Types, Moves
  <2>4. Slots'
    BY <2>1, <2>2 DEF Types, Slots, Moves
  <2>5. RecordsKept'
    BY <2>1, <2>2 DEF Types, RecordsKept, Moves
  <2>6. Readers' /\ BrokenListed'
    BY <2>1, <2>2, ReadersFrame, BrokenFrame DEF Reading, Waiting
  <2>7. Underway'
    BY <2>1, <2>2, <2>3, UnderwayFrame DEF Underway, Types, Moves, Freeing
  <2>8. QED
    BY <2>3, <2>4, <2>5, <2>6, <2>7
<1>8. ASSUME NEW p \in Slot, Drain(p)
      PROVE  Control'
  <2>1. /\ pc[p] = "drain" /\ UNCHANGED <<ids, changing, family, nwait, reading, broken>>
        /\ waitq' = [waitq EXCEPT ![p] = 0]
    BY <1>8 DEF Drain
  <2>2. Moves(p, "dead")
    BY <1>8, GotoMoves DEF Drain, PCs
  <2>3. Types'
    BY <2>1, <2>2 DEF Types, Moves
  <2>4. Slots'
    BY <2>1, <2>2 DEF Types, Slots, Moves
  <2>5. RecordsKept'
    BY <2>1, <2>2 DEF Types, RecordsKept, Moves, Slots
  <2>6. Readers' /\ BrokenListed'
    BY <2>1, <2>2, ReadersFrame, BrokenFrame DEF Reading, Waiting
  <2>7. Underway'
    BY <1>8, <2>1, <2>2, UnderwayMoves DEF Drain, Freeing
  <2>8. QED
    BY <2>3, <2>4, <2>5, <2>6, <2>7
<1>9. ASSUME NEW p \in Slot, Canqlock(p)
      PROVE  Control'
  <2>1. pc[p] = "lock" /\ target[p] \in Slot /\ UNCHANGED <<ids, changing, family, records, broken>>
    BY <1>9 DEF Canqlock, Types, Readers, Reading
  <2>2. CASE qwaitr[target[p]] = Nil
    <3>1. /\ Goto(p, "look") /\ UNCHANGED <<target, qid>>
          /\ qwaitr' = [qwaitr EXCEPT ![target[p]] = p]
      BY <1>9, <2>2 DEF Canqlock
    <3>2. Moves(p, "look")
      BY <3>1, GotoMoves DEF PCs, Living, Waiting
    <3>3. Types'
      BY <2>1, <3>1, <3>2 DEF Types, Moves
    <3>4. Readers'
      BY <2>1, <2>2, <3>1, <3>2 DEF Types, Readers, Moves, Reading, Waiting
    <3>5. Slots' /\ RecordsKept' /\ BrokenListed'
      BY <2>1, <3>2, BrokenFrame DEF Slots, RecordsKept, Moves
    <3>6. Underway'
      BY <1>9, <3>2, UnderwayMoves DEF Canqlock, Freeing
    <3>7. QED
      BY <3>3, <3>4, <3>5, <3>6
  <2>3. CASE qwaitr[target[p]] # Nil
    <3>1. Return(p)
      BY <1>9, <2>3 DEF Canqlock
    <3>2. Moves(p, "run") /\ Readers' /\ Types'
      BY <2>1, <3>1, ReturnEffect DEF Types, Reading, Moves
    <3>3. Slots' /\ RecordsKept' /\ BrokenListed'
      BY <2>1, <3>2, BrokenFrame DEF Slots, RecordsKept, Moves
    <3>4. Underway'
      BY <1>9, <3>2, UnderwayMoves DEF Canqlock, Freeing
    <3>5. QED
      BY <3>2, <3>3, <3>4
  <2>4. QED
    BY <2>2, <2>3
<1>10. ASSUME NEW p \in Slot, Look(p)
       PROVE  Control'
  <2> DEFINE t == target[p]
  <2>1. pc[p] \in {"look", "woken"} /\ t \in Slot /\ UNCHANGED <<ids, changing, family, broken>>
    BY <1>10 DEF Look, Types, Readers, Reading, Waiting
  <2>2. CASE Return(p) /\ UNCHANGED records
    <3>1. Moves(p, "run") /\ Readers' /\ Types'
      BY <2>1, <2>2, ReturnEffect DEF Types, Reading, Waiting, Moves
    <3>2. Slots' /\ RecordsKept' /\ BrokenListed'
      BY <2>1, <2>2, <3>1, BrokenFrame DEF Slots, RecordsKept, Moves
    <3>3. Underway'
      BY <2>1, <3>1, UnderwayMoves DEF Freeing
    <3>4. QED
      BY <3>1, <3>2, <3>3
  <2>3. CASE /\ ~Gone(p) /\ waitq[t] > 0 /\ Return(p)
             /\ waitq' = [waitq EXCEPT ![t] = @ - 1]
             /\ nwait' = [nwait EXCEPT ![t] = @ - 1]
    <3>1. pid[t] # Nil /\ nwait[t] = waitq[t] /\ waitq[t] <= MaxWait /\ waitq[t] \in Nat
      BY <2>1, <2>3 DEF Gone, Readers, RecordsKept, Types
    <3>2. nwait' \in [Slot -> Nat] /\ waitq' \in [Slot -> Nat]
      BY <2>1, <2>3, <3>1 DEF Types
    <3>3. Moves(p, "run") /\ Readers' /\ Types'
      BY <2>1, <2>3, <3>2, ReturnEffect DEF Types, Reading, Waiting, Moves
    <3>4. pc[t] # "dead" /\ pc'[t] # "dead"
      BY <2>1, <3>1, <3>3 DEF Slots, Moves
    <3>5. Slots' /\ BrokenListed'
      BY <2>1, <2>3, <3>1, <3>3, <3>4, BrokenFrame DEF Types, Slots, Moves
    <3>6. RecordsKept'
      <4>1. /\ nwait'[t] = nwait[t] - 1 /\ waitq'[t] = waitq[t] - 1
            /\ \A s \in Slot \ {t} : nwait'[s] = nwait[s] /\ waitq'[s] = waitq[s]
        BY <2>1, <2>3 DEF Types
      <4>2. nwait'[t] = waitq'[t] /\ waitq'[t] <= MaxWait
        BY <3>1, <4>1
      <4>3. QED
        BY <2>1, <3>3, <3>4, <4>1, <4>2 DEF RecordsKept, Moves
    <3>7. Underway'
      BY <2>1, <3>3, UnderwayMoves DEF Freeing
    <3>8. QED
      BY <3>3, <3>5, <3>6, <3>7
  <2>4. CASE Goto(p, "tosleep") /\ UNCHANGED <<records, reading>>
    <3>1. Moves(p, "tosleep")
      BY <2>4, GotoMoves DEF PCs, Living, Waiting
    <3>2. Types' /\ Slots' /\ RecordsKept' /\ BrokenListed'
      BY <2>1, <2>4, <3>1, BrokenFrame DEF Types, Slots, RecordsKept, Moves
    <3>3. Readers'
      BY <2>1, <2>4, <3>1 DEF Readers, Reading, Waiting, Moves
    <3>4. Underway'
      BY <2>1, <3>1, UnderwayMoves DEF Freeing
    <3>5. QED
      BY <3>2, <3>3, <3>4
  <2>5. QED
    BY <1>10, <2>2, <2>3, <2>4 DEF Look
<1>11. ASSUME NEW p \in Slot, Sleep(p)
       PROVE  Control'
  <2>1. PICK to \in {"woken", "asleep"} : Goto(p, to)
    BY <1>11 DEF Sleep
  <2>2. pc[p] = "tosleep" /\ Moves(p, to) /\ UNCHANGED <<ids, changing, family, records, reading, broken>>
    BY <1>11, <2>1, GotoMoves DEF Sleep, PCs, Living, Waiting
  <2>3. Types' /\ Slots' /\ RecordsKept' /\ BrokenListed'
    BY <2>2, BrokenFrame DEF Types, Slots, RecordsKept, Moves
  <2>4. Readers'
    BY <2>2 DEF Readers, Reading, Waiting, Moves
  <2>5. Underway'
    BY <2>2, UnderwayMoves DEF Freeing
  <2>6. QED
    BY <2>3, <2>4, <2>5
<1>12. ASSUME NEW p \in Slot, Interrupt(p)
       PROVE  Control'
  <2>1. /\ pc[p] \in {"tosleep", "asleep", "woken"} /\ Return(p)
        /\ UNCHANGED <<ids, changing, family, records, broken>>
    BY <1>12 DEF Interrupt
  <2>2. Moves(p, "run") /\ Readers' /\ Types'
    BY <2>1, ReturnEffect DEF Types, Reading, Waiting, Moves
  <2>3. Slots' /\ RecordsKept' /\ BrokenListed'
    BY <2>1, <2>2, BrokenFrame DEF Slots, RecordsKept, Moves
  <2>4. Underway'
    BY <2>1, <2>2, UnderwayMoves DEF Freeing
  <2>5. QED
    BY <2>2, <2>3, <2>4
<1>13. ASSUME NEW p \in Slot, NEW c \in Slot, Fork(p, c)
       PROVE  Control'
  <2>1. PICK i \in Unused : \E n \in {i, noteid[p]} : pidalloc(p, c, i, n)
    BY <1>13 DEF Fork
  <2>2. PICK n \in {i, noteid[p]} : pidalloc(p, c, i, n)
    BY <2>1
  <2>3. /\ pc[p] = "run" /\ pc[c] = "dead" /\ UNCHANGED <<changing, records, reading, broken>>
        /\ pid' = [pid EXCEPT ![c] = i] /\ noteid' = [noteid EXCEPT ![c] = n]
        /\ parentpid' = [parentpid EXCEPT ![c] = pid[p]]
        /\ parent' = parent \/ parent' = [parent EXCEPT ![c] = p]
    BY <1>13, <2>2 DEF Fork, pidalloc
  <2>4. pid[p] \in Pids /\ noteid[p] \in Pids /\ i \in Pids /\ n \in Pids
    <3>1. pid[p] # Nil /\ noteid[p] # Nil
      BY <2>3 DEF Slots
    <3>2. i \in Pids
      BY DEF Unused
    <3>3. QED
      BY <3>1, <3>2 DEF Types
  <2>5. Moves(c, "run")
    BY <1>13, GotoMoves DEF Fork, PCs, Living
  <2>6. Types'
    <3>1. parent' \in [Slot -> Slot \cup {Nil}]
      BY <2>3 DEF Types
    <3>2. QED
      BY <2>3, <2>4, <2>5, <3>1 DEF Types, Moves
  <2>7. Slots'
    BY <2>3, <2>4, <2>5 DEF Types, Slots, Moves
  <2>8. Readers' /\ BrokenListed'
    BY <2>3, <2>5, ReadersFrame, BrokenFrame DEF Reading, Waiting
  <2>9. RecordsKept'
    BY <2>3, <2>4, <2>5 DEF Types, RecordsKept, Moves
  <2>10. Underway'
    BY <2>3, <2>4, <2>5, UnderwayFrame DEF Underway, Types, Moves, Freeing
  <2>11. QED
    BY <2>6, <2>7, <2>8, <2>9, <2>10
<1>14. ASSUME NEW p \in Slot, NEW t \in Slot, Open(p, t)
       PROVE  Control'
  <2>1. /\ pc[p] = "run" /\ pid[t] \in Pids /\ UNCHANGED <<ids, changing, family, records, qwaitr, broken>>
        /\ target' = [target EXCEPT ![p] = t] /\ qid' = [qid EXCEPT ![p] = pid[t]]
    BY <1>14 DEF Open, Types
  <2>2. Moves(p, "lock")
    BY <1>14, GotoMoves DEF Open, PCs, Living
  <2>3. Types' /\ Slots' /\ RecordsKept' /\ BrokenListed'
    <3>1. Types'
      BY <2>1, <2>2 DEF Types, Moves
    <3>2. Slots'
      BY <2>1, <2>2 DEF Types, Slots, Moves
    <3>3. RecordsKept'
      BY <2>1, <2>2 DEF Types, RecordsKept, Moves
    <3>4. BrokenListed'
      BY <2>1, <2>2, BrokenFrame
    <3>5. QED
      BY ONLY <3>1, <3>2, <3>3, <3>4
  <2>4. Readers'
    <3>1. Moves(p, "lock") /\ pc[p] = "run" /\ qwaitr' = qwaitr
      BY <2>1, <2>2
    <3>2. /\ target' = [target EXCEPT ![p] = t] /\ target \in [Slot -> Slot \cup {Nil}]
          /\ qid' = [qid EXCEPT ![p] = pid[t]] /\ qid \in [Slot -> Pids \cup {Nil}]
          /\ pid[t] \in Pids
      BY <2>1 DEF Types
    <3>3. QED
      BY ONLY <3>1, <3>2, Readers, WaitAssumption DEF Readers, Reading, Waiting, Moves
  <2>5. Underway'
    BY <2>1, <2>2, UnderwayMoves DEF Freeing
  <2>6. QED
    BY <2>3, <2>4, <2>5
<1>15. CASE UNCHANGED vars
  BY <1>1, <1>15, UnderwayFrame DEF vars, Underway
<1>16. QED
  BY <1>2, <1>3, <1>4, <1>5, <1>6, <1>7, <1>8, <1>9, <1>10, <1>11, <1>12, <1>13, <1>14,
     <1>15, <1>17, <1>18 DEF Next
-----------------------------------------------------------------------------
(* The references to pids *)

\* Nobody who moves comes to pidfree(), or leaves it: nothing is counted anew.
LEMMA PidsFrame ==
  ASSUME PidTable, UNCHANGED <<pid, noteid, parentpid, ref, step, group>>, table' \subseteq Pids,
         \A s \in Slot : pc'[s] = pc[s] \/ (pc[s] \notin Freeing /\ pc'[s] \notin Freeing)
  PROVE  PidTable'
<1>1. OfPid' = OfPid /\ OfNote' = OfNote /\ OfGroup' = OfGroup /\ OfParent' = OfParent
  BY DEF OfPid, OfNote, OfGroup, OfParent, Freeing
<1>2. QED
  BY <1>1 DEF PidTable, PidsCounted, Uses

\* No step loses a reference, or gives out a pid that is referred to.
LEMMA PidsStep ==
  ASSUME Control, Control', PidTable, [Next]_vars
  PROVE  PidTable'
<1> USE WaitAssumption DEF At
<1> DEFINE Same(p) == \A t \in Slot \ {p} :
                        /\ OfPid'[t] = OfPid[t] /\ OfNote'[t] = OfNote[t]
                        /\ OfGroup'[t] = OfGroup[t] /\ OfParent'[t] = OfParent[t]
<1>1. ASSUME NEW p \in Slot, NEW i \in Pids, Same(p), UNCHANGED table,
             ref' = incref(ref, i) \/ ref' = [ref EXCEPT ![i] = @ - 1] \/ ref' = ref,
             \A j \in Pids : ref'[j] = ref[j] + Gain(p, j),
             OfPid'[p] \in {OfPid[p], Nil}
      PROVE  PidTable'
  <2>1. /\ DOMAIN ref' = Pids /\ ref' = [j \in Pids |-> ref'[j]]
    BY <1>1 DEF incref, PidTable
  <2>2. table' \subseteq Pids
    BY <1>1 DEF PidTable
  <2>3. \A j \in Pids : OfPid'[p] = j => OfPid[p] = j \/ ref[j] = 0
    BY <1>1
  <2>4. QED
    BY <1>1, <2>1, <2>2, <2>3, Recount DEF Control
<1>2. ASSUME NEW p \in Slot, NewNoteGroup(p)
      PROVE  PidTable'
  <2>1. PICK n \in Unused : /\ Changes(p, n, "decref")
                            /\ ref' = incref(ref, n) /\ table' = table \cup {n}
    BY <1>2 DEF NewNoteGroup
  <2>2. /\ step[p] = "none" /\ step'[p] = "decref" /\ group'[p] = n /\ n \in Pids
        /\ \A t \in Slot \ {p} : step'[t] = step[t] /\ group'[t] = group[t]
        /\ UNCHANGED <<pid, noteid, parentpid, pc>>
    BY <1>2, <2>1 DEF NewNoteGroup, Changes, Step, Unused, Control, Underway
  <2>3. Same(p)
    BY <2>2 DEF OfPid, OfNote, OfGroup, OfParent
  <2>4. /\ OfPid'[p] = OfPid[p] /\ OfNote'[p] = OfNote[p] /\ OfParent'[p] = OfParent[p]
        /\ OfGroup[p] = Nil /\ OfGroup'[p] = n
    BY <2>2 DEF OfPid, OfNote, OfGroup, OfParent
  <2>5. /\ DOMAIN ref' = Pids /\ ref' = [i \in Pids |-> ref'[i]] /\ table' \subseteq Pids
    BY <2>1, <2>2 DEF incref, PidTable
  <2>6. \A i \in Pids : ref[i] \in Nat /\ ref'[i] = IF i = n THEN ref[i] + 1 ELSE ref[i]
    BY <2>1, <2>2 DEF incref, PidTable
  <2>7. \A i \in Pids : ref'[i] = ref[i] + Gain(p, i)
    BY <2>4, <2>6 DEF Gain, One
  <2>8. QED
    BY <2>3, <2>4, <2>5, <2>7, Recount DEF Control
<1>3. ASSUME NEW p \in Slot, changenoteid(p) \/ Lookup(p)
      PROVE  PidTable'
  <2>1. /\ UNCHANGED <<pid, noteid, parentpid, ref, table, pc>>
        /\ step[p] \in {"none", "lookup"} /\ step'[p] \in {"none", "lookup", "incref"}
        /\ \A t \in Slot \ {p} : step'[t] = step[t] /\ group'[t] = group[t]
    BY <1>3 DEF changenoteid, Lookup, Changes, Step, Control, Underway, ids
  <2>2. OfPid' = OfPid /\ OfNote' = OfNote /\ OfGroup' = OfGroup /\ OfParent' = OfParent
    BY <2>1 DEF OfPid, OfNote, OfGroup, OfParent
  <2>3. QED
    BY <2>1, <2>2 DEF PidTable, PidsCounted, Uses
<1>4. ASSUME NEW p \in Slot, Incref(p)
      PROVE  PidTable'
  <2>1. /\ step[p] = "incref" /\ step'[p] = "decref" /\ group[p] \in Pids
        /\ \A t \in Slot \ {p} : step'[t] = step[t]
        /\ ref' = incref(ref, group[p]) /\ UNCHANGED <<pid, noteid, parentpid, table, group, pc>>
    BY <1>4 DEF Incref, Step, Control, Underway
  <2>2. Same(p)
    BY <2>1 DEF OfPid, OfNote, OfGroup, OfParent
  <2>3. /\ OfPid'[p] = OfPid[p] /\ OfNote'[p] = OfNote[p] /\ OfParent'[p] = OfParent[p]
        /\ OfGroup[p] = Nil /\ OfGroup'[p] = group[p]
    BY <2>1 DEF OfPid, OfNote, OfGroup, OfParent
  <2>4. \A i \in Pids : /\ ref[i] \in Nat
                        /\ ref'[i] = IF i = group[p] THEN ref[i] + 1 ELSE ref[i]
    BY <2>1 DEF incref, PidTable
  <2>5. \A i \in Pids : ref'[i] = ref[i] + Gain(p, i)
    BY <2>3, <2>4 DEF Gain, One
  <2>6. QED
    BY <1>1, <2>1, <2>2, <2>3, <2>5
<1>5. ASSUME NEW p \in Slot, Decref(p) \/ Free(p) \/ FreeNote(p) \/ FreeParent(p)
      PROVE  PidTable'
  <2> DEFINE old == IF Free(p) THEN pid[p] ELSE IF FreeParent(p) THEN parentpid[p] ELSE noteid[p]
  <2>1. /\ piddel(p, old) /\ UNCHANGED <<pid, noteid, parentpid, table, group>>
        /\ \A t \in Slot \ {p} : step'[t] = step[t] /\ pc'[t] = pc[t]
    <3>1. /\ Free(p) => ~FreeParent(p)
          /\ Decref(p) \/ FreeNote(p) => ~Free(p) /\ ~FreeParent(p)
      BY DEF Decref, Free, FreeNote, FreeParent, Control, Underway, Freeing
    <3>2. piddel(p, old) /\ UNCHANGED <<pid, noteid, parentpid, table, group>>
      BY <1>5, <3>1 DEF Decref, Free, FreeNote, FreeParent
    <3>3. \A t \in Slot \ {p} : step'[t] = step[t] /\ pc'[t] = pc[t]
      <4>1. step \in [Slot -> Steps] /\ pc \in [Slot -> PCs]
        BY DEF Control, Types, Underway
      <4>2. CASE Decref(p)
        BY ONLY <4>1, <4>2 DEF Decref, Step
      <4>3. CASE Free(p) \/ FreeNote(p) \/ FreeParent(p)
        BY ONLY <4>1, <4>3 DEF Free, FreeNote, FreeParent, Goto
      <4>4. QED
        BY <1>5, <4>2, <4>3
    <3>4. QED
      BY <3>2, <3>3
  <2>2. old \in Pids
    BY <1>5 DEF Decref, Free, FreeNote, FreeParent, Control, Types, Slots, Underway, Freeing
  <2>3. Same(p)
    BY <2>1 DEF OfPid, OfNote, OfGroup, OfParent
  <2>4. \A i \in Pids : /\ ref[i] \in Nat
                        /\ ref'[i] = IF i = old THEN ref[i] - 1 ELSE ref[i]
    BY <2>1, <2>2 DEF piddel, PidTable
  <2>5. /\ OfPid'[p] = IF Free(p) THEN Nil ELSE OfPid[p]
        /\ Free(p) => OfPid[p] = old
        /\ OfNote'[p] = IF Decref(p) \/ FreeNote(p) THEN Nil ELSE OfNote[p]
        /\ Decref(p) \/ FreeNote(p) => OfNote[p] = old
        /\ OfParent'[p] = IF FreeParent(p) THEN Nil ELSE OfParent[p]
        /\ FreeParent(p) => OfParent[p] = old
        /\ OfGroup'[p] = OfGroup[p]
    <3>1. CASE Decref(p)
      <4>1. /\ step[p] = "decref" /\ step'[p] = "store" /\ pc' = pc /\ pc[p] \notin Freeing
            /\ ~Free(p) /\ ~FreeNote(p) /\ ~FreeParent(p)
        BY <3>1 DEF Decref, Free, FreeNote, FreeParent, Step, Control, Underway, Freeing
      <4>2. QED
        BY <2>1, <3>1, <4>1 DEF OfPid, OfNote, OfGroup, OfParent, Freeing
    <3>2. CASE Free(p)
      <4>1. /\ step[p] = "none" /\ step' = step /\ pc[p] \in {"left", "doomed"}
            /\ pc'[p] = "freenote" /\ ~Decref(p) /\ ~FreeNote(p) /\ ~FreeParent(p)
        BY <3>2 DEF Decref, Free, FreeNote, FreeParent, Goto, Control, Types
      <4>2. QED
        BY <2>1, <3>2, <4>1 DEF OfPid, OfNote, OfGroup, OfParent, Freeing
    <3>3. CASE FreeNote(p)
      <4>1. /\ step[p] = "none" /\ step' = step /\ pc[p] = "freenote" /\ pc'[p] = "freeparent"
            /\ ~Decref(p) /\ ~Free(p) /\ ~FreeParent(p)
        BY <3>3 DEF Decref, Free, FreeNote, FreeParent, Goto, Control, Types, Underway, Freeing
      <4>2. QED
        BY <2>1, <3>3, <4>1 DEF OfPid, OfNote, OfGroup, OfParent, Freeing
    <3>4. CASE FreeParent(p)
      <4>1. /\ step[p] = "none" /\ step' = step /\ pc[p] = "freeparent" /\ pc'[p] = "freed"
            /\ ~Decref(p) /\ ~Free(p) /\ ~FreeNote(p)
        BY <3>4 DEF Decref, Free, FreeNote, FreeParent, Goto, Control, Types, Underway, Freeing
      <4>2. QED
        BY <2>1, <3>4, <4>1 DEF OfPid, OfNote, OfGroup, OfParent, Freeing
    <3>5. QED
      BY <1>5, <3>1, <3>2, <3>3, <3>4
  <2>6. \/ Free(p) /\ ~(Decref(p) \/ FreeNote(p)) /\ ~FreeParent(p)
        \/ ~Free(p) /\ (Decref(p) \/ FreeNote(p)) /\ ~FreeParent(p)
        \/ ~Free(p) /\ ~(Decref(p) \/ FreeNote(p)) /\ FreeParent(p)
    BY <1>5 DEF Decref, Free, FreeNote, FreeParent, Control, Underway, Freeing
  <2>7. ref' = [ref EXCEPT ![old] = @ - 1]
    BY <2>1 DEF piddel
  <2> HIDE DEF old
  <2>8. \A i \in Pids : ref'[i] = ref[i] + Gain(p, i)
    <3>1. CASE Free(p) /\ ~(Decref(p) \/ FreeNote(p)) /\ ~FreeParent(p)
      BY <2>2, <2>4, <2>5, <3>1 DEF Gain, One
    <3>2. CASE ~Free(p) /\ (Decref(p) \/ FreeNote(p)) /\ ~FreeParent(p)
      BY <2>2, <2>4, <2>5, <3>2 DEF Gain, One
    <3>3. CASE ~Free(p) /\ ~(Decref(p) \/ FreeNote(p)) /\ FreeParent(p)
      BY <2>2, <2>4, <2>5, <3>3 DEF Gain, One
    <3>4. QED
      BY <2>6, <3>1, <3>2, <3>3
  <2>9. QED
    BY <1>1, <2>1, <2>2, <2>3, <2>5, <2>7, <2>8
<1>6. ASSUME NEW p \in Slot, Store(p)
      PROVE  PidTable'
  <2>1. /\ step[p] = "store" /\ step'[p] = "none" /\ group[p] \in Pids /\ pc[p] \notin Freeing
        /\ noteid'[p] = group[p] /\ UNCHANGED <<pid, parentpid, ref, table, pc>>
        /\ \A t \in Slot \ {p} : /\ step'[t] = step[t] /\ group'[t] = group[t]
                                 /\ noteid'[t] = noteid[t]
    BY <1>6 DEF Store, Step, Control, Types, Underway
  <2>2. Same(p)
    BY <2>1 DEF OfPid, OfNote, OfGroup, OfParent
  <2>3. /\ OfPid'[p] = OfPid[p] /\ OfParent'[p] = OfParent[p]
        /\ OfGroup[p] = group[p] /\ OfGroup'[p] = Nil
        /\ OfNote[p] = Nil /\ OfNote'[p] = group[p]
    BY <2>1 DEF OfPid, OfNote, OfGroup, OfParent, Freeing
  <2>4. \A i \in Pids : ref[i] \in Nat /\ ref'[i] = ref[i]
    BY <2>1 DEF PidTable
  <2>5. \A i \in Pids : ref'[i] = ref[i] + Gain(p, i)
    BY <2>3, <2>4 DEF Gain, One
  <2>6. QED
    BY <1>1, <2>1, <2>2, <2>3, <2>5
<1>7. ASSUME NEW p \in Slot, FreeEnd(p)
      PROVE  PidTable'
  <2>1. /\ pc[p] = "freed" /\ step[p] = "none"
        /\ pid'[p] = Nil /\ noteid'[p] = Nil /\ parentpid'[p] = Nil
        /\ \A t \in Slot \ {p} : /\ pid'[t] = pid[t] /\ noteid'[t] = noteid[t]
                                 /\ parentpid'[t] = parentpid[t]
        /\ UNCHANGED <<ref, table, step, group>>
    BY <1>7 DEF FreeEnd, Control, Types, Underway, Freeing, changing
  <2>2. Moves(p, "drain")
    BY <1>7, WakeMoves DEF FreeEnd, Control, PCs, Living, Waiting
  <2>3. /\ OfPid' = OfPid /\ OfNote' = OfNote /\ OfGroup' = OfGroup /\ OfParent' = OfParent
    <3>1. \A t \in Slot \ {p} : pc'[t] = pc[t] \/ (pc[t] \notin Freeing /\ pc'[t] \notin Freeing)
      BY <2>2 DEF Moves, Freeing
    <3>2. pc'[p] = "drain"
      BY <2>2 DEF Moves
    <3>3. \A t \in Slot : /\ OfPid'[t] = OfPid[t] /\ OfNote'[t] = OfNote[t]
                          /\ OfGroup'[t] = OfGroup[t] /\ OfParent'[t] = OfParent[t]
      BY <2>1, <3>1, <3>2 DEF OfPid, OfNote, OfGroup, OfParent, Freeing
    <3>4. QED
      BY <3>3 DEF OfPid, OfNote, OfGroup, OfParent
  <2>4. QED
    BY <2>1, <2>3 DEF PidTable, PidsCounted, Uses
<1>8. ASSUME NEW p \in Slot, NEW q \in Slot, Fork(p, q), PidsOutlive
      PROVE  PidTable'
  <2>1. PICK n0 \in Unused : \E n \in {n0, noteid[p]} : pidalloc(p, q, n0, n)
    BY <1>8 DEF Fork
  <2>2. PICK n \in {n0, noteid[p]} : pidalloc(p, q, n0, n)
    BY <2>1
  <2>3. /\ pc[p] = "run" /\ pc[q] = "dead" /\ pid[q] = Nil /\ noteid[q] = Nil
        /\ parentpid[q] = Nil /\ step[q] = "none" /\ UNCHANGED <<step, group>>
        /\ pid[p] \in Pids /\ n \in Pids /\ n0 \in Pids /\ ref[n0] = 0
    <3>1. pc[p] = "run" /\ pc[q] = "dead" /\ UNCHANGED <<step, group>>
      BY <1>8 DEF Fork, changing
    <3>2. n0 \in Pids /\ ref[n0] = 0
      BY <1>8, UnusedNowhere DEF Control
    <3>3. /\ pid[q] = Nil /\ noteid[q] = Nil /\ parentpid[q] = Nil
          /\ pid[p] # Nil /\ noteid[p] # Nil
      BY <3>1 DEF Control, Slots
    <3>4. step[q] = "none"
      BY <3>3 DEF Control, Underway
    <3>5. pid[p] \in Pids /\ noteid[p] \in Pids
      BY <3>3 DEF Control, Types
    <3>6. QED
      BY <3>1, <3>2, <3>3, <3>4, <3>5
  <2>4. /\ pid'[q] = n0 /\ noteid'[q] = n /\ parentpid'[q] = pid[p] /\ pc'[q] = "run"
        /\ \A t \in Slot \ {q} : /\ pid'[t] = pid[t] /\ noteid'[t] = noteid[t]
                                 /\ parentpid'[t] = parentpid[t] /\ pc'[t] = pc[t]
    BY <1>8, <2>2, <2>3 DEF Types, Control, pidalloc, Fork, Goto
  <2>5. Same(q)
    BY <2>3, <2>4 DEF OfPid, OfNote, OfGroup, OfParent
  <2>6. /\ OfPid[q] = Nil /\ OfNote[q] = Nil /\ OfParent[q] = Nil
        /\ OfPid'[q] = n0 /\ OfNote'[q] = n /\ OfParent'[q] = pid[p]
        /\ OfGroup'[q] = OfGroup[q]
    BY <2>3, <2>4 DEF OfPid, OfNote, OfGroup, OfParent, Freeing
  <2>7. /\ DOMAIN ref' = Pids /\ ref' = [i \in Pids |-> ref'[i]] /\ table' \subseteq Pids
    BY <2>2, <2>3 DEF pidalloc, incref, PidTable
  <2>8. \A i \in Pids : /\ ref[i] \in Nat
                        /\ ref'[i] = ref[i] + (IF pid[p] = i THEN 1 ELSE 0)
                                            + (IF n0 = i THEN 1 ELSE 0) + (IF n = i THEN 1 ELSE 0)
    BY <2>2, <2>3 DEF pidalloc, incref, PidTable
  <2>9. \A i \in Pids : ref'[i] = ref[i] + Gain(q, i)
    BY <2>3, <2>6, <2>8 DEF Gain, One
  <2>10. \A i \in Pids : OfPid'[q] = i => OfPid[q] = i \/ ref[i] = 0
    BY <2>3, <2>6
  <2>11. QED
    BY <2>5, <2>7, <2>9, <2>10, Recount DEF Control
<1>9. ASSUME NEW p \in Slot, Forget(p)
      PROVE  PidTable'
  BY <1>9, PidsFrame DEF Forget, PidTable
<1>10. ASSUME NEW p \in Slot, NEW to \in PCs \ Freeing, Moves(p, to), pc[p] \notin Freeing,
              UNCHANGED <<ids, changing>>
       PROVE  PidTable'
  BY <1>10, PidsFrame DEF Moves, ids, changing, PidTable, Freeing
<1>11. ASSUME NEW p \in Slot, \/ Exit(p) \/ Drain(p) \/ Canqlock(p) \/ Look(p)
                              \/ Sleep(p) \/ Interrupt(p) \/ \E t \in Slot : Open(p, t)
       PROVE  PidTable'
  <2>1. pc[p] \notin Freeing /\ UNCHANGED <<ids, changing>>
    BY <1>11 DEF Exit, Drain, Canqlock, Look, Sleep, Interrupt, Open, Freeing
  <2>2. \E to \in {"run", "lock", "leave", "look", "tosleep", "woken", "asleep", "left", "dead"} :
          Goto(p, to)
    BY <1>11 DEF Exit, Drain, Canqlock, Look, Sleep, Interrupt, Open, Return
  <2>3. \E to \in PCs \ Freeing : Goto(p, to)
    BY <2>2 DEF PCs, Living, Waiting, Freeing
  <2>4. QED
    BY <1>10, <2>1, <2>3, GotoMoves DEF Control
<1>15. ASSUME NEW p \in Slot, Leave(p)
       PROVE  PidTable'
  <2>1. "left" \in PCs \ {"asleep"} /\ "left" \notin Freeing
    BY DEF PCs, Living, Waiting, Freeing
  <2>2. Goto(p, "left") \/ pc' = Wake([pc EXCEPT ![p] = "left"], parent[p])
    BY <1>15 DEF Leave, Goto
  <2>3. Moves(p, "left")
    BY <2>1, <2>2, GotoMoves, WakeMoves DEF Control
  <2>4. QED
    BY <1>10, <1>15, <2>1, <2>3 DEF Leave, Freeing
<1>12. ASSUME NEW p \in Slot, addbroken(p) \/ unbreak(p) \/ freebroken
       PROVE  PidTable'
  <2>1. Breaks /\ UNCHANGED <<ids, changing>>
    BY <1>12, BrokenStep DEF Control, addbroken, unbreak, freebroken
  <2>2. QED
    BY <2>1, PidsFrame DEF Breaks, Freeing, ids, changing, PidTable
<1>13. CASE UNCHANGED vars
  BY <1>13, PidsFrame DEF vars, ids, changing, PidTable
<1>14. QED
  BY <1>2, <1>3, <1>4, <1>5, <1>6, <1>7, <1>8, <1>9, <1>11, <1>12, <1>13, <1>15
     DEF Next
-----------------------------------------------------------------------------
(* Parents and children *)

\* The children of a process are finitely many.
LEMMA ChildrenCount ==
  ASSUME NEW q \in Slot
  PROVE  IsFiniteSet(Children(q)) /\ Cardinality(Children(q)) \in Nat
<1>1. IsFiniteSet(Children(q))
  BY WaitAssumption, FS_Subset DEF Children
<1>2. QED
  BY <1>1, CardPut

\* Who keeps its children keeps their number, while nchild does not change.
LEMMA SameChildren ==
  ASSUME Families, UNCHANGED nchild,
         \A q \in Slot : pid'[q] # Nil => Children(q)' = Children(q),
         \A q \in Slot : pc'[q] \in Living \cup {"left"} =>
                           pid'[q] # Nil /\ pc[q] \in Living \cup {"left"},
         \A q \in Slot : pid'[q] = Nil <=> pid[q] = Nil
  PROVE  Families'
BY DEF Families, NchildExact, NchildCovers

\* Nobody becomes a child or ceases to be one.
LEMMA FamiliesFrame ==
  ASSUME Control, Control', Families, UNCHANGED <<pid, parentpid, family>>,
         \A s \in Slot : pc'[s] \in Living <=> pc[s] \in Living,
         \A s \in Slot : pc'[s] = "left" => pc[s] = "left"
  PROVE  Families'
<1>1. \A q \in Slot : Children(q)' = Children(q)
  BY DEF Children, family
<1>2. \A q \in Slot : pc'[q] \in Living \cup {"left"} => pid'[q] # Nil
  BY DEF Control, Slots, Living, Waiting
<1>3. QED
  BY <1>1, <1>2, SameChildren DEF family

\* A process leaves whose parent does not count it any more, or is to be told yet.
LEMMA FamiliesUncounted ==
  ASSUME Control, Control', Families, UNCHANGED <<pid, parentpid, family>>, NEW p \in Slot,
         NEW to \in {"leave", "left"}, pc[p] \in {"run", "leave"}, Moves(p, to),
         to = "left" => ~Waitable(parent[p], p)
  PROVE  Families'
<1> USE WaitAssumption
<1>1. CASE to = "leave"
  BY <1>1, FamiliesFrame DEF Moves, Living, Waiting
<1>2. CASE to = "left"
  <2>1. \A q \in Slot : Children(q)' = Children(q) \ {p}
    BY <1>2 DEF Children, Moves, family, Living, Waiting
  <2>2. \A q \in Slot : p \in Children(q) => q # p /\ pc[q] = "broken" /\ pc'[q] = "broken"
    BY <1>2 DEF Children, Waitable, At, Moves
  <2>3. \A q \in Slot : pc'[q] \in Living \cup {"left"} => pc[q] \in Living \cup {"left"}
    BY <1>2 DEF Moves, Living, Waiting
  <2>4. \A q \in Slot : /\ Cardinality(Children(q)') \in Nat
                        /\ Cardinality(Children(q)') <= Cardinality(Children(q))
    <3>1. ASSUME NEW q \in Slot
          PROVE  /\ Cardinality(Children(q) \ {p}) \in Nat
                 /\ Cardinality(Children(q) \ {p}) <= Cardinality(Children(q))
      <4> DEFINE S == Children(q)
      <4>1. IsFiniteSet(S)
        BY ChildrenCount
      <4> HIDE DEF S
      <4>2. /\ Cardinality(S) \in Nat /\ (p \in S => Cardinality(S) >= 1)
            /\ Cardinality(S \ {p}) = IF p \in S THEN Cardinality(S) - 1 ELSE Cardinality(S)
        BY <4>1, CardPut
      <4>3. Cardinality(S \ {p}) \in Nat /\ Cardinality(S \ {p}) <= Cardinality(S)
        BY <4>2
      <4>4. QED
        BY <4>3 DEF S
    <3>2. QED
      BY <2>1, <3>1
  <2>5. NchildExact'
    <3>1. ASSUME NEW q \in Slot, pc'[q] \in Living \cup {"left"}
          PROVE  nchild'[q] = Cardinality(Children(q)')
      <4>1. p \notin Children(q)
        BY <2>2, <3>1 DEF Living, Waiting
      <4>2. Children(q)' = Children(q)
        BY <2>1, <4>1
      <4>3. QED
        BY <2>3, <3>1, <4>2 DEF Families, NchildExact, family
    <3>2. QED
      BY <3>1 DEF NchildExact
  <2>6. NchildCovers'
    <3>1. ASSUME NEW q \in Slot
          PROVE  IF pid'[q] = Nil THEN nchild'[q] = 0
                 ELSE nchild'[q] >= Cardinality(Children(q)')
      BY <2>4, ChildrenCount DEF Families, NchildCovers, family
    <3>2. QED
      BY <3>1 DEF NchildCovers
  <2>7. QED
    BY <2>5, <2>6 DEF Families, family
<1>3. QED
  BY <1>1, <1>2

\* A process leaves and its parent counts it.
LEMMA FamiliesCounted ==
  ASSUME Control, Families, UNCHANGED <<ids, parent>>, NEW p \in Slot, NEW q \in Slot,
         pc[p] = "leave", q = parent[p], pid[q] # Nil, pid[q] = parentpid[p], Moves(p, "left"),
         nchild' = [nchild EXCEPT ![q] = @ - 1]
  PROVE  Families'
<1>1. /\ Children(q)' = Children(q) \ {p} /\ p \in Children(q)
      /\ \A r \in Slot \ {q} : Children(r)' = Children(r)
  BY DEF Children, Moves, ids, Living, Waiting
<1>2. /\ Cardinality(Children(q)) \in Nat /\ Cardinality(Children(q)) >= 1
      /\ Cardinality(Children(q)') = Cardinality(Children(q)) - 1
  BY <1>1, ChildrenCount, CardPut
<1>3. /\ nchild[q] \in Nat /\ nchild[q] >= Cardinality(Children(q)) /\ nchild'[q] = nchild[q] - 1
      /\ \A r \in Slot \ {q} : nchild'[r] = nchild[r]
  BY DEF Families, NchildCovers
<1>4. nchild' \in [Slot -> Nat]
  BY <1>2, <1>3 DEF Families
<1>5. \A r \in Slot : pc'[r] \in Living \cup {"left"} => pc[r] \in Living \cup {"left"}
  BY DEF Moves, Living, Waiting
<1>6. NchildExact'
  <2>1. ASSUME NEW r \in Slot, pc'[r] \in Living \cup {"left"}
        PROVE  nchild'[r] = Cardinality(Children(r)')
    BY <1>1, <1>2, <1>3, <1>5, <2>1 DEF Families, NchildExact
  <2>2. QED
    BY <2>1 DEF NchildExact
<1>7. NchildCovers'
  <2>1. ASSUME NEW r \in Slot
        PROVE  IF pid'[r] = Nil THEN nchild'[r] = 0
               ELSE nchild'[r] >= Cardinality(Children(r)')
    <3>1. CASE r = q
      BY <1>2, <1>3, <3>1 DEF ids
    <3>2. CASE r # q
      BY <1>1, <1>3, <3>2 DEF Families, NchildCovers, ids
    <3>3. QED
      BY <3>1, <3>2
  <2>2. QED
    BY <2>1 DEF NchildCovers
<1>8. QED
  BY <1>4, <1>6, <1>7 DEF Families

\* A new process has no children, and is one of its parent's if it is to be
\* waited for.
LEMMA FamiliesFork ==
  ASSUME Control, PidTable, PidsOutlive, Families, NEW p \in Slot, NEW c \in Slot, Fork(p, c)
  PROVE  Families'
<1> USE WaitAssumption DEF At
<1>1. PICK i \in Unused : \E n \in {i, noteid[p]} : pidalloc(p, c, i, n)
  BY DEF Fork
<1>2. /\ pc[p] = "run" /\ pc[c] = "dead" /\ p # c
      /\ pid' = [pid EXCEPT ![c] = i] /\ parentpid' = [parentpid EXCEPT ![c] = pid[p]]
      /\ pc' = [pc EXCEPT ![c] = "run"]
      /\ \/ UNCHANGED family
         \/ parent' = [parent EXCEPT ![c] = p] /\ nchild' = [nchild EXCEPT ![p] = @ + 1]
  BY <1>1 DEF Fork, pidalloc, Goto
<1>3. /\ pid[c] = Nil /\ parent[c] = Nil /\ nchild[c] = 0
      /\ pid[p] # Nil /\ i # pid[p] /\ i # Nil
      /\ \A s \in Slot : pc[s] \in Living => parentpid[s] # i
  <2>1. pid[c] = Nil /\ parent[c] = Nil /\ pid[p] # Nil
    BY <1>2 DEF Control, Slots
  <2>2. i \in Pids /\ i # pid[p] /\ \A s \in Slot : pc[s] \in Living => parentpid[s] # i
    <3>1. i \in Pids /\ \A s \in Slot : OfPid[s] # i /\ OfParent[s] # i
      BY UnusedNowhere DEF Control
    <3>2. OfPid[p] = pid[p]
      BY <1>2 DEF OfPid, Freeing
    <3>3. \A s \in Slot : pc[s] \in Living => OfParent[s] = parentpid[s]
      BY DEF OfParent, Living, Waiting
    <3>4. QED
      BY <3>1, <3>2, <3>3
  <2>3. nchild[c] = 0
    BY <2>1 DEF Families, NchildCovers
  <2>4. QED
    BY <2>1, <2>2, <2>3
<1>4. /\ pid'[c] = i /\ parentpid'[c] = pid[p] /\ pc'[c] = "run"
      /\ \A s \in Slot \ {c} : pid'[s] = pid[s] /\ parentpid'[s] = parentpid[s] /\ pc'[s] = pc[s]
  BY <1>2 DEF Control, Types
<1>5. \A s \in Slot \ {c} : parent'[s] = parent[s]
  BY <1>2 DEF Control, Types, family
<1>6. Children(c)' = {}
  BY <1>3, <1>4, <1>5 DEF Children
<1>7. \A q \in Slot \ {c, p} : Children(q)' = Children(q)
  <2>1. parent'[c] \in {Nil, p}
    BY <1>2, <1>3 DEF Control, Types, family
  <2>2. QED
    BY <1>2, <1>3, <1>4, <1>5, <2>1 DEF Children, Living, Waiting
<1>8. \/ nchild'[p] = nchild[p] /\ Children(p)' = Children(p)
      \/ /\ nchild'[p] = nchild[p] + 1 /\ Children(p)' = Children(p) \cup {c}
         /\ c \notin Children(p)
  <2>1. CASE UNCHANGED family
    BY <1>2, <1>3, <1>4, <1>5, <2>1 DEF Children, family
  <2>2. CASE parent' = [parent EXCEPT ![c] = p] /\ nchild' = [nchild EXCEPT ![p] = @ + 1]
    <3>1. parent'[c] = p /\ nchild'[p] = nchild[p] + 1
      BY <2>2 DEF Families, Control, Types
    <3>2. QED
      BY <1>2, <1>3, <1>4, <1>5, <3>1 DEF Children, Living, Waiting
  <2>3. QED
    BY <1>2, <2>1, <2>2
<1>9. /\ nchild' \in [Slot -> Nat]
      /\ \A q \in Slot \ {p} : nchild'[q] = nchild[q]
  BY <1>2 DEF Families, family
<1>10. /\ Cardinality(Children(p)) \in Nat /\ nchild[p] = Cardinality(Children(p))
       /\ nchild'[p] = Cardinality(Children(p)')
  <2>1. nchild[p] = Cardinality(Children(p)) /\ Cardinality(Children(p)) \in Nat
    BY <1>2, ChildrenCount DEF Families, NchildExact, Living
  <2>2. c \notin Children(p) =>
          Cardinality(Children(p) \cup {c}) = Cardinality(Children(p)) + 1
    BY ChildrenCount, CardPut
  <2>3. QED
    BY <1>8, <2>1, <2>2
<1>11. nchild'[c] = 0 /\ Cardinality(Children(c)') = 0
  BY <1>2, <1>3, <1>6, <1>9, FS_EmptySet
<1>12. NchildExact'
  <2>1. ASSUME NEW q \in Slot, pc'[q] \in Living \cup {"left"}
        PROVE  nchild'[q] = Cardinality(Children(q)')
    BY <1>4, <1>7, <1>9, <1>10, <1>11, <2>1 DEF Families, NchildExact
  <2>2. QED
    BY <2>1 DEF NchildExact
<1>13. NchildCovers'
  <2>1. ASSUME NEW q \in Slot
        PROVE  IF pid'[q] = Nil THEN nchild'[q] = 0
               ELSE nchild'[q] >= Cardinality(Children(q)')
    <3>1. CASE q \in {c, p}
      BY <1>3, <1>4, <1>9, <1>10, <1>11, <3>1 DEF Families
    <3>2. CASE q \notin {c, p}
      BY <1>4, <1>7, <1>9, <3>2 DEF Families, NchildCovers
    <3>3. QED
      BY <3>1, <3>2
  <2>2. QED
    BY <2>1 DEF NchildCovers
<1>14. QED
  BY <1>9, <1>12, <1>13 DEF Families

\* A process that is gone has no children, and was not counted as one.
LEMMA FamiliesFree ==
  ASSUME Control, Families, NEW p \in Slot, FreeEnd(p)
  PROVE  Families'
<1> USE WaitAssumption DEF At
<1>1. /\ pc[p] = "freed"
      /\ pid' = [pid EXCEPT ![p] = Nil] /\ parentpid' = [parentpid EXCEPT ![p] = Nil]
      /\ parent' = [parent EXCEPT ![p] = Nil] /\ nchild' = [nchild EXCEPT ![p] = 0]
  BY DEF FreeEnd
<1>2. Moves(p, "drain")
  BY WakeMoves DEF Control, FreeEnd, PCs, Living, Waiting
<1>3. /\ pid'[p] = Nil /\ parent'[p] = Nil /\ nchild'[p] = 0 /\ nchild' \in [Slot -> Nat]
      /\ \A s \in Slot \ {p} : /\ pid'[s] = pid[s] /\ parentpid'[s] = parentpid[s]
                               /\ parent'[s] = parent[s] /\ nchild'[s] = nchild[s]
  BY <1>1 DEF Control, Types, Families
<1>4. \A q \in Slot \ {p} : Children(q)' = Children(q)
  BY <1>1, <1>2, <1>3 DEF Children, Moves, Living, Waiting
<1>5. NchildExact'
  <2>1. ASSUME NEW q \in Slot, pc'[q] \in Living \cup {"left"}
        PROVE  nchild'[q] = Cardinality(Children(q)')
    <3>1. q # p /\ pc[q] \in Living \cup {"left"}
      BY <1>2, <2>1 DEF Moves, Living, Waiting
    <3>2. QED
      BY <1>3, <1>4, <3>1 DEF Families, NchildExact
  <2>2. QED
    BY <2>1 DEF NchildExact
<1>6. NchildCovers'
  <2>1. ASSUME NEW q \in Slot
        PROVE  IF pid'[q] = Nil THEN nchild'[q] = 0
               ELSE nchild'[q] >= Cardinality(Children(q)')
    BY <1>3, <1>4 DEF Families, NchildCovers
  <2>2. QED
    BY <2>1 DEF NchildCovers
<1>7. QED
  BY <1>3, <1>5, <1>6 DEF Families

\* No step makes the count of somebody's children wrong.
LEMMA FamiliesStep ==
  ASSUME Control, Control', PidTable, Families, [Next]_vars
  PROVE  Families'
<1> USE DEF At
<1>1. ASSUME NEW p \in Slot, NEW to, Moves(p, to), to \in Living \/ pc[p] \notin Living,
             to \notin Living \cup {"left"} \/ pc[p] \in Living, to # "left",
             UNCHANGED <<pid, parentpid, family>>
      PROVE  Families'
  BY <1>1, FamiliesFrame DEF Moves, Living, Waiting
<1>2. ASSUME UNCHANGED <<pid, parentpid, family, pc>>
      PROVE  Families'
  BY <1>2, FamiliesFrame
<1>12. ASSUME NEW p \in Slot, \/ NewNoteGroup(p) \/ changenoteid(p) \/ Lookup(p) \/ Incref(p)
                              \/ Decref(p) \/ Forget(p) \/ Store(p)
       PROVE  Families'
  BY <1>2, <1>12 DEF NewNoteGroup, changenoteid, Lookup, Incref, Decref, Forget, Store, ids
<1>13. ASSUME NEW p \in Slot, Free(p) \/ FreeNote(p) \/ FreeParent(p)
       PROVE  Families'
  <2>1. PICK to \in Freeing : Goto(p, to)
    BY <1>13 DEF Free, FreeNote, FreeParent, Freeing
  <2>2. Moves(p, to)
    BY <2>1, GotoMoves DEF Control, PCs
  <2>3. pc[p] \notin Living /\ UNCHANGED <<pid, parentpid, family>>
    BY <1>13 DEF Free, FreeNote, FreeParent, Living, Waiting
  <2>4. QED
    BY <1>1, <2>2, <2>3 DEF Freeing, Living, Waiting
<1>3. ASSUME NEW p \in Slot, Exit(p)
      PROVE  Families'
  <2>1. PICK to \in {"leave", "left"} : Goto(p, to) /\ (to = "left" => ~Waitable(parent[p], p))
    BY <1>3 DEF Exit
  <2>2. pc[p] = "run" /\ Moves(p, to) /\ UNCHANGED <<pid, parentpid, family>>
    BY <1>3, <2>1, GotoMoves DEF Exit, Control, PCs, Living, ids
  <2>3. QED
    BY <2>1, <2>2, FamiliesUncounted
<1>4. ASSUME NEW p \in Slot, Leave(p)
      PROVE  Families'
  <2> DEFINE q == parent[p]
  <2>1. pc[p] = "leave" /\ q \in Slot /\ parentpid[p] # Nil /\ UNCHANGED <<ids, parent>>
    BY <1>4 DEF Leave, Control, Types, Slots
  <2>2. Moves(p, "left")
    <3>1. "left" \in PCs \ {"asleep"}
      BY DEF PCs, Living, Waiting
    <3>2. Goto(p, "left") \/ pc' = Wake([pc EXCEPT ![p] = "left"], q)
      BY <1>4 DEF Leave, Goto
    <3>3. QED
      BY <3>1, <3>2, GotoMoves, WakeMoves DEF Control
  <2>3. CASE Waitable(q, p)
    BY <1>4, <2>1, <2>2, <2>3, FamiliesCounted DEF Leave, Waitable
  <2>4. CASE ~Waitable(q, p)
    <3>1. UNCHANGED <<pid, parentpid, family>>
      BY <1>4, <2>1, <2>4 DEF Leave, ids, family
    <3>2. QED
      BY <2>1, <2>2, <2>4, <3>1, FamiliesUncounted
  <2>5. QED
    BY <2>3, <2>4
<1>5. ASSUME NEW p \in Slot, addbroken(p) \/ unbreak(p) \/ freebroken
      PROVE  Families'
  <2>1. Breaks /\ UNCHANGED <<pid, parentpid, family>>
    BY <1>5, BrokenStep DEF Control, ids
  <2>2. QED
    BY <2>1, FamiliesFrame DEF Breaks, Living, Waiting
<1>6. ASSUME NEW p \in Slot, Drain(p)
      PROVE  Families'
  <2>1. pc[p] = "drain" /\ Moves(p, "dead") /\ UNCHANGED <<pid, parentpid, family>>
    BY <1>6, GotoMoves DEF Drain, Control, PCs, ids
  <2>2. QED
    BY <1>1, <2>1 DEF Living, Waiting
<1>7. ASSUME NEW p \in Slot, Canqlock(p)
      PROVE  Families'
  <2>1. /\ Goto(p, "look") \/ Goto(p, "run")
        /\ UNCHANGED <<pid, parentpid, family>>
    BY <1>7 DEF Canqlock, Return, ids
  <2>2. Moves(p, "look") \/ Moves(p, "run")
    BY <2>1, GotoMoves DEF Control, PCs, Living, Waiting
  <2>3. pc[p] = "lock"
    BY <1>7 DEF Canqlock
  <2>4. QED
    BY <1>1, <2>1, <2>2, <2>3 DEF Living, Waiting
<1>8. ASSUME NEW p \in Slot, Look(p) \/ Sleep(p) \/ Interrupt(p)
      PROVE  Families'
  <2>1. PICK to \in {"run", "tosleep", "woken", "asleep"} : Goto(p, to)
    BY <1>8 DEF Look, Sleep, Interrupt, Return
  <2>2. pc[p] \in Waiting /\ UNCHANGED <<pid, parentpid, family>>
    BY <1>8 DEF Look, Sleep, Interrupt, Waiting, ids
  <2>3. Moves(p, to)
    BY <2>1, GotoMoves DEF Control, PCs, Living, Waiting
  <2>4. QED
    BY <1>1, <2>2, <2>3 DEF Living, Waiting
<1>9. ASSUME NEW p \in Slot, NEW t \in Slot, Open(p, t)
       PROVE  Families'
  <2>1. pc[p] = "run" /\ Moves(p, "lock") /\ UNCHANGED <<pid, parentpid, family>>
    BY <1>9, GotoMoves DEF Open, Control, PCs, Living, ids
  <2>2. QED
    BY <1>1, <2>1 DEF Living, Waiting
<1>10. CASE UNCHANGED vars
  BY <1>10, FamiliesFrame DEF vars, ids
<1>11. QED
  BY WaitAssumption, <1>3, <1>4, <1>5, <1>6, <1>7, <1>8, <1>9, <1>10, <1>12, <1>13,
     FamiliesFork, FamiliesFree DEF Next
-----------------------------------------------------------------------------
(* Who sleeps *)

\* Who sleeps does so on the waitr of a process.
LEMMA AsleepOn ==
  ASSUME Types, Readers, NEW s \in Slot, pc[s] \in Waiting
  PROVE  target[s] \in Slot /\ qid[s] # Nil
BY DEF Types, Readers, Reading

\* The reader that holds the qwaitr of a process is alone there.
LEMMA OneReaderEach ==
  ASSUME Types, Readers, NEW p \in Slot, NEW q \in Slot, pc[p] \in Waiting, pc[q] \in Waiting,
         target[p] = target[q]
  PROVE  p = q
<1>1. target[p] \in Slot
  BY DEF Types, Readers, Reading
<1>2. QED
  BY <1>1 DEF Readers

\* Nobody who sleeps, or is about to, sees anything of the step.
LEMMA SleepersFrame ==
  ASSUME Sleepers, UNCHANGED <<pid, waitq, nchild>>,
         \A s \in Slot : pc'[s] = "asleep" =>
                           pc[s] = "asleep" /\ target'[s] = target[s] /\ qid'[s] = qid[s],
         \A s \in Slot : pc'[s] = "tosleep" => pc[s] = "tosleep" /\ target'[s] = target[s]
  PROVE  Sleepers'
BY DEF Sleepers, NothingThere, SleepsForChild, prochaswaitq, Gone, At

\* No step lets anybody sleep beside what it waits for.
LEMMA SleepersStep ==
  ASSUME Control, Control', Families, Sleepers, [Next]_vars
  PROVE  Sleepers'
<1> USE WaitAssumption DEF At
<1>1. ASSUME NEW p \in Slot, NEW to, Moves(p, to), to \notin {"asleep", "tosleep"},
             UNCHANGED <<pid, waitq, nchild>>,
             \A s \in Slot \ {p} : target'[s] = target[s] /\ qid'[s] = qid[s]
      PROVE  Sleepers'
  BY <1>1, SleepersFrame DEF Moves
<1>2. ASSUME NEW p \in Slot, \/ NewNoteGroup(p) \/ changenoteid(p) \/ Lookup(p) \/ Incref(p)
                             \/ Decref(p) \/ Forget(p) \/ Store(p)
      PROVE  Sleepers'
  <2>1. UNCHANGED <<pid, family, records, reading, pc>>
    BY <1>2 DEF NewNoteGroup, changenoteid, Lookup, Incref, Decref, Forget, Store, ids
  <2>2. QED
    BY <2>1, SleepersFrame DEF family, records, reading
<1>17. ASSUME NEW p \in Slot, Free(p) \/ FreeNote(p) \/ FreeParent(p)
       PROVE  Sleepers'
  <2>1. PICK to \in Freeing : Goto(p, to)
    BY <1>17 DEF Free, FreeNote, FreeParent, Freeing
  <2>2. Moves(p, to) /\ to \notin {"asleep", "tosleep"}
    BY <2>1, GotoMoves DEF Control, PCs, Freeing
  <2>3. UNCHANGED <<pid, family, records, reading>>
    BY <1>17 DEF Free, FreeNote, FreeParent
  <2>4. QED
    BY <1>1, <2>2, <2>3 DEF family, records, reading
<1>3. ASSUME NEW p \in Slot, Exit(p)
      PROVE  Sleepers'
  <2>1. PICK to \in {"leave", "left"} : Moves(p, to)
    BY <1>3, GotoMoves DEF Exit, Control, PCs, Living
  <2>2. QED
    BY <1>1, <1>3, <2>1 DEF Exit, ids, family, records, reading
<1>4. ASSUME NEW p \in Slot, Leave(p)
      PROVE  Sleepers'
  <2> DEFINE q == parent[p]
             kept == Waitable(q, p) /\ nwait[q] < MaxWait
  <2>1. /\ pc[p] = "leave" /\ q \in Slot /\ parentpid[p] # Nil /\ UNCHANGED <<ids, parent, reading>>
    BY <1>4 DEF Leave, Control, Types, Slots
  <2>2. "left" \in PCs \ {"asleep"}
    BY DEF PCs, Living, Waiting
  <2>3. CASE kept
    <3>1. /\ pc' = Wake([pc EXCEPT ![p] = "left"], q)
          /\ waitq' = [waitq EXCEPT ![q] = @ + 1]
      BY <1>4, <2>3 DEF Leave, Record
    <3>2. /\ Moves(p, "left") /\ \A s \in Slot \ {p} : pc'[s] = "asleep" => target[s] # q
          /\ waitq'[q] = waitq[q] + 1 /\ waitq[q] \in Nat
          /\ \A s \in Slot \ {q} : waitq'[s] = waitq[s]
      <4>1. waitq'[q] = waitq[q] + 1 /\ waitq[q] \in Nat
        BY <2>1, <3>1 DEF Control, Types
      <4>2. \A s \in Slot \ {q} : waitq'[s] = waitq[s]
        BY <2>1, <3>1 DEF Control, Types
      <4>3. Moves(p, "left") /\ \A s \in Slot \ {p} : pc'[s] = "asleep" => target[s] # q
        BY <2>2, <3>1, WakeMoves DEF Control
      <4>4. QED
        BY <4>1, <4>2, <4>3
    <3>3. \A s \in Slot \ {q} : nchild'[s] = nchild[s]
      BY <1>4, <2>1 DEF Leave, Families
    <3>4. NothingThere'
      <4>1. ASSUME NEW s \in Slot, pc'[s] = "asleep"
            PROVE  pid'[target'[s]] = qid'[s] /\ ~(waitq'[target'[s]] > 0)
        <5>1. /\ s # p /\ pc[s] = "asleep" /\ target[s] # q /\ target'[s] = target[s]
              /\ qid'[s] = qid[s] /\ pid' = pid
          BY <2>1, <3>2, <4>1 DEF Moves, ids, reading
        <5>2. target[s] \in Slot
          BY <5>1, AsleepOn DEF Control, Waiting
        <5>3. QED
          BY <3>2, <5>1, <5>2 DEF Sleepers, NothingThere, prochaswaitq, Gone
      <4>2. QED
        BY <4>1 DEF NothingThere, prochaswaitq, Gone
    <3>5. SleepsForChild'
      <4>1. ASSUME NEW s \in Slot, pc'[s] \in {"tosleep", "asleep"}, target'[s] = s
            PROVE  waitq'[s] > 0 \/ nchild'[s] > 0
        <5>1. pc[s] \in {"tosleep", "asleep"} /\ target[s] = s
          BY <2>1, <3>2, <4>1 DEF Moves, reading
        <5>2. QED
          BY <3>2, <3>3, <5>1 DEF Sleepers, SleepsForChild
      <4>2. QED
        BY <4>1 DEF SleepsForChild
    <3>6. QED
      BY <3>4, <3>5 DEF Sleepers
  <2>4. CASE ~kept
    <3>1. Moves(p, "left") /\ UNCHANGED records
      BY <1>4, <2>2, <2>4, GotoMoves DEF Leave, Control, Goto
    <3>2. CASE Waitable(q, p)
      <4>1. waitq[q] > 0
        BY <2>1, <2>4, <3>2 DEF Waitable, Control, Types, RecordsKept
      <4>2. \A s \in Slot \ {q} : nchild'[s] = nchild[s]
        BY <1>4, <2>1 DEF Leave, Families
      <4>3. NothingThere'
        BY <2>1, <3>1 DEF Sleepers, NothingThere, prochaswaitq, Gone, Moves, ids, records, reading
      <4>4. SleepsForChild'
        BY <2>1, <3>1, <4>1, <4>2 DEF Sleepers, SleepsForChild, Moves, records, reading
      <4>5. QED
        BY <4>3, <4>4 DEF Sleepers
    <3>3. CASE ~Waitable(q, p)
      <4>1. UNCHANGED nchild
        BY <1>4, <3>3 DEF Leave
      <4>2. QED
        BY <1>1, <2>1, <3>1, <4>1 DEF ids, records, reading
    <3>4. QED
      BY <3>2, <3>3
  <2>5. QED
    BY <2>3, <2>4
<1>5. ASSUME NEW p \in Slot, addbroken(p) \/ unbreak(p) \/ freebroken
      PROVE  Sleepers'
  <2>1. Breaks /\ UNCHANGED <<ids, family, records, reading>>
    BY <1>5, BrokenStep DEF Control
  <2>2. QED
    BY <2>1, SleepersFrame DEF Breaks, ids, family, records, reading
<1>6. ASSUME NEW p \in Slot, FreeEnd(p)
      PROVE  Sleepers'
  <2>1. /\ pc[p] = "freed" /\ UNCHANGED <<waitq, reading>>
        /\ pid' = [pid EXCEPT ![p] = Nil] /\ nchild' = [nchild EXCEPT ![p] = 0]
        /\ pc' = Wake([pc EXCEPT ![p] = "drain"], p)
    BY <1>6 DEF FreeEnd
  <2>2. Moves(p, "drain") /\ \A s \in Slot \ {p} : pc'[s] = "asleep" => target[s] # p
    BY <2>1, WakeMoves DEF Control, PCs, Living, Waiting
  <2>3. \A s \in Slot \ {p} : pid'[s] = pid[s] /\ nchild'[s] = nchild[s]
    BY <2>1 DEF Control, Types, Families
  <2>4. NothingThere'
    <3>1. ASSUME NEW s \in Slot, pc'[s] = "asleep"
          PROVE  pid'[target'[s]] = qid'[s] /\ ~(waitq'[target'[s]] > 0)
      <4>1. s # p /\ pc[s] = "asleep" /\ target[s] # p
        BY <2>2, <3>1 DEF Moves
      <4>2. target[s] \in Slot
        BY <4>1, AsleepOn DEF Control, Waiting
      <4>3. QED
        BY <2>1, <2>3, <4>1, <4>2 DEF Sleepers, NothingThere, prochaswaitq, Gone, reading
    <3>2. QED
      BY <3>1 DEF NothingThere, prochaswaitq, Gone
  <2>5. SleepsForChild'
    BY <2>1, <2>2, <2>3 DEF Sleepers, SleepsForChild, Moves, reading
  <2>6. QED
    BY <2>4, <2>5 DEF Sleepers
<1>7. ASSUME NEW p \in Slot, Drain(p)
      PROVE  Sleepers'
  <2>1. /\ pc[p] = "drain" /\ UNCHANGED <<ids, family, reading>>
        /\ waitq' = [waitq EXCEPT ![p] = 0]
    BY <1>7 DEF Drain
  <2>2. Moves(p, "dead")
    BY <1>7, GotoMoves DEF Drain, Control, PCs
  <2>3. waitq'[p] = 0 /\ \A s \in Slot \ {p} : waitq'[s] = waitq[s]
    BY <2>1 DEF Control, Types
  <2>4. \A s \in Slot : waitq'[s] > 0 => waitq[s] > 0
    BY <2>3
  <2>5. NothingThere'
    <3>1. ASSUME NEW s \in Slot, pc'[s] = "asleep"
          PROVE  pid'[target'[s]] = qid'[s] /\ ~(waitq'[target'[s]] > 0)
      <4>1. pc[s] = "asleep"
        BY <2>2, <3>1 DEF Moves
      <4>2. target[s] \in Slot
        BY <4>1, AsleepOn DEF Control, Waiting
      <4>3. QED
        BY <2>1, <2>4, <4>1, <4>2 DEF Sleepers, NothingThere, prochaswaitq, Gone, ids, reading
    <3>2. QED
      BY <3>1 DEF NothingThere, prochaswaitq, Gone
  <2>6. SleepsForChild'
    BY <2>1, <2>2, <2>3 DEF Sleepers, SleepsForChild, Moves, family, reading
  <2>7. QED
    BY <2>5, <2>6 DEF Sleepers
<1>8. ASSUME NEW p \in Slot, Return(p), pc[p] \in Reading, UNCHANGED <<pid, waitq, nchild>>
      PROVE  Sleepers'
  <2>1. /\ Moves(p, "run")
        /\ \A s \in Slot \ {p} : target'[s] = target[s] /\ qid'[s] = qid[s]
    BY <1>8, ReturnEffect DEF Control, Types, Return
  <2>2. QED
    BY <1>1, <1>8, <2>1
<1>9. ASSUME NEW p \in Slot, Canqlock(p)
      PROVE  Sleepers'
  <2>1. pc[p] \in Reading /\ UNCHANGED <<pid, waitq, nchild>>
    BY <1>9 DEF Canqlock, Reading, ids, family, records
  <2>2. CASE Return(p)
    BY <1>8, <2>1, <2>2
  <2>3. CASE Goto(p, "look") /\ UNCHANGED <<target, qid>>
    <3>1. Moves(p, "look")
      BY <2>3, GotoMoves DEF Control, PCs, Living, Waiting
    <3>2. QED
      BY <1>1, <2>1, <2>3, <3>1
  <2>4. QED
    BY <1>9, <2>2, <2>3 DEF Canqlock
<1>10. ASSUME NEW p \in Slot, Look(p)
       PROVE  Sleepers'
  <2> DEFINE t == target[p]
  <2>1. pc[p] \in {"look", "woken"} /\ t \in Slot /\ UNCHANGED <<ids, family, broken>>
    BY <1>10, AsleepOn DEF Look, Control, Waiting
  <2>2. CASE Return(p) /\ UNCHANGED records
    BY <1>8, <2>1, <2>2 DEF Reading, Waiting, ids, family, records
  <2>3. CASE ~Gone(p) /\ waitq[t] > 0 /\ Return(p) /\ waitq' = [waitq EXCEPT ![t] = @ - 1]
    <3>1. /\ Moves(p, "run")
          /\ \A s \in Slot \ {p} : target'[s] = target[s] /\ qid'[s] = qid[s]
      BY <2>1, <2>3, ReturnEffect DEF Control, Types, Return, Reading, Waiting
    <3>2. /\ waitq[t] \in Nat /\ waitq'[t] = waitq[t] - 1
          /\ \A s \in Slot \ {t} : waitq'[s] = waitq[s]
      BY <2>1, <2>3 DEF Control, Types
    <3>3. ASSUME NEW s \in Slot, pc'[s] \in {"tosleep", "asleep"}
          PROVE  /\ s # p /\ pc[s] = pc'[s] /\ target'[s] = target[s] /\ qid'[s] = qid[s]
                 /\ target[s] \in Slot /\ target[s] # t
      <4>1. s # p /\ pc[s] = pc'[s] /\ target'[s] = target[s] /\ qid'[s] = qid[s]
        BY <3>1, <3>3 DEF Moves
      <4>2. target[s] \in Slot
        BY <3>3, <4>1, AsleepOn DEF Control, Waiting
      <4>3. target[s] # t
        BY <2>1, <3>3, <4>1, OneReaderEach DEF Control, Waiting
      <4>4. QED
        BY <4>1, <4>2, <4>3
    <3>4. NothingThere'
      <4>1. ASSUME NEW s \in Slot, pc'[s] = "asleep"
            PROVE  pid'[target'[s]] = qid'[s] /\ ~(waitq'[target'[s]] > 0)
        BY <2>1, <3>2, <3>3, <4>1 DEF Sleepers, NothingThere, prochaswaitq, Gone, ids
      <4>2. QED
        BY <4>1 DEF NothingThere, prochaswaitq, Gone
    <3>5. SleepsForChild'
      BY <2>1, <3>2, <3>3 DEF Sleepers, SleepsForChild, family
    <3>6. QED
      BY <3>4, <3>5 DEF Sleepers
  <2>4. CASE /\ waitq[t] = 0 /\ ~(t = p /\ nchild[p] = 0)
             /\ Goto(p, "tosleep") /\ UNCHANGED <<records, reading>>
    <3>1. Moves(p, "tosleep")
      BY <2>4, GotoMoves DEF Control, PCs, Living, Waiting
    <3>2. NothingThere'
      BY <2>1, <2>4, <3>1
         DEF Sleepers, NothingThere, prochaswaitq, Gone, Moves, ids, records, reading
    <3>3. t = p => nchild[p] > 0
      BY <2>4 DEF Families
    <3>4. SleepsForChild'
      BY <2>1, <2>4, <3>1, <3>3 DEF Sleepers, SleepsForChild, Moves, family, records, reading
    <3>5. QED
      BY <3>2, <3>4 DEF Sleepers
  <2>5. QED
    BY <1>10, <2>2, <2>3, <2>4 DEF Look
<1>11. ASSUME NEW p \in Slot, Sleep(p)
       PROVE  Sleepers'
  <2>1. pc[p] = "tosleep" /\ UNCHANGED <<ids, family, records, reading>>
    BY <1>11 DEF Sleep
  <2>2. CASE Goto(p, "woken")
    <3>1. Moves(p, "woken")
      BY <2>2, GotoMoves DEF Control, PCs, Living, Waiting
    <3>2. QED
      BY <1>1, <2>1, <3>1 DEF ids, family, records, reading
  <2>3. CASE Goto(p, "asleep") /\ ~prochaswaitq(p)
    <3>1. Moves(p, "asleep")
      BY <2>3, GotoMoves DEF Control, PCs, Living, Waiting
    <3>2. NothingThere'
      BY <2>1, <2>3, <3>1
         DEF Sleepers, NothingThere, prochaswaitq, Gone, Moves, ids, records, reading
    <3>3. SleepsForChild'
      BY <2>1, <2>3, <3>1 DEF Sleepers, SleepsForChild, Moves, family, records, reading
    <3>4. QED
      BY <3>2, <3>3 DEF Sleepers
  <2>4. QED
    BY <1>11, <2>2, <2>3 DEF Sleep
<1>12. ASSUME NEW p \in Slot, Interrupt(p)
       PROVE  Sleepers'
  BY <1>8, <1>12 DEF Interrupt, Reading, Waiting, ids, family, records
<1>13. ASSUME NEW p \in Slot, NEW c \in Slot, Fork(p, c)
       PROVE  Sleepers'
  <2>1. PICK i : pid' = [pid EXCEPT ![c] = i]
    BY <1>13 DEF Fork, pidalloc
  <2>2. /\ pc[p] = "run" /\ pc[c] = "dead" /\ UNCHANGED <<records, reading>>
        /\ pid[c] = Nil /\ \A s \in Slot \ {c} : pid'[s] = pid[s]
    BY <1>13, <2>1 DEF Fork, Control, Types, Slots
  <2>3. Moves(c, "run")
    BY <1>13, GotoMoves DEF Fork, Control, PCs, Living
  <2>4. \A s \in Slot : nchild'[s] >= nchild[s] /\ nchild[s] \in Nat
    BY <1>13 DEF Fork, Families, family
  <2>5. NothingThere'
    <3>1. ASSUME NEW s \in Slot, pc'[s] = "asleep"
          PROVE  pid'[target'[s]] = qid'[s] /\ ~(waitq'[target'[s]] > 0)
      <4>1. pc[s] = "asleep"
        BY <2>3, <3>1 DEF Moves
      <4>2. target[s] \in Slot /\ qid[s] # Nil
        BY <4>1, AsleepOn DEF Control, Waiting
      <4>3. pid[target[s]] = qid[s] /\ ~(waitq[target[s]] > 0)
        BY <4>1 DEF Sleepers, NothingThere, prochaswaitq, Gone
      <4>4. QED
        BY <2>2, <4>2, <4>3 DEF records, reading
    <3>2. QED
      BY <3>1 DEF NothingThere, prochaswaitq, Gone
  <2>6. SleepsForChild'
    <3>1. ASSUME NEW s \in Slot, pc'[s] \in {"tosleep", "asleep"}, target'[s] = s
          PROVE  waitq'[s] > 0 \/ nchild'[s] > 0
      <4>1. pc[s] \in {"tosleep", "asleep"} /\ target[s] = s
        BY <2>2, <2>3, <3>1 DEF Moves, reading
      <4>2. waitq[s] > 0 \/ nchild[s] > 0
        BY <4>1 DEF Sleepers, SleepsForChild
      <4>3. nchild'[s] \in Int /\ nchild'[s] >= nchild[s]
        BY <1>13, <2>4 DEF Fork, Families, family
      <4>4. QED
        BY <2>2, <2>4, <4>2, <4>3 DEF records
    <3>2. QED
      BY <3>1 DEF SleepsForChild
  <2>7. QED
    BY <2>5, <2>6 DEF Sleepers
<1>14. ASSUME NEW p \in Slot, NEW t \in Slot, Open(p, t)
       PROVE  Sleepers'
  <2>1. Moves(p, "lock") /\ UNCHANGED <<pid, waitq, nchild>>
    BY <1>14, GotoMoves DEF Open, Control, PCs, Living, ids, family, records
  <2>2. \A s \in Slot \ {p} : target'[s] = target[s] /\ qid'[s] = qid[s]
    BY <1>14 DEF Open, Control, Types
  <2>3. QED
    BY <1>1, <2>1, <2>2
<1>15. CASE UNCHANGED vars
  BY <1>15, SleepersFrame DEF vars, ids, family, records, reading
<1>16. QED
  BY <1>2, <1>3, <1>4, <1>5, <1>6, <1>7, <1>9, <1>10, <1>11, <1>12, <1>13, <1>14, <1>15,
     <1>17 DEF Next
-----------------------------------------------------------------------------
\* The boot process is alone, and its pid has two references.
LEMMA InitInv == Init => Inv
<1> USE WaitAssumption
<1> SUFFICES ASSUME Init
             PROVE  Inv
  OBVIOUS
<1>1. PICK i \in Pids :
        /\ pid = [s \in Slot |-> IF s = Boot THEN i ELSE Nil] /\ noteid = pid
        /\ parentpid = [s \in Slot |-> Nil]
        /\ ref = [j \in Pids |-> IF j = i THEN 2 ELSE 0] /\ table = {i}
        /\ step = [s \in Slot |-> "none"] /\ group = [s \in Slot |-> Nil]
        /\ last = [s \in Slot |-> Nil]
        /\ parent = [s \in Slot |-> Nil] /\ nchild = [s \in Slot |-> 0]
        /\ nwait = [s \in Slot |-> 0] /\ waitq = [s \in Slot |-> 0]
        /\ qwaitr = [s \in Slot |-> Nil] /\ target = [s \in Slot |-> Nil]
        /\ qid = [s \in Slot |-> Nil] /\ broken = <<>>
        /\ pc = [s \in Slot |-> IF s = Boot THEN "run" ELSE "dead"]
  BY DEF Init
<1>2. Types /\ Slots /\ Underway /\ Readers /\ RecordsKept
  BY <1>1 DEF Types, Slots, Underway, Steps, Freeing, Readers, RecordsKept, Reading, Waiting, PCs, Living, At
<1>3. BrokenListed
  <2>1. broken = <<>> /\ ToSet(broken) = {} /\ IsInjective(broken) /\ Len(broken) = 0
    BY <1>1 DEF ToSet, IsInjective
  <2>2. {s \in Slot : pc[s] = "broken"} = {}
    BY <1>1
  <2>3. QED
    BY <2>1, <2>2 DEF BrokenListed, At
<1>4. PidTable
  <2>1. OfPid = pid /\ OfNote = pid /\ OfGroup = parentpid /\ OfParent = parentpid
    BY <1>1 DEF OfPid, OfNote, OfGroup, OfParent, Freeing
  <2>2. ASSUME NEW j \in Pids
        PROVE  /\ ref[j] = Uses(OfPid, j) + Uses(OfNote, j) + Uses(OfGroup, j)
                             + Uses(OfParent, j)
               /\ Uses(OfPid, j) <= 1
    <3>1. /\ {s \in Slot : pid[s] = j} = IF j = i THEN {Boot} ELSE {}
          /\ {s \in Slot : parentpid[s] = j} = {}
      BY <1>1
    <3>2. Cardinality({}) = 0 /\ Cardinality({Boot}) = 1
      BY FS_EmptySet, FS_Singleton
    <3>3. Uses(pid, j) = (IF j = i THEN 1 ELSE 0) /\ Uses(parentpid, j) = 0
      BY <3>1, <3>2 DEF Uses
    <3>4. QED
      BY <1>1, <2>1, <3>3
  <2>3. QED
    BY <1>1, <2>2 DEF PidTable, PidsCounted
<1>5. Families
  <2>1. \A q \in Slot : Children(q) = {}
    BY <1>1 DEF Children
  <2>2. \A q \in Slot : Cardinality(Children(q)) = 0
    BY <2>1, FS_EmptySet
  <2>3. QED
    BY <1>1, <2>2 DEF Families, NchildExact, NchildCovers
<1>6. Sleepers
  BY <1>1 DEF Sleepers, NothingThere, SleepsForChild, At
<1>7. QED
  BY <1>2, <1>3, <1>4, <1>5, <1>6 DEF Inv, Control

\* The inductive invariant holds of every behaviour: the four layers are
\* preserved one upon the other.
THEOREM Safety == Spec => []Inv
<1>1. Inv /\ [Next]_vars => Inv'
  BY ControlStep, PidsStep, FamiliesStep, SleepersStep DEF Inv
<1>2. QED
  BY InitInv, <1>1, PTL DEF Spec

\* pexit(), pwait() and the wait file of port/proc.c and port/devproc.c keep the
\* records with the process they belong to, and each broken process in the list
\* once.
THEOREM StaysConsistent == Spec => []Consistent
<1>1. Inv => Consistent
  BY DEF Inv, Control, Underway, PidTable, Families, Types, Consistent, TypeOK
<1>2. QED
  BY Safety, <1>1, PTL

\* The references to a Pid of port/proc.c are counted at every step of setnoteid()
\* and pidfree(), and no two processes share a Pid, however often its number is
\* used again: until changenoteid() takes a reference to a Pid that is being freed,
\* where the model stops (PidsOutlive).
THEOREM PidsStayCounted == Spec => []PidsCounted
<1>1. Inv => PidsCounted
  BY DEF Inv, PidTable
<1>2. QED
  BY Safety, <1>1, PTL

\* p->nchild of port/proc.c is the number of children that will leave a record.
THEOREM ChildrenCounted == Spec => []NchildExact
<1>1. Inv => NchildExact
  BY DEF Inv, Families
<1>2. QED
  BY Safety, <1>1, PTL

\* Who sleeps in pwait() of port/proc.c or in a read of a wait file has something
\* to wait for, and nobody else sleeps there.
THEOREM NobodyWaitsInVain == Spec => []SleepsForReason
<1>1. ASSUME Inv
      PROVE  SleepsForReason
  <2>1. ASSUME NEW p \in Slot, pc[p] = "asleep"
        PROVE  /\ ~prochaswaitq(p)
               /\ target[p] = p => Children(p) # {}
               /\ \A q \in Slot \ {p} : ~(pc[q] = "asleep" /\ target[q] = target[p])
    <3>1. ~prochaswaitq(p)
      BY <1>1, <2>1 DEF Inv, Sleepers, NothingThere, At
    <3>2. ASSUME target[p] = p
          PROVE  Children(p) # {}
      <4>1. ~(waitq[p] > 0)
        BY <3>1, <3>2 DEF prochaswaitq
      <4>2. nchild[p] > 0
        BY <1>1, <2>1, <3>2, <4>1 DEF Inv, Sleepers, SleepsForChild
      <4>3. nchild[p] = Cardinality(Children(p))
        BY <1>1, <2>1 DEF Inv, Families, NchildExact, Living, Waiting
      <4>4. QED
        BY <4>2, <4>3, FS_EmptySet
    <3>3. \A q \in Slot \ {p} : ~(pc[q] = "asleep" /\ target[q] = target[p])
      BY <1>1, <2>1, OneReaderEach DEF Inv, Control, Waiting
    <3>4. QED
      BY <3>1, <3>2, <3>3
  <2>2. QED
    BY <2>1 DEF SleepsForReason, At
<1>2. QED
  BY Safety, <1>1, PTL
=============================================================================
