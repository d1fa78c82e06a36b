-------------------------- MODULE RendezvousProofs --------------------------
(*****************************************************************************)
(* The safety properties of sysrendezvous(), and that it implements Meeting, *)
(* hold for any number of processes, groups and tags (as long as nobody      *)
(* changes its group: Spec, not SpecRfork).                                  *)
(*****************************************************************************)
EXTENDS Rendezvous, TLAPS

Members(g) == ToSet(rendhash[g])

\* Who is in rendezvous() has its tag, and who is after a process has its name.
Calling == {"rend", "wait", "ready", "ret"}
Chasing == {"ready", "intr", "intrlock", "intrrend", "intrready"}

Locals == \A p \in Proc : /\ rendtag[p] # Nil <=> pc[p] \in Calling
                          /\ pc[p] \in Chasing => who[p] \in Proc

\* Only who waits in rendezvous() is not running.
BlockedWaits == \A p \in Proc : state[p] # "Running" => pc[p] = "wait"

\* The lock of a group is that of the one procinterrupt() between lock() and
\* unlock(), the group of its victim.
LockHeld == \A p \in Proc, g \in Rgrps :
              lock[g] = p <=> pc[p] = "intrrend" /\ rgrp[who[p]] = g

\* The members of a chain sleep with different tags and their own values.
Chained == \A g \in Rgrps :
             /\ IsInjective(rendhash[g])
             /\ \A p \in Members(g) :
                  /\ rgrp[p] = g /\ state[p] = "Rendezvous" /\ pc[p] = "wait"
                  /\ rendval[p] = p
                  /\ \A q \in Members(g) : rendtag[q] = rendtag[p] => q = p

\* ready() is called for processes just taken off their chain, once for each.
ReadySound == \A k, p \in Proc : Readies(k, p) =>
                /\ state[p] = "Rendezvous" /\ pc[p] = "wait" /\ ~Waits(p)
                /\ \A k2 \in Proc : Readies(k2, p) => k2 = k

SleeperFound == \A p \in Proc : state[p] = "Rendezvous" /\ ~Waits(p) =>
                  \E k \in Proc : Readies(k, p)

\* Who has left its chain, or never joined it, has what the call returns.
Valued == \A p \in Proc :
            /\ pc[p] = "wait" /\ ~Waits(p) => rendval[p] # Nil
            /\ pc[p] \in {"ready", "ret"} => val[p] # Nil

\* Who is where.
Control == TypeOK /\ Locals /\ BlockedWaits /\ LockHeld

\* The chains, the processes taken off them and their values.
Chains == Chained /\ ReadySound /\ SleeperFound /\ Valued

\* The inductive invariant.
Inv == Control /\ Chains
-----------------------------------------------------------------------------
\* What joining a queue at its tail does to the set of its members.
LEMMA AppendMembers ==
  ASSUME NEW S, NEW s \in Seq(S), NEW e \in S
  PROVE  /\ Append(s, e) \in Seq(S)
         /\ ToSet(Append(s, e)) = ToSet(s) \cup {e}
         /\ IsInjective(s) /\ e \notin ToSet(s) => IsInjective(Append(s, e))
<1>1. /\ Len(Append(s, e)) = Len(s) + 1 /\ Append(s, e)[Len(s) + 1] = e
      /\ \A i \in 1 .. Len(s) : Append(s, e)[i] = s[i]
  OBVIOUS
<1>2. ToSet(Append(s, e)) = ToSet(s) \cup {e}
  BY <1>1 DEF ToSet
<1>3. QED
  BY <1>1, <1>2 DEF IsInjective, ToSet

\* What leaving a queue, from anywhere, does to the set of its members.
LEMMA RemoveAtMembers ==
  ASSUME NEW S, NEW s \in Seq(S), NEW i \in DOMAIN s, IsInjective(s)
  PROVE  /\ RemoveAt(s, i) \in Seq(S)
         /\ ToSet(RemoveAt(s, i)) = ToSet(s) \ {s[i]}
         /\ IsInjective(RemoveAt(s, i))
<1> DEFINE t == RemoveAt(s, i)
           old(j) == IF j < i THEN j ELSE j + 1
           new(k) == IF k < i THEN k ELSE k - 1
<1>1. /\ t \in Seq(S) /\ DOMAIN t = 1 .. Len(s) - 1
      /\ \A j \in DOMAIN t : t[j] = s[old(j)] /\ old(j) \in DOMAIN s \ {i}
  <2> DEFINE a == SubSeq(s, 1, i - 1)
             b == SubSeq(s, i + 1, Len(s))
  <2>1. /\ a \in Seq(S) /\ Len(a) = i - 1 /\ \A j \in 1 .. i - 1 : a[j] = s[j]
        /\ b \in Seq(S) /\ Len(b) = Len(s) - i /\ \A j \in 1 .. Len(s) - i : b[j] = s[j + i]
    OBVIOUS
  <2>2. t = a \o b
    BY DEF RemoveAt
  <2> HIDE DEF a, b, t
  <2>3. /\ t \in Seq(S) /\ DOMAIN t = 1 .. Len(s) - 1
        /\ \A j \in 1 .. Len(s) - 1 : t[j] = IF j < i THEN a[j] ELSE b[j - (i - 1)]
    BY <2>1, <2>2
  <2>4. \A j \in 1 .. Len(s) - 1 : j >= i => b[j - (i - 1)] = s[j + 1]
    BY <2>1
  <2>5. ASSUME NEW j \in 1 .. Len(s) - 1
        PROVE  t[j] = s[old(j)] /\ old(j) \in DOMAIN s \ {i}
    <3>1. i \in 1 .. Len(s) /\ Len(s) \in Nat
      OBVIOUS
    <3>2. t[j] = s[old(j)]
      BY <2>1, <2>3, <2>4, <3>1
    <3>3. QED
      BY <3>1, <3>2
  <2>6. QED
    BY <2>3, <2>5
<1>2. \A k \in DOMAIN s \ {i} : new(k) \in DOMAIN t /\ old(new(k)) = k
  BY <1>1
<1>3. \A j \in DOMAIN t, k \in DOMAIN t : old(j) = old(k) => j = k
  BY <1>1
<1> HIDE DEF t, old, new
<1>4. IsInjective(t)
  BY <1>1, <1>3 DEF IsInjective
<1>5. ToSet(t) = ToSet(s) \ {s[i]}
  BY <1>1, <1>2 DEF ToSet, IsInjective
<1>6. QED
  BY <1>1, <1>4, <1>5 DEF t
-----------------------------------------------------------------------------
\* The names that must not be confused.
LEMMA Distinct == /\ Nil \notin Proc /\ Nil \notin Rgrps /\ Nil \notin Tags
                  /\ Cancelled \notin Proc /\ Cancelled # Nil
BY NilAssumption, RendezvousAssumption

\* Meet: the partner q leaves the chain; the two have one another's values.
Partners(p, q) ==
  /\ pc[p] = "rend" /\ q \in Members(rgrp[p]) /\ q # p /\ rendtag[q] = rendtag[p]
  /\ who' = [who EXCEPT ![p] = q]
  /\ val' = [val EXCEPT ![p] = q]
  /\ rendval' = [rendval EXCEPT ![q] = p]

LeavesChain(q, h) ==
  /\ rendhash' \in [Rgrps -> Seq(Proc)]
  /\ \A g \in Rgrps : /\ IsInjective(rendhash'[g])
                      /\ Members(g)' = IF g = h THEN Members(g) \ {q} ELSE Members(g)

\* Meet takes the partner off its chain, and no other process off its own.
LEMMA MeetEffect ==
  ASSUME Control, Chained, NEW p \in Proc, Meet(p)
  PROVE  \E q \in Proc : Partners(p, q) /\ LeavesChain(q, rgrp[p])
<1> DEFINE g == rgrp[p]
           c == rendhash[g]
<1>1. PICK i \in DOMAIN c : /\ Partner(p, i)
                            /\ rendhash' = [rendhash EXCEPT ![g] = RemoveAt(c, i)]
                            /\ val' = [val EXCEPT ![p] = rendval[c[i]]]
                            /\ rendval' = [rendval EXCEPT ![c[i]] = p]
                            /\ who' = [who EXCEPT ![p] = c[i]]
  BY DEF Meet, Chain
<1>2. g \in Rgrps /\ pc[p] = "rend"
  BY DEF Meet, At, Control, TypeOK
<1>3. c \in Seq(Proc) /\ IsInjective(c)
  BY <1>2 DEF Control, TypeOK, Chained
<1>4. c[i] \in Proc /\ c[i] \in Members(g)
  BY <1>3 DEF Members, ToSet
<1>5. c[i] # p /\ rendval[c[i]] = c[i]
  BY <1>2, <1>4 DEF Chained
<1>6. /\ RemoveAt(c, i) \in Seq(Proc)
      /\ ToSet(RemoveAt(c, i)) = ToSet(c) \ {c[i]}
      /\ IsInjective(RemoveAt(c, i))
  BY <1>3, RemoveAtMembers
<1>7. Partners(p, c[i])
  BY <1>1, <1>2, <1>4, <1>5 DEF Partners, Partner, Chain
<1>8. LeavesChain(c[i], g)
  <2>1. /\ rendhash' \in [Rgrps -> Seq(Proc)]
        /\ \A h \in Rgrps : rendhash'[h] = IF h = g THEN RemoveAt(c, i) ELSE rendhash[h]
    BY <1>1, <1>2, <1>6 DEF Control, TypeOK
  <2>2. QED
    BY <1>6, <2>1 DEF LeavesChain, Members, Chained
<1>9. QED
  BY <1>4, <1>7, <1>8

\* InterruptCancel: the victim leaves its chain.
LEMMA CancelEffect ==
  ASSUME Control, Chained, NEW p \in Proc, InterruptCancel(p)
  PROVE  \E v \in Proc : /\ v = who[p] /\ v \in Members(rgrp[v]) /\ v # p
                         /\ LeavesChain(v, rgrp[v])
<1> DEFINE g == rgrp[who[p]]
           c == rendhash[g]
<1>1. PICK i \in DOMAIN c : /\ c[i] = who[p]
                            /\ rendhash' = [rendhash EXCEPT ![g] = RemoveAt(@, i)]
  BY DEF InterruptCancel, Found, Chain
<1>2. pc[p] = "intrrend" /\ who[p] \in Proc
  BY DEF InterruptCancel, At, Control, Locals, Chasing
<1>3. g \in Rgrps
  BY <1>2 DEF Control, TypeOK
<1>4. c \in Seq(Proc) /\ IsInjective(c)
  BY <1>3 DEF Control, TypeOK, Chained
<1>5. who[p] \in Members(g)
  BY <1>1 DEF Members, ToSet
<1>6. who[p] # p
  BY <1>2, <1>3, <1>5 DEF Chained
<1>7. /\ RemoveAt(c, i) \in Seq(Proc)
      /\ ToSet(RemoveAt(c, i)) = ToSet(c) \ {who[p]}
      /\ IsInjective(RemoveAt(c, i))
  BY <1>1, <1>4, RemoveAtMembers
<1>8. LeavesChain(who[p], g)
  <2>1. /\ rendhash' \in [Rgrps -> Seq(Proc)]
        /\ \A h \in Rgrps : rendhash'[h] = IF h = g THEN RemoveAt(c, i) ELSE rendhash[h]
    BY <1>1, <1>3, <1>7 DEF Control, TypeOK
  <2>2. QED
    BY <1>7, <2>1 DEF LeavesChain, Members, Chained
<1>9. QED
  BY <1>2, <1>5, <1>6, <1>8

\* Wait: the process joins its chain, where nobody has its tag.
LEMMA WaitEffect ==
  ASSUME Control, Chained, NEW p \in Proc, Wait(p)
  PROVE  /\ pc[p] = "rend"
         /\ rendhash' \in [Rgrps -> Seq(Proc)]
         /\ \A q \in Members(rgrp[p]) : rendtag[q] # rendtag[p]
         /\ \A g \in Rgrps :
              /\ p \notin Members(g)
              /\ IsInjective(rendhash'[g])
              /\ Members(g)' = IF g = rgrp[p] THEN Members(g) \cup {p} ELSE Members(g)
<1> DEFINE h == rgrp[p]
           c == rendhash[h]
<1>1. /\ pc[p] = "rend" /\ h \in Rgrps
      /\ rendhash' = [rendhash EXCEPT ![h] = Append(@, p)]
      /\ \A i \in DOMAIN c : ~Partner(p, i)
  BY DEF Wait, At, Chain, Control, TypeOK
<1>2. c \in Seq(Proc) /\ IsInjective(c)
  BY <1>1 DEF Control, TypeOK, Chained
<1>3. \A g \in Rgrps : p \notin Members(g)
  BY <1>1 DEF Chained
<1>4. /\ Append(c, p) \in Seq(Proc)
      /\ ToSet(Append(c, p)) = ToSet(c) \cup {p}
      /\ IsInjective(Append(c, p))
  BY <1>1, <1>2, <1>3, AppendMembers DEF Members
<1>5. \A q \in Members(h) : rendtag[q] # rendtag[p]
  <2> SUFFICES ASSUME NEW i \in DOMAIN c, rendtag[c[i]] = rendtag[p]
               PROVE  FALSE
    BY DEF Members, ToSet
  <2>1. ~Partner(p, i)
    BY <1>1
  <2>2. PICK j \in 1 .. i - 1 : rendtag[c[j]] = rendtag[p]
    BY <2>1 DEF Partner, Chain
  <2>3. j \in DOMAIN c /\ j # i
    BY <1>2, <2>2
  <2>4. c[i] \in Members(h) /\ c[j] \in Members(h)
    BY <2>3 DEF Members, ToSet
  <2>5. c[i] = c[j]
    BY <1>1, <2>2, <2>4 DEF Chained
  <2>6. QED
    BY <1>2, <2>3, <2>5 DEF IsInjective
<1>6. /\ rendhash' \in [Rgrps -> Seq(Proc)]
      /\ \A g \in Rgrps : rendhash'[g] = IF g = h THEN Append(c, p) ELSE rendhash[g]
  BY <1>1, <1>4 DEF Control, TypeOK
<1>7. QED
  BY <1>1, <1>3, <1>4, <1>5, <1>6 DEF Members, Chained

\* Who leaves its chain does not wait there any more; who joins it does.
LEMMA LeavesWaits ==
  ASSUME Control, Chained, NEW q \in Proc, q \in Members(rgrp[q]),
         LeavesChain(q, rgrp[q]), UNCHANGED rgrp
  PROVE  \A r \in Proc : Waits(r)' <=> Waits(r) /\ r # q
<1>1. \A r \in Proc : rgrp[r] \in Rgrps /\ (Waits(r) <=> r \in Members(rgrp[r]))
  BY DEF Waits, Chain, Members, Control, TypeOK
<1>2. \A r \in Proc : Waits(r)' <=> r \in ToSet(rendhash'[rgrp[r]])
  BY DEF Waits, Chain
<1>3. \A g \in Rgrps : ToSet(rendhash'[g])
          = IF g = rgrp[q] THEN Members(g) \ {q} ELSE Members(g)
  BY DEF LeavesChain, Members
<1>4. ASSUME NEW r \in Proc
      PROVE  r \in ToSet(rendhash'[rgrp[r]]) <=> r \in Members(rgrp[r]) /\ r # q
  <2>1. CASE rgrp[r] = rgrp[q]
    <3>1. ToSet(rendhash'[rgrp[r]]) = Members(rgrp[r]) \ {q}
      BY <1>1, <1>3, <2>1
    <3>2. QED
      BY <3>1
  <2>2. CASE rgrp[r] # rgrp[q]
    BY <1>1, <1>3, <2>2
  <2>3. QED
    BY <2>1, <2>2
<1>5. QED
  BY <1>1, <1>2, <1>4

\* Who joins its chain waits there, and who waited still does.
LEMMA JoinsWaits ==
  ASSUME Control, Chained, NEW p \in Proc, Wait(p)
  PROVE  \A r \in Proc : Waits(r)' <=> Waits(r) \/ r = p
<1>1. \A r \in Proc : rgrp[r] \in Rgrps /\ (Waits(r) <=> r \in Members(rgrp[r]))
  BY DEF Waits, Chain, Members, Control, TypeOK
<1>2. \A r \in Proc : Waits(r)' <=> r \in ToSet(rendhash'[rgrp[r]])
  BY DEF Wait, Waits, Chain
<1>3. \A g \in Rgrps : ToSet(rendhash'[g])
          = IF g = rgrp[p] THEN Members(g) \cup {p} ELSE Members(g)
  BY WaitEffect DEF Members
<1>4. ASSUME NEW r \in Proc
      PROVE  r \in ToSet(rendhash'[rgrp[r]]) <=> r \in Members(rgrp[r]) \/ r = p
  <2>1. CASE rgrp[r] = rgrp[p]
    <3>1. ToSet(rendhash'[rgrp[r]]) = Members(rgrp[r]) \cup {p}
      BY <1>1, <1>3, <2>1
    <3>2. QED
      BY <3>1
  <2>2. CASE rgrp[r] # rgrp[p]
    BY <1>1, <1>3, <2>2
  <2>3. QED
    BY <2>1, <2>2
<1>5. QED
  BY <1>1, <1>2, <1>4
-----------------------------------------------------------------------------
\* A step that leaves the chains and their members alone.
LEMMA ChainedFrame ==
  ASSUME Chained, UNCHANGED <<rendhash, rgrp, rendtag>>,
         \A g \in Rgrps : \A r \in Members(g) :
           state'[r] = state[r] /\ pc'[r] = pc[r] /\ rendval'[r] = rendval[r]
  PROVE  Chained'
<1>1. \A g \in Rgrps : Members(g)' = Members(g)
  BY DEF Members
<1>2. QED
  BY <1>1 DEF Chained

\* No step disturbs who is where.
LEMMA ControlStep ==
  ASSUME Control, Chained, [Next]_vars
  PROVE  Control'
<1> USE Distinct
    DEF At, Goto, Runs, procVars, rendVars, Control, TypeOK, ProcTypeOK
<1>1. ASSUME NEW p \in Proc, NEW t \in Tags, Call(p, t)
      PROVE  Control'
  <2>1. TypeOK'
    BY <1>1 DEF States, Blocked, PCs, Locals, Chasing, Call
  <2>2. Locals'
    BY <1>1 DEF Locals, Calling, Chasing, Call
  <2>3. BlockedWaits'
    BY <1>1 DEF BlockedWaits, Locals, Chasing, Call
  <2>4. LockHeld'
    BY <1>1 DEF Locals, Chasing, LockHeld, Free, Call
  <2>5. QED
    BY <2>1, <2>2, <2>3, <2>4
<1>2. ASSUME NEW p \in Proc, NEW v \in Proc, Interrupt(p, v)
      PROVE  Control'
  <2>1. TypeOK'
    BY <1>2 DEF States, Blocked, PCs, Locals, Chasing, Interrupt
  <2>2. Locals'
    BY <1>2 DEF Locals, Calling, Chasing, Interrupt
  <2>3. BlockedWaits'
    BY <1>2 DEF BlockedWaits, Locals, Chasing, Interrupt
  <2>4. LockHeld'
    BY <1>2 DEF Locals, Chasing, LockHeld, Free, Interrupt
  <2>5. QED
    BY <2>1, <2>2, <2>3, <2>4
<1>3. ASSUME NEW p \in Proc, Popnote(p)
      PROVE  Control'
  <2>1. TypeOK'
    BY <1>3 DEF States, Blocked, PCs, Locals, Chasing, Popnote
  <2>2. Locals'
    BY <1>3 DEF Locals, Calling, Chasing, Popnote
  <2>3. BlockedWaits'
    BY <1>3 DEF BlockedWaits, Locals, Chasing, Popnote
  <2>4. LockHeld'
    BY <1>3 DEF Locals, Chasing, LockHeld, Free, Popnote
  <2>5. QED
    BY <2>1, <2>2, <2>3, <2>4
<1>4. ASSUME NEW p \in Proc, InterruptLock(p)
      PROVE  Control'
  <2>1. TypeOK'
    BY <1>4 DEF States, Blocked, PCs, Locals, Chasing, InterruptLock
  <2>2. Locals'
    BY <1>4 DEF Locals, Calling, Chasing, InterruptLock
  <2>3. BlockedWaits'
    BY <1>4 DEF BlockedWaits, Locals, Chasing, InterruptLock
  <2>4. LockHeld'
    BY <1>4 DEF Locals, Chasing, LockHeld, Free, InterruptLock
  <2>5. QED
    BY <2>1, <2>2, <2>3, <2>4
<1>5. ASSUME NEW p \in Proc, Ready(p)
      PROVE  Control'
  <2>1. state' = state \/ \E r \in Proc : state' = [state EXCEPT ![r] = "Ready"]
    BY <1>5 DEF Ready, ReadyState, Locals, Chasing
  <2>2. TypeOK'
    BY <1>5, <2>1 DEF States, PCs, Ready
  <2>3. Locals'
    BY <1>5 DEF Locals, Calling, Chasing, Ready
  <2>4. BlockedWaits'
    BY <1>5 DEF BlockedWaits, Locals, Chasing, Ready, ReadyState, Blocked
  <2>5. LockHeld'
    BY <1>5 DEF Locals, Chasing, LockHeld, Free, Ready
  <2>6. QED
    BY <2>2, <2>3, <2>4, <2>5
<1>6. ASSUME NEW p \in Proc, Return(p)
      PROVE  Control'
  <2>1. TypeOK'
    BY <1>6 DEF States, Blocked, PCs, Locals, Chasing, Return
  <2>2. Locals'
    BY <1>6 DEF Locals, Calling, Chasing, Return
  <2>3. BlockedWaits'
    BY <1>6 DEF BlockedWaits, Locals, Chasing, Return
  <2>4. LockHeld'
    BY <1>6 DEF Locals, Chasing, LockHeld, Free, Return
  <2>5. QED
    BY <2>1, <2>2, <2>3, <2>4
<1>7. ASSUME NEW p \in Proc, InterruptWaits(p)
      PROVE  Control'
  <2>1. TypeOK'
    BY <1>7 DEF States, Blocked, PCs, Locals, Chasing, InterruptWaits
  <2>2. Locals'
    BY <1>7 DEF Locals, Calling, Chasing, InterruptWaits
  <2>3. BlockedWaits'
    BY <1>7 DEF BlockedWaits, Locals, Chasing, InterruptWaits
  <2>4. LockHeld'
    BY <1>7 DEF Locals, Chasing, LockHeld, Free, InterruptWaits
  <2>5. QED
    BY <2>1, <2>2, <2>3, <2>4
<1>8. ASSUME NEW p \in Proc, InterruptAwake(p)
      PROVE  Control'
  <2>1. TypeOK'
    BY <1>8 DEF States, Blocked, PCs, Locals, Chasing, InterruptAwake
  <2>2. Locals'
    BY <1>8 DEF Locals, Calling, Chasing, InterruptAwake
  <2>3. BlockedWaits'
    BY <1>8 DEF BlockedWaits, Locals, Chasing, InterruptAwake
  <2>4. LockHeld'
    BY <1>8 DEF Locals, Chasing, LockHeld, Free, InterruptAwake
  <2>5. QED
    BY <2>1, <2>2, <2>3, <2>4
<1>9. ASSUME NEW p \in Proc, InterruptMiss(p)
      PROVE  Control'
  <2>1. TypeOK'
    BY <1>9 DEF States, Blocked, PCs, Locals, Chasing, InterruptMiss
  <2>2. Locals'
    BY <1>9 DEF Locals, Calling, Chasing, InterruptMiss
  <2>3. BlockedWaits'
    BY <1>9 DEF BlockedWaits, Locals, Chasing, InterruptMiss
  <2>4. LockHeld'
    BY <1>9 DEF Locals, Chasing, LockHeld, Free, InterruptMiss
  <2>5. QED
    BY <2>1, <2>2, <2>3, <2>4
<1>10. ASSUME NEW p \in Proc, Schedule(p)
      PROVE  Control'
  <2>1. TypeOK'
    BY <1>10 DEF States, Blocked, PCs, Locals, Chasing, Schedule, Switch, Dispatch
  <2>2. Locals'
    BY <1>10 DEF Locals, Calling, Chasing, Schedule, Switch, Dispatch
  <2>3. BlockedWaits'
    BY <1>10 DEF BlockedWaits, Locals, Chasing, Schedule, Switch, Dispatch
  <2>4. LockHeld'
    BY <1>10 DEF Locals, Chasing, LockHeld, Free, Schedule, Switch, Dispatch
  <2>5. QED
    BY <2>1, <2>2, <2>3, <2>4
<1>11. ASSUME NEW p \in Proc, Meet(p)
      PROVE  Control'
  <2>1. PICK q \in Proc : Partners(p, q) /\ LeavesChain(q, rgrp[p])
    BY <1>11, MeetEffect
  <2>2. TypeOK'
    BY <1>11, <2>1 DEF States, Blocked, PCs, Locals, Chasing, Meet, Partners, LeavesChain
  <2>3. Locals'
    BY <1>11, <2>1 DEF Locals, Calling, Chasing, Meet, Partners, LeavesChain
  <2>4. BlockedWaits'
    BY <1>11, <2>1 DEF BlockedWaits, Locals, Chasing, Meet, Partners, LeavesChain
  <2>5. LockHeld'
    BY <1>11, <2>1 DEF Locals, Chasing, LockHeld, Free, Meet, Partners, LeavesChain
  <2>6. QED
    BY <2>2, <2>3, <2>4, <2>5
<1>12. ASSUME NEW p \in Proc, Wait(p)
      PROVE  Control'
  <2>1. rendhash' \in [Rgrps -> Seq(Proc)]
    BY <1>12, WaitEffect
  <2>2. TypeOK'
    BY <1>12, <2>1 DEF States, Blocked, PCs, Locals, Chasing, Wait
  <2>3. Locals'
    BY <1>12, <2>1 DEF Locals, Calling, Chasing, Wait
  <2>4. BlockedWaits'
    BY <1>12, <2>1 DEF BlockedWaits, Locals, Chasing, Wait
  <2>5. LockHeld'
    BY <1>12, <2>1 DEF Locals, Chasing, LockHeld, Free, Wait
  <2>6. QED
    BY <2>2, <2>3, <2>4, <2>5
<1>13. ASSUME NEW p \in Proc, InterruptCancel(p)
      PROVE  Control'
  <2>1. PICK v \in Proc : v = who[p] /\ LeavesChain(v, rgrp[v])
    BY <1>13, CancelEffect
  <2>2. TypeOK'
    BY <1>13, <2>1 DEF States, Blocked, PCs, Locals, Chasing, InterruptCancel, LeavesChain
  <2>3. Locals'
    BY <1>13, <2>1 DEF Locals, Calling, Chasing, InterruptCancel, LeavesChain
  <2>4. BlockedWaits'
    BY <1>13, <2>1 DEF BlockedWaits, Locals, Chasing, InterruptCancel, LeavesChain
  <2>5. LockHeld'
    BY <1>13, <2>1 DEF Locals, Chasing, LockHeld, Free, InterruptCancel, LeavesChain
  <2>6. QED
    BY <2>2, <2>3, <2>4, <2>5
<1>14. CASE UNCHANGED vars
  BY <1>14 DEF vars, Locals, BlockedWaits, LockHeld
<1>15. QED
  BY <1>1, <1>2, <1>3, <1>4, <1>5, <1>6, <1>7, <1>8, <1>9, <1>10, <1>11, <1>12, <1>13,
     <1>14 DEF Next, Spin, Steps

\* No step lets a waiter meet twice, be readied twice or not at all, or leave
\* without a value.
LEMMA ChainsStep ==
  ASSUME Control, Chains, [Next]_vars
  PROVE  Chains'
<1> USE Distinct
    DEF At, Goto, Runs, procVars, rendVars, Control, TypeOK, ProcTypeOK, Chains
<1>1. ASSUME NEW p \in Proc, NEW t \in Tags, Call(p, t)
      PROVE  Chains'
  <2>1. /\ \A g \in Rgrps : Members(g)' = Members(g) /\ rendhash'[g] = rendhash[g]
        /\ \A r \in Proc : Waits(r)' <=> Waits(r)
    BY <1>1 DEF Members, Waits, Chain, Call
  <2>2. \A r, o \in Proc : Readies(r, o)' <=> Readies(r, o)
    BY <1>1, <2>1 DEF Readies, Call
  <2>3. Chained'
    BY <1>1, <2>1, <2>2 DEF Chained, ReadySound, Call
  <2>4. ReadySound'
    BY <1>1, <2>1, <2>2 DEF ReadySound, Chained, Locals, Chasing, Readies, Call
  <2>5. SleeperFound'
    BY <1>1, <2>1, <2>2 DEF SleeperFound, ReadySound, Chained, BlockedWaits, Call
  <2>6. Valued'
    BY <1>1, <2>1, <2>2 DEF Valued, ReadySound, Chained, Locals, Call
  <2>7. QED
    BY <2>3, <2>4, <2>5, <2>6
<1>2. ASSUME NEW p \in Proc, NEW v \in Proc, Interrupt(p, v)
      PROVE  Chains'
  <2>1. /\ \A g \in Rgrps : Members(g)' = Members(g) /\ rendhash'[g] = rendhash[g]
        /\ \A r \in Proc : Waits(r)' <=> Waits(r)
    BY <1>2 DEF Members, Waits, Chain, Interrupt
  <2>2. \A r, o \in Proc : Readies(r, o)' <=> Readies(r, o)
    BY <1>2, <2>1 DEF Readies, Interrupt
  <2>3. Chained'
    BY <1>2, <2>1, <2>2 DEF Chained, ReadySound, Interrupt
  <2>4. ReadySound'
    BY <1>2, <2>1, <2>2 DEF ReadySound, Chained, Locals, Chasing, Readies, Interrupt
  <2>5. SleeperFound'
    BY <1>2, <2>1, <2>2 DEF SleeperFound, ReadySound, Chained, BlockedWaits, Interrupt
  <2>6. Valued'
    BY <1>2, <2>1, <2>2 DEF Valued, ReadySound, Chained, Locals, Interrupt
  <2>7. QED
    BY <2>3, <2>4, <2>5, <2>6
<1>3. ASSUME NEW p \in Proc, Popnote(p)
      PROVE  Chains'
  <2>1. /\ \A g \in Rgrps : Members(g)' = Members(g) /\ rendhash'[g] = rendhash[g]
        /\ \A r \in Proc : Waits(r)' <=> Waits(r)
    BY <1>3 DEF Members, Waits, Chain, Popnote
  <2>2. \A r, o \in Proc : Readies(r, o)' <=> Readies(r, o)
    BY <1>3, <2>1 DEF Readies, Popnote
  <2>3. Chained'
    BY <1>3, <2>1, <2>2 DEF Chained, ReadySound, Popnote
  <2>4. ReadySound'
    BY <1>3, <2>1, <2>2 DEF ReadySound, Chained, Locals, Chasing, Readies, Popnote
  <2>5. SleeperFound'
    BY <1>3, <2>1, <2>2 DEF SleeperFound, ReadySound, Chained, BlockedWaits, Popnote
  <2>6. Valued'
    BY <1>3, <2>1, <2>2 DEF Valued, ReadySound, Chained, Locals, Popnote
  <2>7. QED
    BY <2>3, <2>4, <2>5, <2>6
<1>4. ASSUME NEW p \in Proc, InterruptLock(p)
      PROVE  Chains'
  <2>1. /\ \A g \in Rgrps : Members(g)' = Members(g) /\ rendhash'[g] = rendhash[g]
        /\ \A r \in Proc : Waits(r)' <=> Waits(r)
    BY <1>4 DEF Members, Waits, Chain, InterruptLock
  <2>2. \A r, o \in Proc : Readies(r, o)' <=> Readies(r, o)
    BY <1>4, <2>1 DEF Readies, InterruptLock
  <2>3. Chained'
    BY <1>4, <2>1, <2>2 DEF Chained, ReadySound, InterruptLock
  <2>4. ReadySound'
    BY <1>4, <2>1, <2>2 DEF ReadySound, Chained, Locals, Chasing, Readies, InterruptLock
  <2>5. SleeperFound'
    BY <1>4, <2>1, <2>2 DEF SleeperFound, ReadySound, Chained, BlockedWaits, InterruptLock
  <2>6. Valued'
    BY <1>4, <2>1, <2>2 DEF Valued, ReadySound, Chained, Locals, InterruptLock
  <2>7. QED
    BY <2>3, <2>4, <2>5, <2>6
<1>5. ASSUME NEW p \in Proc, Ready(p)
      PROVE  Chains'
  <2>1. /\ \A g \in Rgrps : Members(g)' = Members(g) /\ rendhash'[g] = rendhash[g]
        /\ \A r \in Proc : Waits(r)' <=> Waits(r)
    BY <1>5 DEF Members, Waits, Chain, Ready, ReadyState, Blocked
  <2>2. /\ who[p] \in Proc /\ Readies(p, who[p]) /\ state[who[p]] = "Rendezvous"
        /\ \A g \in Rgrps : who[p] \notin Members(g)
    <3>1. who[p] \in Proc /\ Readies(p, who[p])
      BY <1>5 DEF Ready, Locals, Chasing, Readies
    <3>2. state[who[p]] = "Rendezvous" /\ ~Waits(who[p])
      BY <3>1 DEF ReadySound
    <3>3. \A g \in Rgrps : who[p] \notin Members(g)
      BY <3>1, <3>2 DEF Chained, Waits, Chain, Members
    <3>4. QED
      BY <3>1, <3>2, <3>3
  <2>3. state' = [state EXCEPT ![who[p]] = "Ready"]
    BY <1>5, <2>2 DEF Ready, ReadyState, Blocked
  <2>4. \A r, o \in Proc : Readies(r, o)' <=> Readies(r, o) /\ r # p
    BY <1>5, <2>1, <2>2, <2>3 DEF Readies, Ready, ReadyState, Blocked
  <2>5. Chained'
    <3>1. \A g \in Rgrps : \A r \in Members(g) : r # p /\ r # who[p] /\ r \in Proc
      BY <1>5, <2>2 DEF Ready, Chained, Members, ToSet
    <3>2. \A g \in Rgrps : \A r \in Members(g) :
            state'[r] = state[r] /\ pc'[r] = pc[r] /\ rendval'[r] = rendval[r]
      BY <1>5, <2>3, <3>1 DEF Ready
    <3>3. QED
      BY <1>5, <3>2, ChainedFrame DEF Ready
  <2>6. ReadySound'
    BY <1>5, <2>1, <2>2, <2>3, <2>4
      DEF ReadySound, Chained, Locals, Chasing, Readies, Ready, ReadyState, Blocked
  <2>7. SleeperFound'
    <3> SUFFICES ASSUME NEW r \in Proc, (state[r] = "Rendezvous" /\ ~Waits(r))'
                 PROVE  \E k \in Proc : Readies(k, r)'
      BY DEF SleeperFound
    <3>1. state[r] = "Rendezvous" /\ ~Waits(r) /\ r # who[p]
      BY <2>1, <2>2, <2>3
    <3>2. PICK k \in Proc : Readies(k, r)
      BY <3>1 DEF SleeperFound
    <3>3. k # p
      BY <3>1, <3>2 DEF Readies
    <3>4. QED
      BY <2>4, <3>2, <3>3
  <2>8. Valued'
    BY <1>5, <2>1, <2>2, <2>3, <2>4
      DEF Valued, ReadySound, Chained, Locals, Ready, ReadyState, Blocked
  <2>9. QED
    BY <2>5, <2>6, <2>7, <2>8
<1>6. ASSUME NEW p \in Proc, Return(p)
      PROVE  Chains'
  <2>1. /\ \A g \in Rgrps : Members(g)' = Members(g) /\ rendhash'[g] = rendhash[g]
        /\ \A r \in Proc : Waits(r)' <=> Waits(r)
    BY <1>6 DEF Members, Waits, Chain, Return
  <2>2. \A r, o \in Proc : Readies(r, o)' <=> Readies(r, o)
    BY <1>6, <2>1 DEF Readies, Return
  <2>3. Chained'
    BY <1>6, <2>1, <2>2 DEF Chained, ReadySound, Return
  <2>4. ReadySound'
    BY <1>6, <2>1, <2>2 DEF ReadySound, Chained, Locals, Chasing, Readies, Return
  <2>5. SleeperFound'
    BY <1>6, <2>1, <2>2 DEF SleeperFound, ReadySound, Chained, BlockedWaits, Return
  <2>6. Valued'
    BY <1>6, <2>1, <2>2 DEF Valued, ReadySound, Chained, Locals, Return
  <2>7. QED
    BY <2>3, <2>4, <2>5, <2>6
<1>7. ASSUME NEW p \in Proc, InterruptWaits(p)
      PROVE  Chains'
  <2>1. /\ \A g \in Rgrps : Members(g)' = Members(g) /\ rendhash'[g] = rendhash[g]
        /\ \A r \in Proc : Waits(r)' <=> Waits(r)
    BY <1>7 DEF Members, Waits, Chain, InterruptWaits
  <2>2. \A r, o \in Proc : Readies(r, o)' <=> Readies(r, o)
    BY <1>7, <2>1 DEF Readies, InterruptWaits
  <2>3. Chained'
    BY <1>7, <2>1, <2>2 DEF Chained, ReadySound, InterruptWaits
  <2>4. ReadySound'
    BY <1>7, <2>1, <2>2 DEF ReadySound, Chained, Locals, Chasing, Readies, InterruptWaits
  <2>5. SleeperFound'
    BY <1>7, <2>1, <2>2
      DEF SleeperFound, ReadySound, Chained, BlockedWaits, InterruptWaits
  <2>6. Valued'
    BY <1>7, <2>1, <2>2 DEF Valued, ReadySound, Chained, Locals, InterruptWaits
  <2>7. QED
    BY <2>3, <2>4, <2>5, <2>6
<1>8. ASSUME NEW p \in Proc, InterruptAwake(p)
      PROVE  Chains'
  <2>1. /\ \A g \in Rgrps : Members(g)' = Members(g) /\ rendhash'[g] = rendhash[g]
        /\ \A r \in Proc : Waits(r)' <=> Waits(r)
    BY <1>8 DEF Members, Waits, Chain, InterruptAwake
  <2>2. \A r, o \in Proc : Readies(r, o)' <=> Readies(r, o)
    BY <1>8, <2>1 DEF Readies, InterruptAwake
  <2>3. Chained'
    BY <1>8, <2>1, <2>2 DEF Chained, ReadySound, InterruptAwake
  <2>4. ReadySound'
    BY <1>8, <2>1, <2>2 DEF ReadySound, Chained, Locals, Chasing, Readies, InterruptAwake
  <2>5. SleeperFound'
    BY <1>8, <2>1, <2>2
      DEF SleeperFound, ReadySound, Chained, BlockedWaits, InterruptAwake
  <2>6. Valued'
    BY <1>8, <2>1, <2>2 DEF Valued, ReadySound, Chained, Locals, InterruptAwake
  <2>7. QED
    BY <2>3, <2>4, <2>5, <2>6
<1>9. ASSUME NEW p \in Proc, InterruptMiss(p)
      PROVE  Chains'
  <2>1. /\ \A g \in Rgrps : Members(g)' = Members(g) /\ rendhash'[g] = rendhash[g]
        /\ \A r \in Proc : Waits(r)' <=> Waits(r)
    BY <1>9 DEF Members, Waits, Chain, InterruptMiss
  <2>2. \A r, o \in Proc : Readies(r, o)' <=> Readies(r, o)
    BY <1>9, <2>1 DEF Readies, InterruptMiss
  <2>3. Chained'
    BY <1>9, <2>1, <2>2 DEF Chained, ReadySound, InterruptMiss
  <2>4. ReadySound'
    BY <1>9, <2>1, <2>2 DEF ReadySound, Chained, Locals, Chasing, Readies, InterruptMiss
  <2>5. SleeperFound'
    BY <1>9, <2>1, <2>2 DEF SleeperFound, ReadySound, Chained, BlockedWaits, InterruptMiss
  <2>6. Valued'
    BY <1>9, <2>1, <2>2 DEF Valued, ReadySound, Chained, Locals, InterruptMiss
  <2>7. QED
    BY <2>3, <2>4, <2>5, <2>6
<1>10. ASSUME NEW p \in Proc, Schedule(p)
      PROVE  Chains'
  <2>1. /\ \A g \in Rgrps : Members(g)' = Members(g) /\ rendhash'[g] = rendhash[g]
        /\ \A r \in Proc : Waits(r)' <=> Waits(r)
    BY <1>10 DEF Members, Waits, Chain, Schedule, Switch, Dispatch
  <2>2. \A r, o \in Proc : Readies(r, o)' <=> Readies(r, o)
    BY <1>10, <2>1 DEF Readies, Schedule, Switch, Dispatch
  <2>3. Chained'
    <3>1. \A g \in Rgrps : \A r \in Members(g) : state[r] = "Rendezvous" /\ r \in Proc
      BY DEF Chained, Members, ToSet
    <3>2. \A g \in Rgrps : \A r \in Members(g) : state'[r] = state[r]
      BY <1>10, <3>1 DEF Schedule, Switch, Dispatch
    <3>3. QED
      BY <1>10, <3>2, ChainedFrame DEF Schedule
  <2>4. ReadySound'
    BY <1>10, <2>1, <2>2
      DEF ReadySound, Chained, Locals, Chasing, Readies, Schedule, Switch, Dispatch
  <2>5. SleeperFound'
    BY <1>10, <2>1, <2>2
      DEF SleeperFound, ReadySound, Chained, BlockedWaits, Schedule, Switch, Dispatch
  <2>6. Valued'
    BY <1>10, <2>1, <2>2
      DEF Valued, ReadySound, Chained, Locals, Schedule, Switch, Dispatch
  <2>7. QED
    BY <2>3, <2>4, <2>5, <2>6
<1>11. ASSUME NEW p \in Proc, Meet(p)
      PROVE  Chains'
  <2>1. PICK q \in Proc : Partners(p, q) /\ LeavesChain(q, rgrp[p])
    BY <1>11, MeetEffect
  <2>2. \A r \in Proc : Waits(r)' <=> Waits(r) /\ r # q
    <3>1. rgrp[q] = rgrp[p] /\ UNCHANGED rgrp
      BY <1>11, <2>1 DEF Meet, Partners, Chained
    <3>2. QED
      BY <2>1, <3>1, LeavesWaits DEF Partners
  <2>3. \A r, o \in Proc : Readies(r, o)' <=> Readies(r, o) \/ (r = p /\ o = q)
    BY <1>11, <2>1, <2>2 DEF Readies, Meet, Partners, LeavesChain
  <2>4. Chained'
    BY <1>11, <2>1, <2>2, <2>3 DEF Chained, ReadySound, Meet, Partners, LeavesChain
  <2>5. ReadySound'
    <3> SUFFICES ASSUME NEW k \in Proc, NEW r \in Proc, Readies(k, r)'
                 PROVE  /\ (state[r] = "Rendezvous" /\ pc[r] = "wait" /\ ~Waits(r))'
                        /\ \A k2 \in Proc : Readies(k2, r)' => k2 = k
      BY DEF ReadySound
    <3>1. Waits(q) /\ state[q] = "Rendezvous" /\ pc[q] = "wait"
      BY <2>1 DEF Partners, Chained, Waits, Chain, Members
    <3>2. \A k2 \in Proc : ~Readies(k2, q)
      BY <3>1 DEF ReadySound
    <3>3. r # p
      BY <2>1, <2>3, <3>1, <1>11 DEF Meet, Partners, ReadySound
    <3>4. CASE r = q
      BY <1>11, <2>1, <2>2, <2>3, <3>1, <3>2, <3>3, <3>4 DEF Meet, Partners
    <3>5. CASE r # q
      <4>1. Readies(k, r) /\ state[r] = "Rendezvous" /\ pc[r] = "wait" /\ ~Waits(r)
        BY <2>3, <3>5 DEF ReadySound
      <4>2. \A k2 \in Proc : Readies(k2, r)' => k2 = k
        BY <2>3, <3>5, <4>1 DEF ReadySound
      <4>3. QED
        BY <1>11, <2>2, <3>3, <3>5, <4>1, <4>2 DEF Meet
    <3>6. QED
      BY <3>4, <3>5
  <2>6. SleeperFound'
    BY <1>11, <2>1, <2>2, <2>3
      DEF SleeperFound, ReadySound, Chained, BlockedWaits, Meet, Partners, LeavesChain
  <2>7. Valued'
    BY <1>11, <2>1, <2>2, <2>3
      DEF Valued, ReadySound, Chained, Locals, Meet, Partners, LeavesChain
  <2>8. QED
    BY <2>4, <2>5, <2>6, <2>7
<1>12. ASSUME NEW p \in Proc, Wait(p)
      PROVE  Chains'
  <2>1. /\ pc[p] = "rend"
        /\ \A q \in Members(rgrp[p]) : rendtag[q] # rendtag[p]
        /\ \A g \in Rgrps :
             /\ p \notin Members(g)
             /\ IsInjective(rendhash'[g])
             /\ Members(g)' = IF g = rgrp[p] THEN Members(g) \cup {p} ELSE Members(g)
    BY <1>12, WaitEffect
  <2>2. \A r \in Proc : Waits(r)' <=> Waits(r) \/ r = p
    BY <1>12, JoinsWaits
  <2>3. \A r, o \in Proc : Readies(r, o)' <=> Readies(r, o)
    BY <1>12, <2>1, <2>2 DEF Readies, Wait
  <2>4. Chained'
    BY <1>12, <2>1, <2>2, <2>3 DEF Chained, ReadySound, Wait
  <2>5. ReadySound'
    BY <1>12, <2>1, <2>2, <2>3 DEF ReadySound, Chained, Locals, Chasing, Readies, Wait
  <2>6. SleeperFound'
    BY <1>12, <2>1, <2>2, <2>3 DEF SleeperFound, ReadySound, Chained, BlockedWaits, Wait
  <2>7. Valued'
    BY <1>12, <2>1, <2>2, <2>3 DEF Valued, ReadySound, Chained, Locals, Wait
  <2>8. QED
    BY <2>4, <2>5, <2>6, <2>7
<1>13. ASSUME NEW p \in Proc, InterruptCancel(p)
      PROVE  Chains'
  <2>1. PICK v \in Proc : v = who[p] /\ v \in Members(rgrp[v]) /\ v # p /\ LeavesChain(v, rgrp[v])
    BY <1>13, CancelEffect
  <2>2. \A r \in Proc : Waits(r)' <=> Waits(r) /\ r # v
    <3>1. UNCHANGED rgrp
      BY <1>13 DEF InterruptCancel
    <3>2. QED
      BY <2>1, <3>1, LeavesWaits
  <2>3. \A r, o \in Proc : Readies(r, o)' <=> Readies(r, o) \/ (r = p /\ o = v)
    BY <1>13, <2>1, <2>2 DEF Readies, InterruptCancel, LeavesChain
  <2>4. Chained'
    BY <1>13, <2>1, <2>2, <2>3 DEF Chained, ReadySound, InterruptCancel, LeavesChain
  <2>5. ReadySound'
    <3> SUFFICES ASSUME NEW k \in Proc, NEW r \in Proc, Readies(k, r)'
                 PROVE  /\ (state[r] = "Rendezvous" /\ pc[r] = "wait" /\ ~Waits(r))'
                        /\ \A k2 \in Proc : Readies(k2, r)' => k2 = k
      BY DEF ReadySound
    <3>1. Waits(v) /\ state[v] = "Rendezvous" /\ pc[v] = "wait"
      BY <2>1 DEF Partners, Chained, Waits, Chain, Members
    <3>2. \A k2 \in Proc : ~Readies(k2, v)
      BY <3>1 DEF ReadySound
    <3>3. r # p
      BY <2>1, <2>3, <3>1, <1>13 DEF InterruptCancel, Partners, ReadySound
    <3>4. CASE r = v
      BY <1>13, <2>1, <2>2, <2>3, <3>1, <3>2, <3>3, <3>4 DEF InterruptCancel, Partners
    <3>5. CASE r # v
      <4>1. Readies(k, r) /\ state[r] = "Rendezvous" /\ pc[r] = "wait" /\ ~Waits(r)
        BY <2>3, <3>5 DEF ReadySound
      <4>2. \A k2 \in Proc : Readies(k2, r)' => k2 = k
        BY <2>3, <3>5, <4>1 DEF ReadySound
      <4>3. QED
        BY <1>13, <2>2, <3>3, <3>5, <4>1, <4>2 DEF InterruptCancel
    <3>6. QED
      BY <3>4, <3>5
  <2>6. SleeperFound'
    BY <1>13, <2>1, <2>2, <2>3
      DEF SleeperFound, ReadySound, Chained, BlockedWaits, InterruptCancel, LeavesChain
  <2>7. Valued'
    BY <1>13, <2>1, <2>2, <2>3
      DEF Valued, ReadySound, Chained, Locals, InterruptCancel, LeavesChain
  <2>8. QED
    BY <2>4, <2>5, <2>6, <2>7
<1>14. CASE UNCHANGED vars
  <2>1. /\ \A g \in Rgrps : Members(g)' = Members(g) /\ rendhash'[g] = rendhash[g]
        /\ \A r \in Proc : Waits(r)' <=> Waits(r)
        /\ \A r, o \in Proc : Readies(r, o)' <=> Readies(r, o)
    BY <1>14 DEF vars, Members, Waits, Chain, Readies
  <2>2. QED
    BY <1>14, <2>1 DEF vars, Chained, ReadySound, SleeperFound, Valued
<1>15. QED
  BY <1>1, <1>2, <1>3, <1>4, <1>5, <1>6, <1>7, <1>8, <1>9, <1>10, <1>11, <1>12, <1>13,
     <1>14 DEF Next, Spin, Steps
-----------------------------------------------------------------------------
\* The inductive invariant holds when nothing has happened yet.
LEMMA InitInv == Init => Inv
<1> SUFFICES ASSUME Init PROVE Inv
  OBVIOUS
<1> USE NilAssumption, RendezvousAssumption
<1>1. \A g \in Rgrps : rendhash[g] = <<>> /\ Members(g) = {} /\ IsInjective(rendhash[g])
  BY DEF Init, Members, ToSet, IsInjective
<1>2. Control
  BY DEF Init, ProcInit, Control, TypeOK, ProcTypeOK, States, Blocked, PCs, Locals,
     Calling,
         Chasing, BlockedWaits, LockHeld
<1>3. Chains
  BY <1>1 DEF Init, ProcInit, Chains, Chained, ReadySound, SleeperFound, Valued, Readies
<1>4. QED
  BY <1>2, <1>3 DEF Inv

\* The inductive invariant holds in every reachable state: its two layers are
\* preserved one upon the other.
THEOREM Safety == Spec => []Inv
<1>1. Inv /\ [Next]_vars => Inv'
  BY ControlStep, ChainsStep DEF Inv, Chains
<1>2. QED
  BY <1>1, InitInv, PTL DEF Spec

\* The members of a chain of port/sysproc.c sleep there, once each, in their own
\* group, and no two of them have the same tag.
THEOREM StaysConsistent == Spec => []Consistent
<1>1. Inv => Consistent
  <2> SUFFICES ASSUME Inv PROVE Consistent
    OBVIOUS
  <2>1. TypeOK
    BY DEF Inv, Control
  <2>2. ASSUME NEW g \in Rgrps, NEW i \in DOMAIN Chain(g), NEW j \in DOMAIN Chain(g),
               rendtag[Chain(g)[i]] = rendtag[Chain(g)[j]]
        PROVE  i = j
    <3>1. Chain(g)[i] \in Members(g) /\ Chain(g)[j] \in Members(g)
      BY DEF Chain, Members, ToSet
    <3>2. Chain(g)[i] = Chain(g)[j]
      BY <2>2, <3>1 DEF Inv, Chains, Chained
    <3>3. QED
      BY <3>2 DEF Inv, Chains, Chained, Chain, IsInjective
  <2>3. ChainsSound
    BY <2>2 DEF ChainsSound, Inv, Chains, Chained, Chain, Members
  <2>4. QED
    BY <2>1, <2>3 DEF Consistent
<1>2. QED
  BY <1>1, Safety, PTL

\* Who is taken off a chain is readied by one process: by its partner or by the
\* procinterrupt() that found it there.
THEOREM SleepersReadied == Spec => []ReadiedOnce
<1>1. Inv => ReadiedOnce
  <2> SUFFICES ASSUME Inv, NEW p \in Proc
               PROVE  /\ \A k1, k2 \in Proc : Readies(k1, p) /\ Readies(k2, p) => k1 = k2
                      /\ \A k \in Proc : Readies(k, p) => state[p] = "Rendezvous" /\ k # p
                      /\ state[p] = "Rendezvous" /\ ~Waits(p) =>
                           \E k \in Proc : Readies(k, p)
    BY DEF ReadiedOnce
  <2>1. \A k \in Proc : Readies(k, p) => /\ state[p] = "Rendezvous" /\ pc[p] = "wait"
                                         /\ \A k2 \in Proc : Readies(k2, p) => k2 = k
    BY DEF Inv, Chains, ReadySound
  <2>2. \A k \in Proc : Readies(k, p) => k # p
    BY <2>1 DEF Readies
  <2>3. QED
    BY <2>1, <2>2 DEF Inv, Chains, SleeperFound
<1>2. QED
  BY <1>1, Safety, PTL
-----------------------------------------------------------------------------
\* Meeting's variables as functions of those of Rendezvous.
CallMap == [p \in Proc |-> IF rendtag[p] = Nil THEN Nil ELSE <<rgrp[p], rendtag[p]>>]
ResultMap == [p \in Proc |-> Decided(p)]

\* A step that nobody sees from outside.
SameCalls == \A p \in Proc : rendtag'[p] = rendtag[p] /\ rgrp'[p] = rgrp[p]
SameResults == \A p \in Proc : Decided(p)' = Decided(p)

\* Most steps of Rendezvous are not seen from outside: to wait, to be readied and
\* to look for a process with a note decide nothing.
LEMMA QuietSteps ==
  ASSUME Inv, NEW p \in Proc,
         \/ Wait(p) \/ Ready(p) \/ \E v \in Proc : Interrupt(p, v)
         \/ InterruptWaits(p) \/ InterruptAwake(p) \/ InterruptLock(p) \/ InterruptMiss(p)
         \/ Popnote(p) \/ Schedule(p)
  PROVE  SameCalls /\ SameResults
<1> USE DEF At, Goto, procVars, rendVars, Inv, Control, TypeOK
<1>1. CASE Wait(p)
  <2>1. \A r \in Proc : Waits(r)' <=> Waits(r) \/ r = p
    BY <1>1, JoinsWaits DEF Chains
  <2>2. SameCalls
    BY <1>1 DEF Wait, SameCalls
  <2>3. SameResults
    BY <1>1, <2>1 DEF Wait, SameResults, Decided
  <2>4. QED
    BY <2>2, <2>3
<1>2. ASSUME \/ Ready(p) \/ \E v \in Proc : Interrupt(p, v)
             \/ InterruptWaits(p) \/ InterruptAwake(p) \/ InterruptLock(p)
             \/ InterruptMiss(p) \/ Popnote(p) \/ Schedule(p)
      PROVE  SameCalls /\ SameResults
  <2>1. UNCHANGED <<rendhash, rgrp, rendtag, rendval, val>>
    BY <1>2 DEF Ready, Interrupt, InterruptWaits, InterruptAwake, InterruptLock,
                InterruptMiss, Popnote, Schedule
  <2>2. \A r \in Proc : Waits(r)' <=> Waits(r)
    BY <2>1 DEF Waits, Chain
  <2>3. \A r \in Proc : /\ pc'[r] = "wait" <=> pc[r] = "wait"
                        /\ pc'[r] \in {"ready", "ret"} <=> pc[r] \in {"ready", "ret"}
    BY <1>2 DEF Ready, Interrupt, InterruptWaits, InterruptAwake, InterruptLock,
                InterruptMiss, Popnote, Schedule
  <2>4. QED
    BY <2>1, <2>2, <2>3 DEF SameCalls, SameResults, Decided
<1>3. QED
  BY <1>1, <1>2

\* Every step of Rendezvous is a step of Meeting or leaves what it shows unchanged.
LEMMA StepRefines ==
  ASSUME Inv, [Next]_vars
  PROVE  [Meets!AbsNext]_(Meets!absVars)
<1> USE Distinct DEF At, Goto, procVars, rendVars
<1>a. SameCalls /\ SameResults => UNCHANGED Meets!absVars
  BY DEF SameCalls, SameResults, Meets!absVars
<1>1. ASSUME NEW p \in Proc, NEW t \in Tags, Call(p, t)
      PROVE  Meets!AbsNext
  <2>1. rendtag[p] = Nil
    BY <1>1 DEF Call, Inv, Control, Locals, Calling
  <2>2. CallMap' = [CallMap EXCEPT ![p] = <<rgrp[p], t>>]
    BY <1>1 DEF Call, CallMap, Inv, Control, TypeOK
  <2>3. \A r \in Proc : Waits(r)' <=> Waits(r)
    BY <1>1 DEF Call, Waits, Chain
  <2>4. UNCHANGED ResultMap
    BY <1>1, <2>3 DEF Call, ResultMap, Decided, Inv, Control, TypeOK
  <2>5. PICK k \in Rgrps \X Tags : k = <<rgrp[p], t>>
    BY DEF Inv, Control, TypeOK
  <2>6. Meets!Come(p, k)
    BY <2>1, <2>2, <2>4, <2>5 DEF Meets!Come, CallMap, ResultMap
  <2>7. QED
    BY <2>5, <2>6 DEF Meets!AbsNext
<1>2. ASSUME NEW p \in Proc, Meet(p)
      PROVE  Meets!AbsNext
  <2>1. PICK q \in Proc : Partners(p, q) /\ LeavesChain(q, rgrp[p])
    BY <1>2, MeetEffect DEF Inv, Chains
  <2>2. pc[q] = "wait" /\ Waits(q) /\ rgrp[q] = rgrp[p]
    <3>1. rgrp[p] \in Rgrps /\ q \in Members(rgrp[p])
      BY <2>1 DEF Partners, Inv, Control, TypeOK
    <3>2. pc[q] = "wait" /\ rgrp[q] = rgrp[p]
      BY <3>1 DEF Inv, Chains, Chained
    <3>3. QED
      BY <3>1, <3>2 DEF Waits, Chain, Members
  <2>3. \A r \in Proc : Waits(r)' <=> Waits(r) /\ r # q
    <3>1. UNCHANGED rgrp
      BY <1>2 DEF Meet
    <3>2. QED
      BY <2>1, <2>2, <3>1, LeavesWaits DEF Partners, Inv, Chains
  <2>4. /\ Decided(p) = Nil /\ Decided(q) = Nil
        /\ Decided(p)' = q /\ Decided(q)' = p
        /\ \A r \in Proc \ {p, q} : Decided(r)' = Decided(r)
    <3>1. pc[p] = "rend" /\ pc' = [pc EXCEPT ![p] = "ready"]
      BY <1>2 DEF Meet
    <3>2. Decided(p) = Nil /\ Decided(q) = Nil
      BY <2>2, <3>1 DEF Decided
    <3>3. Decided(p)' = q
      BY <2>1, <3>1 DEF Decided, Partners, Inv, Control, TypeOK
    <3>4. Decided(q)' = p
      BY <2>1, <2>2, <2>3, <3>1 DEF Decided, Partners, Inv, Control, TypeOK
    <3>5. \A r \in Proc \ {p, q} : Decided(r)' = Decided(r)
      BY <2>1, <2>3, <3>1 DEF Decided, Partners, Inv, Control, TypeOK
    <3>6. QED
      BY <3>2, <3>3, <3>4, <3>5
  <2>5. UNCHANGED CallMap
    BY <1>2 DEF Meet, CallMap
  <2>6. ResultMap' = [ResultMap EXCEPT ![p] = q, ![q] = p]
    BY <2>1, <2>4 DEF ResultMap, Partners
  <2>7. CallMap[p] = CallMap[q] /\ CallMap[p] # Nil
    <3>1. rendtag[p] = rendtag[q] /\ rendtag[p] # Nil
      BY <2>1, <2>2 DEF Partners, Inv, Control, Locals, Calling
    <3>2. rendtag[p] \in Tags /\ rgrp[p] \in Rgrps
      BY <3>1 DEF Inv, Control, TypeOK
    <3>3. <<rgrp[p], rendtag[p]>> # Nil
      BY <3>2, RendezvousAssumption
    <3>4. QED
      BY <2>2, <3>1, <3>3 DEF CallMap
  <2>8. Meets!Meet(p, q)
    BY <2>1, <2>4, <2>5, <2>6, <2>7
    DEF Meets!Meet, Meets!Open, CallMap, ResultMap, Partners
  <2>9. QED
    BY <2>8 DEF Meets!AbsNext
<1>3. ASSUME NEW p \in Proc, InterruptCancel(p)
      PROVE  Meets!AbsNext
  <2>1. PICK v \in Proc : /\ v = who[p] /\ v \in Members(rgrp[v]) /\ v # p
                          /\ LeavesChain(v, rgrp[v])
    BY <1>3, CancelEffect DEF Inv, Chains
  <2>2. pc[v] = "wait" /\ Waits(v) /\ rgrp[v] \in Rgrps
    BY <2>1 DEF Inv, Chains, Chained, Waits, Chain, Members, Control, TypeOK
  <2>3. \A r \in Proc : Waits(r)' <=> Waits(r) /\ r # v
    <3>1. UNCHANGED rgrp
      BY <1>3 DEF InterruptCancel
    <3>2. QED
      BY <2>1, <3>1, LeavesWaits DEF Inv, Chains
  <2>4. /\ Decided(v) = Nil /\ Decided(v)' = Cancelled
        /\ \A r \in Proc \ {v} : Decided(r)' = Decided(r)
    <3>1. /\ pc[p] = "intrrend" /\ pc' = [pc EXCEPT ![p] = "intrready"]
          /\ rendval' = [rendval EXCEPT ![v] = Cancelled] /\ UNCHANGED val
      BY <1>3, <2>1 DEF InterruptCancel
    <3>2. Decided(v) = Nil
      BY <2>2 DEF Decided
    <3>3. Decided(v)' = Cancelled
      BY <2>1, <2>2, <2>3, <3>1 DEF Decided, Inv, Control, TypeOK
    <3>4. \A r \in Proc \ {v} : Decided(r)' = Decided(r)
      BY <2>1, <2>3, <3>1 DEF Decided, Inv, Control, TypeOK
    <3>5. QED
      BY <3>2, <3>3, <3>4
  <2>5. UNCHANGED CallMap
    BY <1>3 DEF InterruptCancel, CallMap
  <2>6. ResultMap' = [ResultMap EXCEPT ![v] = Cancelled]
    <3>1. \A r \in Proc : Decided(r)' = IF r = v THEN Cancelled ELSE Decided(r)
      BY <2>4
    <3>2. QED
      BY <3>1 DEF ResultMap
  <2>7. CallMap[v] # Nil
    <3>1. rendtag[v] # Nil
      BY <2>2 DEF Inv, Control, Locals, Calling
    <3>2. rendtag[v] \in Tags
      BY <3>1 DEF Inv, Control, TypeOK
    <3>3. <<rgrp[v], rendtag[v]>> # Nil
      BY <2>2, <3>2, RendezvousAssumption
    <3>4. QED
      BY <3>1, <3>3 DEF CallMap
  <2>8. Meets!Cancel(v)
    BY <2>4, <2>5, <2>6, <2>7 DEF Meets!Cancel, Meets!Open, CallMap, ResultMap
  <2>9. QED
    BY <2>8 DEF Meets!AbsNext
<1>4. ASSUME NEW p \in Proc, Return(p)
      PROVE  Meets!AbsNext
  <2>1. /\ pc[p] \in {"ret", "wait"} /\ state[p] = "Running"
        /\ pc' = [pc EXCEPT ![p] = "idle"] /\ val' = [val EXCEPT ![p] = Nil]
        /\ rendtag' = [rendtag EXCEPT ![p] = Nil]
        /\ rendval' = [rendval EXCEPT ![p] = Nil]
        /\ UNCHANGED <<rendhash, rgrp>>
    BY <1>4 DEF Return, Runs
  <2>2. ~Waits(p)
    BY <2>1 DEF Inv, Control, TypeOK, Chains, Chained, Waits, Chain, Members
  <2>3. \A r \in Proc : Waits(r)' <=> Waits(r)
    BY <2>1 DEF Waits, Chain
  <2>4. /\ Decided(p) # Nil /\ Decided(p)' = Nil
        /\ \A r \in Proc \ {p} : Decided(r)' = Decided(r)
    <3>1. Decided(p) # Nil
      BY <2>1, <2>2 DEF Decided, Inv, Chains, Valued
    <3>2. Decided(p)' = Nil
      BY <2>1 DEF Decided, Inv, Control, TypeOK
    <3>3. \A r \in Proc \ {p} : Decided(r)' = Decided(r)
      BY <2>1, <2>3 DEF Decided, Inv, Control, TypeOK
    <3>4. QED
      BY <3>1, <3>2, <3>3
  <2>5. CallMap' = [CallMap EXCEPT ![p] = Nil]
    BY <2>1 DEF CallMap, Inv, Control, TypeOK
  <2>6. ResultMap' = [ResultMap EXCEPT ![p] = Nil]
    <3>1. \A r \in Proc : Decided(r)' = IF r = p THEN Nil ELSE Decided(r)
      BY <2>4
    <3>2. QED
      BY <3>1 DEF ResultMap
  <2>7. Meets!Leave(p)
    BY <2>4, <2>5, <2>6 DEF Meets!Leave, CallMap, ResultMap
  <2>8. QED
    BY <2>7 DEF Meets!AbsNext
<1>5. CASE UNCHANGED vars
  <2>1. SameCalls /\ SameResults
    BY <1>5 DEF vars, SameCalls, SameResults, Decided, Waits, Chain
  <2>2. QED
    BY <1>a, <2>1
<1>6. QED
  <2>1. CASE Next
    <3>1. PICK p \in Proc :
            \/ \E t \in Tags : Call(p, t)
            \/ Meet(p) \/ InterruptCancel(p) \/ Return(p)
            \/ (SameCalls /\ SameResults)
      BY <2>1, QuietSteps DEF Next, Spin, Steps
    <3>2. QED
      BY <3>1, <1>a, <1>1, <1>2, <1>3, <1>4
  <2>2. QED
    BY <2>1, <1>5

\* sysrendezvous() exchanges the values of two processes in one step: nobody gets
\* half a rendezvous, a value given to another, or a value after a note ended it.
THEOREM IsMeeting == Spec => MeetingSpec
<1>1. Init => Meets!AbsInit
  BY Distinct DEF Init, Meets!AbsInit, Decided
<1>2. Inv /\ [Next]_vars => [Meets!AbsNext]_(Meets!absVars)
  BY StepRefines
<1>3. QED
  BY <1>1, <1>2, Safety, PTL DEF Spec, MeetingSpec, Meets!AbsSpec
=============================================================================
