---------------------------- MODULE MntMuxProofs ----------------------------
(*****************************************************************************)
(* The safety properties of MntMux hold for any number of processes and      *)
(* tags, and the multiplexing of calls on a 9P connection implements Rpc.    *)
(*                                                                           *)
(* The inductive invariant has three layers: Base says that the tags, the    *)
(* queue and the gate agree, Sent that the server and the replies under way  *)
(* agree with them and that a flush is answered after what it flushes, and   *)
(* GateNotLost that no reader is missing.                                    *)
(*****************************************************************************)
EXTENDS MntMux, WellFoundedInduction, TLAPS
-----------------------------------------------------------------------------
\* A set of natural numbers that is not empty has a least element: the least
\* counterexample of the two inductions below.
LEMMA LeastNatural ==
    ASSUME NEW S \in SUBSET Nat, S # {}
    PROVE  \E n \in S : \A m \in S : n <= m
<1> DEFINE R == OpToRel(<, Nat)
<1>1. IsWellFoundedOn(R, Nat)
  BY NatLessThanWellFounded
<1>2. \A m, n \in Nat : <<m, n>> \in R <=> m < n
  BY DEF OpToRel
<1> HIDE DEF R
<1>3. PICK n \in S : \A m \in S : <<m, n>> \notin R
  BY <1>1, WFMin
<1>4. ASSUME NEW m \in S PROVE n <= m
  <2>1. m \in Nat /\ n \in Nat /\ ~(m < n)
    BY <1>2, <1>3
  <2> QED BY <2>1
<1> QED BY <1>4

\* What an element at the end of a sequence does to the set of its members.
LEMMA AppendMembers ==
    ASSUME NEW T, NEW s \in Seq(T), NEW e \in T
    PROVE  /\ Append(s, e) \in Seq(T)
           /\ ToSet(Append(s, e)) = ToSet(s) \cup {e}
           /\ IsInjective(s) /\ e \notin ToSet(s) => IsInjective(Append(s, e))
<1>1. /\ DOMAIN s = 1 .. Len(s) /\ DOMAIN Append(s, e) = 1 .. Len(s) + 1
      /\ \A i \in DOMAIN s : Append(s, e)[i] = s[i]
      /\ Append(s, e)[Len(s) + 1] = e
      /\ Append(s, e) \in Seq(T)
  OBVIOUS
<1>2. 1 .. Len(s) + 1 = DOMAIN s \cup {Len(s) + 1}
  BY <1>1
<1>3. ToSet(Append(s, e)) = ToSet(s) \cup {e}
  BY <1>1, <1>2 DEF ToSet
<1>4. ASSUME IsInjective(s), e \notin ToSet(s) PROVE IsInjective(Append(s, e))
  BY <1>1, <1>2, <1>4 DEF IsInjective, ToSet
<1> QED BY <1>1, <1>3, <1>4

\* f is what Only() computes over the first n elements of s.
Unfolds(f, s, S, n) ==
    f = [i \in 0 .. n |-> IF i = 0 THEN <<>>
                          ELSE IF s[i] \in S THEN Append(f[i - 1], s[i])
                          ELSE f[i - 1]]

\* The recursive function of Only() exists for every length.
LEMMA UnfoldsExists ==
    ASSUME NEW s, NEW S, NEW k \in Nat
    PROVE  \E f : Unfolds(f, s, S, k)
<1> DEFINE Bad == {n \in 0 .. k : ~ \E f : Unfolds(f, s, S, n)}
<1> SUFFICES ASSUME Bad # {} PROVE FALSE
  OBVIOUS
<1>1. PICK n \in Bad : \A m \in Bad : n <= m
  <2>1. Bad \in SUBSET Nat
    OBVIOUS
  <2> HIDE DEF Bad
  <2> QED BY <2>1, LeastNatural
<1>2. n \in 0 .. k /\ ~ \E f : Unfolds(f, s, S, n)
  OBVIOUS
<1>3. n # 0
  <2> DEFINE f == [i \in 0 .. 0 |-> <<>>]
  <2>1. Unfolds(f, s, S, 0)
    BY DEF Unfolds
  <2> QED BY <1>2, <2>1
<1>4. n - 1 \in 0 .. k /\ n - 1 \notin Bad
  BY <1>1, <1>2, <1>3
<1>5. PICK g : Unfolds(g, s, S, n - 1)
  BY <1>4
<1> DEFINE x == IF s[n] \in S THEN Append(g[n - 1], s[n]) ELSE g[n - 1]
           f == [i \in 0 .. n |-> IF i = n THEN x ELSE g[i]]
<1> HIDE DEF Bad
<1>6. \A i \in 0 .. n - 1 : f[i] = g[i]
  BY <1>2
<1>7. f[n] = x
  BY <1>2
<1>8. ASSUME NEW i \in 0 .. n
      PROVE  f[i] = IF i = 0 THEN <<>>
                    ELSE IF s[i] \in S THEN Append(f[i - 1], s[i])
                    ELSE f[i - 1]
  <2> HIDE DEF f
  <2>1. CASE i = n
    <3>1. f[i - 1] = g[i - 1]
      BY <1>2, <1>3, <1>6, <2>1
    <3> QED BY <1>3, <1>7, <2>1, <3>1
  <2>2. CASE i # n
    <3>1. i \in 0 .. n - 1 /\ (i # 0 => i - 1 \in 0 .. n - 1)
      BY <1>2, <2>2
    <3>2. g[i] = IF i = 0 THEN <<>>
                 ELSE IF s[i] \in S THEN Append(g[i - 1], s[i])
                 ELSE g[i - 1]
      BY <1>5, <3>1 DEF Unfolds
    <3> QED BY <1>6, <3>1, <3>2
  <2> QED BY <2>1, <2>2
<1>9. Unfolds(f, s, S, n)
  BY <1>8 DEF Unfolds
<1> QED BY <1>2, <1>9

\* Only() is the last value of that function.
LEMMA OnlyUnfolds ==
    ASSUME NEW s, NEW S, Len(s) \in Nat
    PROVE  \E f : Unfolds(f, s, S, Len(s)) /\ Only(s, S) = f[Len(s)]
<1>1. \E f : Unfolds(f, s, S, Len(s))
  BY UnfoldsExists
<1> DEFINE f == CHOOSE f : Unfolds(f, s, S, Len(s))
<1>2. Unfolds(f, s, S, Len(s))
  BY <1>1
<1>3. Only(s, S) = f[Len(s)]
  BY DEF Only, Unfolds
<1> QED BY <1>2, <1>3

\* Taking Mntrpcs out of m->queue leaves the others, each once.
LEMMA OnlyMembers ==
    ASSUME NEW T, NEW s \in Seq(T), NEW S
    PROVE  /\ Only(s, S) \in Seq(T)
           /\ ToSet(Only(s, S)) = ToSet(s) \cap S
           /\ IsInjective(s) => IsInjective(Only(s, S))
<1>1. PICK f : Unfolds(f, s, S, Len(s)) /\ Only(s, S) = f[Len(s)]
  BY OnlyUnfolds
<1> DEFINE Good(n) == /\ f[n] \in Seq(T)
                      /\ ToSet(f[n]) = {s[i] : i \in 1 .. n} \cap S
                      /\ IsInjective(s) => IsInjective(f[n])
           Bad == {n \in 0 .. Len(s) : ~ Good(n)}
<1>2. Good(0)
  <2>1. f[0] = <<>>
    BY <1>1 DEF Unfolds
  <2> QED BY <2>1 DEF ToSet, IsInjective
<1>3. ASSUME NEW n \in 1 .. Len(s), Good(n - 1) PROVE Good(n)
  <2>1. s[n] \in T /\ n - 1 \in Nat
    OBVIOUS
  <2>2. {s[i] : i \in 1 .. n} = {s[i] : i \in 1 .. n - 1} \cup {s[n]}
    <3>1. \A i \in 1 .. n : i \in 1 .. n - 1 \/ i = n
      OBVIOUS
    <3>2. \A i \in 1 .. n - 1 : i \in 1 .. n
      OBVIOUS
    <3> QED BY <3>1, <3>2
  <2>3. IsInjective(s) => s[n] \notin {s[i] : i \in 1 .. n - 1}
    <3>1. \A i \in 1 .. n - 1 : i # n /\ i \in DOMAIN s /\ n \in DOMAIN s
      OBVIOUS
    <3> QED BY <3>1 DEF IsInjective
  <2>4. f[n] = IF s[n] \in S THEN Append(f[n - 1], s[n]) ELSE f[n - 1]
    <3>1. n \in 0 .. Len(s) /\ n # 0
      OBVIOUS
    <3> HIDE DEF Good
    <3> QED BY <1>1, <3>1 DEF Unfolds
  <2>5. CASE s[n] \in S
    <3>1. f[n] = Append(f[n - 1], s[n])
      BY <2>4, <2>5
    <3>2. /\ Append(f[n - 1], s[n]) \in Seq(T)
          /\ ToSet(Append(f[n - 1], s[n])) = ToSet(f[n - 1]) \cup {s[n]}
          /\ IsInjective(f[n - 1]) /\ s[n] \notin ToSet(f[n - 1])
               => IsInjective(Append(f[n - 1], s[n]))
      BY <1>3, <2>1, AppendMembers
    <3> QED BY <1>3, <2>2, <2>3, <2>5, <3>1, <3>2
  <2>6. CASE s[n] \notin S
    <3>1. f[n] = f[n - 1]
      BY <2>4, <2>6
    <3> QED BY <1>3, <2>2, <2>6, <3>1
  <2> QED BY <2>5, <2>6
<1>4. Bad = {}
  <2> SUFFICES ASSUME Bad # {} PROVE FALSE
    OBVIOUS
  <2>1. PICK n \in Bad : \A m \in Bad : n <= m
    <3>1. Bad \in SUBSET Nat
      OBVIOUS
    <3> HIDE DEF Bad
    <3> QED BY <3>1, LeastNatural
  <2>2. n \in 0 .. Len(s) /\ ~ Good(n)
    OBVIOUS
  <2> HIDE DEF Good
  <2>3. n # 0
    BY <1>2, <2>2
  <2>4. n - 1 \in 0 .. Len(s) /\ n - 1 \notin Bad
    BY <2>1, <2>2, <2>3
  <2>5. Good(n - 1) /\ n \in 1 .. Len(s)
    BY <2>2, <2>3, <2>4
  <2> QED BY <1>3, <2>2, <2>5
<1>5. Good(Len(s))
  <2> HIDE DEF Good
  <2>1. Len(s) \in Nat
    OBVIOUS
  <2>2. Len(s) \in 0 .. Len(s)
    BY <2>1
  <2> QED BY <1>4, <2>2
<1>6. {s[i] : i \in 1 .. Len(s)} = ToSet(s)
  BY DEF ToSet
<1> QED BY <1>1, <1>5, <1>6
-----------------------------------------------------------------------------
\* mountio() links a new Mntrpc at the head of m->queue.
LEMMA PrependMembers ==
    ASSUME NEW T, NEW s \in Seq(T), NEW e \in T
    PROVE  /\ <<e>> \o s \in Seq(T)
           /\ ToSet(<<e>> \o s) = ToSet(s) \cup {e}
           /\ IsInjective(s) /\ e \notin ToSet(s) => IsInjective(<<e>> \o s)
<1> DEFINE q == <<e>> \o s
<1>1. /\ q \in Seq(T) /\ Len(q) = Len(s) + 1
      /\ q[1] = e /\ \A i \in 1 .. Len(s) : q[i + 1] = s[i]
  OBVIOUS
<1>2. \A i \in 2 .. Len(s) + 1 : i - 1 \in 1 .. Len(s) /\ q[i] = s[i - 1]
  <2> SUFFICES ASSUME NEW i \in 2 .. Len(s) + 1
               PROVE  i - 1 \in 1 .. Len(s) /\ q[i] = s[i - 1]
    OBVIOUS
  <2>1. i - 1 \in 1 .. Len(s) /\ (i - 1) + 1 = i
    OBVIOUS
  <2> HIDE DEF q
  <2> QED BY <1>1, <2>1
<1>3. DOMAIN q = {1} \cup 2 .. Len(s) + 1
  <2> HIDE DEF q
  <2> QED BY <1>1
<1> HIDE DEF q
<1>4. ToSet(q) = ToSet(s) \cup {e}
  <2>1. \A x \in ToSet(s) : x \in ToSet(q)
    <3> SUFFICES ASSUME NEW i \in 1 .. Len(s) PROVE s[i] \in ToSet(q)
      BY DEF ToSet
    <3>1. i + 1 \in DOMAIN q /\ q[i + 1] = s[i]
      BY <1>1, <1>3
    <3> QED BY <3>1 DEF ToSet
  <2>2. \A x \in ToSet(q) : x \in ToSet(s) \/ x = e
    BY <1>1, <1>2, <1>3 DEF ToSet
  <2>3. e \in ToSet(q)
    BY <1>1, <1>3 DEF ToSet
  <2> QED BY <2>1, <2>2, <2>3
<1>5. ASSUME IsInjective(s), e \notin ToSet(s) PROVE IsInjective(q)
  <2> SUFFICES ASSUME NEW a \in DOMAIN q, NEW b \in DOMAIN q, q[a] = q[b] PROVE a = b
    BY DEF IsInjective
  <2>1. \A i \in 2 .. Len(s) + 1 : q[i] # e
    BY <1>2, <1>5 DEF ToSet
  <2>2. CASE a = 1 \/ b = 1
    BY <1>1, <1>3, <2>1, <2>2
  <2>3. CASE a # 1 /\ b # 1
    <3>1. /\ a - 1 \in DOMAIN s /\ b - 1 \in DOMAIN s
          /\ s[a - 1] = s[b - 1] /\ a \in Int /\ b \in Int
      BY <1>2, <1>3, <2>3
    <3>2. a - 1 = b - 1
      BY <1>5, <3>1 DEF IsInjective
    <3> QED BY <3>1, <3>2
  <2> QED BY <2>2, <2>3
<1> QED BY <1>1, <1>4, <1>5 DEF q

\* The first reply leaves the queue of the connection.
LEMMA ConsumeMembers ==
    ASSUME NEW T, NEW s \in Seq(T), s # <<>>
    PROVE  /\ Head(s) \in T /\ Tail(s) \in Seq(T)
           /\ ToSet(s) = ToSet(Tail(s)) \cup {Head(s)}
           /\ IsInjective(s) => IsInjective(Tail(s)) /\ Head(s) \notin ToSet(Tail(s))
<1> DEFINE u == Tail(s)
<1>1. /\ Len(s) \in Nat /\ Len(s) >= 1 /\ u \in Seq(T) /\ Len(u) = Len(s) - 1
      /\ Head(s) = s[1] /\ s[1] \in T
      /\ \A i \in 1 .. Len(s) - 1 : u[i] = s[i + 1]
  OBVIOUS
<1>2. DOMAIN u = 1 .. Len(s) - 1 /\ DOMAIN s = 1 .. Len(s)
  BY <1>1
<1> HIDE DEF u
<1>3. ToSet(s) = ToSet(u) \cup {s[1]}
  <2>1. ASSUME NEW i \in 1 .. Len(s) PROVE s[i] \in ToSet(u) \cup {s[1]}
    <3>1. CASE i = 1
      BY <3>1
    <3>2. CASE i # 1
      <4>1. i - 1 \in 1 .. Len(s) - 1 /\ (i - 1) + 1 = i
        BY <1>1, <3>2
      <4>2. u[i - 1] = s[i]
        BY <1>1, <4>1
      <4> QED BY <1>2, <4>1, <4>2 DEF ToSet
    <3> QED BY <3>1, <3>2
  <2>2. ASSUME NEW i \in 1 .. Len(s) - 1 PROVE u[i] \in ToSet(s)
    BY <1>1, <1>2 DEF ToSet
  <2>3. s[1] \in ToSet(s)
    BY <1>1, <1>2 DEF ToSet
  <2> QED BY <1>2, <2>1, <2>2, <2>3 DEF ToSet
<1>4. ASSUME IsInjective(s) PROVE IsInjective(u) /\ s[1] \notin ToSet(u)
  <2>1. \A i \in 1 .. Len(s) - 1 : i + 1 \in DOMAIN s /\ 1 \in DOMAIN s /\ i + 1 # 1
    BY <1>1, <1>2
  <2>2. \A i \in 1 .. Len(s) - 1 : u[i] # s[1]
    BY <1>1, <1>4, <2>1 DEF IsInjective
  <2>3. ASSUME NEW a \in DOMAIN u, NEW b \in DOMAIN u, u[a] = u[b] PROVE a = b
    <3>1. s[a + 1] = s[b + 1] /\ a + 1 \in DOMAIN s /\ b + 1 \in DOMAIN s
      BY <1>1, <1>2, <2>3
    <3>2. a + 1 = b + 1 /\ a \in Int /\ b \in Int
      BY <1>2, <1>4, <3>1 DEF IsInjective
    <3> QED BY <3>2
  <2> QED BY <1>2, <2>2, <2>3 DEF IsInjective, ToSet
<1> QED BY <1>1, <1>3, <1>4 DEF u
-----------------------------------------------------------------------------
\* A process that has no Mntrpc.
Idle == {"idle"} \cup Returned

\* A process holds a call and its flushes from mntralloc() to mntfree().
Chains == \A p \in Proc : /\ chain[p] = <<>> <=> pc[p] \in Idle
                          /\ IsInjective(chain[p])

\* What the answered Mntrpcs, the reader and the connection say of one another.
Control == /\ done \subseteq Used
           /\ got # Nil => \E p \in Proc : pc[p] = "mux"
           /\ \A p \in Proc : pc[p] = "finish" => r(p) \in done
           /\ \A p \in Proc : pc[p] = "error" => hungup
           /\ hungup => asked = {}

\* The first layer of the inductive invariant: tags, queue and gate agree.
Base == Consistent /\ Chains /\ Control

\* The call of p and its newest flush have tags that are not free.
LEMMA Chain ==
    ASSUME TypeOK, NEW p \in Proc, chain[p] # <<>>
    PROVE  /\ Len(chain[p]) \in Nat \ {0}
           /\ r(p) = chain[p][Len(chain[p])]
           /\ r(p) \in ToSet(chain[p]) /\ Head(chain[p]) \in ToSet(chain[p])
           /\ ToSet(chain[p]) \subseteq Tags
           /\ ToSet(chain[p]) \subseteq Used
<1>1. chain[p] \in Seq(Tags)
  BY DEF TypeOK
<1>2. Len(chain[p]) \in Nat \ {0}
  BY <1>1
<1>3. Len(chain[p]) \in DOMAIN chain[p] /\ 1 \in DOMAIN chain[p]
  BY <1>1, <1>2
<1>4. r(p) = chain[p][Len(chain[p])] /\ Head(chain[p]) = chain[p][1]
  BY <1>1 DEF r, Last
<1>5. ToSet(chain[p]) \subseteq Tags
  BY <1>1 DEF ToSet
<1> QED BY <1>2, <1>3, <1>4, <1>5 DEF ToSet, Used

\* A tag belongs to one call ...
LEMMA OwnerIs ==
    ASSUME QueueExact, NEW p \in Proc, NEW t \in ToSet(chain[p])
    PROVE  Owner(t) = p
<1>1. \A q \in Proc : t \in ToSet(chain[q]) => q = p
  BY DEF QueueExact
<1> QED BY <1>1 DEF Owner

\* ... and a tag that is not free to some call.
LEMMA Owned ==
    ASSUME QueueExact, NEW t \in Used
    PROVE  Owner(t) \in Proc /\ t \in ToSet(chain[Owner(t)])
<1>1. \E p \in Proc : t \in ToSet(chain[p])
  BY DEF Used
<1> QED BY <1>1 DEF Owner
-----------------------------------------------------------------------------
\* On the way to the gate, or able to get there.
Waiting == {"write", "gate", "tosleep", "woken", "intr"}
\* The code that still runs for a call once the connection is gone.
Doomed == {"write", "intr", "error"}

\* p goes on, and may wake a process that sleeps at the gate.
Shift(p, to) == \/ pc' = [pc EXCEPT ![p] = to]
                \/ \E q \in Proc \ {p} : /\ pc[q] = "asleep"
                                         /\ pc' = [pc EXCEPT ![p] = to, ![q] = "woken"]

\* p takes the gate, lets it go and wakes a sleeper if there is one, or neither.
Gates(p, to) == \/ to = "read" /\ pc[p] # "read" /\ rip = Nil /\ rip' = p
                \/ /\ to # "read" /\ pc[p] = "read" /\ rip' = Nil
                   /\ (\E q \in Proc : pc[q] = "asleep") =>
                        \E q \in Proc : pc[q] = "asleep" /\ pc'[q] = "woken"
                \/ to # "read" /\ pc[p] # "read" /\ rip' = rip

\* A step of mountio() or mountrpc() that moves p and leaves the Mntrpcs alone.
Quiet(p, to) ==
    /\ Shift(p, to) /\ Gates(p, to)
    /\ UNCHANGED <<queue, chain, done, got, wire, hungup>>
    /\ \/ asked' = asked
       \/ pc[p] = "write" /\ ~hungup /\ asked' = asked \cup {r(p)}
    /\ pc[p] # "mux" /\ to \notin {"write", "mux"}
    /\ pc[p] \in Idle <=> to \in Idle
    /\ to \in Idle => to = "idle" /\ pc[p] \in Returned
    /\ to = "finish" => r(p) \in done
    /\ to = "error" => hungup
    /\ to = "asleep" => r(p) \notin done /\ rip' # Nil
    /\ hungup /\ pc[p] \in Doomed => to \in Doomed
    /\ pc[p] \in Waiting /\ r(p) \notin done /\ ~hungup /\ rip' = Nil => to \in Waiting

\* A step that links a new Mntrpc: mountrpc(), or the flush of a call.
Linked(p, t) == /\ pc[p] \in {"idle", "intr"}
                /\ pc[p] = "idle" => ~hungup
                /\ Link(p, t)
                /\ UNCHANGED server

\* A step that frees the tags of a call: the end of mountrpc() or of mountio().
Freed(p, to) == /\ \/ /\ pc[p] = "finish"
                      /\ to = IF Head(chain[p]) \in done THEN "reply" ELSE "eintr"
                   \/ pc[p] = "error" /\ to = "fail"
                /\ mntflushfree(p, to)

\* The kinds of steps: 15 of the 19 actions are of three kinds.
Step == \/ UNCHANGED <<mnt, server, pc>>
        \/ \E p \in Proc : \E to \in PCs : Quiet(p, to)
        \/ \E p \in Proc : \E t \in Tags : Linked(p, t)
        \/ \E p \in Proc : Read(p)
        \/ \E p \in Proc : mountmux(p)
        \/ \E p \in Proc : \E to \in Returned : Freed(p, to)
        \/ \E t \in Tags : Answer(t)
        \/ Hangup

\* mntgate() wakes a process that sleeps in mountio(), if there is one.
LEMMA SleepersAre ==
    ASSUME Base
    PROVE  /\ Sleepers = <<>> => \A q \in Proc : pc[q] # "asleep"
           /\ Sleepers # <<>> => LET q == Owner(Head(Sleepers)) IN q \in Proc /\ pc[q] = "asleep"
<1> USE DEF Base, Consistent
<1> DEFINE S == {t \in Used \ done : At(Owner(t), "asleep")}
<1>1. queue \in Seq(Tags)
  BY DEF TypeOK
<1>2. Sleepers = Only(queue, S)
  BY DEF Sleepers
<1> HIDE DEF S
<1>3. Sleepers \in Seq(Tags) /\ ToSet(Sleepers) = ToSet(queue) \cap S
  BY <1>1, <1>2, OnlyMembers
<1>4. ASSUME Sleepers = <<>>, NEW q \in Proc, pc[q] = "asleep" PROVE FALSE
  <2>1. chain[q] # <<>>
    BY <1>4 DEF Chains, Idle, Returned
  <2>2. r(q) \in ToSet(chain[q]) /\ r(q) \in Used
    BY <2>1, Chain
  <2>3. r(q) \notin done /\ r(q) \in ToSet(queue)
    BY <1>4, <2>2 DEF AnswerNotLost, QueueExact, At
  <2>4. Owner(r(q)) = q
    BY <2>2, OwnerIs
  <2>5. r(q) \in S
    BY <1>4, <2>2, <2>3, <2>4 DEF S, At
  <2>6. ToSet(Sleepers) = {}
    BY <1>4 DEF ToSet
  <2> QED BY <1>3, <2>3, <2>5, <2>6
<1>5. ASSUME Sleepers # <<>>
      PROVE  Owner(Head(Sleepers)) \in Proc /\ pc[Owner(Head(Sleepers))] = "asleep"
  <2>1. Head(Sleepers) \in ToSet(Sleepers)
    BY <1>3, <1>5, ConsumeMembers
  <2>2. Head(Sleepers) \in Used /\ At(Owner(Head(Sleepers)), "asleep")
    BY <1>3, <2>1 DEF S
  <2> QED BY <2>2, Owned DEF At
<1> QED BY <1>4, <1>5

\* What mntgate() does as p leaves the gate.
LEMMA GateKind ==
    ASSUME Base, NEW p \in Proc, pc[p] = "read", NEW to \in {"intr", "error", "finish"},
           mntgate(p, to)
    PROVE  Shift(p, to) /\ Gates(p, to)
<1>1. pc \in [Proc -> PCs]
  BY DEF Base, Consistent, TypeOK
<1>2. CASE Sleepers = <<>>
  <2>1. pc' = [pc EXCEPT ![p] = to] /\ rip' = Nil
    BY <1>2 DEF mntgate
  <2>2. \A q \in Proc : pc[q] # "asleep"
    BY <1>2, SleepersAre
  <2> QED BY <2>1, <2>2 DEF Shift, Gates
<1>3. CASE Sleepers # <<>>
  <2> DEFINE q == Owner(Head(Sleepers))
  <2>1. pc' = [pc EXCEPT ![p] = to, ![q] = "woken"] /\ rip' = Nil
    BY <1>3 DEF mntgate
  <2>2. q \in Proc /\ pc[q] = "asleep"
    BY <1>3, SleepersAre
  <2> HIDE DEF q
  <2>3. q \in Proc \ {p}
    BY <2>2
  <2>4. pc'[q] = "woken"
    BY <1>1, <2>1, <2>2
  <2>5. Shift(p, to)
    BY <2>1, <2>2, <2>3 DEF Shift
  <2> QED BY <2>1, <2>2, <2>4, <2>5 DEF Gates
<1> QED BY <1>2, <1>3

\* Every step is of one of the kinds.
LEMMA Kinds ==
    ASSUME Base, [Next]_vars
    PROVE  Step
<1> USE DEF At, Goto
<1>1. CASE UNCHANGED vars
  BY <1>1 DEF vars, Step
<1>2. ASSUME NEW p \in Proc, Call(p) PROVE Step
  <2>1. PICK t \in Tags : Link(p, t)
    BY <1>2 DEF Call
  <2>2. Linked(p, t)
    BY <1>2, <2>1 DEF Call, Linked
  <2> QED BY <2>2 DEF Step
<1>3. ASSUME NEW p \in Proc, Flush(p) PROVE Step
  <2>1. PICK t \in Tags : Link(p, t)
    BY <1>3 DEF Flush
  <2>2. Linked(p, t)
    BY <1>3, <2>1 DEF Flush, Linked
  <2> QED BY <2>2 DEF Step
<1>4. ASSUME NEW p \in Proc, Interrupt(p) PROVE Step
  <2>1. CASE pc[p] = "asleep"
    <3>1. Quiet(p, "woken")
      BY <1>4, <2>1 DEF Interrupt, Quiet, Shift, Gates, mnt, server, Idle, Returned,
                        Waiting, Doomed
    <3> QED BY <3>1 DEF Step, PCs
  <2>2. CASE pc[p] # "asleep"
    BY <1>4, <2>2 DEF Interrupt, Step
  <2> QED BY <2>1, <2>2
<1>5. ASSUME NEW p \in Proc, Write(p) PROVE Step
  <2>1. Quiet(p, "gate")
    BY <1>5 DEF Write, Quiet, Shift, Gates, mnt, Idle, Returned, Waiting, Doomed
  <2> QED BY <2>1 DEF Step, PCs
<1>6. ASSUME NEW p \in Proc, WriteIntr(p) PROVE Step
  <2>1. Quiet(p, "intr")
    BY <1>6 DEF WriteIntr, Quiet, Shift, Gates, mnt, Idle, Returned, Waiting, Doomed
  <2> QED BY <2>1 DEF Step, PCs
<1>7. ASSUME NEW p \in Proc, WriteHungup(p) PROVE Step
  <2>1. Quiet(p, "error")
    BY <1>7 DEF WriteHungup, Quiet, Shift, Gates, mnt, server, Idle, Returned, Waiting, Doomed
  <2> QED BY <2>1 DEF Step, PCs
<1>8. ASSUME NEW p \in Proc, Gate(p) PROVE Step
  <2>1. CASE rip = Nil
    <3>1. p # Nil
      BY MntAssumption
    <3>2. Quiet(p, "read")
      BY <1>8, <2>1, <3>1
         DEF Gate, Quiet, Shift, Gates, server, Idle, Returned, Waiting, Doomed
    <3> QED BY <3>2 DEF Step, PCs
  <2>2. CASE rip # Nil
    <3>1. Quiet(p, "tosleep")
      BY <1>8, <2>2 DEF Gate, Quiet, Shift, Gates, server, Idle, Returned, Waiting, Doomed
    <3> QED BY <3>1 DEF Step, PCs
  <2> QED BY <2>1, <2>2
<1>9. ASSUME NEW p \in Proc, Sleep(p) PROVE Step
  <2>1. CASE rpcattn(p) \/ notepending[p]
    <3>1. Quiet(p, "woken")
      BY <1>9, <2>1 DEF Sleep, Quiet, Shift, Gates, mnt, server, Idle, Returned, Waiting, Doomed
    <3> QED BY <3>1 DEF Step, PCs
  <2>2. CASE ~(rpcattn(p) \/ notepending[p])
    <3>1. Quiet(p, "asleep")
      BY <1>9, <2>2
         DEF Sleep, rpcattn, Quiet, Shift, Gates, mnt, server, Idle, Returned, Waiting, Doomed
    <3> QED BY <3>1 DEF Step, PCs
  <2> QED BY <2>1, <2>2
<1>10. ASSUME NEW p \in Proc, Woken(p) PROVE Step
  <2> USE DEF Woken, Quiet, Shift, Gates, mnt, server, Idle, Returned, Waiting, Doomed
  <2>1. CASE notepending[p]
    <3>1. Quiet(p, "intr")
      BY <1>10, <2>1
    <3> QED BY <3>1 DEF Step, PCs
  <2>2. CASE ~notepending[p] /\ r(p) \in done
    <3>1. Quiet(p, "finish")
      BY <1>10, <2>2
    <3> QED BY <3>1 DEF Step, PCs
  <2>3. CASE ~notepending[p] /\ r(p) \notin done
    <3>1. Quiet(p, "gate")
      BY <1>10, <2>3
    <3> QED BY <3>1 DEF Step, PCs
  <2> QED BY <2>1, <2>2, <2>3
<1>11. ASSUME NEW p \in Proc, ReadIntr(p) PROVE Step
  <2>1. Shift(p, "intr") /\ Gates(p, "intr")
    BY <1>11, GateKind DEF ReadIntr
  <2>2. Quiet(p, "intr")
    BY <1>11, <2>1 DEF ReadIntr, mntgate, Quiet, server, Idle, Returned, Waiting, Doomed
  <2> QED BY <2>2 DEF Step, PCs
<1>12. ASSUME NEW p \in Proc, ReadHungup(p) PROVE Step
  <2>1. Shift(p, "error") /\ Gates(p, "error")
    BY <1>12, GateKind DEF ReadHungup
  <2>2. Quiet(p, "error")
    BY <1>12, <2>1 DEF ReadHungup, mntgate, Quiet, server, Idle, Returned, Waiting, Doomed
  <2> QED BY <2>2 DEF Step, PCs
<1>13. ASSUME NEW p \in Proc, Leave(p) PROVE Step
  <2>1. Shift(p, "finish") /\ Gates(p, "finish")
    BY <1>13, GateKind DEF Leave
  <2>2. Quiet(p, "finish")
    BY <1>13, <2>1 DEF Leave, mntgate, Quiet, server, Idle, Returned, Waiting, Doomed
  <2> QED BY <2>2 DEF Step, PCs
<1>14. ASSUME NEW p \in Proc, Return(p) PROVE Step
  <2>1. Quiet(p, "idle")
    BY <1>14 DEF Return, Quiet, Shift, Gates, mnt, server, Idle, Returned, Waiting, Doomed
  <2> QED BY <2>1 DEF Step, PCs
<1>15. ASSUME NEW p \in Proc, Finish(p) PROVE Step
  <2> DEFINE to == IF Head(chain[p]) \in done THEN "reply" ELSE "eintr"
  <2>1. Freed(p, to)
    BY <1>15 DEF Finish, Freed
  <2>2. to \in Returned
    BY DEF Returned
  <2> QED BY <2>1, <2>2 DEF Step
<1>16. ASSUME NEW p \in Proc, Error(p) PROVE Step
  <2>1. Freed(p, "fail")
    BY <1>16 DEF Error, Freed
  <2> QED BY <2>1 DEF Step, Returned
<1>17. ASSUME NEW p \in Proc, Read(p) \/ mountmux(p) PROVE Step
  BY <1>17 DEF Step
<1>18. ASSUME NEW t \in Tags, Answer(t) PROVE Step
  BY <1>18 DEF Step
<1>19. CASE Hangup
  BY <1>19 DEF Step
<1> QED
  BY <1>1, <1>2, <1>3, <1>4, <1>5, <1>6, <1>7, <1>8, <1>9, <1>10, <1>11, <1>12, <1>13, <1>14,
     <1>15, <1>16, <1>17, <1>18, <1>19 DEF Next, Steps
-----------------------------------------------------------------------------
\* Who moves when p goes on.
LEMMA ShiftSays ==
    ASSUME TypeOK, NEW p \in Proc, NEW to \in PCs, Shift(p, to)
    PROVE  /\ pc' \in [Proc -> PCs]
           /\ pc'[p] = to
           /\ \A q \in Proc \ {p} : \/ pc'[q] = pc[q]
                                    \/ pc[q] = "asleep" /\ pc'[q] = "woken"
BY DEF TypeOK, Shift, PCs

\* What a new Mntrpc changes.
LEMMA LinkedSays ==
    ASSUME Base, NEW p \in Proc, NEW t \in Tags, Linked(p, t)
    PROVE  /\ t \notin Used
           /\ chain' \in [Proc -> Seq(Tags)]
           /\ chain'[p] = Append(chain[p], t) /\ chain'[p] # <<>>
           /\ ToSet(chain'[p]) = ToSet(chain[p]) \cup {t} /\ IsInjective(chain'[p])
           /\ \A q \in Proc \ {p} : chain'[q] = chain[q]
           /\ Used' = Used \cup {t}
           /\ r(p)' = t
           /\ queue' \in Seq(Tags) /\ ToSet(queue') = ToSet(queue) \cup {t}
           /\ IsInjective(queue')
           /\ pc' = [pc EXCEPT ![p] = "write"]
           /\ UNCHANGED <<rip, done, got, server>>
<1> USE DEF Base, Consistent
<1>1. /\ t \notin Used /\ chain' = [chain EXCEPT ![p] = Append(@, t)] /\ queue' = <<t>> \o queue
      /\ pc' = [pc EXCEPT ![p] = "write"] /\ UNCHANGED <<rip, done, got, server>>
  BY DEF Linked, Link, Goto
<1>2. chain \in [Proc -> Seq(Tags)] /\ queue \in Seq(Tags)
  BY DEF TypeOK
<1>3. /\ chain'[p] = Append(chain[p], t) /\ \A q \in Proc \ {p} : chain'[q] = chain[q]
      /\ chain[p] \in Seq(Tags) /\ DOMAIN chain' = Proc
  BY <1>1, <1>2
<1>4. t \notin ToSet(chain[p]) /\ t \notin ToSet(queue)
  BY <1>1 DEF Used, QueueExact
<1>5. /\ chain'[p] \in Seq(Tags) /\ ToSet(chain'[p]) = ToSet(chain[p]) \cup {t}
      /\ IsInjective(chain'[p])
  BY <1>3, <1>4, AppendMembers DEF Chains
<1>6. /\ queue' \in Seq(Tags) /\ ToSet(queue') = ToSet(queue) \cup {t} /\ IsInjective(queue')
  BY <1>1, <1>2, <1>4, PrependMembers DEF QueueExact
<1>7. chain' \in [Proc -> Seq(Tags)]
  BY <1>1, <1>2, <1>5
<1>8. Used' = Used \cup {t}
  BY <1>3, <1>5 DEF Used
<1>9. r(p)' = t /\ chain'[p] # <<>>
  BY <1>3 DEF r, Last
<1> QED BY <1>1, <1>3, <1>5, <1>6, <1>7, <1>8, <1>9

\* What mntflushfree() changes: it takes all Mntrpcs of the call out of m->queue.
LEMMA FreedSays ==
    ASSUME Base, NEW p \in Proc, NEW to \in Returned, Freed(p, to)
    PROVE  /\ chain' \in [Proc -> Seq(Tags)]
           /\ chain'[p] = <<>> /\ chain[p] # <<>>
           /\ \A q \in Proc \ {p} : chain'[q] = chain[q]
           /\ Used' = Used \ ToSet(chain[p])
           /\ done' = done \ ToSet(chain[p])
           /\ queue' \in Seq(Tags) /\ ToSet(queue') = ToSet(queue) \ ToSet(chain[p])
           /\ IsInjective(queue')
           /\ pc' = [pc EXCEPT ![p] = to] /\ pc[p] \in {"finish", "error"}
           /\ UNCHANGED <<rip, got, server>>
<1> USE DEF Base, Consistent
<1>1. /\ chain' = [chain EXCEPT ![p] = <<>>] /\ queue' = Only(queue, Tags \ ToSet(chain[p]))
      /\ done' = done \ ToSet(chain[p])
      /\ pc' = [pc EXCEPT ![p] = to] /\ pc[p] \in {"finish", "error"}
      /\ UNCHANGED <<rip, got, server>>
  BY DEF Freed, mntflushfree, Goto
<1>2. chain \in [Proc -> Seq(Tags)] /\ queue \in Seq(Tags)
  BY DEF TypeOK
<1>3. /\ chain'[p] = <<>> /\ \A q \in Proc \ {p} : chain'[q] = chain[q]
      /\ chain' \in [Proc -> Seq(Tags)]
  BY <1>1, <1>2
<1>4. chain[p] # <<>>
  BY <1>1 DEF Chains, Idle, Returned
<1>5. /\ queue' \in Seq(Tags) /\ ToSet(queue') = ToSet(queue) \cap (Tags \ ToSet(chain[p]))
      /\ IsInjective(queue')
  BY <1>1, <1>2, OnlyMembers DEF QueueExact
<1>6. ToSet(queue) \subseteq Tags
  BY <1>2 DEF ToSet
<1>7. Used' = Used \ ToSet(chain[p])
  <2>1. ToSet(<<>>) = {}
    BY DEF ToSet
  <2>2. \A q \in Proc \ {p} : ToSet(chain[q]) \cap ToSet(chain[p]) = {}
    BY DEF QueueExact
  <2> QED BY <1>3, <2>1, <2>2 DEF Used
<1> QED BY <1>1, <1>3, <1>4, <1>5, <1>6, <1>7

\* What mountmux() changes: it takes the answered Mntrpc out of m->queue and wakes
\* its process; a reply to no Mntrpc is ignored.
LEMMA MuxSays ==
    ASSUME Base, NEW p \in Proc, mountmux(p)
    PROVE  /\ Shift(p, "read") /\ pc[p] = "mux"
           /\ got' = Nil /\ UNCHANGED <<rip, chain, server>>
           /\ \/ /\ got \in ToSet(queue) /\ done' = done \cup {got}
                 /\ queue' \in Seq(Tags) /\ ToSet(queue') = ToSet(queue) \ {got}
                 /\ IsInjective(queue')
                 /\ \A q \in Proc : pc'[q] = "asleep" => r(q) # got
              \/ got \notin ToSet(queue) /\ UNCHANGED <<queue, done>>
<1> USE DEF Base, Consistent
<1>1. /\ pc[p] = "mux" /\ got' = Nil /\ UNCHANGED <<rip, chain, server>>
  BY DEF mountmux, At
<1>2. pc \in [Proc -> PCs] /\ queue \in Seq(Tags)
  BY DEF TypeOK
<1>3. CASE got \notin ToSet(queue)
  <2>1. pc' = [pc EXCEPT ![p] = "read"] /\ UNCHANGED <<queue, done>>
    BY <1>3 DEF mountmux, Goto
  <2> QED BY <1>1, <1>3, <2>1 DEF Shift
<1>4. CASE got \in ToSet(queue)
  <2> DEFINE q == Owner(got)
             wakes == got # r(p) /\ pc[q] = "asleep"
  <2>1. /\ queue' = Only(queue, Tags \ {got}) /\ done' = done \cup {got}
        /\ pc' = IF wakes THEN [pc EXCEPT ![p] = "read", ![q] = "woken"]
                          ELSE [pc EXCEPT ![p] = "read"]
    BY <1>4 DEF mountmux, At
  <2>2. q \in Proc /\ got \in ToSet(chain[q])
    <3>1. got \in Used
      BY <1>4 DEF QueueExact
    <3> QED BY <3>1, Owned
  <2>3. /\ queue' \in Seq(Tags) /\ IsInjective(queue')
        /\ ToSet(queue') = ToSet(queue) \ {got}
    <3>1. ToSet(queue) \subseteq Tags
      BY <1>2 DEF ToSet
    <3> QED BY <1>2, <2>1, <3>1, OnlyMembers DEF QueueExact
  <2>4. ASSUME NEW x \in Proc, pc'[x] = "asleep", r(x) = got PROVE FALSE
    <3> HIDE DEF q, wakes
    <3>1. pc[x] = "asleep" /\ x # p
      BY <1>1, <1>2, <2>1, <2>2, <2>4
    <3>2. got \in ToSet(chain[x])
      BY <2>4, <3>1, Chain DEF Chains, Idle, Returned
    <3>3. x = q
      BY <2>2, <3>2, OwnerIs DEF q
    <3>4. r(p) \in ToSet(chain[p])
      BY <1>1, Chain DEF Chains, Idle, Returned
    <3>5. r(p) # got
      BY <3>1, <3>2, <3>4 DEF QueueExact
    <3>6. wakes
      BY <3>1, <3>3, <3>5 DEF wakes
    <3> QED BY <1>2, <2>1, <2>4, <3>1, <3>3, <3>6
  <2>5. Shift(p, "read")
    <3> HIDE DEF q
    <3>1. CASE wakes
      BY <1>1, <2>1, <2>2, <3>1 DEF Shift
    <3>2. CASE ~wakes
      BY <2>1, <3>2 DEF Shift
    <3> QED BY <3>1, <3>2
  <2> QED BY <1>1, <1>4, <2>1, <2>3, <2>4, <2>5
<1> QED BY <1>3, <1>4

\* What mntrpcread() changes: the first reply becomes the one to dispatch.
LEMMA ReadSays ==
    ASSUME Base, NEW p \in Proc, Read(p)
    PROVE  /\ pc[p] = "read" /\ pc' = [pc EXCEPT ![p] = "mux"]
           /\ got = Nil /\ wire # <<>> /\ got' = Head(wire) /\ wire' = Tail(wire)
           /\ got' \in Tags /\ wire' \in Seq(Tags)
           /\ ToSet(wire) = ToSet(wire') \cup {got'}
           /\ IsInjective(wire) => IsInjective(wire') /\ got' \notin ToSet(wire')
           /\ UNCHANGED <<rip, queue, chain, done, asked, hungup>>
<1> USE DEF Base, Consistent
<1>1. /\ pc[p] = "read" /\ pc' = [pc EXCEPT ![p] = "mux"]
      /\ wire # <<>> /\ got' = Head(wire) /\ wire' = Tail(wire)
      /\ UNCHANGED <<rip, queue, chain, done, asked, hungup>>
  BY DEF Read, At, Goto
<1>2. got = Nil
  <2>1. \A q \in Proc : pc[q] = "mux" => q = p
    BY <1>1, MntAssumption DEF OneReader
  <2> QED BY <1>1, <2>1 DEF Control
<1>3. wire \in Seq(Tags)
  BY DEF TypeOK
<1> QED BY <1>1, <1>2, <1>3, ConsumeMembers
-----------------------------------------------------------------------------
\* notepending stays a flag of every process.
LEMMA NotesTyped == TypeOK /\ [Next]_vars => notepending' \in [Proc -> BOOLEAN]
<1> SUFFICES ASSUME TypeOK, [Next]_vars PROVE notepending' \in [Proc -> BOOLEAN]
  OBVIOUS
<1>1. notepending \in [Proc -> BOOLEAN]
  BY DEF TypeOK
<1>2. \/ notepending' = notepending
      \/ \E p \in Proc : \E b \in BOOLEAN : notepending' = [notepending EXCEPT ![p] = b]
  BY DEF Next, Steps, vars, Call, Interrupt, Flush, Write, WriteIntr, WriteHungup, Gate, Sleep,
         Woken, Read, ReadIntr, ReadHungup, mountmux, Leave, Finish, Error, Return,
         mntflushfree, Answer, Hangup
<1> QED BY <1>1, <1>2

\* Every step keeps the types.
LEMMA TypesStep ==
    ASSUME Base, [Next]_vars
    PROVE  TypeOK'
<1> USE DEF Base, Consistent
<1>1. TypeOK
  OBVIOUS
<1>2. notepending' \in [Proc -> BOOLEAN]
  BY <1>1, NotesTyped
<1> DEFINE Rest == /\ rip' \in Proc \cup {Nil} /\ queue' \in Seq(Tags)
                   /\ chain' \in [Proc -> Seq(Tags)] /\ done' \subseteq Tags
                   /\ got' \in Tags \cup {Nil} /\ pc' \in [Proc -> PCs]
                   /\ asked' \subseteq Tags /\ wire' \in Seq(Tags) /\ hungup' \in BOOLEAN
<1>3. ASSUME UNCHANGED <<mnt, server, pc>> PROVE Rest
  BY <1>1, <1>3 DEF TypeOK, mnt, server
<1>4. ASSUME NEW p \in Proc, NEW to \in PCs, Quiet(p, to) PROVE Rest
  <2>1. pc' \in [Proc -> PCs]
    BY <1>1, <1>4, ShiftSays DEF Quiet
  <2>2. rip' \in Proc \cup {Nil}
    BY <1>1, <1>4 DEF Quiet, Gates, TypeOK
  <2>3. asked' \subseteq Tags
    <3>1. CASE asked' = asked
      BY <1>1, <3>1 DEF TypeOK
    <3>2. CASE asked' # asked
      <4>1. pc[p] = "write" /\ asked' = asked \cup {r(p)}
        BY <1>4, <3>2 DEF Quiet
      <4>2. r(p) \in Tags
        BY <1>1, <4>1, Chain DEF Chains, Idle, Returned
      <4> QED BY <1>1, <4>1, <4>2 DEF TypeOK
    <3> QED BY <3>1, <3>2
  <2> QED BY <1>1, <1>4, <2>1, <2>2, <2>3 DEF Quiet, TypeOK
<1>5. ASSUME NEW p \in Proc, NEW t \in Tags, Linked(p, t) PROVE Rest
  <2>1. /\ chain' \in [Proc -> Seq(Tags)] /\ queue' \in Seq(Tags)
        /\ pc' = [pc EXCEPT ![p] = "write"] /\ UNCHANGED <<rip, done, got, server>>
    BY <1>5, LinkedSays
  <2>2. pc' \in [Proc -> PCs]
    BY <1>1, <2>1 DEF TypeOK, PCs
  <2> QED BY <1>1, <2>1, <2>2 DEF TypeOK, server
<1>6. ASSUME NEW p \in Proc, Read(p) PROVE Rest
  <2>1. /\ pc' = [pc EXCEPT ![p] = "mux"] /\ got' \in Tags /\ wire' \in Seq(Tags)
        /\ UNCHANGED <<rip, queue, chain, done, asked, hungup>>
    BY <1>6, ReadSays
  <2>2. pc' \in [Proc -> PCs]
    BY <1>1, <2>1 DEF TypeOK, PCs
  <2> QED BY <1>1, <2>1, <2>2 DEF TypeOK
<1>7. ASSUME NEW p \in Proc, mountmux(p) PROVE Rest
  <2>1. Shift(p, "read") /\ got' = Nil /\ UNCHANGED <<rip, chain, server>>
    BY <1>7, MuxSays
  <2>2. pc' \in [Proc -> PCs]
    BY <1>1, <2>1, ShiftSays DEF PCs
  <2>3. queue' \in Seq(Tags) /\ done' \subseteq Tags
    <3>1. CASE got \in ToSet(queue)
      <4>1. got \in Tags
        BY <1>1, <3>1 DEF TypeOK, ToSet
      <4> QED BY <1>1, <1>7, <3>1, <4>1, MuxSays DEF TypeOK
    <3>2. CASE got \notin ToSet(queue)
      BY <1>1, <1>7, <3>2, MuxSays DEF TypeOK
    <3> QED BY <3>1, <3>2
  <2> QED BY <1>1, <2>1, <2>2, <2>3 DEF TypeOK, server
<1>8. ASSUME NEW p \in Proc, NEW to \in Returned, Freed(p, to) PROVE Rest
  <2>1. /\ chain' \in [Proc -> Seq(Tags)] /\ queue' \in Seq(Tags)
        /\ done' = done \ ToSet(chain[p])
        /\ pc' = [pc EXCEPT ![p] = to] /\ UNCHANGED <<rip, got, server>>
    BY <1>8, FreedSays
  <2>2. pc' \in [Proc -> PCs]
    BY <1>1, <2>1 DEF TypeOK, PCs
  <2> QED BY <1>1, <2>1, <2>2 DEF TypeOK, server
<1>9. ASSUME NEW t \in Tags, Answer(t) PROVE Rest
  <2>1. asked' \subseteq asked /\ wire' = Append(wire, t) /\ UNCHANGED <<mnt, pc, hungup>>
    BY <1>9 DEF Answer
  <2> QED BY <1>1, <2>1 DEF TypeOK, mnt
<1>10. ASSUME Hangup PROVE Rest
  BY <1>1, <1>10 DEF TypeOK, Hangup, mnt
<1> HIDE DEF Rest
<1>11. Rest
  BY <1>3, <1>4, <1>5, <1>6, <1>7, <1>8, <1>9, <1>10, Kinds DEF Step
<1> QED BY <1>2, <1>11 DEF Rest, TypeOK
-----------------------------------------------------------------------------
\* Base without the types.
Facts == QueueExact /\ OneReader /\ AnswerNotLost /\ Chains /\ Control

\* A step that leaves the Mntrpcs alone keeps Base.
LEMMA FactsQuiet ==
    ASSUME Base, NEW p \in Proc, NEW to \in PCs, Quiet(p, to)
    PROVE  Facts'
<1> USE DEF Base, Consistent
<1>1. /\ pc' \in [Proc -> PCs] /\ pc'[p] = to
      /\ \A q \in Proc \ {p} : pc'[q] = pc[q] \/ (pc[q] = "asleep" /\ pc'[q] = "woken")
  BY ShiftSays DEF Quiet
<1>2. UNCHANGED <<queue, chain, done, got, wire, hungup>> /\ Used' = Used
  BY DEF Quiet, Used
<1>3. \A q \in Proc : r(q)' = r(q)
  BY <1>2 DEF r
<1>4. QueueExact'
  BY <1>2 DEF QueueExact
<1>5. OneReader'
  <2>1. \A q \in Proc : pc[q] \in {"read", "mux"} <=> rip = q
    BY DEF OneReader
  <2>2. \A q \in Proc \ {p} : pc'[q] \in {"read", "mux"} <=> pc[q] \in {"read", "mux"}
    BY <1>1
  <2>3. Nil \notin Proc
    BY MntAssumption
  <2>4. Gates(p, to) /\ pc[p] # "mux" /\ to # "mux"
    BY DEF Quiet
  <2>5. CASE to = "read" /\ pc[p] # "read" /\ rip = Nil /\ rip' = p
    BY <1>1, <2>1, <2>2, <2>3, <2>5 DEF OneReader
  <2>6. CASE to # "read" /\ pc[p] = "read" /\ rip' = Nil
    BY <1>1, <2>1, <2>2, <2>3, <2>4, <2>6 DEF OneReader
  <2>7. CASE to # "read" /\ pc[p] # "read" /\ rip' = rip
    BY <1>1, <2>1, <2>2, <2>3, <2>4, <2>7 DEF OneReader
  <2> QED BY <2>4, <2>5, <2>6, <2>7 DEF Gates
<1>6. AnswerNotLost'
  BY <1>1, <1>2, <1>3 DEF AnswerNotLost, Quiet, At
<1>7. Chains'
  <2>1. pc[p] \in Idle <=> pc'[p] \in Idle
    BY <1>1 DEF Quiet
  <2>2. \A q \in Proc \ {p} : pc[q] \in Idle <=> pc'[q] \in Idle
    BY <1>1 DEF Idle, Returned
  <2> QED BY <1>2, <2>1, <2>2 DEF Chains
<1>8. Control'
  <2>1. done' \subseteq Used'
    BY <1>2 DEF Control
  <2>2. got' # Nil => \E q \in Proc : pc'[q] = "mux"
    BY <1>1, <1>2 DEF Control, Quiet
  <2>3. \A q \in Proc : pc'[q] = "finish" => r(q)' \in done'
    BY <1>1, <1>2, <1>3 DEF Control, Quiet
  <2>4. \A q \in Proc : pc'[q] = "error" => hungup'
    BY <1>1, <1>2 DEF Control, Quiet
  <2>5. hungup' => asked' = {}
    BY <1>2 DEF Control, Quiet
  <2> QED BY <2>1, <2>2, <2>3, <2>4, <2>5 DEF Control
<1> QED BY <1>4, <1>5, <1>6, <1>7, <1>8 DEF Facts

\* A new Mntrpc keeps Base.
LEMMA FactsLinked ==
    ASSUME Base, NEW p \in Proc, NEW t \in Tags, Linked(p, t)
    PROVE  Facts'
<1> USE DEF Base, Consistent
<1>1. /\ t \notin Used /\ chain'[p] # <<>>
      /\ ToSet(chain'[p]) = ToSet(chain[p]) \cup {t} /\ IsInjective(chain'[p])
      /\ \A q \in Proc \ {p} : chain'[q] = chain[q]
      /\ Used' = Used \cup {t} /\ r(p)' = t
      /\ ToSet(queue') = ToSet(queue) \cup {t} /\ IsInjective(queue')
      /\ pc' = [pc EXCEPT ![p] = "write"]
      /\ UNCHANGED <<rip, done, got, server>>
  BY LinkedSays
<1>2. pc[p] \in {"idle", "intr"} /\ pc \in [Proc -> PCs]
  BY DEF Linked, TypeOK
<1>3. pc'[p] = "write" /\ \A q \in Proc \ {p} : pc'[q] = pc[q] /\ r(q)' = r(q)
  BY <1>1, <1>2 DEF r
<1>4. t \notin done
  BY <1>1 DEF Control
<1>5. QueueExact'
  <2>1. \A q \in Proc \ {p} : t \notin ToSet(chain[q])
    BY <1>1 DEF Used
  <2>2. \A x, y \in Proc : x # y => ToSet(chain'[x]) \cap ToSet(chain'[y]) = {}
    BY <1>1, <2>1 DEF QueueExact
  <2>3. ToSet(queue') = Used' \ done'
    BY <1>1, <1>4 DEF QueueExact
  <2> QED BY <1>1, <2>2, <2>3 DEF QueueExact
<1>6. OneReader'
  BY <1>1, <1>2, <1>3 DEF OneReader
<1>7. AnswerNotLost'
  BY <1>1, <1>3 DEF AnswerNotLost, At
<1>8. Chains'
  <2>1. pc'[p] \notin Idle
    BY <1>3 DEF Idle, Returned
  <2> QED BY <1>1, <1>3, <2>1 DEF Chains
<1>9. Control'
  <2>1. got' # Nil => \E q \in Proc : pc'[q] = "mux"
    BY <1>1, <1>2, <1>3 DEF Control
  <2> QED BY <1>1, <1>3, <2>1 DEF Control, server
<1> QED BY <1>5, <1>6, <1>7, <1>8, <1>9 DEF Facts

\* mntrpcread() keeps Base.
LEMMA FactsRead ==
    ASSUME Base, NEW p \in Proc, Read(p)
    PROVE  Facts'
<1> USE DEF Base, Consistent
<1>1. /\ pc[p] = "read" /\ pc' = [pc EXCEPT ![p] = "mux"]
      /\ UNCHANGED <<rip, queue, chain, done, asked, hungup>>
  BY ReadSays
<1>2. pc \in [Proc -> PCs]
  BY DEF TypeOK
<1>3. pc'[p] = "mux" /\ \A q \in Proc \ {p} : pc'[q] = pc[q]
  BY <1>1, <1>2
<1>4. Used' = Used /\ \A q \in Proc : r(q)' = r(q)
  BY <1>1 DEF Used, r
<1>5. QueueExact'
  BY <1>1, <1>4 DEF QueueExact
<1>6. OneReader'
  BY <1>1, <1>3 DEF OneReader
<1>7. AnswerNotLost'
  BY <1>1, <1>3, <1>4 DEF AnswerNotLost, At
<1>8. Chains'
  BY <1>1, <1>3 DEF Chains, Idle, Returned
<1>9. Control'
  BY <1>1, <1>3, <1>4 DEF Control
<1> QED BY <1>5, <1>6, <1>7, <1>8, <1>9 DEF Facts

\* mountmux() keeps Base: no process goes on sleeping beside its answer.
LEMMA FactsMux ==
    ASSUME Base, NEW p \in Proc, mountmux(p)
    PROVE  Facts'
<1> USE DEF Base, Consistent
<1>1. /\ Shift(p, "read") /\ pc[p] = "mux"
      /\ got' = Nil /\ UNCHANGED <<rip, chain, server>>
  BY MuxSays
<1>2. /\ pc'[p] = "read"
      /\ \A q \in Proc \ {p} : pc'[q] = pc[q] \/ (pc[q] = "asleep" /\ pc'[q] = "woken")
  BY <1>1, ShiftSays DEF PCs
<1>3. Used' = Used /\ \A q \in Proc : r(q)' = r(q)
  BY <1>1 DEF Used, r
<1>4. QueueExact'
  <2>1. IsInjective(queue') /\ ToSet(queue') = Used' \ done'
    BY <1>3, MuxSays DEF QueueExact
  <2> QED BY <1>1, <2>1 DEF QueueExact
<1>5. OneReader'
  BY <1>1, <1>2 DEF OneReader
<1>6. AnswerNotLost'
  <2> SUFFICES ASSUME NEW q \in Proc, pc'[q] = "asleep" PROVE r(q) \notin done'
    BY <1>3 DEF AnswerNotLost, At
  <2>1. pc[q] = "asleep"
    BY <1>2
  <2>2. r(q) \notin done
    BY <2>1 DEF AnswerNotLost, At
  <2>3. done' = done \/ (done' = done \cup {got} /\ r(q) # got)
    BY MuxSays
  <2> QED BY <2>2, <2>3
<1>7. Chains'
  BY <1>1, <1>2 DEF Chains, Idle, Returned
<1>8. Control'
  <2>1. done' \subseteq Used' /\ done \subseteq done'
    BY <1>3, MuxSays DEF Control, QueueExact
  <2> QED BY <1>1, <1>2, <1>3, <2>1 DEF Control, server
<1> QED BY <1>4, <1>5, <1>6, <1>7, <1>8 DEF Facts

\* mntflushfree() keeps Base.
LEMMA FactsFreed ==
    ASSUME Base, NEW p \in Proc, NEW to \in Returned, Freed(p, to)
    PROVE  Facts'
<1> USE DEF Base, Consistent
<1>1. /\ chain'[p] = <<>> /\ \A q \in Proc \ {p} : chain'[q] = chain[q]
      /\ Used' = Used \ ToSet(chain[p]) /\ done' = done \ ToSet(chain[p])
      /\ ToSet(queue') = ToSet(queue) \ ToSet(chain[p]) /\ IsInjective(queue')
      /\ pc' = [pc EXCEPT ![p] = to] /\ pc[p] \in {"finish", "error"}
      /\ UNCHANGED <<rip, got, server>>
  BY FreedSays
<1>2. pc \in [Proc -> PCs]
  BY DEF TypeOK
<1>3. pc'[p] = to /\ to \in Returned /\ \A q \in Proc \ {p} : pc'[q] = pc[q] /\ r(q)' = r(q)
  BY <1>1, <1>2 DEF r
<1>4. ToSet(<<>>) = {} /\ IsInjective(<<>>)
  BY DEF ToSet, IsInjective
<1>5. QueueExact'
  <2>1. \A x, y \in Proc : x # y => ToSet(chain'[x]) \cap ToSet(chain'[y]) = {}
    BY <1>1, <1>4 DEF QueueExact
  <2>2. ToSet(queue') = Used' \ done'
    BY <1>1 DEF QueueExact
  <2> QED BY <1>1, <2>1, <2>2 DEF QueueExact
<1>6. OneReader'
  BY <1>1, <1>3 DEF OneReader, Returned
<1>7. AnswerNotLost'
  BY <1>1, <1>3 DEF AnswerNotLost, At, Returned
<1>8. Chains'
  <2>1. pc'[p] \in Idle
    BY <1>3 DEF Idle
  <2> QED BY <1>1, <1>3, <1>4, <2>1 DEF Chains
<1>9. Control'
  <2>1. done' \subseteq Used'
    BY <1>1 DEF Control
  <2>2. got' # Nil => \E q \in Proc : pc'[q] = "mux"
    BY <1>1, <1>3 DEF Control
  <2>3. ASSUME NEW q \in Proc, pc'[q] = "finish" PROVE r(q)' \in done'
    <3>1. q # p /\ pc[q] = "finish"
      BY <1>3, <2>3 DEF Returned
    <3>2. r(q) \in done /\ r(q) \in ToSet(chain[q])
      BY <3>1, Chain DEF Control, Chains, Idle, Returned
    <3>3. r(q) \notin ToSet(chain[p])
      BY <3>1, <3>2 DEF QueueExact
    <3> QED BY <1>1, <1>3, <3>1, <3>2, <3>3
  <2>4. \A q \in Proc : pc'[q] = "error" => hungup'
    BY <1>1, <1>3 DEF Control, Returned, server
  <2>5. hungup' => asked' = {}
    BY <1>1 DEF Control, server
  <2> QED BY <2>1, <2>2, <2>3, <2>4, <2>5 DEF Control
<1> QED BY <1>5, <1>6, <1>7, <1>8, <1>9 DEF Facts

\* The server keeps Base, answering or gone.
LEMMA FactsServer ==
    ASSUME Base, UNCHANGED <<mnt, pc>>, hungup => hungup', hungup' => asked' = {}
    PROVE  Facts'
<1>1. UNCHANGED <<rip, queue, chain, done, got, pc>>
  BY DEF mnt
<1>2. Used' = Used /\ \A q \in Proc : r(q)' = r(q)
  BY <1>1 DEF Used, r
<1>3. QueueExact' /\ OneReader' /\ AnswerNotLost' /\ Chains'
  BY <1>1, <1>2 DEF Base, Consistent, QueueExact, OneReader, AnswerNotLost, At, Chains
<1>4. Control'
  BY <1>1, <1>2 DEF Base, Control
<1> QED BY <1>3, <1>4 DEF Facts

\* Every step keeps the first layer.
LEMMA BaseStep == Base /\ [Next]_vars => Base'
<1> SUFFICES ASSUME Base, [Next]_vars PROVE Base'
  OBVIOUS
<1>1. TypeOK'
  BY TypesStep
<1>2. hungup => asked = {}
  BY DEF Base, Control
<1>3. ASSUME UNCHANGED <<mnt, server, pc>> PROVE Facts'
  BY <1>2, <1>3, FactsServer DEF server
<1>4. ASSUME NEW t \in Tags, Answer(t) PROVE Facts'
  BY <1>2, <1>4, FactsServer DEF Answer
<1>5. ASSUME Hangup PROVE Facts'
  BY <1>5, FactsServer DEF Hangup
<1>6. Facts'
  BY <1>3, <1>4, <1>5, FactsQuiet, FactsLinked, FactsRead, FactsMux, FactsFreed, Kinds DEF Step
<1> QED BY <1>1, <1>6 DEF Facts, Base, Consistent
-----------------------------------------------------------------------------
\* In w every y is before every x.
Precedes(w, y, x) == \A a, b \in DOMAIN w : w[a] = x /\ w[b] = y => b < a

\* Once x is answered nothing of y is left at the server, and a reply to x comes
\* behind the reply to y.
After(x, y) == /\ x \in done \cup Coming => y \notin asked
               /\ x \in done => y \notin Coming
               /\ x = got => y \notin ToSet(wire)
               /\ Precedes(wire, y, x)

\* An Rflush answers for all that was sent before it (flush(5)): so for every later
\* Mntrpc of p.
InOrder(p) == \A i, j \in DOMAIN chain[p] : j < i => After(chain[p][i], chain[p][j])

\* This holds for every call but one that the end of the connection cuts short.
Ordered == \A p \in Proc : (hungup /\ pc[p] \in Doomed) \/ InOrder(p)

\* A message is written once: its tag is nowhere at the server before.
Fresh == ~hungup => \A p \in Proc : pc[p] = "write" => r(p) \notin asked \cup Coming \cup done

\* The second layer of the inductive invariant: what is under way.
Sent == NoUnexpected /\ Fresh /\ Ordered

\* A new reply is behind the others.
LEMMA PrecedesAppend ==
    ASSUME NEW T, NEW w \in Seq(T), NEW t \in T, NEW x, NEW y, y # t,
           Precedes(w, y, x), t \notin ToSet(w)
    PROVE  Precedes(Append(w, t), y, x)
<1> DEFINE u == Append(w, t)
<1>1. /\ DOMAIN w = 1 .. Len(w) /\ DOMAIN u = 1 .. Len(w) + 1 /\ Len(w) \in Nat
      /\ \A i \in DOMAIN w : u[i] = w[i]
      /\ u[Len(w) + 1] = t
  OBVIOUS
<1> HIDE DEF u
<1> SUFFICES ASSUME NEW a \in DOMAIN u, NEW b \in DOMAIN u, u[a] = x, u[b] = y
             PROVE  b < a
  BY DEF Precedes, u
<1>2. b \in DOMAIN w
  BY <1>1
<1>3. CASE a \in DOMAIN w
  BY <1>1, <1>2, <1>3 DEF Precedes
<1>4. CASE a \notin DOMAIN w
  BY <1>1, <1>2, <1>4
<1> QED BY <1>3, <1>4

\* The rest of the replies keeps its order, behind the first.
LEMMA PrecedesTail ==
    ASSUME NEW T, NEW w \in Seq(T), w # <<>>, NEW x, NEW y, Precedes(w, y, x)
    PROVE  /\ Precedes(Tail(w), y, x)
           /\ x = Head(w) => y \notin ToSet(Tail(w))
<1> DEFINE u == Tail(w)
<1>1. /\ DOMAIN w = 1 .. Len(w) /\ DOMAIN u = 1 .. Len(w) - 1 /\ Len(w) \in Nat \ {0}
      /\ \A i \in DOMAIN u : u[i] = w[i + 1]
      /\ Head(w) = w[1]
  OBVIOUS
<1> HIDE DEF u
<1>2. \A i \in DOMAIN u : i \in Nat /\ i + 1 \in DOMAIN w /\ 1 \in DOMAIN w /\ ~(i + 1 < 1)
  BY <1>1
<1>3. Precedes(u, y, x)
  <2> SUFFICES ASSUME NEW a \in DOMAIN u, NEW b \in DOMAIN u, u[a] = x, u[b] = y
               PROVE  b < a
    BY DEF Precedes
  <2>1. b + 1 < a + 1
    BY <1>1, <1>2 DEF Precedes
  <2> QED BY <1>2, <2>1
<1>4. ASSUME x = Head(w), y \in ToSet(u) PROVE FALSE
  <2>1. PICK b \in DOMAIN u : u[b] = y
    BY <1>4 DEF ToSet
  <2>2. b + 1 < 1
    BY <1>1, <1>2, <1>4, <2>1 DEF Precedes
  <2> QED BY <1>2, <2>2
<1> QED BY <1>3, <1>4 DEF u

\* The members of the chain of p are different tags.
LEMMA Links ==
    ASSUME Base, NEW p \in Proc, NEW i \in DOMAIN chain[p], NEW j \in DOMAIN chain[p], j < i
    PROVE  /\ chain[p] # <<>>
           /\ chain[p][i] \in ToSet(chain[p]) /\ chain[p][j] \in ToSet(chain[p])
           /\ chain[p][i] # chain[p][j] /\ chain[p][j] # r(p)
           /\ chain[p][i] \in Tags \ {Nil} /\ chain[p][j] \in Tags \ {Nil}
<1>1. chain[p] \in Seq(Tags) /\ IsInjective(chain[p]) /\ Nil \notin Tags
  BY MntAssumption DEF Base, Consistent, TypeOK, Chains
<1>2. i \in 1 .. Len(chain[p]) /\ j \in 1 .. Len(chain[p]) /\ Len(chain[p]) \in Nat
  BY <1>1
<1>3. i # j /\ j # Len(chain[p]) /\ Len(chain[p]) \in DOMAIN chain[p]
  BY <1>1, <1>2
<1>4. r(p) = chain[p][Len(chain[p])]
  BY DEF r, Last
<1> QED BY <1>1, <1>2, <1>3, <1>4 DEF IsInjective, ToSet

\* A step that leaves the Mntrpcs alone keeps Sent: bwrite() of a fresh tag too.
LEMMA SentQuiet ==
    ASSUME Base, Sent, NEW p \in Proc, NEW to \in PCs, Quiet(p, to)
    PROVE  Sent'
<1> USE DEF Base, Consistent
<1>1. /\ pc'[p] = to
      /\ \A q \in Proc \ {p} : pc'[q] = pc[q] \/ (pc[q] = "asleep" /\ pc'[q] = "woken")
  BY ShiftSays DEF Quiet
<1>2. /\ UNCHANGED <<queue, chain, done, got, wire, hungup>> /\ Coming' = Coming
      /\ \A q \in Proc : r(q)' = r(q)
  BY DEF Quiet, Coming, r
<1>3. asked' = asked \/ (pc[p] = "write" /\ ~hungup /\ asked' = asked \cup {r(p)})
  BY DEF Quiet
<1>4. pc[p] = "write" => chain[p] # <<>>
  BY DEF Chains, Idle, Returned
<1>5. NoUnexpected'
  <2>1. CASE asked' = asked
    BY <1>2, <2>1 DEF Sent, NoUnexpected
  <2>2. CASE pc[p] = "write" /\ ~hungup /\ asked' = asked \cup {r(p)}
    <3>1. r(p) \in Used /\ r(p) \notin Coming \cup done
      BY <1>4, <2>2, Chain DEF Sent, Fresh
    <3>2. r(p) \in ToSet(queue)
      BY <3>1 DEF QueueExact
    <3> QED BY <1>2, <2>2, <3>1, <3>2 DEF Sent, NoUnexpected
  <2> QED BY <1>3, <2>1, <2>2
<1>6. Fresh'
  <2> SUFFICES ASSUME ~hungup, NEW q \in Proc, pc'[q] = "write"
               PROVE  r(q) \notin asked' \cup Coming \cup done
    BY <1>2 DEF Fresh
  <2>1. q # p /\ pc[q] = "write"
    BY <1>1 DEF Quiet
  <2>2. r(q) \notin asked \cup Coming \cup done /\ r(q) \in ToSet(chain[q])
    BY <2>1, Chain DEF Sent, Fresh, Chains, Idle, Returned
  <2>3. pc[p] = "write" => r(p) \in ToSet(chain[p])
    BY <1>4, Chain
  <2> QED BY <1>3, <2>1, <2>2, <2>3 DEF QueueExact
<1>7. ASSUME NEW q \in Proc, ~(hungup' /\ pc'[q] \in Doomed) PROVE InOrder(q)'
  <2>1. ~(hungup /\ pc[q] \in Doomed)
    BY <1>1, <1>2, <1>7 DEF Quiet, Doomed
  <2> SUFFICES ASSUME NEW i \in DOMAIN chain[q], NEW j \in DOMAIN chain[q], j < i
               PROVE  After(chain[q][i], chain[q][j])'
    BY <1>2 DEF InOrder
  <2>2. After(chain[q][i], chain[q][j])
    BY <2>1 DEF Sent, Ordered, InOrder
  <2>3. chain[q][j] \in asked' => chain[q][j] \in asked
    <3>1. chain[q][j] \in ToSet(chain[q]) /\ chain[q][j] # r(q)
      BY Links
    <3>2. pc[p] = "write" => r(p) \in ToSet(chain[p])
      BY <1>4, Chain
    <3> QED BY <1>3, <3>1, <3>2 DEF QueueExact
  <2> QED BY <1>2, <2>2, <2>3 DEF After
<1> QED BY <1>5, <1>6, <1>7 DEF Sent, Ordered

\* A new tag is fresh, and its Mntrpc the last of the call.
LEMMA SentLinked ==
    ASSUME Base, Sent, NEW p \in Proc, NEW t \in Tags, Linked(p, t)
    PROVE  Sent'
<1> USE DEF Base, Consistent
<1>1. /\ t \notin Used /\ chain'[p] = Append(chain[p], t)
      /\ \A q \in Proc \ {p} : chain'[q] = chain[q]
      /\ r(p)' = t /\ ToSet(queue') = ToSet(queue) \cup {t}
      /\ pc' = [pc EXCEPT ![p] = "write"]
      /\ UNCHANGED <<done, got, asked, wire, hungup>>
  BY LinkedSays DEF server
<1>2. pc \in [Proc -> PCs] /\ chain[p] \in Seq(Tags) /\ Nil \notin Tags
  BY MntAssumption DEF TypeOK
<1>3. /\ pc'[p] = "write" /\ \A q \in Proc \ {p} : pc'[q] = pc[q] /\ r(q)' = r(q)
      /\ Coming' = Coming
  BY <1>1, <1>2 DEF r, Coming
<1>4. t \notin done
  BY <1>1 DEF Control
<1>5. ~hungup => t \notin asked \cup Coming
  BY <1>1 DEF Sent, NoUnexpected, QueueExact
<1>6. NoUnexpected'
  BY <1>1, <1>3 DEF Sent, NoUnexpected
<1>7. Fresh'
  BY <1>1, <1>3, <1>4, <1>5 DEF Sent, Fresh
<1>8. ASSUME NEW q \in Proc, ~(hungup' /\ pc'[q] \in Doomed) PROVE InOrder(q)'
  <2>1. CASE q # p
    <3>1. InOrder(q)
      BY <1>1, <1>3, <1>8, <2>1 DEF Sent, Ordered
    <3> QED BY <1>1, <1>3, <2>1, <3>1 DEF InOrder, After
  <2>2. CASE q = p
    <3>1. ~hungup
      BY <1>1, <1>3, <1>8, <2>2 DEF Doomed
    <3>2. /\ DOMAIN chain[p] = 1 .. Len(chain[p]) /\ Len(chain[p]) \in Nat
          /\ DOMAIN chain'[p] = 1 .. Len(chain[p]) + 1
          /\ chain'[p][Len(chain[p]) + 1] = t
          /\ \A i \in DOMAIN chain[p] : chain'[p][i] = chain[p][i]
      BY <1>1, <1>2
    <3> SUFFICES ASSUME NEW i \in DOMAIN chain'[p], NEW j \in DOMAIN chain'[p], j < i
                 PROVE  After(chain[p][i], chain[p][j])'
      BY <2>2 DEF InOrder
    <3>3. CASE i \in DOMAIN chain[p]
      <4>1. j \in DOMAIN chain[p]
        BY <3>2, <3>3
      <4>2. After(chain[p][i], chain[p][j])
        BY <3>1, <3>3, <4>1 DEF Sent, Ordered, InOrder
      <4> QED BY <1>1, <1>3, <3>2, <3>3, <4>1, <4>2 DEF After
    <3>4. CASE i \notin DOMAIN chain[p]
      <4>1. chain'[p][i] = t
        BY <3>2, <3>4
      <4>2. t \notin done \cup Coming /\ t # got /\ t \notin ToSet(wire)
        BY <1>2, <1>4, <1>5, <3>1 DEF Coming
      <4>3. Precedes(wire, chain'[p][j], t)
        BY <4>2 DEF Precedes, ToSet
      <4> QED BY <1>1, <1>3, <4>1, <4>2, <4>3 DEF After
    <3> QED BY <3>3, <3>4
  <2> QED BY <2>1, <2>2
<1> QED BY <1>6, <1>7, <1>8 DEF Sent, Ordered

\* mntrpcread() keeps the order of the replies.
LEMMA SentRead ==
    ASSUME Base, Sent, NEW p \in Proc, Read(p)
    PROVE  Sent'
<1> USE DEF Base, Consistent
<1>1. /\ pc[p] = "read" /\ pc' = [pc EXCEPT ![p] = "mux"]
      /\ got = Nil /\ wire # <<>> /\ got' = Head(wire) /\ wire' = Tail(wire)
      /\ got' \in Tags
      /\ ToSet(wire) = ToSet(wire') \cup {got'}
      /\ IsInjective(wire) => IsInjective(wire') /\ got' \notin ToSet(wire')
      /\ UNCHANGED <<rip, queue, chain, done, asked, hungup>>
  BY ReadSays
<1>2. pc \in [Proc -> PCs] /\ wire \in Seq(Tags) /\ Nil \notin Tags
  BY MntAssumption DEF TypeOK
<1>3. /\ pc'[p] = "mux" /\ \A q \in Proc \ {p} : pc'[q] = pc[q]
      /\ \A q \in Proc : r(q)' = r(q)
  BY <1>1, <1>2 DEF r
<1>4. Coming' = Coming
  BY <1>1, <1>2 DEF Coming
<1>5. NoUnexpected'
  BY <1>1, <1>4 DEF Sent, NoUnexpected
<1>6. Fresh'
  BY <1>1, <1>3, <1>4 DEF Sent, Fresh
<1>7. ASSUME NEW q \in Proc, ~(hungup' /\ pc'[q] \in Doomed) PROVE InOrder(q)'
  <2>1. InOrder(q)
    BY <1>1, <1>3, <1>7 DEF Sent, Ordered, Doomed
  <2> SUFFICES ASSUME NEW i \in DOMAIN chain[q], NEW j \in DOMAIN chain[q], j < i
               PROVE  After(chain[q][i], chain[q][j])'
    BY <1>1 DEF InOrder
  <2>2. After(chain[q][i], chain[q][j])
    BY <2>1 DEF InOrder
  <2>3. /\ Precedes(wire', chain[q][j], chain[q][i])
        /\ chain[q][i] = got' => chain[q][j] \notin ToSet(wire')
    BY <1>1, <1>2, <2>2, PrecedesTail DEF After
  <2> QED BY <1>1, <1>4, <2>2, <2>3 DEF After
<1> QED BY <1>5, <1>6, <1>7 DEF Sent, Ordered

\* mountmux() keeps Sent: the reply becomes an answer.
LEMMA SentMux ==
    ASSUME Base, Sent, NEW p \in Proc, mountmux(p)
    PROVE  Sent'
<1> USE DEF Base, Consistent
<1>1. /\ Shift(p, "read") /\ pc[p] = "mux" /\ got' = Nil
      /\ UNCHANGED <<rip, chain, asked, wire, hungup>>
  BY MuxSays DEF server
<1>2. Nil \notin Tags /\ ToSet(queue) \subseteq Tags
  BY MntAssumption DEF TypeOK, ToSet
<1>3. /\ pc'[p] = "read" /\ \A q \in Proc : r(q)' = r(q)
      /\ \A q \in Proc \ {p} : pc'[q] = pc[q] \/ (pc[q] = "asleep" /\ pc'[q] = "woken")
  BY <1>1, ShiftSays DEF PCs, r
<1>4. Coming' = ToSet(wire) /\ Coming' \subseteq Coming
  BY <1>1 DEF Coming
<1>5. \/ /\ got \in ToSet(queue) /\ got # Nil /\ got \in Coming /\ done' = done \cup {got}
         /\ ToSet(queue') = ToSet(queue) \ {got}
      \/ got \notin ToSet(queue) /\ UNCHANGED <<queue, done>>
  BY <1>2, MuxSays DEF Coming
<1>6. done' \cup Coming' \subseteq done \cup Coming
  BY <1>4, <1>5
<1>7. NoUnexpected'
  <2> SUFFICES ASSUME ~hungup
               PROVE  /\ asked \cup ToSet(wire) \subseteq ToSet(queue')
                      /\ asked \cap ToSet(wire) = {} /\ IsInjective(wire)
                      /\ Nil \notin ToSet(wire)
    BY <1>1, <1>4 DEF NoUnexpected
  <2>1. /\ asked \cup Coming \subseteq ToSet(queue) /\ asked \cap Coming = {}
        /\ IsInjective(wire) /\ got \notin ToSet(wire)
    BY DEF Sent, NoUnexpected
  <2>2. ToSet(wire) \subseteq Coming /\ Nil \notin ToSet(wire)
    BY <1>2, <2>1 DEF Coming
  <2> QED BY <1>5, <2>1, <2>2
<1>8. Fresh'
  <2> SUFFICES ASSUME ~hungup, NEW q \in Proc, pc'[q] = "write"
               PROVE  r(q) \notin asked \cup Coming' \cup done'
    BY <1>1, <1>3 DEF Fresh
  <2>1. pc[q] = "write"
    BY <1>3
  <2>2. r(q) \notin asked \cup Coming \cup done
    BY <2>1 DEF Sent, Fresh
  <2> QED BY <1>6, <2>2
<1>9. ASSUME NEW q \in Proc, ~(hungup' /\ pc'[q] \in Doomed) PROVE InOrder(q)'
  <2>1. InOrder(q)
    BY <1>1, <1>3, <1>9 DEF Sent, Ordered, Doomed
  <2> SUFFICES ASSUME NEW i \in DOMAIN chain[q], NEW j \in DOMAIN chain[q], j < i
               PROVE  After(chain[q][i], chain[q][j])'
    BY <1>1 DEF InOrder
  <2> DEFINE x == chain[q][i]
             y == chain[q][j]
  <2>2. After(x, y) /\ x # Nil
    BY <2>1, Links DEF InOrder
  <2> HIDE DEF x, y
  <2>3. x \in done' => y \notin Coming'
    BY <1>4, <1>5, <2>2 DEF After
  <2> QED BY <1>1, <1>6, <2>2, <2>3 DEF After, x, y
<1> QED BY <1>7, <1>8, <1>9 DEF Sent, Ordered

\* When the last Mntrpc of a call is answered, nothing of the call is under way:
\* its tags can be used again.
LEMMA AnsweredChain ==
    ASSUME Base, Sent, NEW p \in Proc, pc[p] = "finish", NEW y \in ToSet(chain[p])
    PROVE  /\ y \notin Coming \/ y \in done
           /\ y \notin asked
           /\ ~hungup => y \notin Coming
<1> USE DEF Base, Consistent
<1>1. chain[p] # <<>> /\ chain[p] \in Seq(Tags)
  BY DEF Chains, Idle, Returned, TypeOK
<1>2. r(p) \in done /\ r(p) = chain[p][Len(chain[p])] /\ Len(chain[p]) \in Nat \ {0}
  BY <1>1, Chain DEF Control
<1>3. InOrder(p)
  BY DEF Sent, Ordered, Doomed
<1>4. r(p) \notin ToSet(queue)
  BY <1>2 DEF QueueExact
<1>5. ~hungup => asked \cup Coming \subseteq ToSet(queue)
  BY DEF Sent, NoUnexpected
<1>6. CASE y = r(p)
  BY <1>2, <1>4, <1>5, <1>6 DEF Control
<1>7. CASE y # r(p)
  <2>1. PICK j \in DOMAIN chain[p] : chain[p][j] = y
    BY DEF ToSet
  <2>2. Len(chain[p]) \in DOMAIN chain[p] /\ j < Len(chain[p])
    BY <1>1, <1>2, <1>7, <2>1
  <2>3. After(r(p), y)
    BY <1>2, <1>3, <2>1, <2>2 DEF InOrder
  <2> QED BY <1>2, <2>3 DEF After
<1> QED BY <1>6, <1>7

\* mntflushfree() frees only tags the server is done with.
LEMMA SentFreed ==
    ASSUME Base, Sent, NEW p \in Proc, NEW to \in Returned, Freed(p, to)
    PROVE  Sent'
<1> USE DEF Base, Consistent
<1>1. /\ chain'[p] = <<>> /\ \A q \in Proc \ {p} : chain'[q] = chain[q]
      /\ done' = done \ ToSet(chain[p]) /\ ToSet(queue') = ToSet(queue) \ ToSet(chain[p])
      /\ pc' = [pc EXCEPT ![p] = to] /\ pc[p] \in {"finish", "error"}
      /\ UNCHANGED <<rip, got, asked, wire, hungup>>
  BY FreedSays DEF server
<1>2. pc \in [Proc -> PCs]
  BY DEF TypeOK
<1>3. /\ pc'[p] = to /\ to \in Returned /\ Coming' = Coming
      /\ \A q \in Proc \ {p} : pc'[q] = pc[q] /\ r(q)' = r(q)
  BY <1>1, <1>2 DEF r, Coming
<1>4. NoUnexpected'
  <2> SUFFICES ASSUME ~hungup
               PROVE  asked \cup Coming \subseteq ToSet(queue')
    BY <1>1, <1>3 DEF Sent, NoUnexpected
  <2>1. pc[p] = "finish"
    BY <1>1 DEF Control
  <2>2. \A y \in ToSet(chain[p]) : y \notin asked /\ y \notin Coming
    BY <2>1, AnsweredChain
  <2> QED BY <1>1, <2>2 DEF Sent, NoUnexpected
<1>5. Fresh'
  <2>1. \A q \in Proc : pc'[q] = "write" => q # p /\ pc[q] = "write" /\ r(q)' = r(q)
    BY <1>3 DEF Returned
  <2> QED BY <1>1, <1>3, <2>1 DEF Sent, Fresh
<1>6. ASSUME NEW q \in Proc, ~(hungup' /\ pc'[q] \in Doomed) PROVE InOrder(q)'
  <2>1. CASE q = p
    BY <1>1, <2>1 DEF InOrder
  <2>2. CASE q # p
    <3>1. InOrder(q)
      BY <1>1, <1>3, <1>6, <2>2 DEF Sent, Ordered
    <3> QED BY <1>1, <1>3, <2>2, <3>1 DEF InOrder, After
  <2> QED BY <2>1, <2>2
<1> QED BY <1>4, <1>5, <1>6 DEF Sent, Ordered

\* The messages that a Tflush comes after are those before it in the chain.
LEMMA BeforeSays ==
    ASSUME Base, NEW p \in Proc, NEW i \in DOMAIN chain[p]
    PROVE  Before(chain[p][i]) = {chain[p][j] : j \in 1 .. i}
<1> DEFINE t == chain[p][i]
           k == CHOOSE k \in DOMAIN chain[p] : chain[p][k] = t
<1>1. Owner(t) = p
  <2>1. t \in ToSet(chain[p])
    BY DEF ToSet
  <2> QED BY <2>1, OwnerIs DEF Base, Consistent
<1>2. k = i
  <2>1. k \in DOMAIN chain[p] /\ chain[p][k] = t
    OBVIOUS
  <2> HIDE DEF k
  <2> QED BY <2>1 DEF Base, Chains, IsInjective
<1> QED BY <1>1, <1>2 DEF Before

\* What the server changes when it answers: with a flush it forgets all it flushes.
LEMMA AnswerSays ==
    ASSUME Base, Sent, NEW t \in Tags, Answer(t)
    PROVE  /\ ~hungup /\ t \in asked /\ t \notin done \cup Coming
           /\ asked' \subseteq asked \ {t}
           /\ wire' = Append(wire, t) /\ Coming' = Coming \cup {t}
           /\ UNCHANGED <<rip, queue, chain, done, got, pc, hungup>>
           /\ Owner(t) \in Proc /\ t \in ToSet(chain[Owner(t)])
           /\ \A p \in Proc : \A i, j \in DOMAIN chain[p] :
                chain[p][i] = t /\ j < i => chain[p][j] \notin asked'
<1> USE DEF Base, Consistent
<1>1. /\ t \in asked /\ wire' = Append(wire, t)
      /\ UNCHANGED <<rip, queue, chain, done, got, pc, hungup>>
  BY DEF Answer, mnt
<1>2. ~hungup
  BY <1>1 DEF Control
<1>3. t \in ToSet(queue) /\ t \notin Coming
  BY <1>1, <1>2 DEF Sent, NoUnexpected
<1>4. t \in Used /\ t \notin done
  BY <1>3 DEF QueueExact
<1>5. Owner(t) \in Proc /\ t \in ToSet(chain[Owner(t)])
  BY <1>4, Owned
<1>6. ASSUME NEW p \in Proc, NEW i \in DOMAIN chain[p], NEW j \in DOMAIN chain[p],
             chain[p][i] = t, j < i
      PROVE  chain[p][j] \notin asked'
  <2>1. i \in Int /\ j \in Int /\ 1 <= j /\ 1 \in DOMAIN chain[p]
    BY DEF TypeOK
  <2>2. Owner(t) = p
    BY <1>6, OwnerIs DEF ToSet
  <2>3. Head(chain[p]) = chain[p][1]
    BY DEF TypeOK
  <2>4. IsFlush(t)
    BY <1>6, <2>1, <2>2, <2>3 DEF IsFlush, Chains, IsInjective
  <2>5. chain[p][j] \in Before(t)
    <3>1. Before(t) = {chain[p][m] : m \in 1 .. i}
      BY <1>6, BeforeSays
    <3>2. j \in 1 .. i
      BY <1>6, <2>1
    <3> QED BY <3>1, <3>2
  <2> QED BY <2>4, <2>5 DEF Answer
<1>7. asked' \subseteq asked \ {t}
  <2>1. CASE ~IsFlush(t)
    BY <2>1 DEF Answer
  <2>2. CASE IsFlush(t)
    <3>1. PICK i \in DOMAIN chain[Owner(t)] : chain[Owner(t)][i] = t
      BY <1>5 DEF ToSet
    <3>2. Before(t) = {chain[Owner(t)][m] : m \in 1 .. i}
      BY <1>5, <3>1, BeforeSays
    <3>3. i \in 1 .. i
      BY <1>5, <3>1 DEF TypeOK
    <3> QED BY <2>2, <3>1, <3>2, <3>3 DEF Answer
  <2> QED BY <2>1, <2>2
<1>8. Coming' = Coming \cup {t}
  <2>1. wire \in Seq(Tags)
    BY DEF TypeOK
  <2> QED BY <1>1, <2>1, AppendMembers DEF Coming
<1> QED BY <1>1, <1>2, <1>3, <1>4, <1>5, <1>6, <1>7, <1>8

\* An answer keeps Sent.
LEMMA SentAnswer ==
    ASSUME Base, Sent, NEW t \in Tags, Answer(t)
    PROVE  Sent'
<1> USE DEF Base, Consistent
<1>1. /\ ~hungup /\ t \in asked /\ t \notin done \cup Coming
      /\ asked' \subseteq asked \ {t}
      /\ wire' = Append(wire, t) /\ Coming' = Coming \cup {t}
      /\ UNCHANGED <<rip, queue, chain, done, got, pc, hungup>>
      /\ \A p \in Proc : \A i, j \in DOMAIN chain[p] :
           chain[p][i] = t /\ j < i => chain[p][j] \notin asked'
  BY AnswerSays
<1>2. wire \in Seq(Tags) /\ Nil \notin Tags /\ \A q \in Proc : r(q)' = r(q)
  BY <1>1, MntAssumption DEF TypeOK, r
<1>3. t \notin ToSet(wire) /\ t # got
  BY <1>1, <1>2 DEF Coming
<1>4. NoUnexpected'
  <2>1. /\ asked \cup Coming \subseteq ToSet(queue) /\ asked \cap Coming = {}
        /\ IsInjective(wire) /\ got \notin ToSet(wire)
    BY <1>1 DEF Sent, NoUnexpected
  <2>2. IsInjective(wire') /\ ToSet(wire') = ToSet(wire) \cup {t}
    BY <1>1, <1>2, <1>3, <2>1, AppendMembers
  <2> QED BY <1>1, <1>3, <2>1, <2>2 DEF NoUnexpected
<1>5. Fresh'
  BY <1>1, <1>2 DEF Sent, Fresh
<1>6. ASSUME NEW q \in Proc PROVE InOrder(q)'
  <2>1. InOrder(q)
    BY <1>1 DEF Sent, Ordered
  <2> SUFFICES ASSUME NEW i \in DOMAIN chain[q], NEW j \in DOMAIN chain[q], j < i
               PROVE  After(chain[q][i], chain[q][j])'
    BY <1>1 DEF InOrder
  <2> DEFINE x == chain[q][i]
             y == chain[q][j]
  <2>2. After(x, y) /\ x # Nil /\ x # y
    BY <2>1, Links DEF InOrder
  <2>3. x = t => y \notin asked'
    BY <1>1
  <2> HIDE DEF x, y
  <2>4. CASE y # t
    <3>1. Precedes(wire', y, x)
      BY <1>1, <1>2, <1>3, <2>2, <2>4, PrecedesAppend DEF After
    <3>2. ToSet(wire') = ToSet(wire) \cup {t}
      BY <1>1, <1>2, AppendMembers
    <3> QED BY <1>1, <1>3, <2>2, <2>3, <2>4, <3>1, <3>2 DEF After, x, y
  <2>5. CASE y = t
    <3>1. x \notin done \cup Coming /\ x # t
      BY <1>1, <2>2, <2>5 DEF After
    <3>2. x # got /\ x \notin ToSet(wire)
      BY <2>2, <3>1 DEF Coming
    <3>3. ToSet(wire') = ToSet(wire) \cup {t}
      BY <1>1, <1>2, AppendMembers
    <3>4. Precedes(wire', y, x)
      BY <3>1, <3>2, <3>3 DEF Precedes, ToSet
    <3> QED BY <1>1, <3>1, <3>2, <3>4 DEF After, x, y
  <2> QED BY <2>4, <2>5
<1> QED BY <1>4, <1>5, <1>6 DEF Sent, Ordered

\* The end of the connection, and a step that changes nothing, keep Sent.
LEMMA SentSame ==
    ASSUME Sent, UNCHANGED <<mnt, pc, wire>>, asked' \subseteq asked, hungup => hungup'
    PROVE  Sent'
<1>1. /\ UNCHANGED <<queue, chain, done, got, pc, wire>> /\ Coming' = Coming
      /\ \A p \in Proc : r(p)' = r(p)
  BY DEF mnt, Coming, r
<1>2. NoUnexpected' /\ Fresh'
  BY <1>1 DEF Sent, NoUnexpected, Fresh
<1>3. Ordered'
  <2>1. \A p \in Proc : InOrder(p) => InOrder(p)'
    BY <1>1 DEF InOrder, After
  <2> QED BY <1>1, <2>1 DEF Sent, Ordered
<1> QED BY <1>2, <1>3 DEF Sent

\* Every step keeps the second layer.
LEMMA SentStep == Base /\ Sent /\ [Next]_vars => Sent'
<1> SUFFICES ASSUME Base, Sent, [Next]_vars PROVE Sent'
  OBVIOUS
<1>1. ASSUME UNCHANGED <<mnt, server, pc>> PROVE Sent'
  BY <1>1, SentSame DEF server
<1>2. ASSUME Hangup PROVE Sent'
  BY <1>2, SentSame DEF Hangup
<1> QED
  BY <1>1, <1>2, SentQuiet, SentLinked, SentRead, SentMux, SentFreed, SentAnswer, Kinds DEF Step
-----------------------------------------------------------------------------
\* Every step keeps the gate attended: who leaves it wakes a sleeper with no answer,
\* and who comes by looks for itself.
LEMMA GateStep == Base /\ GateNotLost /\ [Next]_vars => GateNotLost'
<1> SUFFICES ASSUME Base, GateNotLost, [Next]_vars, ~hungup', rip' = Nil,
                    NEW x \in Proc, pc'[x] = "asleep"
             PROVE  \E q \in Proc : pc'[q] \in Waiting /\ r(q)' \notin done'
  BY DEF GateNotLost, At, Waiting
<1> USE DEF Base, Consistent
<1>1. TypeOK /\ pc \in [Proc -> PCs] /\ Nil \notin Proc
  BY MntAssumption DEF TypeOK
<1>2. ASSUME ~hungup, rip = Nil, NEW y \in Proc, pc[y] = "asleep"
      PROVE  \E q \in Proc : pc[q] \in Waiting /\ r(q) \notin done
  BY <1>2 DEF GateNotLost, At, Waiting
<1> DEFINE Goal == \E q \in Proc : pc'[q] \in Waiting /\ r(q)' \notin done'
<1> HIDE DEF Goal
<1>3. ASSUME UNCHANGED <<mnt, pc, hungup>> PROVE Goal
  <2>1. UNCHANGED <<rip, chain, done, pc, hungup>> /\ \A q \in Proc : r(q)' = r(q)
    BY <1>3 DEF mnt, r
  <2> QED BY <1>2, <2>1 DEF Goal
<1>4. ASSUME NEW p \in Proc, NEW to \in PCs, Quiet(p, to) PROVE Goal
  <2>1. /\ pc'[p] = to
        /\ \A q \in Proc \ {p} : pc'[q] = pc[q] \/ (pc[q] = "asleep" /\ pc'[q] = "woken")
    BY <1>1, <1>4, ShiftSays DEF Quiet
  <2>2. UNCHANGED <<done, chain, hungup>> /\ \A q \in Proc : r(q)' = r(q)
    BY <1>4 DEF Quiet, r
  <2>3. to # "asleep"
    BY <1>4 DEF Quiet
  <2>4. pc[x] = "asleep"
    BY <2>1, <2>3
  <2>5. ASSUME NEW q \in Proc, pc[q] = "asleep", pc'[q] = "woken" PROVE Goal
    BY <2>2, <2>5 DEF Goal, AnswerNotLost, At, Waiting
  <2>6. CASE rip # Nil
    BY <1>4, <2>4, <2>5, <2>6 DEF Quiet, Gates
  <2>7. CASE rip = Nil
    <3>1. PICK q \in Proc : pc[q] \in Waiting /\ r(q) \notin done
      BY <1>2, <2>2, <2>4, <2>7
    <3>2. CASE q = p
      BY <1>4, <2>1, <2>2, <3>1, <3>2 DEF Quiet, Goal
    <3>3. CASE q # p
      BY <2>1, <2>2, <3>1, <3>3 DEF Goal, Waiting
    <3> QED BY <3>2, <3>3
  <2> QED BY <2>6, <2>7
<1>5. ASSUME NEW p \in Proc, NEW t \in Tags, Linked(p, t) PROVE Goal
  <2>1. /\ t \notin Used /\ r(p)' = t /\ pc' = [pc EXCEPT ![p] = "write"] /\ done' = done
    BY <1>5, LinkedSays
  <2>2. pc'[p] = "write" /\ t \notin done
    BY <1>1, <2>1 DEF Control
  <2> QED BY <2>1, <2>2 DEF Goal, Waiting
<1>6. ASSUME NEW p \in Proc, Read(p) \/ mountmux(p) PROVE Goal
  <2>1. pc[p] \in {"read", "mux"} /\ rip' = rip
    BY <1>6, ReadSays, MuxSays
  <2>2. rip = p
    BY <2>1 DEF OneReader
  <2> QED BY <1>1, <2>1, <2>2
<1>7. ASSUME NEW p \in Proc, NEW to \in Returned, Freed(p, to) PROVE Goal
  <2>1. /\ \A q \in Proc \ {p} : chain'[q] = chain[q]
        /\ done' = done \ ToSet(chain[p])
        /\ pc' = [pc EXCEPT ![p] = to] /\ pc[p] \in {"finish", "error"}
        /\ UNCHANGED <<rip, hungup>>
    BY <1>7, FreedSays DEF server
  <2>2. pc[x] = "asleep"
    BY <1>1, <2>1 DEF Returned
  <2>3. PICK q \in Proc : pc[q] \in Waiting /\ r(q) \notin done
    BY <1>2, <2>1, <2>2
  <2>4. q # p
    BY <2>1, <2>3 DEF Waiting
  <2>5. pc'[q] = pc[q] /\ r(q)' = r(q)
    BY <1>1, <2>1, <2>4 DEF r
  <2> QED BY <2>1, <2>3, <2>5 DEF Goal
<1>8. ASSUME NEW t \in Tags, Answer(t) PROVE Goal
  BY <1>3, <1>8 DEF Answer
<1>9. ASSUME Hangup PROVE FALSE
  BY <1>9 DEF Hangup
<1>10. ASSUME UNCHANGED <<mnt, server, pc>> PROVE Goal
  BY <1>3, <1>10 DEF server
<1>11. Goal
  BY <1>4, <1>5, <1>6, <1>7, <1>8, <1>9, <1>10, Kinds DEF Step
<1> QED BY <1>11 DEF Goal

\* The inductive invariant.
Inv == Base /\ Sent /\ GateNotLost

\* It holds on a new connection.
LEMMA InitInv == Init => Inv
<1> SUFFICES ASSUME Init PROVE Inv
  OBVIOUS
<1> USE DEF Init
<1>1. /\ ToSet(<<>>) = {} /\ IsInjective(<<>>)
      /\ \A p \in Proc : chain[p] = <<>> /\ pc[p] = "idle"
  BY DEF ToSet, IsInjective
<1>2. Used = {}
  BY <1>1 DEF Used
<1>3. Coming = {}
  BY <1>1 DEF Coming
<1>4. TypeOK
  <2>1. <<>> \in Seq(Tags)
    OBVIOUS
  <2>2. chain \in [Proc -> Seq(Tags)]
    BY <2>1
  <2> QED BY <2>1, <2>2 DEF TypeOK, PCs
<1>5. Consistent
  BY <1>1, <1>2, <1>4, MntAssumption DEF Consistent, QueueExact, OneReader, AnswerNotLost, At
<1>6. Chains /\ Control
  BY <1>1 DEF Chains, Control, Idle
<1>7. Sent
  BY <1>1, <1>3, MntAssumption
     DEF Sent, NoUnexpected, Fresh, Ordered, InOrder
<1>8. GateNotLost
  BY <1>1 DEF GateNotLost, At
<1> QED BY <1>5, <1>6, <1>7, <1>8 DEF Inv, Base

\* It holds in every reachable state, layer upon layer.
THEOREM Invariance == Spec => []Inv
<1>1. Inv /\ [Next]_vars => Inv'
  BY BaseStep, SentStep, GateStep DEF Inv
<1> QED BY <1>1, InitInv, PTL DEF Spec

\* The queue of a Mnt holds the unanswered Mntrpcs, each once and each of one call,
\* one process reads at a time, and mountmux() loses no wakeup.
THEOREM MntConsistent == Spec => []Consistent
<1>1. Inv => Consistent
  BY DEF Inv, Base
<1> QED BY <1>1, Invariance, PTL

\* No tag is free, or used again, while the server may still answer it: mountmux()
\* never has an unexpected reply tag, nor gives a call the reply of another.
THEOREM MntNoUnexpected == Spec => []NoUnexpected
<1>1. Inv => NoUnexpected
  BY DEF Inv, Sent
<1> QED BY <1>1, Invariance, PTL

\* mntgate() never leaves an open gate with sleepers only: a process with no answer
\* is on its way to read.
THEOREM MntGateNotLost == Spec => []GateNotLost
<1>1. Inv => GateNotLost
  BY DEF Inv
<1> QED BY <1>1, Invariance, PTL
-----------------------------------------------------------------------------
\* The calls as Rpc sees them.
OutcomeMap == [p \in Proc |-> Outcome(p)]

\* A call whose Mntrpcs are as before, to the server too, is as before to Rpc.
LEMMA OutcomeSame ==
    ASSUME Base, NEW q \in Proc, chain'[q] = chain[q],
           pc[q] \in Idle => pc'[q] = pc[q], pc'[q] \in Idle => pc'[q] = pc[q],
           \A t \in ToSet(chain[q]) : Decided(t)' <=> Decided(t)
    PROVE  Outcome(q)' = Outcome(q)
<1>1. CASE pc[q] \in Idle
  BY <1>1 DEF Outcome, Idle
<1>2. CASE pc[q] \notin Idle
  <2>1. pc'[q] \notin Idle
    BY <1>2
  <2>2. Head(chain[q]) \in ToSet(chain[q])
    BY <1>2, Chain DEF Base, Consistent, Chains
  <2>3. Decided(Head(chain[q]))' <=> Decided(Head(chain[q]))
    BY <2>2
  <2> QED BY <1>2, <2>1, <2>3 DEF Outcome, Idle
<1> QED BY <1>1, <1>2

\* No call changes: a stutter of Rpc.
LEMMA SameCalls ==
    ASSUME \A q \in Proc : Outcome(q)' = Outcome(q), hungup' = hungup
    PROVE  UNCHANGED Calls!absVars
BY DEF Calls!absVars

\* One call changes: a move of Rpc.
LEMMA OneMoves ==
    ASSUME NEW p \in Proc, \A q \in Proc \ {p} : Outcome(q)' = Outcome(q), hungup' = hungup,
           NEW from, Outcome(p) \in from, NEW to, Outcome(p)' = to
    PROVE  Calls!Move(p, from, to)
<1>1. OutcomeMap' = [OutcomeMap EXCEPT ![p] = to]
  BY DEF OutcomeMap
<1>2. OutcomeMap[p] \in from
  BY DEF OutcomeMap
<1> QED BY <1>1, <1>2 DEF Calls!Move, OutcomeMap

\* A step that leaves the Mntrpcs alone is the return of a call, or a stutter.
LEMMA RefineQuiet ==
    ASSUME Base, NEW p \in Proc, NEW to \in PCs, Quiet(p, to)
    PROVE  [Calls!AbsNext]_(Calls!absVars)
<1> USE DEF Base, Consistent
<1>1. /\ pc'[p] = to
      /\ \A q \in Proc \ {p} : pc'[q] = pc[q] \/ (pc[q] = "asleep" /\ pc'[q] = "woken")
  BY ShiftSays DEF Quiet
<1>2. /\ UNCHANGED <<chain, hungup>> /\ \A t : Decided(t)' <=> Decided(t)
      /\ pc[p] \in Idle <=> to \in Idle
      /\ to \in Idle => to = "idle" /\ pc[p] \in Returned
  BY DEF Quiet, Decided, Coming
<1>3. \A q \in Proc \ {p} : Outcome(q)' = Outcome(q)
  BY <1>1, <1>2, OutcomeSame DEF Idle, Returned
<1>4. CASE to \notin Idle
  <2>1. Outcome(p)' = Outcome(p)
    BY <1>1, <1>2, <1>4, OutcomeSame
  <2> QED BY <1>2, <1>3, <2>1, SameCalls
<1>5. CASE to \in Idle
  <2>1. Outcome(p) \in {"reply", "eintr", "fail"} /\ Outcome(p)' = "idle"
    BY <1>1, <1>2, <1>5 DEF Outcome, Returned
  <2>2. Calls!Return(p)
    BY <1>2, <1>3, <2>1, OneMoves DEF Calls!Return
  <2> QED BY <2>2 DEF Calls!AbsNext
<1> QED BY <1>4, <1>5

\* A new Mntrpc is a new call of Rpc or its interruption.
LEMMA RefineLinked ==
    ASSUME Base, Sent, NEW p \in Proc, NEW t \in Tags, Linked(p, t)
    PROVE  [Calls!AbsNext]_(Calls!absVars)
<1> USE DEF Base, Consistent
<1>1. /\ t \notin Used /\ chain'[p] = Append(chain[p], t)
      /\ ToSet(chain'[p]) = ToSet(chain[p]) \cup {t}
      /\ \A q \in Proc \ {p} : chain'[q] = chain[q]
      /\ pc' = [pc EXCEPT ![p] = "write"]
      /\ UNCHANGED <<done, got, asked, wire, hungup>>
  BY LinkedSays DEF server
<1>2. pc \in [Proc -> PCs] /\ chain[p] \in Seq(Tags) /\ pc[p] \in {"idle", "intr"}
  BY DEF TypeOK, Linked
<1>3. /\ pc'[p] = "write" /\ \A q \in Proc \ {p} : pc'[q] = pc[q]
      /\ UNCHANGED <<done, Coming>> /\ \A x : Decided(x)' <=> Decided(x)
  BY <1>1, <1>2 DEF Decided, Coming
<1>4. \A q \in Proc \ {p} : Outcome(q)' = Outcome(q)
  BY <1>1, <1>3, OutcomeSame
<1>5. pc'[p] \notin Idle
  BY <1>3 DEF Idle, Returned
<1>6. ~hungup => ~ Decided(t)
  <2>1. t \notin done
    BY <1>1 DEF Control
  <2>2. ~hungup => t \notin Coming
    BY <1>1 DEF Sent, NoUnexpected, QueueExact
  <2> QED BY <2>1, <2>2 DEF Decided
<1>7. CASE pc[p] = "idle"
  <2>1. chain[p] = <<>>
    BY <1>7 DEF Chains, Idle
  <2>2. Head(chain'[p]) = t /\ Len(chain'[p]) = 1 /\ ToSet(chain'[p]) = {t}
    BY <1>1, <1>2, <2>1 DEF ToSet
  <2>3. ~ Decided(t)
    BY <1>6, <1>7 DEF Linked
  <2>4. Outcome(p)' = "open"
    BY <1>3, <1>5, <2>2, <2>3 DEF Outcome, Idle, Decided
  <2>5. Outcome(p) \in {"idle"}
    BY <1>7 DEF Outcome
  <2>6. Calls!Ask(p)
    BY <1>1, <1>4, <2>4, <2>5, OneMoves DEF Calls!Ask
  <2> QED BY <2>6 DEF Calls!AbsNext
<1>8. CASE pc[p] = "intr"
  <2>1. pc[p] \notin Idle /\ chain[p] # <<>>
    BY <1>8 DEF Chains, Idle, Returned
  <2>2. /\ Head(chain'[p]) = Head(chain[p]) /\ Len(chain'[p]) > 1
        /\ Head(chain[p]) \in ToSet(chain[p])
    BY <1>1, <1>2, <2>1, Chain
  <2>3. Head(chain'[p]) \in (done \cup Coming)' <=> Decided(Head(chain[p]))
    BY <1>3, <2>2 DEF Decided
  <2>4. CASE Decided(Head(chain[p]))
    <3>1. Outcome(p) = "served" /\ Outcome(p)' = "served"
      BY <1>5, <2>1, <2>3, <2>4 DEF Outcome, Idle, Decided
    <3> QED BY <1>1, <1>4, <3>1, SameCalls
  <2>5. CASE ~ Decided(Head(chain[p])) /\ \E x \in ToSet(chain[p]) : Decided(x)
    <3>1. Outcome(p) = "flushed"
      BY <2>1, <2>5 DEF Outcome, Idle
    <3>2. \E x \in ToSet(chain'[p]) : x \in (done \cup Coming)'
      BY <1>1, <1>3, <2>5 DEF Decided
    <3>3. Outcome(p)' = "flushed"
      BY <1>5, <2>3, <2>5, <3>2 DEF Outcome, Idle, Decided
    <3> QED BY <1>1, <1>4, <3>1, <3>3, SameCalls
  <2>6. CASE ~ Decided(Head(chain[p])) /\ \A x \in ToSet(chain[p]) : ~ Decided(x)
    <3>1. Outcome(p) \in {"flushing", "open"}
      BY <2>1, <2>6 DEF Outcome, Idle
    <3>2. CASE Decided(t)
      <4>1. Outcome(p)' = "flushed"
        <5>1. \E x \in ToSet(chain'[p]) : x \in (done \cup Coming)'
          BY <1>1, <1>3, <3>2 DEF Decided
        <5> QED BY <1>5, <2>3, <2>6, <5>1 DEF Outcome, Idle, Decided
      <4>2. hungup
        BY <1>6, <3>2
      <4>3. Calls!Flushed(p)
        BY <1>1, <1>4, <3>1, <4>1, <4>2, OneMoves DEF Calls!Flushed
      <4> QED BY <4>3 DEF Calls!AbsNext
    <3>3. CASE ~ Decided(t)
      <4>1. Outcome(p)' = "flushing"
        <5>1. \A x \in ToSet(chain'[p]) : x \notin (done \cup Coming)'
          BY <1>1, <1>3, <2>6, <3>3 DEF Decided
        <5> QED BY <1>5, <2>2, <2>3, <2>6, <5>1 DEF Outcome, Idle, Decided
      <4>2. CASE Outcome(p) = "flushing"
        BY <1>1, <1>4, <4>1, <4>2, SameCalls
      <4>3. CASE Outcome(p) = "open"
        <5>1. Calls!Interrupted(p)
          BY <1>1, <1>4, <4>1, <4>3, OneMoves DEF Calls!Interrupted
        <5> QED BY <5>1 DEF Calls!AbsNext
      <4> QED BY <3>1, <4>2, <4>3
    <3> QED BY <3>2, <3>3
  <2> QED BY <2>4, <2>5, <2>6
<1> QED BY <1>2, <1>7, <1>8

\* Reading a reply is a stutter ...
LEMMA RefineRead ==
    ASSUME Base, NEW p \in Proc, Read(p)
    PROVE  UNCHANGED Calls!absVars
<1>1. /\ pc[p] = "read" /\ pc' = [pc EXCEPT ![p] = "mux"]
      /\ got = Nil /\ got' \in Tags /\ ToSet(wire) = ToSet(wire') \cup {got'}
      /\ UNCHANGED <<chain, done, hungup>>
  BY ReadSays
<1>2. pc \in [Proc -> PCs] /\ Nil \notin Tags
  BY MntAssumption DEF Base, Consistent, TypeOK
<1>3. pc'[p] = "mux" /\ \A q \in Proc \ {p} : pc'[q] = pc[q]
  BY <1>1, <1>2
<1>4. \A t : Decided(t)' <=> Decided(t)
  BY <1>1, <1>2 DEF Decided, Coming
<1>5. \A q \in Proc : Outcome(q)' = Outcome(q)
  BY <1>1, <1>3, <1>4, OutcomeSame DEF Idle, Returned
<1> QED BY <1>1, <1>5, SameCalls

\* ... and so is dispatching it: the server decided before.
LEMMA RefineMux ==
    ASSUME Base, NEW p \in Proc, mountmux(p)
    PROVE  UNCHANGED Calls!absVars
<1> USE DEF Base, Consistent
<1>1. /\ Shift(p, "read") /\ pc[p] = "mux" /\ got' = Nil
      /\ UNCHANGED <<chain, wire, hungup>>
      /\ \/ got \in ToSet(queue) /\ done' = done \cup {got}
         \/ got \notin ToSet(queue) /\ done' = done
  BY MuxSays DEF server
<1>2. /\ pc'[p] = "read"
      /\ \A q \in Proc \ {p} : pc'[q] = pc[q] \/ (pc[q] = "asleep" /\ pc'[q] = "woken")
  BY <1>1, ShiftSays DEF PCs
<1>3. ASSUME NEW q \in Proc, NEW t \in ToSet(chain[q]) PROVE Decided(t)' <=> Decided(t)
  <2>1. t \in Used /\ t # Nil /\ (got \in ToSet(queue) => got # Nil)
    BY MntAssumption DEF Used, TypeOK, ToSet
  <2>2. t = got => got \in ToSet(queue) \/ got \in done
    BY <2>1 DEF QueueExact
  <2> QED BY <1>1, <2>1, <2>2 DEF Decided, Coming
<1>4. \A q \in Proc : Outcome(q)' = Outcome(q)
  BY <1>1, <1>2, <1>3, OutcomeSame DEF Idle, Returned
<1> QED BY <1>1, <1>4, SameCalls

\* The end of a call tells its caller what the server made of it: the reply if there
\* is one, else Eintr, and an error only when the connection is gone.
LEMMA RefineFreed ==
    ASSUME Base, Sent, NEW p \in Proc, NEW to \in Returned, Freed(p, to)
    PROVE  Calls!AbsNext
<1> USE DEF Base, Consistent
<1>1. /\ \A q \in Proc \ {p} : chain'[q] = chain[q]
      /\ chain[p] # <<>> /\ done' = done \ ToSet(chain[p])
      /\ pc' = [pc EXCEPT ![p] = to] /\ pc[p] \in {"finish", "error"}
      /\ UNCHANGED <<got, wire, hungup>>
  BY FreedSays DEF server
<1>2. pc \in [Proc -> PCs]
  BY DEF TypeOK
<1>3. pc'[p] = to /\ \A q \in Proc \ {p} : pc'[q] = pc[q]
  BY <1>1, <1>2
<1>4. \A q \in Proc \ {p} : Outcome(q)' = Outcome(q)
  <2>1. ASSUME NEW q \in Proc \ {p}, NEW t \in ToSet(chain[q]) PROVE Decided(t)' <=> Decided(t)
    <3>1. t \notin ToSet(chain[p])
      BY DEF QueueExact
    <3> QED BY <1>1, <3>1 DEF Decided, Coming
  <2> QED BY <1>1, <1>3, <2>1, OutcomeSame
<1>5. Outcome(p)' = to
  BY <1>3 DEF Outcome
<1>6. pc[p] \notin Idle
  BY <1>1 DEF Idle, Returned
<1>7. r(p) \in ToSet(chain[p]) /\ Head(chain[p]) \in ToSet(chain[p])
  BY <1>1, Chain
<1>8. CASE pc[p] = "finish" /\ Head(chain[p]) \in done
  <2>1. Outcome(p) \in {"served"} /\ to = "reply"
    BY <1>6, <1>8 DEF Outcome, Idle, Decided, Freed
  <2>2. Calls!Reply(p)
    BY <1>1, <1>4, <1>5, <2>1, OneMoves DEF Calls!Reply
  <2> QED BY <2>2 DEF Calls!AbsNext
<1>9. CASE pc[p] = "finish" /\ Head(chain[p]) \notin done
  <2>1. ~ Decided(Head(chain[p]))
    BY <1>7, <1>9, AnsweredChain DEF Decided
  <2>2. r(p) \in done
    BY <1>9 DEF Control
  <2>3. Outcome(p) \in {"flushed"} /\ to = "eintr"
    BY <1>6, <1>7, <1>9, <2>1, <2>2 DEF Outcome, Idle, Decided, Freed
  <2>4. Calls!Eintr(p)
    BY <1>1, <1>4, <1>5, <2>3, OneMoves DEF Calls!Eintr
  <2> QED BY <2>4 DEF Calls!AbsNext
<1>10. CASE pc[p] = "error"
  <2>1. hungup /\ to = "fail"
    BY <1>10 DEF Control, Freed
  <2>2. Outcome(p) \in {"open", "flushing", "served", "flushed"}
    BY <1>6 DEF Outcome, Idle
  <2>3. Calls!Fail(p)
    BY <1>1, <1>4, <1>5, <2>1, <2>2, OneMoves DEF Calls!Fail
  <2> QED BY <2>3 DEF Calls!AbsNext
<1> QED BY <1>1, <1>8, <1>9, <1>10

\* An answer serves a call or settles its flush; a call is answered before its flush.
LEMMA RefineAnswer ==
    ASSUME Base, Sent, NEW t \in Tags, Answer(t)
    PROVE  [Calls!AbsNext]_(Calls!absVars)
<1> USE DEF Base, Consistent
<1>0. PICK p \in Proc : p = Owner(t)
  BY AnswerSays
<1>1. /\ ~hungup /\ t \in asked /\ t \notin done \cup Coming
      /\ Coming' = Coming \cup {t} /\ UNCHANGED <<chain, done, pc, hungup>>
      /\ t \in ToSet(chain[p])
  BY <1>0, AnswerSays
<1>2. /\ (done \cup Coming)' = done \cup Coming \cup {t}
      /\ \A x : Decided(x)' <=> Decided(x) \/ x = t
  BY <1>1 DEF Decided
<1>3. \A q \in Proc \ {p} : Outcome(q)' = Outcome(q)
  <2>1. \A q \in Proc \ {p} : t \notin ToSet(chain[q])
    BY <1>1 DEF QueueExact
  <2> QED BY <1>1, <1>2, <2>1, OutcomeSame
<1>4. chain[p] \in Seq(Tags) /\ chain[p] # <<>>
  BY <1>1 DEF TypeOK, ToSet
<1>5. pc[p] \notin Idle /\ pc'[p] \notin Idle
  BY <1>1, <1>4 DEF Chains
<1>6. ~ Decided(t)
  BY <1>1 DEF Decided
<1>7. PICK i \in DOMAIN chain[p] : chain[p][i] = t
  BY <1>1 DEF ToSet
<1>8. CASE t = Head(chain[p])
  <2>1. \A x \in ToSet(chain[p]) : ~ Decided(x)
    <3> SUFFICES ASSUME NEW k \in DOMAIN chain[p], Decided(chain[p][k]) PROVE FALSE
      BY DEF ToSet
    <3>1. 1 \in DOMAIN chain[p] /\ chain[p][1] = t
      BY <1>4, <1>8
    <3>2. k # 1 /\ k \in 1 .. Len(chain[p])
      BY <1>4, <1>6, <3>1
    <3>3. 1 < k
      BY <3>2
    <3>4. InOrder(p)
      BY <1>1 DEF Sent, Ordered
    <3>5. After(chain[p][k], t)
      BY <3>1, <3>3, <3>4 DEF InOrder
    <3> QED BY <1>1, <3>5 DEF After, Decided
  <2>2. Outcome(p) \in {"open", "flushing"}
    BY <1>5, <1>6, <1>8, <2>1 DEF Outcome, Idle
  <2>3. Outcome(p)' = "served"
    BY <1>1, <1>2, <1>5, <1>8 DEF Outcome, Idle, Decided
  <2>4. Calls!Serve(p)
    BY <1>1, <1>3, <2>2, <2>3, OneMoves DEF Calls!Serve
  <2> QED BY <1>1, <2>4 DEF Calls!AbsNext
<1>9. CASE t # Head(chain[p])
  <2>1. Len(chain[p]) > 1
    BY <1>4, <1>7, <1>9
  <2>2. Head(chain[p]) \in (done \cup Coming)' <=> Decided(Head(chain[p]))
    BY <1>1, <1>2, <1>9 DEF Decided
  <2>3. CASE Decided(Head(chain[p]))
    <3>1. Outcome(p) = "served" /\ Outcome(p)' = "served"
      BY <1>1, <1>5, <2>2, <2>3 DEF Outcome, Idle, Decided
    <3> QED BY <1>1, <1>3, <3>1, SameCalls
  <2>4. CASE ~ Decided(Head(chain[p]))
    <3>1. Outcome(p)' = "flushed"
      BY <1>1, <1>2, <1>5, <2>2, <2>4 DEF Outcome, Idle, Decided
    <3>2. Outcome(p) \in {"flushed", "flushing"}
      BY <1>5, <2>1, <2>4 DEF Outcome, Idle
    <3>3. CASE Outcome(p) = "flushed"
      BY <1>1, <1>3, <3>1, <3>3, SameCalls
    <3>4. CASE Outcome(p) = "flushing"
      <4>1. Calls!Flushed(p)
        BY <1>1, <1>3, <3>1, <3>4, OneMoves DEF Calls!Flushed
      <4> QED BY <1>1, <4>1 DEF Calls!AbsNext
    <3> QED BY <3>2, <3>3, <3>4
  <2> QED BY <2>3, <2>4
<1> QED BY <1>8, <1>9

\* The end of the connection is that of Rpc.
LEMMA RefineHangup ==
    ASSUME Base, Hangup
    PROVE  Calls!AbsNext
<1>1. UNCHANGED <<chain, done, got, pc, wire>> /\ ~hungup /\ hungup' = TRUE
  BY DEF Hangup, mnt
<1>2. \A q \in Proc : Outcome(q)' = Outcome(q)
  BY <1>1, OutcomeSame DEF Decided, Coming
<1>3. Calls!Down
  BY <1>1, <1>2 DEF Calls!Down
<1> QED BY <1>3 DEF Calls!AbsNext

\* Every step is one of Rpc or a stutter.
LEMMA StepRefines == Inv /\ [Next]_vars => [Calls!AbsNext]_(Calls!absVars)
<1> SUFFICES ASSUME Inv, [Next]_vars PROVE [Calls!AbsNext]_(Calls!absVars)
  OBVIOUS
<1>1. Base /\ Sent
  BY DEF Inv
<1>2. ASSUME UNCHANGED <<mnt, server, pc>> PROVE UNCHANGED Calls!absVars
  <2>1. UNCHANGED <<chain, done, got, pc, wire, hungup>>
    BY <1>2 DEF mnt, server
  <2>2. \A q \in Proc : Outcome(q)' = Outcome(q)
    BY <1>1, <2>1, OutcomeSame DEF Decided, Coming
  <2> QED BY <2>1, <2>2, SameCalls
<1> QED
  BY <1>1, <1>2, RefineQuiet, RefineLinked, RefineRead, RefineMux, RefineFreed, RefineAnswer,
     RefineHangup, Kinds DEF Step

\* The mount driver implements Rpc: each call is served or flushed once, the caller
\* of a served one gets its reply, also when a note came before it, and one that
\* was flushed gets Eintr.
THEOREM MntIsRpc == Spec => RpcSpec
<1>1. Init => Calls!AbsInit
  BY DEF Init, Calls!AbsInit, Outcome
<1>2. Inv /\ [Next]_vars => [Calls!AbsNext]_(Calls!absVars)
  BY StepRefines
<1> QED BY <1>1, <1>2, Invariance, PTL DEF Spec, RpcSpec, Calls!AbsSpec
=============================================================================
