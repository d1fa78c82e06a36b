-------------------------------- MODULE MntMux ---------------------------------
(*****************************************************************************)
(* mountrpc() and mountio() of port/devmnt.c: processes share one connection *)
(* to a file server.  Each links its request into m->queue and writes it;    *)
(* one of them, m->rip, reads the replies for all and hands reading on when  *)
(* its own call is answered.  A note makes a call send Tflush and wait       *)
(* again.                                                                    *)
(*                                                                           *)
(* The queue and rip change under lock(m), so the code between lock(m) and   *)
(* unlock(m) is one step; sleep() tests rpcattn() and sleeps in one step     *)
(* (module Sleep shows why).  An Mntrpc is named by its tag: it keeps it for *)
(* life.  The server is external: it answers in any order, and answers       *)
(* Tflush as flush(5) demands.                                               *)
(*****************************************************************************)
EXTENDS Integers, FiniteSets, Sequences, SequencesExt

CONSTANTS Proc, Nil,
          Tags   \* bound: calls, flushes, and notes that lead to a flush, at a time

ASSUME MntAssumption == Nil \notin Proc \cup Tags

VARIABLES rip,          \* m->rip
          queue,        \* m->queue, newest first
          chain,        \* the request of p, and its flushes (r->flushed), newest last
          done,         \* the Mntrpcs whose done is set
          got,          \* the tag of the reply mntrpcread() has returned, or Nil
          pc,           \* where p is
          notepending,  \* p->notepending
          asked,        \* the messages the server has to answer
          wire,         \* the replies under way, oldest first
          hungup        \* the connection is gone

mnt == <<rip, queue, chain, done, got>>
server == <<asked, wire, hungup>>
vars == <<mnt, server, pc, notepending>>

Returned == {"reply", "eintr", "fail"}
PCs == {"idle", "write", "gate", "tosleep", "asleep", "woken", "read", "mux",
        "finish", "intr", "error"} \cup Returned

Init == /\ rip = Nil
        /\ queue = <<>>
        /\ chain = [p \in Proc |-> <<>>]
        /\ done = {}
        /\ got = Nil
        /\ pc = [p \in Proc |-> "idle"]
        /\ notepending = [p \in Proc |-> FALSE]
        /\ asked = {}
        /\ wire = <<>>
        /\ hungup = FALSE
-----------------------------------------------------------------------------
At(p, from) == pc[p] = from
Goto(p, to) == pc' = [pc EXCEPT ![p] = to]

\* What stays of s when all outside S is taken out: SelectSeq() for a set, as a
\* function that the provers can unfold.
Only(s, S) == LET f[i \in 0 .. Len(s)] == IF i = 0 THEN <<>>
                                          ELSE IF s[i] \in S THEN Append(f[i - 1], s[i])
                                          ELSE f[i - 1] IN
              f[Len(s)]

r(p) == Last(chain[p])                          \* the Mntrpc p waits for
Used == UNION {ToSet(chain[p]) : p \in Proc}    \* the tags that are not free
Owner(t) == CHOOSE p \in Proc : t \in ToSet(chain[p])
IsFlush(t) == t # Head(chain[Owner(t)])

\* There is a tag that no note needs for a flush: alloctag() does not panic.
TagLeft == Cardinality(Used) + Cardinality({p \in Proc : At(p, "intr")})
             + Cardinality({p \in Proc : notepending[p]}) < Cardinality(Tags)

\* mntralloc() and the linking of the new Mntrpc into m->queue.
Link(p, t) == /\ t \in Tags \ Used
              /\ chain' = [chain EXCEPT ![p] = Append(@, t)]
              /\ queue' = <<t>> \o queue
              /\ Goto(p, "write")
              /\ UNCHANGED <<rip, done, got>>

\* mountrpc().  Once the connection is gone bwrite() of a new call fails.
Call(p) == /\ At(p, "idle") /\ ~hungup /\ TagLeft
           /\ \E t \in Tags : Link(p, t)
           /\ UNCHANGED <<server, notepending>>

\* mountio() after Eintr: mntflushalloc(), and round the loop.
Flush(p) == /\ At(p, "intr")
            /\ \E t \in Tags : Link(p, t)
            /\ UNCHANGED <<server, notepending>>

\* bwrite()
Write(p) == /\ At(p, "write") /\ ~hungup
            /\ asked' = asked \cup {r(p)}
            /\ Goto(p, "gate")
            /\ UNCHANGED <<mnt, wire, hungup, notepending>>

\* A note interrupts bwrite(), before or after the message is queued.
WriteIntr(p) == /\ At(p, "write") /\ notepending[p]
                /\ notepending' = [notepending EXCEPT ![p] = FALSE]
                /\ asked' \in {asked} \cup (IF hungup THEN {} ELSE {asked \cup {r(p)}})
                /\ Goto(p, "intr")
                /\ UNCHANGED <<mnt, wire, hungup>>

WriteHungup(p) == /\ At(p, "write") /\ hungup
                  /\ Goto(p, "error")
                  /\ UNCHANGED <<mnt, server, notepending>>

\* The top of the gate loop.
Gate(p) == /\ At(p, "gate")
           /\ IF rip = Nil THEN rip' = p /\ Goto(p, "read")
                           ELSE UNCHANGED rip /\ Goto(p, "tosleep")
           /\ UNCHANGED <<queue, chain, done, got, server, notepending>>

rpcattn(p) == r(p) \in done \/ rip = Nil

\* sleep(r->z, rpcattn, r): first part, and what follows its return.
Sleep(p) == /\ At(p, "tosleep")
            /\ Goto(p, IF rpcattn(p) \/ notepending[p] THEN "woken" ELSE "asleep")
            /\ UNCHANGED <<mnt, server, notepending>>

\* Mutant: an interrupted call ends without Tflush.
Woken_NoFlush(p) == /\ At(p, "woken")
                    /\ Goto(p, IF notepending[p] \/ r(p) \in done THEN "finish" ELSE "gate")
                    /\ notepending' = [notepending EXCEPT ![p] = FALSE]
                    /\ UNCHANGED <<mnt, server>>

Woken(p) == /\ At(p, "woken")
            /\ Goto(p, IF notepending[p] THEN "intr"
                       ELSE IF r(p) \in done THEN "finish" ELSE "gate")
            /\ notepending' = [notepending EXCEPT ![p] = FALSE]
            /\ UNCHANGED <<mnt, server>>

\* mntgate(): p leaves the gate and the first in the queue that sleeps there
\* with no answer is woken.
Sleepers == Only(queue, {t \in Used \ done : At(Owner(t), "asleep")})

\* Mutant: the scan ends at the first unanswered Mntrpc, asleep or not.
mntgate_First(p, to) == /\ rip' = Nil
                        /\ pc' = IF Sleepers = <<>> \/ Head(Sleepers) # Head(queue)
                                 THEN [pc EXCEPT ![p] = to]
                                 ELSE [pc EXCEPT ![p] = to, ![Owner(Head(Sleepers))] = "woken"]
                        /\ UNCHANGED <<queue, chain, done, got>>
mntgate(p, to) == /\ rip' = Nil
                  /\ pc' = IF Sleepers = <<>> THEN [pc EXCEPT ![p] = to]
                           ELSE [pc EXCEPT ![p] = to, ![Owner(Head(Sleepers))] = "woken"]
                  /\ UNCHANGED <<queue, chain, done, got>>

\* mntrpcread()
Read(p) == /\ At(p, "read") /\ r(p) \notin done
           /\ wire # <<>>
           /\ got' = Head(wire)
           /\ wire' = Tail(wire)
           /\ Goto(p, "mux")
           /\ UNCHANGED <<rip, queue, chain, done, asked, hungup, notepending>>

\* bread() is interrupted, or finds the end of file: mountio() leaves the gate.
ReadIntr(p) == /\ At(p, "read") /\ r(p) \notin done
               /\ notepending[p]
               /\ notepending' = [notepending EXCEPT ![p] = FALSE]
               /\ mntgate(p, "intr")
               /\ UNCHANGED server

ReadHungup(p) == /\ At(p, "read") /\ r(p) \notin done
                 /\ hungup /\ wire = <<>>
                 /\ mntgate(p, "error")
                 /\ UNCHANGED <<server, notepending>>

\* mountmux(): the reply is for p's own call, for that of another, which is
\* woken, or for none.
mountmux(p) == /\ At(p, "mux")
               /\ got' = Nil
               /\ IF got \in ToSet(queue)
                  THEN LET q == Owner(got)
                           wakes == got # r(p) /\ At(q, "asleep") IN
                       /\ queue' = Only(queue, Tags \ {got})
                       /\ done' = done \cup {got}
                       /\ pc' = IF wakes THEN [pc EXCEPT ![p] = "read", ![q] = "woken"]
                                         ELSE [pc EXCEPT ![p] = "read"]
                  ELSE UNCHANGED <<queue, done>> /\ Goto(p, "read")
               /\ UNCHANGED <<rip, chain, server, notepending>>

Leave(p) == /\ At(p, "read") /\ r(p) \in done
            /\ mntgate(p, "finish")
            /\ UNCHANGED <<server, notepending>>

\* Mutant: what was not answered stays in the queue.
mntflushfree_NoUnlink(p, to) == /\ done' = done \ ToSet(chain[p])
                                /\ chain' = [chain EXCEPT ![p] = <<>>]
                                /\ Goto(p, to)
                                /\ UNCHANGED <<rip, queue, got, server, notepending>>

\* mntflushfree(): what was not answered leaves the queue, all tags are free.
mntflushfree(p, to) == /\ queue' = Only(queue, Tags \ ToSet(chain[p]))
                       /\ done' = done \ ToSet(chain[p])
                       /\ chain' = [chain EXCEPT ![p] = <<>>]
                       /\ Goto(p, to)
                       /\ UNCHANGED <<rip, got, server, notepending>>

\* Mutant: a call that was interrupted ends with Eintr, answered or not.
Finish_Eintr(p) == /\ At(p, "finish")
                   /\ mntflushfree(p, IF Len(chain[p]) = 1 THEN "reply" ELSE "eintr")

Finish(p) == /\ At(p, "finish")
             /\ mntflushfree(p, IF Head(chain[p]) \in done THEN "reply" ELSE "eintr")

\* nexterror() of mountio(), for an error that is not Eintr.
Error(p) == At(p, "error") /\ mntflushfree(p, "fail")

\* mountrpc() returns or raises what mountio() left in the reply.
Return(p) == /\ pc[p] \in Returned
             /\ Goto(p, "idle")
             /\ notepending' = [notepending EXCEPT ![p] = FALSE]
             /\ UNCHANGED <<mnt, server>>

\* postnote() and procinterrupt().
Interrupt(p) == /\ chain[p] # <<>> /\ ~notepending[p]
                /\ TagLeft
                /\ notepending' = [notepending EXCEPT ![p] = TRUE]
                /\ IF At(p, "asleep") THEN Goto(p, "woken") ELSE UNCHANGED pc
                /\ UNCHANGED <<mnt, server>>
-----------------------------------------------------------------------------
\* The server answers a request; or a Tflush, after which it answers neither
\* the request nor an earlier Tflush for it.
Before(t) == LET c == chain[Owner(t)]
                 k == CHOOSE k \in DOMAIN c : c[k] = t IN
             {c[i] : i \in 1 .. k}
Answer(t) == /\ t \in asked
             /\ asked' = asked \ (IF IsFlush(t) THEN Before(t) ELSE {t})
             /\ wire' = Append(wire, t)
             /\ UNCHANGED <<mnt, pc, notepending, hungup>>

\* The connection hangs up; replies that are here already can be read.
Hangup == /\ ~hungup
          /\ hungup' = TRUE
          /\ asked' = {}
          /\ UNCHANGED <<mnt, pc, notepending, wire>>
-----------------------------------------------------------------------------
Steps(p) == \/ Call(p) \/ Interrupt(p) \/ Flush(p) \/ Write(p) \/ WriteIntr(p) \/ WriteHungup(p)
            \/ Gate(p) \/ Sleep(p) \/ Woken(p)
            \/ Read(p) \/ ReadIntr(p) \/ ReadHungup(p) \/ mountmux(p) \/ Leave(p)
            \/ Finish(p) \/ Error(p) \/ Return(p)

Next == \/ \E p \in Proc : Steps(p)
        \/ \E t \in Tags : Answer(t)
        \/ Hangup

Spec == Init /\ [][Next]_vars
-----------------------------------------------------------------------------
TypeOK == /\ rip \in Proc \cup {Nil}
          /\ queue \in Seq(Tags)
          /\ chain \in [Proc -> Seq(Tags)]
          /\ done \subseteq Tags
          /\ got \in Tags \cup {Nil}
          /\ pc \in [Proc -> PCs]
          /\ notepending \in [Proc -> BOOLEAN]
          /\ asked \subseteq Tags
          /\ wire \in Seq(Tags)
          /\ hungup \in BOOLEAN

Coming == ToSet(wire) \cup ({got} \ {Nil})

\* No tag is free or reused while the server may still answer it: each message
\* under way is of an Mntrpc in the queue, so no reply is unexpected and none
\* goes to another call.
NoUnexpected == ~hungup => /\ asked \cup Coming \subseteq ToSet(queue)
                           /\ asked \cap Coming = {}
                           /\ IsInjective(wire) /\ got \notin ToSet(wire)

\* The queue holds the unanswered Mntrpcs of the calls that wait, each once.
QueueExact == /\ IsInjective(queue)
              /\ ToSet(queue) = Used \ done
              /\ \A p, q \in Proc : p # q => ToSet(chain[p]) \cap ToSet(chain[q]) = {}

\* "Gate readers onto the mount point one at a time"
OneReader == \A p \in Proc : pc[p] \in {"read", "mux"} <=> rip = p

\* While the connection is up no process sleeps at an open gate, unless one with
\* no answer is on its way there.
GateNotLost == ~hungup /\ rip = Nil /\ (\E p \in Proc : At(p, "asleep")) =>
                 \E q \in Proc : /\ pc[q] \in {"write", "gate", "tosleep", "woken", "intr"}
                                 /\ r(q) \notin done

\* No process sleeps on with its answer in hand.
AnswerNotLost == \A p \in Proc : At(p, "asleep") => r(p) \notin done

\* What the queue, the reader and the calls say of one another agrees.
Consistent == TypeOK /\ QueueExact /\ OneReader /\ AnswerNotLost

\* What the server has made of the call of p.
Decided(t) == t \in done \cup Coming
Outcome(p) == IF pc[p] \in Returned \cup {"idle"} THEN pc[p]
              ELSE IF Decided(Head(chain[p])) THEN "served"
              ELSE IF \E t \in ToSet(chain[p]) : Decided(t) THEN "flushed"
              ELSE IF Len(chain[p]) > 1 THEN "flushing"
              ELSE "open"

\* Seen from outside, each call is served or flushed, and its caller is told.
Calls == INSTANCE Rpc WITH call <- [p \in Proc |-> Outcome(p)], up <- ~hungup
RpcSpec == Calls!AbsSpec
================================================================================
