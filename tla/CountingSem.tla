----------------------------- MODULE CountingSem -----------------------------
(*****************************************************************************)
(* What semacquire(2) promises: counting semaphores.  A call returns 1 after *)
(* it has taken one unit, or another value after it has taken nothing: at    *)
(* once if it may not block and there is no unit, on a timeout if it has     *)
(* one, or because it was interrupted, which may only happen if it blocks.   *)
(*****************************************************************************)
EXTENDS Naturals

CONSTANTS Proc, Addrs, Nil

VARIABLES count,   \* the semaphores
          call,    \* how a process called: <<address, kind>>, or Nil
          result   \* what its call is going to return, or Nil

absVars == <<count, call, result>>

AbsInit == /\ count \in [Addrs -> Nat]
           /\ call = [p \in Proc |-> Nil]
           /\ result = [p \in Proc |-> Nil]

Come(p, a, kind) == /\ call[p] = Nil
                    /\ call' = [call EXCEPT ![p] = <<a, kind>>]
                    /\ UNCHANGED <<count, result>>

Decide(p, r) == /\ call[p] # Nil /\ result[p] = Nil
                /\ result' = [result EXCEPT ![p] = r]
                /\ UNCHANGED call

Take(p) == LET a == call[p][1] IN
           /\ Decide(p, "acquired")
           /\ count[a] > 0
           /\ count' = [count EXCEPT ![a] = @ - 1]

Refused(p, r) == CASE r = "busy"        -> call[p][2] = "noblock" /\ count[call[p][1]] = 0
                   [] r = "timedout"    -> call[p][2] = "timed"
                   [] r = "interrupted" -> call[p][2] # "noblock"

GiveUp(p) == /\ \E r \in {"busy", "timedout", "interrupted"} : Decide(p, r) /\ Refused(p, r)
             /\ UNCHANGED count

Leave(p) == /\ result[p] # Nil
            /\ call' = [call EXCEPT ![p] = Nil]
            /\ result' = [result EXCEPT ![p] = Nil]
            /\ UNCHANGED count

Add(a) == /\ count' \in [Addrs -> Nat]
          /\ count'[a] >= count[a]
          /\ \A b \in Addrs \ {a} : count'[b] = count[b]
          /\ UNCHANGED <<call, result>>

AbsNext == \/ \E p \in Proc : \/ \E a \in Addrs, kind \in {"block", "noblock", "timed"} :
                                   Come(p, a, kind)
                              \/ Take(p) \/ GiveUp(p) \/ Leave(p)
           \/ \E a \in Addrs : Add(a)

AbsSpec == AbsInit /\ [][AbsNext]_absVars
=============================================================================
