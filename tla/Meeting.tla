------------------------------- MODULE Meeting -------------------------------
(*****************************************************************************)
(* What rendezvous(2) promises: two processes that name the same tag in the  *)
(* same group exchange values, in one step.  A value goes to one process     *)
(* only, and a process that is interrupted has exchanged nothing.            *)
(*****************************************************************************)
CONSTANTS Proc, Nil,
          Keys,       \* a group and a tag in it
          Cancelled   \* what an interrupted rendezvous returns

VARIABLES call,     \* the key a process came with, or Nil
          result    \* the value it leaves with, or Nil

absVars == <<call, result>>

AbsInit == /\ call = [p \in Proc |-> Nil]
           /\ result = [p \in Proc |-> Nil]

Come(p, k) == /\ call[p] = Nil
              /\ call' = [call EXCEPT ![p] = k]
              /\ UNCHANGED result

Open(p) == call[p] # Nil /\ result[p] = Nil

\* The value of a process is its name.
Meet(p, q) == /\ p # q
              /\ Open(p) /\ Open(q)
              /\ call[p] = call[q]
              /\ result' = [result EXCEPT ![p] = q, ![q] = p]
              /\ UNCHANGED call

Cancel(p) == /\ Open(p)
             /\ result' = [result EXCEPT ![p] = Cancelled]
             /\ UNCHANGED call

Leave(p) == /\ result[p] # Nil
            /\ call' = [call EXCEPT ![p] = Nil]
            /\ result' = [result EXCEPT ![p] = Nil]

AbsNext == \E p \in Proc : \/ \E k \in Keys : Come(p, k)
                           \/ \E q \in Proc : Meet(p, q)
                           \/ Cancel(p) \/ Leave(p)

AbsSpec == AbsInit /\ [][AbsNext]_absVars
=============================================================================
