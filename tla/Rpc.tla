---------------------------------- MODULE Rpc ----------------------------------
(* What mountrpc() of port/devmnt.c promises a process that calls a file      *)
(* server: each call is served or flushed, never both, and the caller is told *)
(* which; only the hangup of the connection leaves it in doubt.               *)
CONSTANT Proc

VARIABLES call,   \* what has become of the call of p
          up      \* the connection is up

absVars == <<call, up>>

\* "flushing": the process was interrupted.  "served", "flushed": the server
\* has decided.  "reply", "eintr", "fail": what the call returns.  With the
\* connection gone a flush may take an old reply for its own: its call fails.
Move(p, from, to) == call[p] \in from /\ call' = [call EXCEPT ![p] = to] /\ UNCHANGED up

Ask(p) == Move(p, {"idle"}, "open")
Interrupted(p) == Move(p, {"open"}, "flushing")
Serve(p) == Move(p, {"open", "flushing"}, "served")
Flushed(p) == Move(p, {"flushing"} \cup (IF up THEN {} ELSE {"open"}), "flushed")
Reply(p) == Move(p, {"served"}, "reply")
Eintr(p) == Move(p, {"flushed"}, "eintr")
Fail(p) == ~up /\ Move(p, {"open", "flushing", "served", "flushed"}, "fail")
Return(p) == Move(p, {"reply", "eintr", "fail"}, "idle")

Down == up /\ up' = FALSE /\ UNCHANGED call

AbsInit == call = [p \in Proc |-> "idle"] /\ up = TRUE
AbsNext == \/ \E p \in Proc : \/ Ask(p) \/ Interrupted(p) \/ Serve(p) \/ Flushed(p)
                              \/ Reply(p) \/ Eintr(p) \/ Fail(p) \/ Return(p)
           \/ Down
AbsSpec == AbsInit /\ [][AbsNext]_absVars
================================================================================
