------------------------------- MODULE JobQueue -------------------------------
(***************************************************************************)
(* What the system tasks of one type promise their callers: tasks are      *)
(* accepted one at a time, each is executed at most once and never beside  *)
(* another, and has one result.  Nodes, leases, heartbeats and crashes do  *)
(* not appear; SystemTask implements this specification.                   *)
(***************************************************************************)
EXTENDS Integers

CONSTANT Tasks     \* ids, given out in increasing order
VARIABLE status

Active(t) == status[t] \in {"pending", "running"}

Init == status = [t \in Tasks |-> "none"]

\* A task is accepted when none is waiting or being executed.
Submit(t) ==
  /\ \A u \in Tasks : status[u] # "none" <=> u < t
  /\ \A u \in Tasks : ~ Active(u)
  /\ status' = [status EXCEPT ![t] = "pending"]

Start(t) ==
  /\ status[t] = "pending"
  /\ status' = [status EXCEPT ![t] = "running"]

\* It succeeded, failed, or was given up because its node disappeared.
End(t) ==
  /\ status[t] = "running"
  /\ \E result \in {"succeeded", "failed"} : status' = [status EXCEPT ![t] = result]

Next == \E t \in Tasks : Submit(t) \/ Start(t) \/ End(t)

Spec == Init /\ [][Next]_status
=============================================================================
