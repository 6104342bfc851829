---------------------------- MODULE MCTaskPolling ----------------------------
(* Instances of TaskPolling for TLC. *)
EXTENDS TaskPolling

CONSTANTS t1, p1, p2

MCPollers == {p1, p2}
MCFaults == AllFaults
=============================================================================
