----------------------------- MODULE SystemTask -----------------------------
(***************************************************************************)
(* The background tasks that several master nodes share through the        *)
(* database: rows with a status and a unique active_key, one lease row per *)
(* task type, and on every node a runner that expires stale leases,        *)
(* schedules, claims, and hands claimed tasks to handler goroutines        *)
(* (model/system_task.go, service/system_task.go).                         *)
(*                                                                         *)
(* One task type is modelled: rows and leases of different types never     *)
(* meet.  An action is one SQL statement.  Time is the lease's: Tick lets  *)
(* the remaining life of the lease run down, and it is stale below zero    *)
(* (locked_until < now).  A runner that compares locked_until with a `now' *)
(* it read earlier is in the lease's set `late': the lease was already     *)
(* stale at that `now'.  The nodes' clocks agree.                          *)
(***************************************************************************)
EXTENDS Integers, FiniteSets

CONSTANTS
  Runners,      \* runner ids; a node that restarts comes back as another one
  Tasks,        \* the ids rows may get, given out in increasing order
  LegacyTasks,  \* rows left pending, without active_key, by an older version
  TTL,          \* life of a lease, in ticks
  MaxCrashes,   \* bound on the nodes that crash
  MaxErrors,    \* bound on the statements that fail
  PromptClaims, \* does a running node finish a claim within the lease's life?
  NoTask, NoRunner

ASSUME SystemTaskAssumption ==
  /\ Tasks \subseteq Nat /\ LegacyTasks \subseteq Tasks
  /\ TTL \in Nat /\ MaxCrashes \in Nat /\ MaxErrors \in Nat
  /\ PromptClaims \in BOOLEAN
  /\ NoTask \notin Tasks /\ NoRunner \notin Runners

VARIABLES
  row,      \* system_tasks: [status, by, key]; "none" = not created
  lock,     \* the row of system_task_locks, and the runners late for it
  loc,      \* each runner's loop: its position and the values it has read
  handler,  \* handler[n][t]: the goroutine runner n started for task t
  dead,     \* runners whose node has crashed
  errors    \* statements that have failed

vars == <<row, lock, loc, handler, dead, errors>>

Active(t) == row[t].status \in {"pending", "running"}

NoLock == [task |-> NoTask, by |-> NoRunner, left |-> 0, late |-> {}]
Stale == lock # NoLock /\ lock.left < 0
NewLock(t, n, left) == [task |-> t, by |-> n, left |-> left, late |-> {}]
HeldBy(n, t) == lock.task = t /\ lock.by = n
HoldsLease(n, t) == HeldBy(n, t) /\ lock.left >= 0

\* Runner n reads `now': it is late for the lease if that is stale.
ReadNow(n) == lock' = IF Stale THEN [lock EXCEPT !.late = @ \cup {n}] ELSE lock

\* The loop of a runner starts over, having forgotten what it read.
TopOfLoop == [pc |-> "expire", task |-> NoTask, old |-> NoTask, by |-> NoRunner]

Init ==
  /\ row = [t \in Tasks |->
       [status |-> IF t \in LegacyTasks THEN "pending" ELSE "none",
        by |-> NoRunner, key |-> FALSE]]
  /\ lock = NoLock
  /\ loc = [n \in Runners |-> TopOfLoop]
  /\ handler = [n \in Runners |-> [t \in Tasks |-> "none"]]
  /\ dead = {}
  /\ errors = 0

-----------------------------------------------------------------------------
(* Statements.                                                              *)

DbFails == errors < MaxErrors /\ errors' = errors + 1
DbWorks == UNCHANGED errors

\* INSERT of a pending row with the next id: active_key is unique, so it fails
\* while a row of this type holds the key.
Create(t) ==
  /\ \A u \in Tasks : row[u].status # "none" <=> u < t
  /\ \A u \in Tasks : ~ row[u].key
  /\ row' = [row EXCEPT ![t] = [status |-> "pending", by |-> NoRunner, key |-> TRUE]]

\* Mutants of MarkLeaseExpired: the row is queued again, nothing happens, or the
\* WHERE clause on the status is missing.
MarkLeaseRequeues(t) ==
  row' = IF t \in Tasks /\ row[t].status = "running"
         THEN [row EXCEPT ![t].status = "pending"] ELSE row
MarkLeaseIgnored(t) == UNCHANGED row
MarkLeaseAnyStatus(t) ==
  row' = IF t \in Tasks THEN [row EXCEPT ![t].status = "failed", ![t].key = FALSE] ELSE row

\* MarkSystemTaskLeaseExpired: UPDATE ... WHERE status = 'running'.
MarkLeaseExpired(t) ==
  row' = IF t \in Tasks /\ row[t].status = "running"
         THEN [row EXCEPT ![t].status = "failed", ![t].key = FALSE]
         ELSE row

\* Mutant of ReleaseLock: deletes the lease of the type, whoever holds it.
ReleaseAnyLock(n, t) == lock' = NoLock

\* ReleaseSystemTaskLock: DELETE ... WHERE task_id = ? AND locked_by = ?.
ReleaseLock(n, t) == lock' = IF HeldBy(n, t) THEN NoLock ELSE lock

At(n, pc) == n \in Runners \ dead /\ loc[n].pc = pc
GoTop(n) == loc' = [loc EXCEPT ![n] = TopOfLoop]
Go(n, pc) == loc' = [loc EXCEPT ![n].pc = pc]

-----------------------------------------------------------------------------
(* runPass, first part: ExpireStaleSystemTaskLocks.                         *)

ExpireFind(n) ==
  /\ At(n, "expire")
  /\ ReadNow(n)
  /\ IF Stale
     THEN loc' = [loc EXCEPT ![n] =
            [@ EXCEPT !.pc = "expireMark", !.old = lock.task, !.by = lock.by]]
     ELSE Go(n, "schedule")
  /\ UNCHANGED <<row, handler, dead, errors>>

\* The pass is throttled to one per systemTaskStaleLockInterval, or it fails.
SkipExpire(n) ==
  /\ At(n, "expire")
  /\ Go(n, "schedule")
  /\ UNCHANGED <<row, lock, handler, dead, errors>>

ExpireMark(n) ==
  /\ At(n, "expireMark")
  /\ \/ MarkLeaseExpired(loc[n].old) /\ Go(n, "expireDelete") /\ DbWorks
     \/ Go(n, "schedule") /\ UNCHANGED row /\ DbFails
  /\ UNCHANGED <<lock, handler, dead>>

\* DELETE ... WHERE task_id and locked_by are the ones that were read and
\* locked_until < now: a lease taken since then has a later locked_until.
ExpireDelete(n) ==
  /\ At(n, "expireDelete")
  /\ \/ /\ lock' = IF HeldBy(loc[n].by, loc[n].old) /\ n \in lock.late THEN NoLock ELSE lock
        /\ DbWorks
     \/ UNCHANGED lock /\ DbFails
  /\ Go(n, "schedule")
  /\ UNCHANGED <<row, handler, dead>>

-----------------------------------------------------------------------------
(* runPass, second part: runSystemTaskScheduler, and requests by hand.      *)

\* No row yet, or the latest is not active and the interval has elapsed;
\* otherwise, or if the pass is throttled or fails, nothing is created.
Schedule(n) ==
  /\ At(n, "schedule")
  /\ \/ \E t \in Tasks : Create(t) /\ (t - 1 \in Tasks => ~ Active(t - 1))
     \/ UNCHANGED row
  /\ Go(n, "claim")
  /\ UNCHANGED <<lock, handler, dead, errors>>

\* EnqueueSystemTask and StartLogCleanupTask, on any node: the active row is
\* returned when there is one.
Enqueue(t) ==
  /\ \A u \in Tasks : ~ Active(u)
  /\ Create(t)
  /\ UNCHANGED <<lock, loc, handler, dead, errors>>

-----------------------------------------------------------------------------
(* runPass, last part: runSystemTaskClaimPass and ClaimSystemTask.          *)

\* The earliest pending row is claimed; `now' and lockUntil are read here.
ClaimFind(n) ==
  /\ At(n, "claim")
  /\ \/ /\ \E t \in Tasks :
             /\ row[t].status = "pending"
             /\ \A u \in Tasks : row[u].status = "pending" => t <= u
             /\ loc' = [loc EXCEPT ![n] = [TopOfLoop EXCEPT !.pc = "acquire", !.task = t]]
        /\ ReadNow(n) /\ DbWorks
     \/ /\ \A t \in Tasks : row[t].status # "pending"
        /\ GoTop(n) /\ UNCHANGED lock /\ DbWorks
     \/ GoTop(n) /\ UNCHANGED lock /\ DbFails
  /\ UNCHANGED <<row, handler, dead>>

\* What is left of the lease when it is written: lockUntil is some ticks old.
LeaseLeft == IF PromptClaims THEN 0 .. TTL ELSE -1 .. TTL

\* acquireSystemTaskLock inserts the lease row, and fails if there is one.
AcquireInsert(n) ==
  /\ At(n, "acquire")
  /\ \/ /\ lock = NoLock
        /\ \E left \in LeaseLeft : lock' = NewLock(loc[n].task, n, left)
        /\ Go(n, "setRunning") /\ DbWorks
     \/ lock # NoLock /\ Go(n, "acquireRead") /\ UNCHANGED lock /\ DbWorks
     \/ lock = NoLock /\ Go(n, "acquireRead") /\ UNCHANGED lock /\ DbFails
  /\ UNCHANGED <<row, handler, dead>>

\* The lease is read: gone, alive at `now', or stale.
AcquireRead(n) ==
  /\ At(n, "acquireRead")
  /\ \/ /\ n \in lock.late
        /\ loc' = [loc EXCEPT ![n] = [@ EXCEPT !.pc = "takeover", !.old = lock.task]]
        /\ DbWorks
     \/ n \notin lock.late /\ GoTop(n) /\ DbWorks
     \/ n \in lock.late /\ GoTop(n) /\ DbFails
  /\ UNCHANGED <<row, lock, handler, dead>>

\* UPDATE ... WHERE locked_until < now.
Takeover(n) ==
  /\ At(n, "takeover")
  /\ \/ /\ n \in lock.late
        /\ \E left \in LeaseLeft : lock' = NewLock(loc[n].task, n, left)
        /\ Go(n, IF loc[n].old = loc[n].task THEN "setRunning" ELSE "markOld")
        /\ DbWorks
     \/ n \notin lock.late /\ GoTop(n) /\ UNCHANGED lock /\ DbWorks
     \/ n \in lock.late /\ GoTop(n) /\ UNCHANGED lock /\ DbFails
  /\ UNCHANGED <<row, handler, dead>>

MarkOld(n) ==
  /\ At(n, "markOld")
  /\ \/ MarkLeaseExpired(loc[n].old) /\ Go(n, "setRunning") /\ DbWorks
     \/ Go(n, "unclaim") /\ UNCHANGED row /\ DbFails
  /\ UNCHANGED <<lock, handler, dead>>

\* UPDATE ... SET status = 'running' WHERE status = 'pending'; the handler
\* starts in a goroutine, unless the row cannot be read back, and the loop
\* goes on.
SetRunning(n) ==
  LET t == loc[n].task IN
  /\ At(n, "setRunning")
  /\ \/ /\ row[t].status = "pending"
        /\ row' = [row EXCEPT ![t].status = "running", ![t].by = n]
        /\ GoTop(n)
        /\ \/ handler' = [handler EXCEPT ![n][t] = "run"] /\ DbWorks
           \/ UNCHANGED handler /\ DbFails
     \/ /\ Go(n, "unclaim")
        /\ UNCHANGED <<row, handler>>
        /\ IF row[t].status = "pending" THEN DbFails ELSE DbWorks
  /\ UNCHANGED <<lock, dead>>

\* The claim did not go through: the lease is released, and an error of that
\* is ignored.
Unclaim(n) ==
  /\ At(n, "unclaim")
  /\ \/ ReleaseLock(n, loc[n].task) /\ DbWorks
     \/ UNCHANGED lock /\ DbFails
  /\ GoTop(n)
  /\ UNCHANGED <<row, handler, dead>>

-----------------------------------------------------------------------------
(* runWithLeaseHeartbeat and the handler.                                   *)

\* Mutant of Renew: adds to what is left of the lease.
RenewAdds(n, t) ==
  /\ n \notin dead /\ handler[n][t] = "run"
  /\ HoldsLease(n, t)
  /\ lock' = [lock EXCEPT !.left = @ + TTL]
  /\ UNCHANGED <<row, loc, handler, dead, errors>>

\* RenewSystemTaskLock.  A renewal that fails, or finds the lease gone, cancels
\* the handler's context, which only makes it return.
Renew(n, t) ==
  /\ n \notin dead /\ handler[n][t] = "run"
  /\ HoldsLease(n, t)
  /\ lock' = [lock EXCEPT !.left = TTL]
  /\ UNCHANGED <<row, loc, handler, dead, errors>>

\* FinishSystemTask: the row changes only for the runner that set it running
\* and still holds a live lease; otherwise the result is dropped.
Finish(n, t, status) ==
  /\ n \notin dead /\ handler[n][t] = "run"
  /\ LET mayFinish == row[t].status = "running" /\ row[t].by = n /\ HoldsLease(n, t)
     IN \/ /\ mayFinish
           /\ row' = [row EXCEPT ![t].status = status, ![t].key = FALSE]
           /\ handler' = [handler EXCEPT ![n][t] = "release"]
           /\ DbWorks
        \/ /\ handler' = [handler EXCEPT ![n][t] = "none"]
           /\ UNCHANGED row
           /\ IF mayFinish THEN DbFails ELSE DbWorks
  /\ UNCHANGED <<lock, loc, dead>>

FinishRelease(n, t) ==
  /\ n \notin dead /\ handler[n][t] = "release"
  /\ \/ ReleaseLock(n, t) /\ DbWorks
     \/ UNCHANGED lock /\ DbFails
  /\ handler' = [handler EXCEPT ![n][t] = "none"]
  /\ UNCHANGED <<row, loc, dead>>

-----------------------------------------------------------------------------
(* The environment.                                                         *)

Claiming(n) == loc[n].pc \in {"setRunning", "markOld", "unclaim"}

Tick ==
  /\ lock # NoLock /\ lock.left >= 0
  /\ PromptClaims /\ lock.left = 0 =>
       ~ (lock.by \in Runners \ dead /\ Claiming(lock.by) /\ loc[lock.by].task = lock.task)
  /\ lock' = [lock EXCEPT !.left = @ - 1]
  /\ UNCHANGED <<row, loc, handler, dead, errors>>

\* A node crashes: its loop and its handlers stop where they are.
Crash(n) ==
  /\ n \notin dead /\ Cardinality(dead) < MaxCrashes
  /\ dead' = dead \cup {n}
  /\ handler' = [handler EXCEPT ![n] = [t \in Tasks |-> "none"]]
  /\ GoTop(n)
  /\ UNCHANGED <<row, lock, errors>>

RunnerStep(n) ==
  \/ ExpireFind(n) \/ SkipExpire(n) \/ ExpireMark(n) \/ ExpireDelete(n) \/ Schedule(n)
  \/ ClaimFind(n) \/ AcquireInsert(n) \/ AcquireRead(n) \/ Takeover(n) \/ MarkOld(n)
  \/ SetRunning(n) \/ Unclaim(n)

HandlerEnds(n, t) ==
  (\E status \in {"succeeded", "failed"} : Finish(n, t, status)) \/ FinishRelease(n, t)

Next ==
  \/ \E t \in Tasks : Enqueue(t)
  \/ \E n \in Runners : RunnerStep(n) \/ Crash(n)
  \/ \E n \in Runners, t \in Tasks : Renew(n, t) \/ HandlerEnds(n, t)
  \/ Tick

Spec == Init /\ [][Next]_vars

\* A node that is up runs its loop and its handlers to the end, time passes,
\* and the throttle lets the stale-lease pass through again and again.
Fairness ==
  /\ \A n \in Runners : WF_vars(RunnerStep(n)) /\ SF_vars(ExpireFind(n))
  /\ \A n \in Runners, t \in Tasks : WF_vars(HandlerEnds(n, t))
  /\ WF_vars(Tick)

FairSpec == Spec /\ Fairness

-----------------------------------------------------------------------------

Statuses == {"none", "pending", "running", "succeeded", "failed"}
LoopPCs == {"expire", "expireMark", "expireDelete", "schedule", "claim", "acquire",
            "acquireRead", "takeover", "markOld", "setRunning", "unclaim"}

RowType == [Tasks -> [status: Statuses, by: Runners \cup {NoRunner}, key: BOOLEAN]]
LockType == [task: Tasks \cup {NoTask}, by: Runners \cup {NoRunner},
             left: -1 .. TTL, late: SUBSET Runners]
LoopType == [pc: LoopPCs, task: Tasks \cup {NoTask}, old: Tasks \cup {NoTask},
             by: Runners \cup {NoRunner}]
LocType == [Runners -> LoopType]
HandlerType == [Runners -> [Tasks -> {"none", "run", "release"}]]

\* The rows and the runners' variables have their declared shapes.
TypeOK ==
  /\ row \in RowType
  /\ lock \in LockType
  /\ loc \in LocType
  /\ handler \in HandlerType
  /\ dead \subseteq Runners
  /\ errors \in 0 .. MaxErrors

\* "The per-type lock guarantees only one runner executes the task": two
\* handlers of one task never exist, whatever leases lapse meanwhile.
OneRunnerPerTask ==
  \A t \in Tasks, n, m \in Runners :
    handler[n][t] # "none" /\ handler[m][t] # "none" => n = m

\* A running row can always be failed when its runner is gone: there is a lease
\* for it, or a claimer that took its lease over is about to fail it.  A running
\* row without either would hold its active_key, and stop its type, for ever.
RunningIsLeased ==
  \A t \in Tasks :
    row[t].status = "running" =>
      \/ lock.task = t
      \/ \E n \in Runners \ dead : loc[n].pc = "markOld" /\ loc[n].old = t

\* A row that has ended never changes again, so that a late handler or a late
\* expiry cannot overwrite a result.
EndedIsFinal ==
  [][\A t \in Tasks : row[t].status \in {"succeeded", "failed"} => row'[t] = row[t]]_vars

\* What a caller sees of the rows.
Queue == INSTANCE JobQueue WITH status <- [t \in Tasks |-> row[t].status]

\* Through every crash, lapsed lease and failing statement the nodes together
\* behave like one queue that accepts one task at a time, executes it at most
\* once and keeps its result (every row carries its active_key).
ImplementsQueue == Queue!Spec

\* Every task that is created ends, although a node may crash, or a statement
\* fail, in the middle of a claim or a handler.
TaskEnds ==
  \A t \in Tasks : Active(t) ~> row[t].status \in {"succeeded", "failed"}

\* "An arbitrarily long handler stays alive as long as the heartbeat succeeds":
\* no one fails a running row for an expired lease while its runner is up,
\* executes it and holds a live lease.
LeaseProtectsRunner ==
  [][\A t \in Tasks, n \in Runners :
       /\ row[t].status = "running" /\ row[t].by = n
       /\ handler[n][t] = "run" /\ HoldsLease(n, t)
       /\ row'[t].status = "failed"
       => handler'[n][t] = "release"]_vars
=============================================================================
