-------------------------- MODULE SystemTask_proofs --------------------------
(***************************************************************************)
(* What SystemTask guarantees for every number of nodes, tasks, crashes    *)
(* and failing statements, and for every lease time.                       *)
(***************************************************************************)
EXTENDS SystemTask, TLAPS

-----------------------------------------------------------------------------
(* Type correctness.                                                        *)

\* The life of a lease is a number of ticks.
LEMMA TTLType == TTL \in Nat
  BY SystemTaskAssumption DEF SystemTaskAssumption

\* The count of failed statements stays within its bound.
LEMMA ErrorsType ==
  ASSUME TypeOK, DbFails \/ DbWorks
  PROVE  errors' \in 0 .. MaxErrors
<1>1. MaxErrors \in Nat
  BY SystemTaskAssumption DEF SystemTaskAssumption
<1>2. errors \in 0 .. MaxErrors
  BY DEF TypeOK
<1> QED
  BY <1>1, <1>2 DEF DbFails, DbWorks

\* A runner's loop moves to one of its positions.
LEMMA GoType ==
  ASSUME TypeOK, NEW n \in Runners, NEW pc \in LoopPCs
  PROVE  (Go(n, pc) \/ GoTop(n)) => loc' \in LocType
<1>1. loc \in LocType
  BY DEF TypeOK
<1>2. TopOfLoop \in LoopType
  BY DEF TopOfLoop, LoopType, LoopPCs
<1>3. GoTop(n) => loc' \in LocType
  BY <1>1, <1>2 DEF GoTop, LocType
<1>4. Go(n, pc) => loc' \in LocType
  BY <1>1 DEF Go, LocType, LoopType
<1> QED
  BY <1>3, <1>4

\* What a runner has read of the lease fits into its loop variables.
LEMMA ReadType ==
  ASSUME TypeOK, NEW n \in Runners
  PROVE  /\ [loc[n] EXCEPT !.pc = "expireMark", !.old = lock.task, !.by = lock.by] \in LoopType
         /\ [loc[n] EXCEPT !.pc = "takeover", !.old = lock.task] \in LoopType
<1>1. loc[n] \in LoopType
  BY DEF TypeOK, LocType
<1>2. lock.task \in Tasks \cup {NoTask} /\ lock.by \in Runners \cup {NoRunner}
  BY DEF TypeOK, LockType
<1>3. "expireMark" \in LoopPCs /\ "takeover" \in LoopPCs
  BY DEF LoopPCs
<1> QED
  BY <1>1, <1>2, <1>3 DEF LoopType

\* The statements on the lease row write a lease row.
LEMMA LockOps ==
  ASSUME TypeOK
  PROVE  /\ NoLock \in LockType
         /\ \A n \in Runners : ReadNow(n) => lock' \in LockType
         /\ \A n, t : ReleaseLock(n, t) => lock' \in LockType
         /\ \A n \in Runners, t \in Tasks \cup {NoTask}, left \in LeaseLeft :
              NewLock(t, n, left) \in LockType
<1>1. lock \in LockType
  BY DEF TypeOK
<1>2. NoLock \in LockType
  BY TTLType DEF NoLock, LockType
<1>3. ASSUME NEW n \in Runners, ReadNow(n) PROVE lock' \in LockType
  BY <1>1, <1>3 DEF ReadNow, LockType
<1>4. ASSUME NEW n, NEW t, ReleaseLock(n, t) PROVE lock' \in LockType
  BY <1>1, <1>2, <1>4 DEF ReleaseLock
<1>5. ASSUME NEW n \in Runners, NEW t \in Tasks \cup {NoTask}, NEW left \in LeaseLeft
      PROVE  NewLock(t, n, left) \in LockType
  <2>1. left \in -1 .. TTL
    BY TTLType DEF LeaseLeft
  <2> QED
    BY <2>1 DEF NewLock, LockType
<1> QED
  BY <1>2, <1>3, <1>4, <1>5

\* Inserting a row, and failing a row whose lease lapsed, leave rows.
LEMMA RowOps ==
  ASSUME TypeOK, NEW t
  PROVE  /\ t \in Tasks /\ Create(t) => row' \in RowType
         /\ MarkLeaseExpired(t) => row' \in RowType
<1>1. row \in RowType
  BY DEF TypeOK
<1>2. t \in Tasks /\ Create(t) => row' \in RowType
  BY <1>1 DEF Create, RowType, Statuses
<1>3. MarkLeaseExpired(t) => row' \in RowType
  <2>1. ASSUME t \in Tasks PROVE [row[t] EXCEPT !.status = "failed", !.key = FALSE] \in
          [status: Statuses, by: Runners \cup {NoRunner}, key: BOOLEAN]
    BY <1>1, <2>1 DEF RowType, Statuses
  <2> QED
    BY <1>1, <2>1 DEF MarkLeaseExpired, RowType
<1> QED
  BY <1>2, <1>3

\* The rows, the lease and the runners' loops keep their shapes under every
\* step of every node, whatever crashes or fails.
LEMMA TypeStep == TypeOK /\ [Next]_vars => TypeOK'
<1>1. ASSUME TypeOK, NEW t \in Tasks, Enqueue(t) PROVE TypeOK'
  BY <1>1, RowOps DEF TypeOK, Enqueue
<1>2. ASSUME TypeOK, NEW n \in Runners, ExpireFind(n) PROVE TypeOK'
  <2>1. lock' \in LockType
    BY <1>2, LockOps DEF ExpireFind
  <2>2. loc' \in LocType
    BY <1>2, ReadType, GoType DEF ExpireFind, TypeOK, LocType, LoopPCs
  <2> QED
    BY <1>2, <2>1, <2>2 DEF TypeOK, ExpireFind
<1>3. ASSUME TypeOK, NEW n \in Runners, SkipExpire(n) PROVE TypeOK'
  BY <1>3, GoType DEF TypeOK, SkipExpire, LoopPCs
<1>4. ASSUME TypeOK, NEW n \in Runners, ExpireMark(n) PROVE TypeOK'
  BY <1>4, GoType, RowOps, ErrorsType DEF TypeOK, ExpireMark, LoopPCs
<1>5. ASSUME TypeOK, NEW n \in Runners, ExpireDelete(n) PROVE TypeOK'
  BY <1>5, GoType, LockOps, ErrorsType DEF TypeOK, ExpireDelete, LoopPCs
<1>6. ASSUME TypeOK, NEW n \in Runners, Schedule(n) PROVE TypeOK'
  BY <1>6, GoType, RowOps DEF TypeOK, Schedule, LoopPCs
<1>7. ASSUME TypeOK, NEW n \in Runners, ClaimFind(n) PROVE TypeOK'
  <2>1. lock' \in LockType
    BY <1>7, LockOps DEF ClaimFind, TypeOK
  <2>2. \A t \in Tasks : [TopOfLoop EXCEPT !.pc = "acquire", !.task = t] \in LoopType
    BY DEF TopOfLoop, LoopType, LoopPCs
  <2>3. loc' \in LocType
    BY <1>7, <2>2, GoType DEF ClaimFind, TypeOK, LocType, LoopPCs
  <2> QED
    BY <1>7, <2>1, <2>3, ErrorsType DEF TypeOK, ClaimFind
<1>8. ASSUME TypeOK, NEW n \in Runners, AcquireInsert(n) PROVE TypeOK'
  <2>1. loc[n].task \in Tasks \cup {NoTask}
    BY <1>8 DEF TypeOK, LocType, LoopType
  <2>2. lock' \in LockType
    BY <1>8, <2>1, LockOps DEF AcquireInsert, TypeOK
  <2> QED
    BY <1>8, <2>2, GoType, ErrorsType DEF TypeOK, AcquireInsert, LoopPCs
<1>9. ASSUME TypeOK, NEW n \in Runners, AcquireRead(n) PROVE TypeOK'
  <2>1. loc' \in LocType
    BY <1>9, ReadType, GoType DEF AcquireRead, TypeOK, LocType, LoopPCs
  <2> QED
    BY <1>9, <2>1, ErrorsType DEF TypeOK, AcquireRead
<1>10. ASSUME TypeOK, NEW n \in Runners, Takeover(n) PROVE TypeOK'
  <2>1. loc[n].task \in Tasks \cup {NoTask}
    BY <1>10 DEF TypeOK, LocType, LoopType
  <2>2. lock' \in LockType
    BY <1>10, <2>1, LockOps DEF Takeover, TypeOK
  <2>3. loc' \in LocType
    BY <1>10, GoType DEF Takeover, LoopPCs
  <2> QED
    BY <1>10, <2>2, <2>3, ErrorsType DEF TypeOK, Takeover
<1>11. ASSUME TypeOK, NEW n \in Runners, MarkOld(n) PROVE TypeOK'
  BY <1>11, GoType, RowOps, ErrorsType DEF TypeOK, MarkOld, LoopPCs
<1>12. ASSUME TypeOK, NEW n \in Runners, SetRunning(n) PROVE TypeOK'
  <2>1. row' \in RowType
    BY <1>12 DEF TypeOK, SetRunning, RowType, Statuses
  <2>2. handler' \in HandlerType
    BY <1>12 DEF TypeOK, SetRunning, HandlerType
  <2> QED
    BY <1>12, <2>1, <2>2, GoType, ErrorsType DEF TypeOK, SetRunning, LoopPCs
<1>13. ASSUME TypeOK, NEW n \in Runners, Unclaim(n) PROVE TypeOK'
  BY <1>13, GoType, LockOps, ErrorsType DEF TypeOK, Unclaim, LoopPCs
<1>14. ASSUME TypeOK, NEW n \in Runners, NEW t \in Tasks, Renew(n, t) PROVE TypeOK'
  <2>1. lock' \in LockType
    BY <1>14, TTLType DEF TypeOK, Renew, LockType
  <2> QED
    BY <1>14, <2>1 DEF TypeOK, Renew
<1>15. ASSUME TypeOK, NEW n \in Runners, NEW t \in Tasks,
              NEW status \in {"succeeded", "failed"}, Finish(n, t, status)
       PROVE  TypeOK'
  <2>1. row' \in RowType
    BY <1>15 DEF TypeOK, Finish, RowType, Statuses
  <2>2. handler' \in HandlerType
    BY <1>15 DEF TypeOK, Finish, HandlerType
  <2> QED
    BY <1>15, <2>1, <2>2, ErrorsType DEF TypeOK, Finish
<1>16. ASSUME TypeOK, NEW n \in Runners, NEW t \in Tasks, FinishRelease(n, t) PROVE TypeOK'
  <2>1. handler' \in HandlerType
    BY <1>16 DEF TypeOK, FinishRelease, HandlerType
  <2> QED
    BY <1>16, <2>1, LockOps, ErrorsType DEF TypeOK, FinishRelease
<1>17. ASSUME TypeOK, Tick PROVE TypeOK'
  <2>1. lock' \in LockType
    BY <1>17, TTLType DEF TypeOK, Tick, LockType
  <2> QED
    BY <1>17, <2>1 DEF TypeOK, Tick
<1>18. ASSUME TypeOK, NEW n \in Runners, Crash(n) PROVE TypeOK'
  <2>1. handler' \in HandlerType
    BY <1>18 DEF TypeOK, Crash, HandlerType
  <2> QED
    BY <1>18, <2>1, GoType DEF TypeOK, Crash, LoopPCs
<1>19. ASSUME TypeOK, UNCHANGED vars PROVE TypeOK'
  BY <1>19 DEF TypeOK, vars
<1> QED
  BY <1>1, <1>2, <1>3, <1>4, <1>5, <1>6, <1>7, <1>8, <1>9, <1>10, <1>11, <1>12, <1>13,
     <1>14, <1>15, <1>16, <1>17, <1>18, <1>19 DEF Next, RunnerStep, HandlerEnds

\* TypeOK holds in every reachable state.
THEOREM TypeCorrect == Spec => []TypeOK
<1>1. Init => TypeOK
  <2>1. 0 \in 0 .. MaxErrors
    BY SystemTaskAssumption DEF SystemTaskAssumption
  <2>2. Init => lock \in LockType
    BY TTLType DEF Init, NoLock, LockType
  <2>3. Init => row \in RowType /\ loc \in LocType /\ handler \in HandlerType
    BY DEF Init, TopOfLoop, Statuses, LoopPCs, RowType, LocType, LoopType, HandlerType
  <2> QED
    BY <2>1, <2>2, <2>3 DEF Init, TypeOK
<1> QED
  BY <1>1, TypeStep, PTL DEF Spec

-----------------------------------------------------------------------------
(* The life of a row.                                                       *)

\* A row is created pending, set running once, and ends once.
RowMoves(t) ==
  \/ row'[t] = row[t]
  \/ /\ row[t].status = "none"
     /\ row'[t] = [status |-> "pending", by |-> NoRunner, key |-> TRUE]
     /\ \A u \in Tasks : ~ row[u].key /\ (u # t => row'[u] = row[u])
  \/ /\ row[t].status = "pending" /\ row'[t].status = "running"
     /\ row'[t].key = row[t].key
  \/ /\ row[t].status = "running" /\ row'[t].status \in {"succeeded", "failed"}
     /\ row'[t].by = row[t].by /\ ~ row'[t].key

\* Every step moves every row along its life, and no other way.
LEMMA RowLife == TypeOK /\ [Next]_vars => \A t \in Tasks : RowMoves(t)
<1> SUFFICES ASSUME TypeOK, NEW t \in Tasks PROVE [Next]_vars => RowMoves(t)
  OBVIOUS
<1> row \in RowType
  BY DEF TypeOK
<1>1. UNCHANGED row => RowMoves(t)
  BY DEF RowMoves
<1>2. ASSUME NEW u \in Tasks, Create(u) PROVE RowMoves(t)
  <2>1. row[u].status = "none" /\ \A v \in Tasks : ~ row[v].key
    <3>1. u \in Nat
      BY SystemTaskAssumption DEF SystemTaskAssumption
    <3> QED
      BY <1>2, <3>1 DEF Create
  <2>2. row' = [row EXCEPT ![u] = [status |-> "pending", by |-> NoRunner, key |-> TRUE]]
    BY <1>2 DEF Create
  <2>3. row'[u] = [status |-> "pending", by |-> NoRunner, key |-> TRUE]
    BY <2>2 DEF RowType
  <2>4. \A v \in Tasks : v # u => row'[v] = row[v]
    BY <2>2 DEF RowType
  <2> QED
    BY <2>1, <2>3, <2>4 DEF RowMoves
<1>3. ASSUME NEW u, MarkLeaseExpired(u) PROVE RowMoves(t)
  BY <1>3 DEF MarkLeaseExpired, RowMoves, RowType
<1>4. ASSUME NEW n \in Runners, SetRunning(n) PROVE RowMoves(t)
  BY <1>4 DEF SetRunning, RowMoves, RowType
<1>5. ASSUME NEW n \in Runners, NEW u \in Tasks, NEW status \in {"succeeded", "failed"},
             Finish(n, u, status)
      PROVE  RowMoves(t)
  BY <1>5 DEF Finish, RowMoves, RowType
<1>6. ASSUME NEW n \in Runners, RunnerStep(n) PROVE RowMoves(t)
  BY <1>1, <1>2, <1>3, <1>4, <1>6
     DEF RunnerStep, ExpireFind, SkipExpire, ExpireMark, ExpireDelete, Schedule, ClaimFind,
         AcquireInsert, AcquireRead, Takeover, MarkOld, Unclaim
<1> QED
  BY <1>1, <1>2, <1>5, <1>6
     DEF Next, HandlerEnds, Enqueue, Crash, Renew, FinishRelease, Tick, vars

\* A late handler or a late expiry never overwrites the result of a task: the
\* WHERE clauses of FinishSystemTask and MarkSystemTaskLeaseExpired see to it.
THEOREM ResultIsFinal == Spec => EndedIsFinal
<1>1. TypeOK /\ [Next]_vars =>
        [\A t \in Tasks : row[t].status \in {"succeeded", "failed"} => row'[t] = row[t]]_vars
  BY RowLife DEF RowMoves
<1> QED
  BY <1>1, TypeCorrect, PTL DEF Spec, EndedIsFinal

-----------------------------------------------------------------------------
(* One handler for a task.                                                  *)

\* A handler belongs to the runner that set its row running, and a handler
\* that is releasing its lease has recorded the result.
HandlerOwnsRow ==
  \A n \in Runners, t \in Tasks :
    /\ handler[n][t] # "none" =>
         row[t].by = n /\ row[t].status \in {"running", "succeeded", "failed"}
    /\ handler[n][t] = "release" => row[t].status \in {"succeeded", "failed"}

\* HandlerOwnsRow is inductive.
LEMMA HandlerStep == TypeOK /\ HandlerOwnsRow /\ [Next]_vars => HandlerOwnsRow'
<1> SUFFICES ASSUME TypeOK, HandlerOwnsRow, [Next]_vars PROVE HandlerOwnsRow'
  OBVIOUS
<1>0. row \in RowType /\ handler \in HandlerType
  BY DEF TypeOK
<1>1. \A t \in Tasks : RowMoves(t)
  BY RowLife
<1>2. ASSUME UNCHANGED handler PROVE HandlerOwnsRow'
  BY <1>1, <1>2 DEF HandlerOwnsRow, RowMoves
<1>3. ASSUME NEW n \in Runners, SetRunning(n) PROVE HandlerOwnsRow'
  <2> DEFINE u == loc[n].task
  <2>1. CASE row[u].status = "pending" /\ handler' = [handler EXCEPT ![n][u] = "run"]
                                       /\ row' = [row EXCEPT ![u].status = "running", ![u].by = n]
    <3> SUFFICES ASSUME NEW m \in Runners, NEW t \in Tasks
                 PROVE  /\ handler'[m][t] # "none" =>
                             row'[t].by = m /\ row'[t].status \in {"running", "succeeded", "failed"}
                        /\ handler'[m][t] = "release" =>
                             row'[t].status \in {"succeeded", "failed"}
      BY DEF HandlerOwnsRow
    <3>1. handler'[m][t] = IF m = n /\ t = u THEN "run" ELSE handler[m][t]
      BY <1>0, <2>1 DEF HandlerType
    <3>2. CASE t = u
      <4>1. row'[t].by = n /\ row'[t].status = "running"
        BY <1>0, <2>1, <3>2 DEF RowType
      <4>2. \A k \in Runners : handler[k][t] = "none"
        BY <2>1, <3>2 DEF HandlerOwnsRow
      <4> QED
        BY <3>1, <3>2, <4>1, <4>2
    <3>3. CASE t # u
      <4>1. row'[t] = row[t]
        BY <1>0, <2>1, <3>3 DEF RowType
      <4> QED
        BY <3>1, <3>3, <4>1 DEF HandlerOwnsRow
    <3> QED
      BY <3>2, <3>3
  <2> QED
    BY <1>2, <1>3, <2>1 DEF SetRunning
<1>4. ASSUME NEW n \in Runners, NEW t \in Tasks, NEW status \in {"succeeded", "failed"},
             Finish(n, t, status)
      PROVE  HandlerOwnsRow'
  <2>1. CASE UNCHANGED row
    BY <1>0, <1>4, <2>1 DEF Finish, HandlerOwnsRow, RowType, HandlerType
  <2>2. CASE row' = [row EXCEPT ![t].status = status, ![t].key = FALSE]
    <3>1. row'[t].by = row[t].by /\ row'[t].status \in {"succeeded", "failed"}
      BY <1>0, <2>2 DEF RowType
    <3>2. \A u \in Tasks : u # t => row'[u] = row[u]
      BY <1>0, <2>2 DEF RowType
    <3>3. \A m \in Runners, u \in Tasks :
            handler'[m][u] = IF m = n /\ u = t THEN handler'[n][t] ELSE handler[m][u]
      BY <1>0, <1>4 DEF Finish, HandlerType
    <3>4. row[t].by = n
      BY <1>4 DEF Finish, HandlerOwnsRow
    <3> QED
      BY <3>1, <3>2, <3>3, <3>4 DEF HandlerOwnsRow
  <2> QED
    BY <1>4, <2>1, <2>2 DEF Finish
<1>5. ASSUME NEW n \in Runners, NEW t \in Tasks, FinishRelease(n, t) PROVE HandlerOwnsRow'
  BY <1>0, <1>5 DEF FinishRelease, HandlerOwnsRow, HandlerType
<1>6. ASSUME NEW n \in Runners, Crash(n) PROVE HandlerOwnsRow'
  BY <1>0, <1>6 DEF Crash, HandlerOwnsRow, HandlerType
<1> QED
  BY <1>2, <1>3, <1>4, <1>5, <1>6
     DEF Next, RunnerStep, HandlerEnds, Enqueue, ExpireFind, SkipExpire, ExpireMark,
         ExpireDelete, Schedule, ClaimFind, AcquireInsert, AcquireRead, Takeover, MarkOld,
         Unclaim, Renew, Tick, vars

\* However many nodes compete, whatever leases lapse, nodes crash and
\* statements fail, a task is executed by one runner only.
THEOREM OneRunner == Spec => []OneRunnerPerTask
<1>1. Init => HandlerOwnsRow
  BY DEF Init, HandlerOwnsRow
<1>2. HandlerOwnsRow => OneRunnerPerTask
  BY DEF HandlerOwnsRow, OneRunnerPerTask
<1> QED
  BY <1>1, <1>2, HandlerStep, TypeCorrect, PTL DEF Spec

-----------------------------------------------------------------------------
(* A running row is always covered by the lease, if claims are prompt and   *)
(* no row of an older version is left.                                      *)

\* Where a runner looks for the lease of the task it claims.
Acquiring(n) == loc[n].pc \in {"acquire", "acquireRead", "takeover"}

\* The active rows are the holders of the unique key.
OneActiveRow ==
  /\ \A t \in Tasks : Active(t) => row[t].key
  /\ \A t, u \in Tasks : row[t].key /\ row[u].key => t = u
  /\ \A t \in Tasks : row[t].status \in {"none", "pending"} => row[t].by = NoRunner

\* A lease names a task and a runner, and only a stale one has late readers.
LeaseShape ==
  /\ lock # NoLock => lock.task \in Tasks /\ lock.by \in Runners
  /\ lock.late # {} => lock # NoLock /\ lock.left < 0

\* A runner that claims holds a live lease, for a row not set running by it or
\* by anyone else.
ClaimerHolds ==
  \A n \in Runners :
    /\ Acquiring(n) \/ Claiming(n) =>
         n \notin dead /\ loc[n].task \in Tasks /\ row[loc[n].task].by # n
    /\ Claiming(n) =>
         HoldsLease(n, loc[n].task) /\ row[loc[n].task].status # "running"

\* A lease that a claimer may take over, or an expirer delete, covers nothing.
StaleCoversNothing ==
  \A n \in Runners :
    n \in lock.late /\ (Acquiring(n) \/ (loc[n].pc = "expireDelete" /\ loc[n].old = lock.task))
      => row[lock.task].status # "running"

\* A running row is the one the lease names.
RunningIsNamed == \A t \in Tasks : row[t].status = "running" => lock.task = t

\* The part of the inductive invariant that is about the lease.
LeaseInv == LeaseShape /\ ClaimerHolds /\ StaleCoversNothing /\ RunningIsNamed

\* The inductive invariant.
Leases ==
  /\ PromptClaims /\ LegacyTasks = {}
  /\ TypeOK /\ HandlerOwnsRow /\ OneActiveRow /\ LeaseInv

\* A runner that moves in its loop keeps what it has read, a runner at the top
\* has read nothing, and no other runner is concerned.
LEMMA LoopFrame ==
  ASSUME TypeOK, NEW n \in Runners
  PROVE  /\ \A pc : Go(n, pc) =>
              /\ loc'[n].pc = pc /\ loc'[n].task = loc[n].task
              /\ loc'[n].old = loc[n].old /\ loc'[n].by = loc[n].by
              /\ \A m \in Runners : m # n => loc'[m] = loc[m]
         /\ GoTop(n) => loc'[n].pc = "expire" /\ \A m \in Runners : m # n => loc'[m] = loc[m]
<1>1. loc \in [Runners -> LoopType]
  BY DEF TypeOK, LocType
<1>2. ASSUME NEW pc, Go(n, pc)
      PROVE  /\ loc'[n].pc = pc /\ loc'[n].task = loc[n].task
             /\ loc'[n].old = loc[n].old /\ loc'[n].by = loc[n].by
             /\ \A m \in Runners : m # n => loc'[m] = loc[m]
  <2>1. loc'[n] = [loc[n] EXCEPT !.pc = pc] /\ \A m \in Runners : m # n => loc'[m] = loc[m]
    BY <1>1, <1>2 DEF Go
  <2>2. loc[n] \in LoopType
    BY <1>1
  <2> QED
    BY <2>1, <2>2 DEF LoopType
<1>3. ASSUME GoTop(n)
      PROVE  loc'[n].pc = "expire" /\ \A m \in Runners : m # n => loc'[m] = loc[m]
  BY <1>1, <1>3 DEF GoTop, TopOfLoop
<1> QED
  BY <1>2, <1>3

\* There is one holder of the key, because INSERT is the only statement that
\* sets it, and refuses to while it is held.
LEMMA ActiveStep == TypeOK /\ OneActiveRow /\ [Next]_vars => OneActiveRow'
<1> SUFFICES ASSUME TypeOK, OneActiveRow, \A t \in Tasks : RowMoves(t) PROVE OneActiveRow'
  BY RowLife
<1>1. ASSUME NEW t \in Tasks, Active(t)' PROVE row'[t].key
  BY <1>1 DEF OneActiveRow, RowMoves, Active
<1>2. ASSUME NEW t \in Tasks, NEW u \in Tasks, row'[t].key, row'[u].key PROVE t = u
  BY <1>2 DEF OneActiveRow, RowMoves, Active
<1>3. ASSUME NEW t \in Tasks, row'[t].status \in {"none", "pending"} PROVE row'[t].by = NoRunner
  BY <1>3 DEF OneActiveRow, RowMoves
<1> QED
  BY <1>1, <1>2, <1>3 DEF OneActiveRow

-----------------------------------------------------------------------------
(* The nodes implement the queue.                                           *)

\* Inserting a row is accepting a task: whoever is active holds the key.
LEMMA CreateSubmits ==
  ASSUME TypeOK, OneActiveRow, NEW t \in Tasks, Create(t)
  PROVE  Queue!Submit(t)
<1>1. row' = [row EXCEPT ![t] = [status |-> "pending", by |-> NoRunner, key |-> TRUE]]
  BY DEF Create
<1>2. [u \in Tasks |-> row'[u].status] = [[u \in Tasks |-> row[u].status] EXCEPT ![t] = "pending"]
  BY <1>1 DEF TypeOK, RowType
<1>3. \A u \in Tasks : row[u].status # "none" <=> u < t
  BY DEF Create
<1>4. \A u \in Tasks : row[u].status \notin {"pending", "running"}
  BY DEF Create, OneActiveRow, Active
<1> QED
  BY <1>2, <1>3, <1>4 DEF Queue!Submit, Queue!Active

\* Every step of every node is a step of the queue, or invisible.
LEMMA QueueStep ==
  ASSUME TypeOK, OneActiveRow, [Next]_vars
  PROVE  [Queue!Next]_([t \in Tasks |-> row[t].status])
<1> DEFINE seen == [t \in Tasks |-> row[t].status]
<1> row \in RowType
  BY DEF TypeOK
<1>1. ASSUME UNCHANGED row PROVE seen' = seen
  BY <1>1
<1>2. ASSUME NEW t \in Tasks, Create(t) PROVE Queue!Next
  BY <1>2, CreateSubmits DEF Queue!Next
<1>3. ASSUME NEW t, MarkLeaseExpired(t) PROVE Queue!Next \/ seen' = seen
  <2>1. CASE t \in Tasks /\ row[t].status = "running"
    <3>1. seen[t] = "running" /\ seen' = [seen EXCEPT ![t] = "failed"]
      BY <1>3, <2>1 DEF MarkLeaseExpired, RowType
    <3> QED
      BY <2>1, <3>1 DEF Queue!Next, Queue!End
  <2>2. CASE ~ (t \in Tasks /\ row[t].status = "running")
    BY <1>1, <1>3, <2>2 DEF MarkLeaseExpired
  <2> QED
    BY <2>1, <2>2
<1>4. ASSUME NEW n \in Runners, SetRunning(n) PROVE Queue!Next \/ seen' = seen
  <2> DEFINE t == loc[n].task
  <2>1. CASE UNCHANGED row
    BY <1>1, <2>1
  <2>2. CASE t \in Tasks /\ row[t].status = "pending"
             /\ row' = [row EXCEPT ![t].status = "running", ![t].by = n]
    <3>1. seen[t] = "pending" /\ seen' = [seen EXCEPT ![t] = "running"]
      BY <2>2 DEF RowType
    <3> QED
      BY <2>2, <3>1 DEF Queue!Next, Queue!Start
  <2>3. CASE t \notin Tasks /\ row' = [row EXCEPT ![t].status = "running", ![t].by = n]
    <3>1. row' = row
      BY <2>3 DEF RowType
    <3> QED
      BY <1>1, <3>1
  <2> QED
    BY <1>4, <2>1, <2>2, <2>3 DEF SetRunning
<1>5. ASSUME NEW n \in Runners, NEW t \in Tasks, NEW status \in {"succeeded", "failed"},
             Finish(n, t, status)
      PROVE  Queue!Next \/ seen' = seen
  <2>1. CASE UNCHANGED row
    BY <1>1, <2>1
  <2>2. CASE row[t].status = "running"
             /\ row' = [row EXCEPT ![t].status = status, ![t].key = FALSE]
    <3>1. seen[t] = "running" /\ seen' = [seen EXCEPT ![t] = status]
      BY <2>2 DEF RowType
    <3> QED
      BY <3>1 DEF Queue!Next, Queue!End
  <2> QED
    BY <1>5, <2>1, <2>2 DEF Finish
<1>6. ASSUME NEW n \in Runners, RunnerStep(n) PROVE Queue!Next \/ seen' = seen
  BY <1>1, <1>2, <1>3, <1>4, <1>6
     DEF RunnerStep, ExpireFind, SkipExpire, ExpireMark, ExpireDelete, Schedule, ClaimFind,
         AcquireInsert, AcquireRead, Takeover, MarkOld, Unclaim
<1> QED
  BY <1>1, <1>2, <1>5, <1>6
     DEF Next, HandlerEnds, Enqueue, Crash, Renew, FinishRelease, Tick, vars

\* Any number of nodes, crashing and failing as they may, implement the queue:
\* each task they accept is executed at most once, alone, and ends once.
THEOREM Implementation == LegacyTasks = {} /\ Spec => ImplementsQueue
<1>1. LegacyTasks = {} /\ Init => Queue!Init /\ OneActiveRow
  BY DEF Init, OneActiveRow, Active, Queue!Init
<1>2. TypeOK /\ OneActiveRow /\ [Next]_vars => [Queue!Next]_([t \in Tasks |-> row[t].status])
  BY QueueStep
<1> QED
  BY <1>1, <1>2, ActiveStep, TypeCorrect, PTL DEF Spec, ImplementsQueue, Queue!Spec

-----------------------------------------------------------------------------
(* The lease.                                                               *)

\* Where nothing depends on the lease.
Idle(n) == ~ Acquiring(n) /\ ~ Claiming(n) /\ loc[n].pc # "expireDelete"

\* No row is set running, and no row gets a runner.
RowsCalm ==
  \A t \in Tasks : /\ row'[t].status = "running" => row[t].status = "running"
                   /\ row'[t].by \in {row[t].by, NoRunner}

\* A step that leaves the lease alone, and in which runners only turn idle,
\* preserves the invariant.
LEMMA QuietStep ==
  ASSUME Leases, UNCHANGED lock, RowsCalm,
         \A m \in Runners : Idle(m)' \/ (loc'[m] = loc[m] /\ (m \in dead' => m \in dead))
  PROVE  LeaseInv'
<1> USE DEF Leases, LeaseInv
<1>0. NoRunner \notin Runners
  BY SystemTaskAssumption DEF SystemTaskAssumption
<1>1. LeaseShape' /\ RunningIsNamed'
  BY DEF LeaseShape, RunningIsNamed, NoLock, RowsCalm
<1>2. ClaimerHolds'
  <2> SUFFICES ASSUME NEW n \in Runners, Acquiring(n)' \/ Claiming(n)'
               PROVE  /\ n \notin dead' /\ loc'[n].task \in Tasks /\ row'[loc'[n].task].by # n
                      /\ Claiming(n)' => /\ HoldsLease(n, loc[n].task)'
                                         /\ row'[loc'[n].task].status # "running"
    BY DEF ClaimerHolds
  <2>1. loc'[n] = loc[n] /\ (n \in dead' => n \in dead)
    BY DEF Idle
  <2>2. Acquiring(n) \/ Claiming(n)
    BY <2>1 DEF Acquiring, Claiming
  <2>3. n \notin dead /\ loc[n].task \in Tasks /\ row[loc[n].task].by # n
    BY <2>2 DEF ClaimerHolds
  <2>4. Claiming(n)' => HoldsLease(n, loc[n].task) /\ row[loc[n].task].status # "running"
    BY <2>1 DEF ClaimerHolds, Claiming
  <2> QED
    BY <1>0, <2>1, <2>3, <2>4 DEF RowsCalm, HoldsLease, HeldBy
<1>3. StaleCoversNothing'
  BY DEF StaleCoversNothing, Acquiring, Claiming, Idle, RowsCalm, LeaseShape
<1> QED
  BY <1>1, <1>2, <1>3

\* The stale-lease pass: a lease is only deleted after its row was failed.
LEMMA ExpireStep ==
  ASSUME Leases, NEW n \in Runners,
         ExpireFind(n) \/ SkipExpire(n) \/ ExpireMark(n) \/ ExpireDelete(n)
  PROVE  LeaseInv'
<1> USE DEF Leases, LeaseInv
<1>0. row \in RowType /\ lock \in LockType /\ loc \in LocType
  BY DEF TypeOK
<1>1. CASE SkipExpire(n)
  BY <1>1, LoopFrame, QuietStep DEF SkipExpire, Idle, Acquiring, Claiming, RowsCalm
<1>2. CASE ExpireFind(n)
  <2>1. /\ ~ Acquiring(n)' /\ ~ Claiming(n)' /\ loc'[n].pc # "expireDelete"
        /\ \A m \in Runners : m # n => loc'[m] = loc[m]
    <3>1. CASE ~ Stale
      BY <1>2, <3>1, LoopFrame DEF ExpireFind, Acquiring, Claiming
    <3>2. CASE Stale
      <4>1. loc' = [loc EXCEPT ![n] =
              [loc[n] EXCEPT !.pc = "expireMark", !.old = lock.task, !.by = lock.by]]
        BY <1>2, <3>2 DEF ExpireFind
      <4>2. loc'[n].pc = "expireMark" /\ \A m \in Runners : m # n => loc'[m] = loc[m]
        BY <1>0, <4>1 DEF LocType, LoopType
      <4> QED
        BY <4>2 DEF Acquiring, Claiming
    <3> QED
      BY <3>1, <3>2
  <2>2. /\ lock'.task = lock.task /\ lock'.by = lock.by /\ lock'.left = lock.left
        /\ lock' # NoLock <=> lock # NoLock
        /\ lock'.late = lock.late \/ (lock'.late = lock.late \cup {n} /\ Stale)
    BY <1>0, <1>2 DEF ExpireFind, ReadNow, LockType, Stale, NoLock
  <2>3. UNCHANGED <<row, dead>>
    BY <1>2 DEF ExpireFind
  <2>4. LeaseShape'
    BY <2>2, <2>3 DEF LeaseShape, Stale
  <2>5. ClaimerHolds'
    BY <2>1, <2>2, <2>3 DEF ClaimerHolds, Acquiring, Claiming, HoldsLease, HeldBy
  <2>6. StaleCoversNothing'
    BY <2>1, <2>2, <2>3 DEF StaleCoversNothing, Acquiring
  <2> QED
    BY <2>2, <2>3, <2>4, <2>5, <2>6 DEF RunningIsNamed
<1>3. CASE ExpireMark(n) /\ UNCHANGED row /\ Go(n, "schedule")
  BY <1>3, LoopFrame, QuietStep DEF ExpireMark, Idle, Acquiring, Claiming, RowsCalm
<1>4. CASE ExpireMark(n) /\ MarkLeaseExpired(loc[n].old) /\ Go(n, "expireDelete")
  <2>1. UNCHANGED <<lock, dead>>
    BY <1>4 DEF ExpireMark
  <2>2. \A t \in Tasks : /\ row'[t].by = row[t].by
                         /\ row'[t].status = "running" => row[t].status = "running"
                         /\ t = loc[n].old => row'[t].status # "running"
    BY <1>0, <1>4 DEF MarkLeaseExpired, RowType
  <2>3. /\ loc'[n].pc = "expireDelete" /\ loc'[n].old = loc[n].old
        /\ \A m \in Runners : m # n => loc'[m] = loc[m]
    BY <1>4, LoopFrame
  <2>4. LeaseShape' /\ RunningIsNamed'
    BY <2>1, <2>2 DEF LeaseShape, RunningIsNamed, NoLock
  <2>5. ClaimerHolds'
    BY <2>1, <2>2, <2>3 DEF ClaimerHolds, Acquiring, Claiming, HoldsLease, HeldBy
  <2>6. StaleCoversNothing'
    BY <2>1, <2>2, <2>3 DEF StaleCoversNothing, LeaseShape, Acquiring
  <2> QED
    BY <2>4, <2>5, <2>6
<1>5. CASE ExpireDelete(n) /\ UNCHANGED lock
  BY <1>5, LoopFrame, QuietStep DEF ExpireDelete, Idle, Acquiring, Claiming, RowsCalm
<1>6. CASE /\ ExpireDelete(n) /\ lock' = NoLock
           /\ HeldBy(loc[n].by, loc[n].old) /\ n \in lock.late
  <2>1. UNCHANGED <<row, dead>> /\ loc[n].pc = "expireDelete"
    BY <1>6 DEF ExpireDelete, At
  <2>2. /\ ~ Acquiring(n)' /\ ~ Claiming(n)' /\ loc'[n].pc # "expireDelete"
        /\ \A m \in Runners : m # n => loc'[m] = loc[m]
    BY <1>6, LoopFrame DEF ExpireDelete, Acquiring, Claiming
  <2>3. row[lock.task].status # "running" /\ lock.task \in Tasks /\ lock.left < 0
    BY <1>6, <2>1 DEF StaleCoversNothing, HeldBy, LeaseShape
  <2>4. \A t \in Tasks : row'[t].status # "running"
    BY <2>1, <2>3 DEF RunningIsNamed
  <2>5. \A m \in Runners : ~ Claiming(m)
    BY <1>0, <2>3 DEF ClaimerHolds, HoldsLease, LockType
  <2>6. lock'.late = {}
    BY <1>6 DEF NoLock
  <2>7. LeaseShape' /\ RunningIsNamed' /\ StaleCoversNothing'
    BY <1>6, <2>4, <2>6 DEF LeaseShape, RunningIsNamed, StaleCoversNothing
  <2>8. ClaimerHolds'
    BY <2>1, <2>2, <2>5 DEF ClaimerHolds, Acquiring, Claiming
  <2> QED
    BY <2>7, <2>8
<1> QED
  BY <1>1, <1>2, <1>3, <1>4, <1>5, <1>6 DEF ExpireMark, ExpireDelete

\* Creating a row, running a handler to its end and crashing leave the lease
\* alone.
LEMMA OtherStep ==
  ASSUME Leases,
         \/ \E t \in Tasks : Enqueue(t)
         \/ \E n \in Runners : Schedule(n) \/ Crash(n)
         \/ \E n \in Runners, t \in Tasks, status \in {"succeeded", "failed"} : Finish(n, t, status)
  PROVE  LeaseInv'
<1> USE DEF Leases
<1>0. row \in RowType
  BY DEF TypeOK
<1>1. ASSUME NEW t \in Tasks, Create(t) PROVE RowsCalm
  BY <1>0, <1>1 DEF Create, RowType, RowsCalm
<1>2. ASSUME NEW t \in Tasks, Enqueue(t) PROVE LeaseInv'
  BY <1>1, <1>2, QuietStep DEF Enqueue
<1>3. ASSUME NEW n \in Runners, Schedule(n) PROVE LeaseInv'
  BY <1>1, <1>3, LoopFrame, QuietStep DEF Schedule, Idle, Acquiring, Claiming, RowsCalm
<1>4. ASSUME NEW n \in Runners, Crash(n) PROVE LeaseInv'
  BY <1>4, LoopFrame, QuietStep DEF Crash, Idle, Acquiring, Claiming, RowsCalm
<1>5. ASSUME NEW n \in Runners, NEW t \in Tasks, NEW status \in {"succeeded", "failed"},
             Finish(n, t, status)
      PROVE  LeaseInv'
  <2>1. RowsCalm
    BY <1>0, <1>5 DEF Finish, RowType, RowsCalm
  <2> QED
    BY <1>5, <2>1, QuietStep DEF Finish
<1> QED
  BY <1>2, <1>3, <1>4, <1>5

\* Looking for a task and for its lease: a claimer that finds the lease stale
\* has seen a pending row, so that the row of the lease is not running.
LEMMA FindStep ==
  ASSUME Leases, NEW n \in Runners, ClaimFind(n) \/ AcquireRead(n)
  PROVE  LeaseInv'
<1> USE DEF Leases, LeaseInv
<1>0. row \in RowType /\ lock \in LockType /\ loc \in LocType
  BY DEF TypeOK
<1>1. CASE UNCHANGED lock /\ GoTop(n)
  BY <1>1, LoopFrame, QuietStep
     DEF ClaimFind, AcquireRead, Idle, Acquiring, Claiming, RowsCalm
<1>2. ASSUME NEW t \in Tasks, ReadNow(n), row[t].status = "pending", n \notin dead,
             loc' = [loc EXCEPT ![n] = [TopOfLoop EXCEPT !.pc = "acquire", !.task = t]],
             UNCHANGED <<row, dead>>
      PROVE  LeaseInv'
  <2>0. NoRunner \notin Runners
    BY SystemTaskAssumption DEF SystemTaskAssumption
  <2>1. /\ loc'[n].pc = "acquire" /\ loc'[n].task = t
        /\ \A m \in Runners : m # n => loc'[m] = loc[m]
    BY <1>0, <1>2 DEF LocType, TopOfLoop
  <2>2. /\ lock'.task = lock.task /\ lock'.by = lock.by /\ lock'.left = lock.left
        /\ lock' # NoLock <=> lock # NoLock
        /\ lock'.late = lock.late \/ (lock'.late = lock.late \cup {n} /\ Stale)
    BY <1>0, <1>2 DEF ReadNow, LockType, Stale, NoLock
  <2>3. \A u \in Tasks : row[u].status # "running"
    BY <1>2 DEF OneActiveRow, Active
  <2>4. LeaseShape'
    BY <2>2 DEF LeaseShape, Stale
  <2>5. row[t].by # n
    BY <1>2, <2>0 DEF OneActiveRow
  <2>6. ClaimerHolds'
    BY <1>2, <2>1, <2>2, <2>5 DEF ClaimerHolds, Acquiring, Claiming, HoldsLease, HeldBy
  <2>7. RunningIsNamed' /\ StaleCoversNothing'
    BY <1>2, <2>3, <2>4 DEF RunningIsNamed, StaleCoversNothing, LeaseShape
  <2> QED
    BY <2>4, <2>6, <2>7
<1>3. CASE ClaimFind(n)
  BY <1>1, <1>2, <1>3 DEF ClaimFind, At
<1>4. ASSUME AcquireRead(n), ~ GoTop(n) PROVE LeaseInv'
  <2>1. /\ loc' = [loc EXCEPT ![n] = [loc[n] EXCEPT !.pc = "takeover", !.old = lock.task]]
        /\ UNCHANGED <<row, lock, dead>> /\ loc[n].pc = "acquireRead"
    BY <1>4 DEF AcquireRead, At
  <2>2. /\ loc'[n].pc = "takeover" /\ loc'[n].task = loc[n].task
        /\ \A m \in Runners : m # n => loc'[m] = loc[m]
    <3>1. loc[n] \in LoopType
      BY <1>0 DEF LocType
    <3> QED
      BY <1>0, <2>1, <3>1 DEF LocType, LoopType
  <2>3. LeaseShape' /\ RunningIsNamed'
    BY <2>1 DEF LeaseShape, RunningIsNamed, NoLock
  <2>4. ClaimerHolds'
    BY <2>1, <2>2 DEF ClaimerHolds, Acquiring, Claiming, HoldsLease, HeldBy
  <2>5. StaleCoversNothing'
    BY <2>1, <2>2 DEF StaleCoversNothing, Acquiring
  <2> QED
    BY <2>3, <2>4, <2>5
<1> QED
  BY <1>1, <1>3, <1>4 DEF AcquireRead

\* Taking the lease: no row is running and no one else claims, and the lease is
\* alive when it is written.
LEMMA AcquireStep ==
  ASSUME Leases, NEW n \in Runners, AcquireInsert(n) \/ Takeover(n)
  PROVE  LeaseInv'
<1> USE DEF Leases, LeaseInv
<1>0. row \in RowType /\ lock \in LockType /\ loc \in LocType
  BY DEF TypeOK
<1>1. ASSUME GoTop(n), UNCHANGED <<row, lock, dead>> PROVE LeaseInv'
  BY <1>1, LoopFrame, QuietStep DEF Idle, Acquiring, Claiming, RowsCalm
<1>2. ASSUME At(n, "acquire"), Go(n, "acquireRead"), UNCHANGED <<row, lock, dead>>
      PROVE  LeaseInv'
  <2>1. /\ loc[n].pc = "acquire" /\ loc'[n].pc = "acquireRead" /\ loc'[n].task = loc[n].task
        /\ \A m \in Runners : m # n => loc'[m] = loc[m]
    BY <1>2, LoopFrame DEF At
  <2>2. LeaseShape' /\ RunningIsNamed'
    BY <1>2 DEF LeaseShape, RunningIsNamed, NoLock
  <2>3. ClaimerHolds'
    BY <1>2, <2>1 DEF ClaimerHolds, Acquiring, Claiming, HoldsLease, HeldBy
  <2>4. StaleCoversNothing'
    BY <1>2, <2>1 DEF StaleCoversNothing, Acquiring
  <2> QED
    BY <2>2, <2>3, <2>4
<1>3. ASSUME Acquiring(n), lock = NoLock \/ n \in lock.late, NEW left \in LeaseLeft,
             lock' = NewLock(loc[n].task, n, left), UNCHANGED <<row, dead>>,
             NEW pc \in {"setRunning", "markOld"}, Go(n, pc)
      PROVE  LeaseInv'
  <2>1. /\ loc'[n].pc = pc /\ loc'[n].task = loc[n].task
        /\ \A m \in Runners : m # n => loc'[m] = loc[m]
    BY <1>3, LoopFrame
  <2>2. loc[n].task \in Tasks /\ row[loc[n].task].by # n /\ n \notin dead
    BY <1>3 DEF ClaimerHolds
  <2>3. \A t \in Tasks : row[t].status # "running"
    <3>1. CASE lock = NoLock
      <4>1. NoTask \notin Tasks
        BY SystemTaskAssumption DEF SystemTaskAssumption
      <4> QED
        BY <3>1, <4>1 DEF RunningIsNamed, NoLock
    <3>2. CASE n \in lock.late
      BY <1>3, <3>2 DEF RunningIsNamed, StaleCoversNothing
    <3> QED
      BY <1>3, <3>1, <3>2
  <2>4. \A m \in Runners : ~ Claiming(m)
    <3>1. CASE lock = NoLock
      <4>1. NoTask \notin Tasks
        BY SystemTaskAssumption DEF SystemTaskAssumption
      <4> QED
        BY <3>1, <4>1 DEF ClaimerHolds, HoldsLease, HeldBy, NoLock
    <3>2. CASE n \in lock.late
      <4>1. lock.left < 0 /\ lock.left \in Int
        BY <1>0, <3>2, TTLType DEF LeaseShape, LockType
      <4> QED
        BY <4>1 DEF ClaimerHolds, HoldsLease
    <3> QED
      BY <1>3, <3>1, <3>2
  <2>5. lock'.task = loc[n].task /\ lock'.by = n /\ lock'.left >= 0 /\ lock'.late = {}
    BY <1>3, TTLType DEF NewLock, LeaseLeft
  <2>6. LeaseShape' /\ RunningIsNamed' /\ StaleCoversNothing'
    BY <1>3, <2>2, <2>3, <2>5 DEF LeaseShape, RunningIsNamed, StaleCoversNothing
  <2>7. ClaimerHolds'
    BY <1>3, <2>1, <2>2, <2>3, <2>4, <2>5
       DEF ClaimerHolds, Acquiring, Claiming, HoldsLease, HeldBy
  <2> QED
    BY <2>6, <2>7
<1> QED
  BY <1>1, <1>2, <1>3 DEF AcquireInsert, Takeover, Acquiring, At

\* The claim itself: its row is set running under the lease, or the lease is
\* given back while no row is running.
LEMMA ClaimStep ==
  ASSUME Leases, NEW n \in Runners, MarkOld(n) \/ SetRunning(n) \/ Unclaim(n)
  PROVE  LeaseInv'
<1> USE DEF Leases, LeaseInv
<1>0. row \in RowType /\ lock \in LockType /\ loc \in LocType
  BY DEF TypeOK
<1> DEFINE t == loc[n].task
<1>1. /\ Claiming(n) /\ t \in Tasks /\ lock.task = t /\ lock.by = n /\ lock.late = {}
      /\ row[t].status # "running" /\ n \notin dead
  <2>1. Claiming(n) /\ n \notin dead
    BY DEF MarkOld, SetRunning, Unclaim, At, Claiming
  <2>2. lock.left \in Int /\ lock.left >= 0
    BY <1>0, <2>1, TTLType DEF ClaimerHolds, HoldsLease, LockType
  <2> QED
    BY <2>1, <2>2 DEF ClaimerHolds, HoldsLease, HeldBy, LeaseShape
<1>2. \A m \in Runners : m # n => ~ Claiming(m)
  BY <1>1 DEF ClaimerHolds, HoldsLease, HeldBy
<1>3. ASSUME UNCHANGED <<lock, dead>>, RowsCalm, NEW pc \in {"setRunning", "unclaim"}, Go(n, pc)
      PROVE  LeaseInv'
  <2>1. /\ loc'[n].pc = pc /\ loc'[n].task = t
        /\ \A m \in Runners : m # n => loc'[m] = loc[m]
    BY <1>3, LoopFrame
  <2>2. LeaseShape' /\ RunningIsNamed' /\ StaleCoversNothing'
    BY <1>1, <1>3 DEF LeaseShape, RunningIsNamed, StaleCoversNothing, RowsCalm, NoLock
  <2>3. NoRunner \notin Runners
    BY SystemTaskAssumption DEF SystemTaskAssumption
  <2>4. \A m \in Runners : Acquiring(m)' \/ Claiming(m)' =>
          /\ m \notin dead' /\ loc'[m].task \in Tasks /\ row'[loc'[m].task].by # m
    BY <1>1, <1>3, <2>1, <2>3 DEF ClaimerHolds, Acquiring, Claiming, RowsCalm
  <2>5. \A m \in Runners : Claiming(m)' =>
          HoldsLease(m, loc[m].task)' /\ row'[loc'[m].task].status # "running"
    BY <1>1, <1>2, <1>3, <2>1 DEF ClaimerHolds, Claiming, HoldsLease, HeldBy, RowsCalm
  <2> QED
    BY <2>2, <2>4, <2>5 DEF ClaimerHolds
<1>4. CASE MarkOld(n)
  <2>1. RowsCalm
    BY <1>0, <1>4 DEF MarkOld, MarkLeaseExpired, RowType, RowsCalm
  <2> QED
    BY <1>3, <1>4, <2>1 DEF MarkOld
<1>5. CASE SetRunning(n) /\ UNCHANGED row /\ Go(n, "unclaim")
  BY <1>3, <1>5 DEF SetRunning, RowsCalm
<1>6. CASE /\ SetRunning(n) /\ GoTop(n)
           /\ row' = [row EXCEPT ![t].status = "running", ![t].by = n]
  <2>1. UNCHANGED <<lock, dead>>
    BY <1>6 DEF SetRunning
  <2>2. /\ loc'[n].pc = "expire" /\ \A m \in Runners : m # n => loc'[m] = loc[m]
    BY <1>6, LoopFrame
  <2>3. row'[t].by = n /\ \A u \in Tasks : u # t => row'[u] = row[u]
    BY <1>0, <1>1, <1>6 DEF RowType
  <2>4. LeaseShape' /\ RunningIsNamed' /\ StaleCoversNothing'
    BY <1>1, <2>1, <2>3 DEF LeaseShape, RunningIsNamed, StaleCoversNothing, NoLock
  <2>5. ClaimerHolds'
    BY <1>2, <2>1, <2>2, <2>3 DEF ClaimerHolds, Acquiring, Claiming
  <2> QED
    BY <2>4, <2>5
<1>7. CASE Unclaim(n) /\ UNCHANGED lock
  BY <1>7, LoopFrame, QuietStep DEF Unclaim, Idle, Acquiring, Claiming, RowsCalm
<1>8. CASE Unclaim(n) /\ lock' = NoLock
  <2>1. UNCHANGED <<row, dead>> /\ GoTop(n)
    BY <1>8 DEF Unclaim
  <2>2. loc'[n].pc = "expire" /\ \A m \in Runners : m # n => loc'[m] = loc[m]
    BY <2>1, LoopFrame
  <2>3. \A u \in Tasks : row'[u].status # "running"
    BY <1>1, <2>1 DEF RunningIsNamed
  <2>4. LeaseShape' /\ RunningIsNamed' /\ StaleCoversNothing'
    BY <1>8, <2>3 DEF LeaseShape, RunningIsNamed, StaleCoversNothing, NoLock
  <2>5. ClaimerHolds'
    BY <1>2, <2>1, <2>2 DEF ClaimerHolds, Acquiring, Claiming
  <2> QED
    BY <2>4, <2>5
<1> QED
  BY <1>4, <1>5, <1>6, <1>7, <1>8 DEF SetRunning, Unclaim, ReleaseLock

\* The heartbeat, the release at the end of a handler, and the passing of time.
LEMMA HeartbeatStep ==
  ASSUME Leases,
         \/ \E n \in Runners, t \in Tasks : Renew(n, t) \/ FinishRelease(n, t)
         \/ Tick
  PROVE  LeaseInv'
<1> USE DEF Leases, LeaseInv
<1>0. lock \in LockType /\ TTL \in Nat
  BY TTLType DEF TypeOK
<1>1. ASSUME UNCHANGED <<row, loc, dead>>, lock # NoLock, lock.left >= 0,
             lock'.task = lock.task, lock'.by = lock.by, lock'.late = lock.late,
             \A m \in Runners : Claiming(m) => lock'.left >= 0
      PROVE  LeaseInv'
  <2>1. lock.late = {}
    BY <1>0, <1>1 DEF LeaseShape, LockType
  <2>2. LeaseShape' /\ StaleCoversNothing'
    BY <1>1, <2>1 DEF LeaseShape, StaleCoversNothing
  <2>3. ClaimerHolds' /\ RunningIsNamed'
    BY <1>1 DEF ClaimerHolds, RunningIsNamed, Acquiring, Claiming, HoldsLease, HeldBy
  <2> QED
    BY <2>2, <2>3
<1>2. ASSUME NEW n \in Runners, NEW t \in Tasks, Renew(n, t) PROVE LeaseInv'
  <2>1. lock # NoLock
    <3>1. NoTask \notin Tasks
      BY SystemTaskAssumption DEF SystemTaskAssumption
    <3> QED
      BY <1>2, <3>1 DEF Renew, HoldsLease, HeldBy, NoLock
  <2>2. /\ lock'.task = lock.task /\ lock'.by = lock.by /\ lock'.late = lock.late
        /\ lock'.left >= 0
    BY <1>0, <1>2 DEF Renew, LockType
  <2> QED
    BY <1>1, <1>2, <2>1, <2>2 DEF Renew, HoldsLease
<1>3. CASE Tick
  <2>1. /\ lock'.task = lock.task /\ lock'.by = lock.by /\ lock'.late = lock.late
        /\ lock.left \in Int /\ lock'.left = lock.left - 1
    BY <1>0, <1>3 DEF Tick, LockType
  <2>2. \A m \in Runners : Claiming(m) => lock'.left >= 0
    BY <1>3, <2>1 DEF Tick, ClaimerHolds, HoldsLease, HeldBy
  <2> QED
    BY <1>1, <1>3, <2>1, <2>2 DEF Tick
<1>4. ASSUME NEW n \in Runners, NEW t \in Tasks, FinishRelease(n, t) PROVE LeaseInv'
  <2>1. UNCHANGED <<row, loc, dead>> /\ row[t].by = n /\ row[t].status # "running"
    BY <1>4 DEF FinishRelease, HandlerOwnsRow
  <2>2. CASE UNCHANGED lock
    BY <2>1, <2>2, QuietStep DEF RowsCalm
  <2>3. CASE lock' = NoLock /\ HeldBy(n, t)
    <3>1. \A u \in Tasks : row'[u].status # "running"
      BY <2>1, <2>3 DEF RunningIsNamed, HeldBy
    <3>2. \A m \in Runners : ~ Claiming(m)
      BY <2>1, <2>3 DEF ClaimerHolds, HoldsLease, HeldBy
    <3>3. LeaseShape' /\ RunningIsNamed' /\ StaleCoversNothing'
      BY <2>3, <3>1 DEF LeaseShape, RunningIsNamed, StaleCoversNothing, NoLock
    <3>4. ClaimerHolds'
      BY <2>1, <3>2 DEF ClaimerHolds, Acquiring, Claiming
    <3> QED
      BY <3>3, <3>4
  <2> QED
    BY <1>4, <2>2, <2>3 DEF FinishRelease, ReleaseLock
<1> QED
  BY <1>2, <1>3, <1>4

\* A running row is covered by the lease of its type at all times, so that
\* ExpireStaleSystemTaskLocks finds it when its node is gone: no row stays
\* running, and blocks its type, for ever.  This needs claims that take less
\* than systemTaskLockTTL and rows that all carry their active_key.
THEOREM RunningLeased == PromptClaims /\ LegacyTasks = {} /\ Spec => []RunningIsLeased
<1>1. PromptClaims /\ LegacyTasks = {} /\ Init /\ TypeOK => Leases
  <2> SUFFICES ASSUME PromptClaims, LegacyTasks = {}, Init, TypeOK PROVE Leases
    OBVIOUS
  <2>1. \A t \in Tasks : row[t] = [status |-> "none", by |-> NoRunner, key |-> FALSE]
    BY DEF Init
  <2>2. HandlerOwnsRow /\ OneActiveRow /\ RunningIsNamed
    BY <2>1 DEF Init, HandlerOwnsRow, OneActiveRow, Active, RunningIsNamed
  <2>3. LeaseShape /\ StaleCoversNothing
    BY <2>1 DEF Init, NoLock, LeaseShape, StaleCoversNothing
  <2>4. ClaimerHolds
    BY DEF Init, TopOfLoop, ClaimerHolds, Acquiring, Claiming
  <2> QED
    BY <2>2, <2>3, <2>4 DEF Leases, LeaseInv
<1>2. Leases /\ [Next]_vars => Leases'
  <2> SUFFICES ASSUME Leases, [Next]_vars PROVE Leases'
    OBVIOUS
  <2>1. TypeOK' /\ HandlerOwnsRow' /\ OneActiveRow'
    BY TypeStep, HandlerStep, ActiveStep DEF Leases
  <2>2. ASSUME UNCHANGED vars PROVE LeaseInv'
    <3>1. UNCHANGED <<row, lock, loc, dead>>
      BY <2>2 DEF vars
    <3> QED
      BY <3>1, QuietStep DEF RowsCalm
  <2>3. LeaseInv'
    BY <2>2, ExpireStep, OtherStep, FindStep, AcquireStep, ClaimStep, HeartbeatStep
       DEF Next, RunnerStep, HandlerEnds
  <2> QED
    BY <2>1, <2>3 DEF Leases
<1>3. Leases => RunningIsLeased
  BY DEF Leases, LeaseInv, RunningIsNamed, RunningIsLeased
<1> QED
  BY <1>1, <1>2, <1>3, TypeCorrect, PTL DEF Spec
=============================================================================
