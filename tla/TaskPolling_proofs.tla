------------------------- MODULE TaskPolling_proofs -------------------------
(***************************************************************************)
(* Proofs about TaskPolling: type correctness, and the money of the video  *)
(* tasks, for any number of tasks and polling nodes, any set of failing    *)
(* statements and any bounds.                                              *)
(***************************************************************************)
EXTENDS TaskPolling, TLAPS

\* What the steps leave unchanged together.
USE DEF failures

PCs == {"none", "listed", "refund", "refundToken", "settle", "settleToken", "quota", "save"}

\* The objects a pass or a fetch holds keep their type.
LEMMA NoJobType == NoJob \in Mem(PCs) /\ NoJob \in Mem({"none", "read"})
  BY DEF NoJob, Mem, PCs, Status

\* What a pass or a fetch holds of a task has the type of a job.
LEMMA JobType ==
  ASSUME TypeOK, NEW p \in Pollers, NEW t \in Tasks
  PROVE  /\ job[p][t] \in Mem(PCs)
         /\ job[p][t].pc \in PCs /\ job[p][t].status \in Status /\ job[p][t].done \in BOOLEAN
         /\ job[p][t].quota \in Nat /\ job[p][t].actual \in Nat
  BY DEF TypeOK, Mem, PCs

\* A row has the type of a row, field by field.
LEMMA RowType ==
  ASSUME TypeOK, NEW t \in Tasks
  PROVE  /\ row[t] \in [status: Status, done: BOOLEAN, quota: Nat]
         /\ row[t].status \in Status /\ row[t].done \in BOOLEAN /\ row[t].quota \in Nat
         /\ taken[t].funding \in Int /\ taken[t].token \in Int
         /\ taken[t] \in [funding: Int, token: Int]
  BY DEF TypeOK

\* The initial state is well typed.
LEMMA InitType == Init => TypeOK
  BY NoJobType, TaskAssumption DEF Init, TypeOK, PCs, Status

\* A statement that fails is recorded with a name the model knows.
LEMMA FailsType ==
  ASSUME TypeOK, NEW t \in Tasks, NEW f \in AllFaults, Fails(t, f)
  PROVE  hurt' \in [Tasks -> SUBSET AllFaults] /\ faults' \in Nat
  BY DEF TypeOK, Fails

RowSet == [status: Status, done: BOOLEAN, quota: Nat]

\* A statement that writes a row keeps its type.
LEMMA SetRowType ==
  ASSUME TypeOK, NEW t \in Tasks, NEW s \in Status, NEW d \in BOOLEAN, NEW q \in Nat,
         SetRow(t, s, d, q)
  PROVE  row' \in [Tasks -> RowSet]
  BY DEF TypeOK, SetRow, RowSet

\* A charge or a refund keeps the books integers.
LEMMA ChargeType ==
  ASSUME TypeOK, NEW t \in Tasks, NEW f \in Int, NEW k \in Int, Charge(t, f, k)
  PROVE  taken' \in [Tasks -> [funding: Int, token: Int]]
  BY RowType DEF TypeOK, Charge

\* A change of one job keeps the type of them all.
LEMMA JobUpdateType ==
  ASSUME TypeOK, NEW p \in Pollers, NEW t \in Tasks, NEW m \in Mem(PCs),
         job' = [job EXCEPT ![p][t] = m]
  PROVE  job' \in [Pollers -> [Tasks -> Mem(PCs)]]
  BY DEF TypeOK, PCs

\* Ending a job keeps the types.
LEMMA FinishType ==
  ASSUME TypeOK, NEW p \in Pollers, NEW t \in Tasks, Finish(p, t)
  PROVE  job' \in [Pollers -> [Tasks -> Mem(PCs)]]
  BY NoJobType, JobUpdateType DEF Finish

\* Holding a new copy of the task, at a known step, keeps the types.
LEMMA HoldType ==
  ASSUME TypeOK, NEW p \in Pollers, NEW t \in Tasks, NEW c \in PCs, NEW s \in Status,
         NEW d \in BOOLEAN, NEW a \in Nat, Hold(p, t, c, s, d, a)
  PROVE  job' \in [Pollers -> [Tasks -> Mem(PCs)]]
<1> DEFINE m == IF c = "none" THEN NoJob
                ELSE [pc |-> c, status |-> s, done |-> d, quota |-> job[p][t].quota, actual |-> a]
<1>1. m \in Mem(PCs)
  BY NoJobType, JobType DEF Mem
<1>2. job' = [job EXCEPT ![p][t] = m]
  BY DEF Hold
<1> QED
  BY <1>1, <1>2, JobUpdateType

\* Going to another step keeps the types.
LEMMA GotoType ==
  ASSUME TypeOK, NEW p \in Pollers, NEW t \in Tasks, NEW c \in PCs, Goto(p, t, c)
  PROVE  job' \in [Pollers -> [Tasks -> Mem(PCs)]]
  BY HoldType, JobType DEF Goto

\* A pass lists rows, or drops the objects it holds.
LEMMA ListType ==
  ASSUME TypeOK, NEW p \in Pollers, NEW S \in SUBSET Tasks,
         List(p, S) \/ job' = [job EXCEPT ![p] = [t \in Tasks |-> NoJob]]
  PROVE  job' \in [Pollers -> [Tasks -> Mem(PCs)]]
<1>1. \A t \in Tasks : [pc |-> "listed", status |-> row[t].status, done |-> row[t].done,
                        quota |-> row[t].quota, actual |-> 0] \in Mem(PCs)
  BY RowType DEF Mem, PCs
<1>2. job \in [Pollers -> [Tasks -> Mem(PCs)]]
  BY DEF TypeOK, PCs
<1> QED
  BY <1>1, <1>2, NoJobType DEF List

\* Task.UpdateWithStatus keeps the types, whether it wins, loses or fails.
LEMMA UpdateType ==
  ASSUME TypeOK, NEW p \in Pollers, NEW t \in Tasks, NEW s \in Live \cup Terminal,
         NEW d \in BOOLEAN, NEW next \in PCs, UpdateWithStatus(p, t, s, d, next)
  PROVE  /\ row' \in [Tasks -> RowSet]
         /\ job' \in [Pollers -> [Tasks -> Mem(PCs)]]
         /\ hurt' \in [Tasks -> SUBSET AllFaults] /\ faults' \in Nat
<1>0. s \in Status /\ 0 \in Nat /\ job[p][t].quota \in Nat
  BY JobType DEF Status
<1>1. CASE Won(p, t, s, d, next)
  <2>3. job' \in [Pollers -> [Tasks -> Mem(PCs)]]
    BY <1>0, <1>1, HoldType DEF Won
  <2>4. row' \in [Tasks -> RowSet]
    BY <1>0, <1>1, SetRowType DEF Won
  <2> QED
    BY <1>1, <2>3, <2>4 DEF Won, NoFailure, TypeOK, RowSet
<1>2. CASE Lost(p, t)
  BY <1>2, FinishType DEF Lost, NoFailure, TypeOK, RowSet
<1>3. CASE CasFails(p, t, s, d)
  <2>1. hurt' \in [Tasks -> SUBSET AllFaults] /\ faults' \in Nat
    BY <1>3, FailsType DEF CasFails, AllFaults
  <2>2. row' \in [Tasks -> RowSet]
    <3>1. CASE UNCHANGED row
      BY <3>1 DEF TypeOK, RowSet
    <3>2. CASE SetRow(t, s, d, job[p][t].quota)
      BY <1>0, <3>2, SetRowType
    <3> QED
      BY <1>3, <3>1, <3>2 DEF CasFails
  <2> QED
    BY <1>3, <2>1, <2>2, FinishType DEF CasFails
<1> QED
  BY <1>1, <1>2, <1>3 DEF UpdateWithStatus

\* The steps of a pass on one task keep the types.
LEMMA UpdateStepType ==
  ASSUME TypeOK, NEW p \in Pollers, NEW t \in Tasks, Update(p, t)
  PROVE  TypeOK'
<1> USE DEF PCs
<1>0. "none" \in PCs /\ "refund" \in PCs /\ "settle" \in PCs /\ AfterRefund(p, t) \in PCs
  BY DEF AfterRefund
<1>1. CASE SweepTask(p, t)
  <2>1. PICK c \in PCs : UpdateWithStatus(p, t, "FAILURE", TRUE, c)
    BY <1>1, <1>0 DEF SweepTask
  <2> QED
    BY <1>1, <2>1, UpdateType DEF SweepTask, TypeOK, RowSet, Terminal, user
<1>2. CASE FailInBulk(p, t)
  <2>1. row' \in [Tasks -> RowSet] /\ job' \in [Pollers -> [Tasks -> Mem(PCs)]]
    BY <1>2, RowType, SetRowType, FinishType DEF FailInBulk, Status, Terminal
  <2> QED
    BY <1>2, <2>1 DEF FailInBulk, TypeOK, RowSet, user
<1>3. CASE SkipTask(p, t)
  BY <1>3, FinishType DEF SkipTask, TypeOK, RowSet, user
<1>4. CASE updateVideoSingleTask(p, t)
  <2>1. PICK s \in Live \cup Terminal, d \in BOOLEAN, c \in PCs : UpdateWithStatus(p, t, s, d, c)
    BY <1>4, <1>0 DEF updateVideoSingleTask, Live, Terminal
  <2> QED
    BY <1>4, <2>1, UpdateType DEF updateVideoSingleTask, TypeOK, RowSet, user
<1>5. CASE updateSunoTask(p, t)
  <2>1. PICK s \in Status, d \in BOOLEAN, c \in PCs : Hold(p, t, c, s, d, 0)
    BY <1>5, JobType DEF updateSunoTask, Status, Live, Terminal
  <2> QED
    BY <1>5, <2>1, HoldType DEF updateSunoTask, TypeOK, RowSet, user
<1>6. CASE SaveSunoTask(p, t)
  BY <1>6, JobType, SetRowType, FinishType DEF SaveSunoTask, TypeOK, RowSet, user
<1>7. CASE RefundFunding(p, t)
  <2>1. taken' \in [Tasks -> [funding: Int, token: Int]]
    BY <1>7, JobType, ChargeType DEF RefundFunding, TypeOK
  <2>2. job' \in [Pollers -> [Tasks -> Mem(PCs)]]
    BY <1>7, <1>0, GotoType DEF RefundFunding
  <2>3. hurt' \in [Tasks -> SUBSET AllFaults] /\ faults' \in Nat
    BY <1>7, FailsType DEF RefundFunding, NoFailure, TypeOK, AllFaults
  <2> QED
    BY <1>7, <2>1, <2>2, <2>3 DEF RefundFunding, TypeOK, RowSet, user
<1>8. CASE RefundToken(p, t)
  <2>1. taken' \in [Tasks -> [funding: Int, token: Int]]
    BY <1>8, JobType, ChargeType DEF RefundToken, TypeOK
  <2>2. job' \in [Pollers -> [Tasks -> Mem(PCs)]]
    BY <1>8, <1>0, GotoType DEF RefundToken
  <2>3. hurt' \in [Tasks -> SUBSET AllFaults] /\ faults' \in Nat
    BY <1>8, FailsType DEF RefundToken, NoFailure, TypeOK, AllFaults
  <2> QED
    BY <1>8, <2>1, <2>2, <2>3 DEF RefundToken, TypeOK, RowSet, user
<1>9. CASE KeepCharge(p, t)
  BY <1>9, FinishType DEF KeepCharge, TypeOK, RowSet, user
<1>10. CASE SettleFunding(p, t)
  <2>1. PICK a \in Actuals \ {0, job[p][t].quota} :
          \/ /\ Charge(t, a - job[p][t].quota, 0)
             /\ Hold(p, t, "settleToken", "SUCCESS", TRUE, a)
             /\ NoFailure
          \/ Fails(t, "funding") /\ Finish(p, t) /\ UNCHANGED taken
    BY <1>10 DEF SettleFunding
  <2>2. a \in Nat
    BY TaskAssumption
  <2>3. taken' \in [Tasks -> [funding: Int, token: Int]]
    <3>1. a - job[p][t].quota \in Int /\ 0 \in Int
      BY <2>2, JobType
    <3> QED
      BY <2>1, <3>1, ChargeType DEF TypeOK
  <2>4. job' \in [Pollers -> [Tasks -> Mem(PCs)]]
    BY <2>1, <2>2, HoldType, FinishType DEF Status, Terminal
  <2>5. hurt' \in [Tasks -> SUBSET AllFaults] /\ faults' \in Nat
    BY <2>1, FailsType DEF NoFailure, TypeOK, AllFaults
  <2> QED
    BY <1>10, <2>3, <2>4, <2>5 DEF SettleFunding, TypeOK, RowSet, user
<1>11. CASE SettleToken(p, t)
  <2>1. taken' \in [Tasks -> [funding: Int, token: Int]]
    BY <1>11, JobType, ChargeType DEF SettleToken, TypeOK
  <2>2. job' \in [Pollers -> [Tasks -> Mem(PCs)]]
    BY <1>11, <1>0, GotoType DEF SettleToken
  <2>3. hurt' \in [Tasks -> SUBSET AllFaults] /\ faults' \in Nat
    BY <1>11, FailsType DEF SettleToken, NoFailure, TypeOK, AllFaults
  <2> QED
    BY <1>11, <2>1, <2>2, <2>3 DEF SettleToken, TypeOK, RowSet, user
<1>12. CASE UpdateQuota(p, t)
  <2>1. row' \in [Tasks -> RowSet]
    BY <1>12, RowType, JobType, SetRowType DEF UpdateQuota, TypeOK, RowSet
  <2>2. hurt' \in [Tasks -> SUBSET AllFaults] /\ faults' \in Nat
    BY <1>12, FailsType DEF UpdateQuota, NoFailure, TypeOK, AllFaults
  <2> QED
    BY <1>12, <2>1, <2>2, FinishType DEF UpdateQuota, TypeOK, RowSet, user
<1> QED
  BY <1>1, <1>2, <1>3, <1>4, <1>5, <1>6, <1>7, <1>8, <1>9, <1>10, <1>11, <1>12 DEF Update

\* Every step keeps the types.
LEMMA StepType == TypeOK /\ [Next]_vars => TypeOK'
<1> SUFFICES ASSUME TypeOK, [Next]_vars PROVE TypeOK'
  OBVIOUS
<1>1. ASSUME NEW p \in Pollers, NEW t \in Tasks, Update(p, t) PROVE TypeOK'
  BY <1>1, UpdateStepType
<1>2. ASSUME NEW p \in Pollers, StartPass(p) \/ ReadTasks(p) \/ EndPass(p) \/ Cancel(p)
      PROVE TypeOK'
  <2>1. pass' \in [Pollers -> [phase: {"idle", "sweep", "poll"}, cancelled: BOOLEAN]]
    <3>1. pass[p].phase \in {"idle", "sweep", "poll"} /\ pass[p].cancelled \in BOOLEAN
      BY DEF TypeOK
    <3>2. PICK f \in {"idle", "sweep", "poll"}, c \in BOOLEAN :
            pass' = [pass EXCEPT ![p] = [phase |-> f, cancelled |-> c]]
      BY <1>2, <3>1 DEF StartPass, ReadTasks, EndPass, Cancel
    <3> QED
      BY <3>2 DEF TypeOK
  <2>2. job' \in [Pollers -> [Tasks -> Mem(PCs)]]
    <3>1. CASE Cancel(p)
      BY <3>1 DEF Cancel, TypeOK, PCs
    <3>2. CASE StartPass(p)
      <4>1. /\ List(p, {t \in aged : TimeoutEnabled /\ Unfinished(t)})
            /\ {t \in aged : TimeoutEnabled /\ Unfinished(t)} \in SUBSET Tasks
        BY <3>2 DEF StartPass, TypeOK
      <4> QED
        BY <4>1, ListType
    <3>3. CASE ReadTasks(p)
      <4>1. List(p, {t \in Tasks : Unfinished(t)}) /\ {t \in Tasks : Unfinished(t)} \in SUBSET Tasks
        BY <3>3 DEF ReadTasks
      <4> QED
        BY <4>1, ListType
    <3>4. CASE EndPass(p)
      BY <3>4, ListType DEF EndPass
    <3> QED
      BY <1>2, <3>1, <3>2, <3>3, <3>4
  <2> QED
    BY <1>2, <2>1, <2>2 DEF StartPass, ReadTasks, EndPass, Cancel, TypeOK, RowSet, PCs, user
<1>3. ASSUME NEW p \in Pollers, Crash(p) PROVE TypeOK'
  <2>1. pass' \in [Pollers -> [phase: {"idle", "sweep", "poll"}, cancelled: BOOLEAN]]
    BY <1>3 DEF Crash, TypeOK
  <2>2. job' \in [Pollers -> [Tasks -> Mem(PCs)]]
    BY <1>3, ListType DEF Crash
  <2>3. hurt' \in [Tasks -> SUBSET AllFaults] /\ faults' \in Nat
    BY <1>3 DEF Crash, TypeOK, AllFaults
  <2> QED
    BY <1>3, <2>1, <2>2, <2>3 DEF Crash, TypeOK, RowSet, PCs, user
<1>4. ASSUME NEW t \in Tasks, Settle(t) PROVE TypeOK'
  <2>1. row' \in [Tasks -> RowSet]
    BY <1>4, TaskAssumption, SetRowType DEF Settle, Status
  <2>2. taken' \in [Tasks -> [funding: Int, token: Int]]
    BY <1>4, TaskAssumption, ChargeType DEF Settle
  <2>3. hurt' \in [Tasks -> SUBSET AllFaults] /\ faults' \in Nat
    BY <1>4, FailsType DEF Settle, NoFailure, TypeOK, AllFaults
  <2> QED
    BY <1>4, <2>1, <2>2, <2>3 DEF Settle, TypeOK, RowSet, user
<1>5. ASSUME NEW t \in Tasks, Insert(t) \/ InsertFails(t) \/ Age(t)
      PROVE TypeOK'
  <2>1. CASE Insert(t)
    BY <2>1, RowType, SetRowType DEF Insert, NoFailure, TypeOK, RowSet, Status, Live, user
  <2>2. CASE InsertFails(t)
    BY <2>2, FailsType DEF InsertFails, TypeOK, AllFaults, user
  <2>3. CASE Age(t)
    BY <2>3 DEF Age, TypeOK, RowSet, user
  <2> QED
    BY <1>5, <2>1, <2>2, <2>3
<1>6. ASSUME NEW t \in Tasks, FetchRead(t) PROVE TypeOK'
  BY <1>6, RowType DEF FetchRead, TypeOK, Mem
<1>7. ASSUME NEW t \in Tasks, FetchWrite(t) PROVE TypeOK'
  <2>1. fetch' \in [Tasks -> Mem({"none", "read"})]
    BY <1>7, NoJobType DEF FetchWrite, TypeOK, RowSet
  <2>2. fetch[t].quota \in Nat
    BY DEF TypeOK, Mem
  <2>3. row' \in [Tasks -> RowSet]
    <3>1. {fetch[t].status, "IN_PROGRESS"} \cup Terminal \subseteq Status
      BY DEF TypeOK, Mem, Status, Live
    <3>2. ASSUME NEW s \in Status, NEW d \in BOOLEAN, SetRow(t, s, d, fetch[t].quota)
          PROVE  row' \in [Tasks -> RowSet]
      BY <3>2, <2>2, SetRowType
    <3>3. CASE UNCHANGED row
      BY <3>3 DEF TypeOK, RowSet
    <3> QED
      BY <1>7, <3>1, <3>2, <3>3 DEF FetchWrite
  <2> QED
    BY <1>7, <2>1, <2>3 DEF FetchWrite, TypeOK, RowSet
<1>8. CASE UNCHANGED vars
  BY <1>8 DEF vars, TypeOK
<1> QED
  BY <1>1, <1>2, <1>3, <1>4, <1>5, <1>6, <1>7, <1>8 DEF Next, Run

\* Every variable keeps its type: quotas stay natural, statuses and positions
\* are ones the code has.
THEOREM TypeCorrect == Spec => []TypeOK
<1>1. Init => TypeOK
  BY InitType
<1>2. TypeOK /\ [Next]_vars => TypeOK'
  BY StepType
<1> QED
  BY <1>1, <1>2, PTL DEF Spec

-----------------------------------------------------------------------------
(* The money of a video task.                                               *)

\* A job that has not begun holds the quota the row still has, so that the
\* winner of the update bills the right amount; a job that bills is about the
\* status the row has, or had before it was failed in bulk.
JobOK(p, t) ==
  /\ job[p][t].pc # "save"
  /\ job[p][t].pc # "none" => row[t].status \in Live \cup Terminal
  /\ job[p][t].pc = "listed" =>
       /\ job[p][t].status \in Live
       /\ row[t].status \in Live => job[p][t].quota = row[t].quota
  /\ job[p][t].pc \in {"refund", "refundToken"} => row[t].status = "FAILURE" /\ t \notin kept
  /\ job[p][t].pc \in {"settle", "settleToken", "quota"} => row[t].status = "SUCCESS" \/ t \in kept
  /\ Billing(p, t) => job[p][t].quota = row[t].quota

Alone(t) == \A p, o \in Pollers : (Billing(p, t) /\ Billing(o, t)) => p = o

\* The submission was settled at the quota of the row.
Settled(t) == "settle" \notin hurt[t]

\* What has been paid, at every point of the billing that p does.
Progress(p, t) ==
  /\ job[p][t].pc = "refund" =>
       taken[t].funding = taken[t].token /\ (Settled(t) => taken[t].funding = row[t].quota)
  /\ job[p][t].pc = "refundToken" =>
       taken[t].token = taken[t].funding + row[t].quota /\ (Settled(t) => taken[t].funding = 0)
  /\ (job[p][t].pc = "settle" /\ Settled(t)) =>
       taken[t].funding = row[t].quota /\ taken[t].token = row[t].quota
  /\ (job[p][t].pc = "settleToken" /\ Settled(t)) =>
       taken[t].funding = job[p][t].actual /\ taken[t].token = row[t].quota
  /\ (job[p][t].pc = "quota" /\ Settled(t)) =>
       taken[t].funding = job[p][t].actual /\ (hurt[t] = {} => taken[t].token = job[p][t].actual)

\* What has been paid in every state of the row.
Books(t) ==
  /\ row[t].status = "NONE" => taken[t].funding = 0 /\ taken[t].token = 0 /\ row[t].quota = 0
  /\ row[t].status \in {"SETTLED"} \cup Live =>
       taken[t].funding = taken[t].token /\ (Settled(t) => taken[t].funding = row[t].quota)
  /\ t \in kept => row[t].status = "FAILURE"
  /\ (row[t].status = "FAILURE" /\ t \notin kept) => taken[t].funding <= taken[t].token
  /\ Settled(t) => taken[t].funding >= 0 /\ taken[t].token >= 0
  /\ (hurt[t] = {} /\ Quiet(t)) =>
       taken[t].funding \in Due(t) /\ taken[t].token = taken[t].funding

TaskInv(t) ==
  Guarded(t) =>
    /\ \A p \in Pollers : JobOK(p, t) /\ Progress(p, t)
    /\ Alone(t)
    /\ Books(t)

\* A node outside of a pass holds no task.
PassInv == \A p \in Pollers, t \in Tasks : pass[p].phase = "idle" => job[p][t].pc = "none"

\* Only Gemini and Vertex tasks are asked for when their user fetches them.
FetchInv == \A t \in Tasks : fetch[t].pc = "read" => kind[t] = "gemini"

\* The inductive invariant.
MoneyInv == TypeOK /\ PassInv /\ FetchInv /\ \A t \in Tasks : TaskInv(t)

-----------------------------------------------------------------------------
(* What the building blocks of the actions do to one task.                  *)

\* What the jobs are after one of them holds a new copy of its task.
LEMMA HoldAt ==
  ASSUME TypeOK, NEW p \in Pollers, NEW t \in Tasks, NEW c, NEW s, NEW d, NEW a,
         Hold(p, t, c, s, d, a)
  PROVE  /\ c = "none" => job'[p][t] = NoJob
         /\ c # "none" => /\ job'[p][t].pc = c /\ job'[p][t].status = s
                          /\ job'[p][t].quota = job[p][t].quota /\ job'[p][t].actual = a
         /\ \A o \in Pollers, u \in Tasks : (o # p \/ u # t) => job'[o][u] = job[o][u]
  BY DEF Hold, TypeOK

\* What the jobs are after one of them ended.
LEMMA FinishAt ==
  ASSUME TypeOK, NEW p \in Pollers, NEW t \in Tasks, Finish(p, t)
  PROVE  /\ job'[p][t] = NoJob
         /\ \A o \in Pollers, u \in Tasks : (o # p \/ u # t) => job'[o][u] = job[o][u]
  BY DEF Finish, TypeOK

\* What the rows are after a statement wrote one of them.
LEMMA SetRowAt ==
  ASSUME TypeOK, NEW t \in Tasks, NEW s, NEW d, NEW q, SetRow(t, s, d, q)
  PROVE  /\ row'[t].status = s /\ row'[t].quota = q
         /\ \A u \in Tasks \ {t} : row'[u] = row[u]
  BY DEF SetRow, TypeOK

\* What the books are after a charge to one task.
LEMMA ChargeAt ==
  ASSUME TypeOK, NEW t \in Tasks, NEW f, NEW k, Charge(t, f, k)
  PROVE  /\ taken'[t].funding = taken[t].funding + f /\ taken'[t].token = taken[t].token + k
         /\ \A u \in Tasks \ {t} : taken'[u] = taken[u]
  BY DEF Charge, TypeOK

\* What is remembered of a statement that failed.
LEMMA FailsAt ==
  ASSUME TypeOK, NEW t \in Tasks, NEW f, Fails(t, f)
  PROVE  /\ hurt'[t] = hurt[t] \cup {f}
         /\ \A u \in Tasks \ {t} : hurt'[u] = hurt[u]
  BY DEF Fails, TypeOK

\* A step that leaves the row and the charge of t alone, and drops at most
\* jobs on t that have not begun, keeps TaskInv(t).
LEMMA Frame ==
  ASSUME NEW t \in Tasks, TaskInv(t), kind' = kind, t \in kept' <=> t \in kept,
         row'[t] = row[t], taken'[t] = taken[t], hurt'[t] = hurt[t],
         \A p \in Pollers : \/ job'[p][t] = job[p][t]
                            \/ job[p][t].pc \in {"none", "listed"} /\ job'[p][t] = NoJob
  PROVE  TaskInv(t)'
<1> SUFFICES ASSUME Guarded(t)'
             PROVE  (/\ \A p \in Pollers : JobOK(p, t) /\ Progress(p, t)
                     /\ Alone(t)
                     /\ Books(t))'
  BY DEF TaskInv
<1>1. Guarded(t)
  BY DEF Guarded
<1>2. \A p \in Pollers : Billing(p, t)' <=> Billing(p, t)
  BY DEF Billing, NoJob
<1>3. \A p \in Pollers : (JobOK(p, t) /\ Progress(p, t))'
  <2> TAKE p \in Pollers
  <2>0. JobOK(p, t) /\ Progress(p, t)
    BY <1>1 DEF TaskInv
  <2>1. CASE job'[p][t] = job[p][t]
    BY <2>0, <2>1 DEF JobOK, Progress, Billing, Settled
  <2>2. CASE job'[p][t] = NoJob
    BY <2>2 DEF JobOK, Progress, Billing, NoJob
  <2> QED
    BY <2>1, <2>2
<1>4. Alone(t)'
  BY <1>1, <1>2 DEF TaskInv, Alone
<1>5. Books(t)'
  BY <1>1, <1>2 DEF TaskInv, Books, Settled, Quiet, Due
<1> QED
  BY <1>3, <1>4, <1>5

-----------------------------------------------------------------------------
(* The steps that move a video task.                                        *)

\* Nobody bills a video task that has not ended.
LEMMA NobodyBills ==
  ASSUME NEW t \in Tasks, Guarded(t), TaskInv(t), TypeOK, row[t].status \notin Terminal
  PROVE  \A p \in Pollers : job[p][t].pc \in {"none", "listed"}
<1> TAKE p \in Pollers
<1>1. JobOK(p, t) /\ Books(t)
  BY DEF TaskInv
<1>2. job[p][t].pc \in PCs
  BY JobType
<1> QED
  BY <1>1, <1>2 DEF JobOK, Books, PCs, Terminal

\* What the winner of an update goes on with after status s.
Bills(p, t, s, next) ==
  \/ s = "IN_PROGRESS" /\ next = "none"
  \/ s = "SUCCESS" /\ next = "settle"
  \/ s = "FAILURE" /\ next = "refund"
  \/ s = "FAILURE" /\ next = "none" /\ (job[p][t].quota = 0 \/ kind[t] = "legacy")

\* The winner of the compare-and-swap is the only one to bill the task.
LEMMA WonKeeps ==
  ASSUME TypeOK, NEW p \in Pollers, NEW t \in Tasks, NEW s, NEW d, NEW next, TaskInv(t),
         job[p][t].pc = "listed", kind' = kind, kept' = kept, taken' = taken,
         Won(p, t, s, d, next), Bills(p, t, s, next)
  PROVE  TaskInv(t)'
<1> SUFFICES ASSUME Guarded(t)'
             PROVE  (/\ \A o \in Pollers : JobOK(o, t) /\ Progress(o, t)
                     /\ Alone(t)
                     /\ Books(t))'
  BY DEF TaskInv
<1>1. Guarded(t)
  BY DEF Guarded
<1>2. JobOK(p, t) /\ Books(t)
  BY <1>1 DEF TaskInv
<1>3. row[t].status \in Live /\ row[t].quota = job[p][t].quota /\ t \notin kept
  BY <1>2 DEF Won, JobOK, Books, Live
<1>4. \A o \in Pollers : job[o][t].pc \in {"none", "listed"}
  BY <1>1, <1>3, NobodyBills DEF Live, Terminal
<1>5. row'[t].status = s /\ row'[t].quota = row[t].quota /\ hurt' = hurt
  BY <1>3, SetRowAt DEF Won, NoFailure
<1>6. taken[t].funding = taken[t].token /\ (Settled(t) => taken[t].funding = row[t].quota)
  BY <1>2, <1>3 DEF Books
<1>7. /\ next = "none" => job'[p][t] = NoJob
      /\ next # "none" => job'[p][t].pc = next /\ job'[p][t].quota = row[t].quota
      /\ \A o \in Pollers \ {p} : job'[o][t] = job[o][t]
  BY <1>3, HoldAt DEF Won
<1>8. Billing(p, t)' <=> next # "none"
  BY <1>7 DEF Billing, NoJob, Bills
<1>9. \A o \in Pollers \ {p} : ~ Billing(o, t)'
  BY <1>4, <1>7 DEF Billing
<1>10. \A o \in Pollers : (JobOK(o, t) /\ Progress(o, t))'
  <2> TAKE o \in Pollers
  <2>1. CASE o # p
    <3>1. JobOK(o, t) /\ job'[o][t] = job[o][t] /\ job[o][t].pc \in {"none", "listed"}
      BY <1>1, <1>4, <1>7, <2>1 DEF TaskInv
    <3>2. s \in Live \cup Terminal
      BY DEF Bills, Live, Terminal
    <3> QED
      BY <1>3, <1>5, <3>1, <3>2 DEF JobOK, Progress, Billing
  <2>2. CASE o = p /\ next = "none"
    BY <1>7, <2>2 DEF JobOK, Progress, Billing, NoJob
  <2>3. CASE o = p /\ next # "none"
    BY <1>3, <1>5, <1>6, <1>7, <2>3 DEF JobOK, Progress, Billing, Bills, Settled, Live, Terminal
  <2> QED
    BY <2>1, <2>2, <2>3
<1>11. Alone(t)'
  BY <1>9 DEF Alone
<1>12. Books(t)'
  <2>1. taken[t].funding \in Int /\ taken[t].token \in Int /\ row[t].quota \in Nat
    BY RowType
  <2>2. Settled(t)' <=> Settled(t)
    BY <1>5 DEF Settled
  <2>3. Quiet(t)' => next = "none"
    BY <1>8 DEF Quiet
  <2>4. hurt[t] = {} => Settled(t)
    BY DEF Settled
  <2> QED
    BY <1>2, <1>3, <1>5, <1>6, <2>1, <2>2, <2>3, <2>4 DEF Books, Due, Bills, Live
<1> QED
  BY <1>10, <1>11, <1>12

\* A compare-and-swap that fails with an error is remembered, and nobody bills.
LEMMA CasFailsKeeps ==
  ASSUME TypeOK, NEW p \in Pollers, NEW t \in Tasks, NEW s \in Live \cup Terminal, NEW d, TaskInv(t),
         job[p][t].pc = "listed", kind' = kind, kept' = kept, taken' = taken,
         CasFails(p, t, s, d)
  PROVE  TaskInv(t)'
<1> SUFFICES ASSUME Guarded(t)'
             PROVE  (/\ \A o \in Pollers : JobOK(o, t) /\ Progress(o, t)
                     /\ Alone(t)
                     /\ Books(t))'
  BY DEF TaskInv
<1>1. Guarded(t)
  BY DEF Guarded
<1>2. JobOK(p, t) /\ Books(t) /\ Alone(t)
  BY <1>1 DEF TaskInv
<1>3. /\ job'[p][t] = NoJob
      /\ \A o \in Pollers \ {p} : job'[o][t] = job[o][t]
  BY FinishAt DEF CasFails
<1>4. hurt'[t] = hurt[t] \cup {"cas"}
  BY FailsAt DEF CasFails
<1>5. (Settled(t)' <=> Settled(t)) /\ hurt'[t] # {} /\ (hurt'[t] = {} => hurt[t] = {})
  BY <1>4 DEF Settled
<1>6. \A o \in Pollers : Billing(o, t)' => Billing(o, t)
  BY <1>3 DEF Billing, NoJob
<1>7. \/ row' = row
      \/ /\ row[t].status \in Live /\ row[t].quota = job[p][t].quota /\ t \notin kept
         /\ row'[t].status = s /\ row'[t].quota = row[t].quota
  BY <1>2, SetRowAt DEF CasFails, JobOK, Books, Live
<1>8. \A o \in Pollers : (JobOK(o, t) /\ Progress(o, t))'
  <2> TAKE o \in Pollers
  <2>0. JobOK(o, t) /\ Progress(o, t)
    BY <1>1 DEF TaskInv
  <2>1. CASE o # p /\ row' = row
    BY <1>3, <1>5, <2>0, <2>1 DEF JobOK, Progress, Billing, Settled
  <2>2. CASE o # p /\ row' # row
    <3>1. job[o][t].pc \in {"none", "listed"}
      BY <1>1, <1>7, <2>2, NobodyBills DEF Live, Terminal
    <3> QED
      BY <1>3, <1>7, <2>0, <2>2, <3>1 DEF JobOK, Progress, Billing
  <2>3. CASE o = p
    BY <1>3, <2>3 DEF JobOK, Progress, Billing, NoJob
  <2> QED
    BY <2>1, <2>2, <2>3
<1>9. Alone(t)'
  BY <1>2, <1>6 DEF Alone
<1>10. Books(t)'
  <2>1. taken[t].funding \in Int /\ taken[t].token \in Int /\ row[t].quota \in Nat
    BY RowType
  <2>2. CASE row' = row
    BY <1>2, <1>5, <2>1, <2>2 DEF Books, Live
  <2>3. CASE row' # row
    BY <1>2, <1>5, <1>7, <2>1, <2>3 DEF Books, Live, Terminal
  <2> QED
    BY <2>2, <2>3
<1> QED
  BY <1>8, <1>9, <1>10

\* Task.UpdateWithStatus keeps the invariant, whoever wins.
LEMMA UpdateKeeps ==
  ASSUME TypeOK, NEW p \in Pollers, NEW t \in Tasks, NEW s, NEW d, NEW next, TaskInv(t),
         job[p][t].pc = "listed", kind' = kind, kept' = kept, taken' = taken,
         UpdateWithStatus(p, t, s, d, next), Bills(p, t, s, next)
  PROVE  TaskInv(t)'
<1>1. CASE Won(p, t, s, d, next)
  BY <1>1, WonKeeps
<1>2. CASE Lost(p, t)
  <2>1. /\ job'[p][t] = NoJob
        /\ \A o \in Pollers \ {p} : job'[o][t] = job[o][t]
    BY <1>2, FinishAt DEF Lost
  <2>2. row' = row /\ hurt' = hurt
    BY <1>2 DEF Lost, NoFailure
  <2>3. \A o \in Pollers : \/ job'[o][t] = job[o][t]
                           \/ job[o][t].pc \in {"none", "listed"} /\ job'[o][t] = NoJob
    BY <2>1
  <2> QED
    BY <2>2, <2>3, Frame
<1>3. CASE CasFails(p, t, s, d)
  <2>1. s \in Live \cup Terminal
    BY DEF Bills, Live, Terminal
  <2> QED
    BY <1>3, <2>1, CasFailsKeeps
<1> QED
  BY <1>1, <1>2, <1>3 DEF UpdateWithStatus

\* A billing step of p on t disturbs no other node, since none of them bills t.
LEMMA BillKeeps ==
  ASSUME TypeOK, NEW p \in Pollers, NEW t \in Tasks, Guarded(t), TaskInv(t), Billing(p, t),
         row'[t].status = row[t].status, kept' = kept,
         \A o \in Pollers \ {p} : job'[o][t] = job[o][t],
         JobOK(p, t)', Progress(p, t)', Books(t)'
  PROVE  TaskInv(t)'
<1>1. JobOK(p, t) /\ Alone(t) /\ Books(t)
  BY DEF TaskInv
<1>2. row[t].status \in Terminal
  BY <1>1, JobType DEF JobOK, Books, Billing, PCs, Terminal
<1>3. \A o \in Pollers \ {p} : job[o][t].pc \in {"none", "listed"} /\ JobOK(o, t)
  BY <1>1 DEF TaskInv, Alone, Billing, JobOK
<1>4. \A o \in Pollers \ {p} : (JobOK(o, t) /\ Progress(o, t) /\ ~ Billing(o, t))'
  BY <1>2, <1>3 DEF JobOK, Progress, Billing, Live, Terminal
<1>5. Alone(t)'
  BY <1>4 DEF Alone
<1> QED
  BY <1>4, <1>5 DEF TaskInv

\* The facts every billing step starts from.
LEMMA Billed ==
  ASSUME TypeOK, NEW p \in Pollers, NEW t \in Tasks, Guarded(t), TaskInv(t), Billing(p, t)
  PROVE  /\ JobOK(p, t) /\ Progress(p, t) /\ Books(t)
         /\ job[p][t].quota = row[t].quota /\ row[t].quota \in Nat
         /\ taken[t].funding \in Int /\ taken[t].token \in Int
         /\ job[p][t].actual \in Nat /\ row[t].status \in Terminal
  BY RowType, JobType DEF TaskInv, JobOK, Books, Billing, PCs, Terminal

\* Refunding the funding source of a failed task keeps its books.
LEMMA RefundFundingKeeps ==
  ASSUME TypeOK, NEW p \in Pollers, NEW t \in Tasks, Guarded(t), TaskInv(t), RefundFunding(p, t)
  PROVE  TaskInv(t)'
<1>1. job[p][t].pc = "refund" /\ Billing(p, t) /\ row' = row /\ kept' = kept
  BY DEF RefundFunding, Billing
<1>2. /\ Progress(p, t) /\ Books(t) /\ job[p][t].quota = row[t].quota /\ row[t].quota \in Nat
      /\ taken[t].funding \in Int /\ taken[t].token \in Int
      /\ row[t].status = "FAILURE" /\ t \notin kept
  BY <1>1, Billed DEF JobOK
<1>3. taken[t].funding = taken[t].token /\ (Settled(t) => taken[t].funding = row[t].quota)
  BY <1>1, <1>2 DEF Progress
<1>4. CASE Charge(t, - job[p][t].quota, 0) /\ Goto(p, t, "refundToken") /\ NoFailure
  <2>1. /\ taken'[t].funding = taken[t].funding - row[t].quota /\ taken'[t].token = taken[t].token
        /\ hurt' = hurt
    BY <1>2, <1>4, ChargeAt DEF NoFailure
  <2>2. /\ job'[p][t].pc = "refundToken" /\ job'[p][t].quota = row[t].quota
        /\ \A o \in Pollers \ {p} : job'[o][t] = job[o][t]
    BY <1>2, <1>4, HoldAt DEF Goto
  <2>3. Billing(p, t)' /\ ~ Quiet(t)'
    BY <2>2 DEF Billing, Quiet
  <2>4. JobOK(p, t)'
    BY <1>1, <1>2, <2>2 DEF JobOK, Terminal
  <2>5. Progress(p, t)'
    BY <1>1, <1>2, <1>3, <2>1, <2>2 DEF Progress, Settled
  <2>6. Books(t)'
    BY <1>1, <1>2, <1>3, <2>1, <2>3 DEF Books, Settled, Live
  <2> QED
    BY <1>1, <2>2, <2>4, <2>5, <2>6, BillKeeps
<1>5. CASE Fails(t, "funding") /\ Goto(p, t, AfterRefund(p, t)) /\ UNCHANGED taken
  <2>1. hurt'[t] # {} /\ (Settled(t)' <=> Settled(t))
    BY <1>5, FailsAt DEF Settled
  <2>2. AfterRefund(p, t) = "none"
    BY DEF AfterRefund, Guarded
  <2>3. job'[p][t] = NoJob /\ \A o \in Pollers \ {p} : job'[o][t] = job[o][t]
    BY <1>5, <2>2, HoldAt DEF Goto
  <2>4. JobOK(p, t)' /\ Progress(p, t)'
    BY <2>3 DEF JobOK, Progress, Billing, NoJob
  <2>5. Books(t)'
    BY <1>1, <1>2, <1>5, <2>1 DEF Books, Live
  <2> QED
    BY <1>1, <2>3, <2>4, <2>5, BillKeeps
<1> QED
  BY <1>4, <1>5 DEF RefundFunding

\* Refunding the token of a failed task keeps its books.
LEMMA RefundTokenKeeps ==
  ASSUME TypeOK, NEW p \in Pollers, NEW t \in Tasks, Guarded(t), TaskInv(t), RefundToken(p, t)
  PROVE  TaskInv(t)'
<1>1. job[p][t].pc = "refundToken" /\ Billing(p, t) /\ row' = row /\ kind' = kind /\ kept' = kept
  BY DEF RefundToken, Billing
<1>2. /\ Progress(p, t) /\ Books(t) /\ job[p][t].quota = row[t].quota /\ row[t].quota \in Nat
      /\ taken[t].funding \in Int /\ taken[t].token \in Int
      /\ row[t].status = "FAILURE" /\ t \notin kept
  BY <1>1, Billed DEF JobOK
<1>3. taken[t].token = taken[t].funding + row[t].quota /\ (Settled(t) => taken[t].funding = 0)
  BY <1>1, <1>2 DEF Progress
<1>4. job'[p][t] = NoJob /\ \A o \in Pollers \ {p} : job'[o][t] = job[o][t]
  BY HoldAt DEF RefundToken, Goto, AfterRefund, Guarded
<1>5. JobOK(p, t)' /\ Progress(p, t)'
  BY <1>4 DEF JobOK, Progress, Billing, NoJob
<1>6. CASE Charge(t, 0, - job[p][t].quota) /\ NoFailure
  <2>1. /\ taken'[t].funding = taken[t].funding /\ taken'[t].token = taken[t].funding
        /\ hurt' = hurt
    BY <1>2, <1>3, <1>6, ChargeAt DEF NoFailure
  <2>2. hurt[t] = {} => Settled(t)
    BY DEF Settled
  <2>3. Books(t)'
    BY <1>1, <1>2, <1>3, <2>1, <2>2 DEF Books, Settled, Live, Due
  <2> QED
    BY <1>1, <1>4, <1>5, <2>3, BillKeeps
<1>7. CASE Fails(t, "token") /\ UNCHANGED taken
  <2>1. hurt'[t] # {} /\ (Settled(t)' <=> Settled(t))
    BY <1>7, FailsAt DEF Settled
  <2>2. Books(t)'
    BY <1>1, <1>2, <1>7, <2>1 DEF Books, Live
  <2> QED
    BY <1>1, <1>4, <1>5, <2>2, BillKeeps
<1> QED
  BY <1>6, <1>7 DEF RefundToken

\* A task that ends with the charge it had keeps its books.
LEMMA KeepChargeKeeps ==
  ASSUME TypeOK, NEW p \in Pollers, NEW t \in Tasks, Guarded(t), TaskInv(t), KeepCharge(p, t)
  PROVE  TaskInv(t)'
<1>1. job[p][t].pc = "settle" /\ Billing(p, t) /\ row' = row /\ kept' = kept /\ taken' = taken /\ hurt' = hurt
  BY DEF KeepCharge, Billing
<1>2. /\ Progress(p, t) /\ Books(t)
      /\ row[t].status \in Terminal /\ (row[t].status = "SUCCESS" \/ t \in kept)
  BY <1>1, Billed DEF JobOK
<1>3. job'[p][t] = NoJob /\ \A o \in Pollers \ {p} : job'[o][t] = job[o][t]
  BY FinishAt DEF KeepCharge
<1>4. JobOK(p, t)' /\ Progress(p, t)'
  BY <1>3 DEF JobOK, Progress, Billing, NoJob
<1>5. Books(t)'
  <2>1. Settled(t) => taken[t].funding = row[t].quota /\ taken[t].token = row[t].quota
    BY <1>1, <1>2 DEF Progress
  <2>2. hurt[t] = {} => Settled(t)
    BY DEF Settled
  <2> QED
    BY <1>1, <1>2, <2>1, <2>2 DEF Books, Settled, Due, Live
<1> QED
  BY <1>1, <1>3, <1>4, <1>5, BillKeeps

\* Settling the difference with the funding source keeps the books.
LEMMA SettleFundingKeeps ==
  ASSUME TypeOK, NEW p \in Pollers, NEW t \in Tasks, Guarded(t), TaskInv(t), SettleFunding(p, t)
  PROVE  TaskInv(t)'
<1>1. job[p][t].pc = "settle" /\ Billing(p, t) /\ row' = row /\ kept' = kept
  BY DEF SettleFunding, Billing
<1>2. /\ Progress(p, t) /\ Books(t) /\ job[p][t].quota = row[t].quota /\ row[t].quota \in Nat
      /\ taken[t].funding \in Int /\ taken[t].token \in Int
      /\ row[t].status \in Terminal /\ (row[t].status = "SUCCESS" \/ t \in kept)
  BY <1>1, Billed DEF JobOK
<1>3. Settled(t) => taken[t].funding = row[t].quota /\ taken[t].token = row[t].quota
  BY <1>1, <1>2 DEF Progress
<1>4. PICK a \in Actuals \ {0, job[p][t].quota} :
        \/ /\ Charge(t, a - job[p][t].quota, 0)
           /\ Hold(p, t, "settleToken", "SUCCESS", TRUE, a)
           /\ NoFailure
        \/ Fails(t, "funding") /\ Finish(p, t) /\ UNCHANGED taken
  BY DEF SettleFunding
<1>5. a \in Nat
  BY TaskAssumption
<1>6. CASE Charge(t, a - job[p][t].quota, 0) /\ Hold(p, t, "settleToken", "SUCCESS", TRUE, a)
           /\ NoFailure
  <2>1. /\ taken'[t].funding = taken[t].funding + (a - row[t].quota)
        /\ taken'[t].token = taken[t].token
        /\ hurt' = hurt
    BY <1>2, <1>6, ChargeAt DEF NoFailure
  <2>2. /\ job'[p][t].pc = "settleToken" /\ job'[p][t].quota = row[t].quota
        /\ job'[p][t].actual = a
        /\ \A o \in Pollers \ {p} : job'[o][t] = job[o][t]
    BY <1>2, <1>6 DEF Hold, TypeOK
  <2>3. Billing(p, t)' /\ ~ Quiet(t)'
    BY <2>2 DEF Billing, Quiet
  <2>4. JobOK(p, t)'
    BY <1>1, <1>2, <2>2 DEF JobOK, Terminal
  <2>5. Progress(p, t)'
    BY <1>1, <1>2, <1>3, <1>5, <2>1, <2>2 DEF Progress, Settled
  <2>6. Books(t)'
    BY <1>1, <1>2, <1>3, <1>5, <2>1, <2>3 DEF Books, Settled, Live
  <2> QED
    BY <1>1, <2>2, <2>4, <2>5, <2>6, BillKeeps
<1>7. CASE Fails(t, "funding") /\ Finish(p, t) /\ UNCHANGED taken
  <2>1. hurt'[t] # {} /\ (Settled(t)' <=> Settled(t))
    BY <1>7, FailsAt DEF Settled
  <2>2. job'[p][t] = NoJob /\ \A o \in Pollers \ {p} : job'[o][t] = job[o][t]
    BY <1>7, FinishAt
  <2>3. JobOK(p, t)' /\ Progress(p, t)'
    BY <2>2 DEF JobOK, Progress, Billing, NoJob
  <2>4. Books(t)'
    BY <1>1, <1>2, <1>7, <2>1 DEF Books, Live
  <2> QED
    BY <1>1, <2>2, <2>3, <2>4, BillKeeps
<1> QED
  BY <1>4, <1>6, <1>7

\* Settling the difference with the token keeps the books.
LEMMA SettleTokenKeeps ==
  ASSUME TypeOK, NEW p \in Pollers, NEW t \in Tasks, Guarded(t), TaskInv(t), SettleToken(p, t)
  PROVE  TaskInv(t)'
<1>1. job[p][t].pc = "settleToken" /\ Billing(p, t) /\ row' = row /\ kept' = kept
  BY DEF SettleToken, Billing
<1>2. /\ Progress(p, t) /\ Books(t) /\ job[p][t].quota = row[t].quota /\ row[t].quota \in Nat
      /\ taken[t].funding \in Int /\ taken[t].token \in Int /\ job[p][t].actual \in Nat
      /\ row[t].status \in Terminal /\ (row[t].status = "SUCCESS" \/ t \in kept)
  BY <1>1, Billed DEF JobOK
<1>3. Settled(t) => taken[t].funding = job[p][t].actual /\ taken[t].token = row[t].quota
  BY <1>1, <1>2 DEF Progress
<1>4. /\ job'[p][t].pc = "quota" /\ job'[p][t].quota = row[t].quota
      /\ job'[p][t].actual = job[p][t].actual
      /\ \A o \in Pollers \ {p} : job'[o][t] = job[o][t]
  BY <1>2, HoldAt DEF SettleToken, Goto
<1>5. Billing(p, t)' /\ ~ Quiet(t)'
  BY <1>4 DEF Billing, Quiet
<1>6. JobOK(p, t)'
  BY <1>1, <1>2, <1>4 DEF JobOK, Terminal
<1>7. CASE Charge(t, 0, job[p][t].actual - job[p][t].quota) /\ NoFailure
  <2>1. /\ taken'[t].funding = taken[t].funding /\ hurt' = hurt
        /\ taken'[t].token = taken[t].token + (job[p][t].actual - row[t].quota)
    BY <1>2, <1>7, ChargeAt DEF NoFailure
  <2>2. Progress(p, t)'
    BY <1>1, <1>2, <1>3, <1>4, <2>1 DEF Progress, Settled
  <2>3. Books(t)'
    BY <1>1, <1>2, <1>3, <1>5, <2>1 DEF Books, Settled, Live
  <2> QED
    BY <1>1, <1>4, <1>6, <2>2, <2>3, BillKeeps
<1>8. CASE Fails(t, "token") /\ UNCHANGED taken
  <2>1. hurt'[t] # {} /\ (Settled(t)' <=> Settled(t))
    BY <1>8, FailsAt DEF Settled
  <2>2. Progress(p, t)'
    BY <1>1, <1>2, <1>3, <1>4, <1>8, <2>1 DEF Progress
  <2>3. Books(t)'
    BY <1>1, <1>2, <1>5, <1>8, <2>1 DEF Books, Live
  <2> QED
    BY <1>1, <1>4, <1>6, <2>2, <2>3, BillKeeps
<1> QED
  BY <1>7, <1>8 DEF SettleToken

\* Recording the settled quota in the row keeps the books.
LEMMA UpdateQuotaKeeps ==
  ASSUME TypeOK, NEW p \in Pollers, NEW t \in Tasks, Guarded(t), TaskInv(t), UpdateQuota(p, t)
  PROVE  TaskInv(t)'
<1>1. job[p][t].pc = "quota" /\ Billing(p, t) /\ taken' = taken /\ kept' = kept
  BY DEF UpdateQuota, Billing
<1>2. /\ Progress(p, t) /\ Books(t) /\ job[p][t].quota = row[t].quota /\ row[t].quota \in Nat
      /\ taken[t].funding \in Int /\ taken[t].token \in Int /\ job[p][t].actual \in Nat
      /\ row[t].status \in Terminal /\ (row[t].status = "SUCCESS" \/ t \in kept)
  BY <1>1, Billed DEF JobOK
<1>3. Settled(t) => /\ taken[t].funding = job[p][t].actual
                    /\ hurt[t] = {} => taken[t].token = job[p][t].actual
  BY <1>1, <1>2 DEF Progress
<1>4. job'[p][t] = NoJob /\ \A o \in Pollers \ {p} : job'[o][t] = job[o][t]
  BY FinishAt DEF UpdateQuota
<1>5. JobOK(p, t)' /\ Progress(p, t)'
  BY <1>4 DEF JobOK, Progress, Billing, NoJob
<1>6. CASE SetRow(t, row[t].status, row[t].done, job[p][t].actual) /\ NoFailure
  <2>1. row'[t].status = row[t].status /\ row'[t].quota = job[p][t].actual /\ hurt' = hurt
    BY <1>2, <1>6, SetRowAt DEF NoFailure
  <2>2. hurt[t] = {} => Settled(t)
    BY DEF Settled
  <2>3. Books(t)'
    BY <1>1, <1>2, <1>3, <2>1, <2>2 DEF Books, Settled, Due, Live
  <2> QED
    BY <1>1, <1>2, <1>4, <1>5, <2>1, <2>3, BillKeeps
<1>7. CASE Fails(t, "quota") /\ UNCHANGED row
  <2>1. hurt'[t] # {} /\ (Settled(t)' <=> Settled(t))
    BY <1>7, FailsAt DEF Settled
  <2>2. Books(t)'
    BY <1>1, <1>2, <1>7, <2>1 DEF Books, Live
  <2> QED
    BY <1>1, <1>4, <1>5, <1>7, <2>2, BillKeeps
<1> QED
  BY <1>6, <1>7 DEF UpdateQuota

\* A bulk failure overwrites the row and stops no billing: the task keeps what it
\* has paid, or is being settled at.
LEMMA FailInBulkKeeps ==
  ASSUME TypeOK, NEW p \in Pollers, NEW t \in Tasks, Guarded(t), TaskInv(t), FailInBulk(p, t)
  PROVE  TaskInv(t)'
<1>1. /\ JobOK(p, t) /\ Books(t) /\ Alone(t)
      /\ \A o \in Pollers : JobOK(o, t) /\ Progress(o, t)
  BY DEF TaskInv
<1>2. /\ job[p][t].pc = "listed" /\ kind' = kind /\ taken' = taken /\ hurt' = hurt
      /\ kept' = IF row[t].status = "FAILURE" THEN kept ELSE kept \cup {t}
  BY DEF FailInBulk, Polled
<1>3. row[t].status \in Live \cup Terminal
  BY <1>1, <1>2 DEF JobOK
<1>4. row'[t].status = "FAILURE" /\ row'[t].quota = row[t].quota
  BY SetRowAt DEF FailInBulk
<1>5. job'[p][t] = NoJob /\ \A o \in Pollers \ {p} : job'[o][t] = job[o][t]
  BY FinishAt DEF FailInBulk
<1>6. \A o \in Pollers : Billing(o, t)' <=> Billing(o, t)
  BY <1>2, <1>5 DEF Billing, NoJob
<1>7. t \in kept' <=> (t \in kept \/ row[t].status # "FAILURE")
  BY <1>2
<1>8. \A o \in Pollers : (JobOK(o, t) /\ Progress(o, t))'
  <2> TAKE o \in Pollers
  <2>0. job[o][t].pc \in PCs
    BY JobType
  <2>1. CASE o = p
    BY <1>5, <2>1 DEF JobOK, Progress, Billing, NoJob
  <2>2. CASE o # p
    <3>1. job'[o][t] = job[o][t]
      BY <1>5, <2>2
    <3>2. JobOK(o, t)'
      BY <1>1, <1>2, <1>4, <1>6, <1>7, <3>1, <2>0 DEF JobOK, Books, Live, Terminal, PCs
    <3>3. Progress(o, t)'
      BY <1>1, <1>2, <1>4, <3>1 DEF Progress, Settled
    <3> QED
      BY <3>2, <3>3
  <2> QED
    BY <2>1, <2>2
<1>9. Alone(t)'
  BY <1>1, <1>6 DEF Alone
<1>10. Books(t)'
  <2>1. Settled(t)' <=> Settled(t)
    BY <1>2 DEF Settled
  <2>2. Quiet(t)' <=> Quiet(t)
    BY <1>6 DEF Quiet
  <2>3. row[t].status # "FAILURE" => Due(t) = {row[t].quota} /\ Due(t)' = {row[t].quota}
    BY <1>4, <1>7 DEF Due
  <2>4. row[t].status = "FAILURE" => Due(t)' = Due(t)
    BY <1>2, <1>4, <1>7 DEF Due
  <2>5. (hurt[t] = {} /\ Quiet(t))' =>
          taken[t].funding \in Due(t)' /\ taken[t].token = taken[t].funding
    BY <1>1, <1>2, <2>2, <2>3, <2>4 DEF Books
  <2> QED
    BY <1>1, <1>2, <1>4, <1>7, <2>1, <2>5 DEF Books, Live
<1> QED
  BY <1>8, <1>9, <1>10 DEF TaskInv

\* A step of a pass on task u keeps the invariant of every task.
LEMMA UpdateStepKeeps ==
  ASSUME TypeOK, NEW p \in Pollers, NEW u \in Tasks, NEW t \in Tasks, TaskInv(t), Update(p, u)
  PROVE  TaskInv(t)'
<1> SUFFICES ASSUME Guarded(t)' PROVE TaskInv(t)'
  BY DEF TaskInv
<1>0. kind' = kind /\ Guarded(t) /\ (kept' = kept \/ FailInBulk(p, u))
  BY DEF Update, SweepTask, FailInBulk, SkipTask, updateVideoSingleTask, updateSunoTask,
         SaveSunoTask, RefundFunding, RefundToken, KeepCharge, SettleFunding, SettleToken,
         UpdateQuota, Guarded
<1>1. CASE u # t
  <2>1. row'[t] = row[t]
    BY <1>1, SetRowAt DEF Update, SweepTask, FailInBulk, SkipTask, updateVideoSingleTask,
         updateSunoTask, SaveSunoTask, RefundFunding, RefundToken, KeepCharge, SettleFunding,
         SettleToken, UpdateQuota, UpdateWithStatus, Won, Lost, CasFails
  <2>2. taken'[t] = taken[t]
    BY <1>1, ChargeAt DEF Update, SweepTask, FailInBulk, SkipTask, updateVideoSingleTask,
         updateSunoTask, SaveSunoTask, RefundFunding, RefundToken, KeepCharge, SettleFunding,
         SettleToken, UpdateQuota
  <2>3. hurt'[t] = hurt[t]
    BY <1>1, FailsAt DEF Update, SweepTask, FailInBulk, SkipTask, updateVideoSingleTask,
         updateSunoTask, SaveSunoTask, RefundFunding, RefundToken, KeepCharge, SettleFunding,
         SettleToken, UpdateQuota, UpdateWithStatus, Won, Lost, CasFails, NoFailure
  <2>4. \A o \in Pollers : job'[o][t] = job[o][t]
    <3>1. PICK m : job' = [job EXCEPT ![p][u] = m]
      BY DEF Update, SweepTask, FailInBulk, SkipTask, updateVideoSingleTask, updateSunoTask,
         SaveSunoTask, RefundFunding, RefundToken, KeepCharge, SettleFunding, SettleToken,
         UpdateQuota, UpdateWithStatus, Won, Lost, CasFails, Goto, Finish, Hold
    <3> QED
      BY <1>1, <3>1 DEF TypeOK
  <2>5. t \in kept' <=> t \in kept
    BY <1>0, <1>1 DEF FailInBulk
  <2> QED
    BY <1>0, <2>1, <2>2, <2>3, <2>4, <2>5, Frame
<1>2. CASE u = t
  <2>1. CASE SweepTask(p, t)
    <3>1. PICK c : UpdateWithStatus(p, t, "FAILURE", TRUE, c) /\ Bills(p, t, "FAILURE", c)
      BY <2>1 DEF SweepTask, Bills
    <3> QED
      BY <2>1, <3>1, UpdateKeeps DEF SweepTask
  <2>2. CASE updateVideoSingleTask(p, t)
    <3>1. PICK s, d, c : UpdateWithStatus(p, t, s, d, c) /\ Bills(p, t, s, c)
      BY <2>2 DEF updateVideoSingleTask, Bills
    <3> QED
      BY <2>2, <3>1, UpdateKeeps DEF updateVideoSingleTask, Polled
  <2>3. CASE SkipTask(p, t)
    <3>1. \A o \in Pollers : \/ job'[o][t] = job[o][t]
                             \/ job[o][t].pc \in {"none", "listed"} /\ job'[o][t] = NoJob
      BY <2>3, FinishAt DEF SkipTask, Polled
    <3> QED
      BY <1>0, <2>3, <3>1, Frame DEF SkipTask
  <2>4. CASE updateSunoTask(p, t)
    BY <1>0, <2>4 DEF updateSunoTask, Guarded
  <2>5. CASE SaveSunoTask(p, t)
    BY <1>0, <2>5 DEF SaveSunoTask, TaskInv, JobOK
  <2> QED
    BY <1>0, <1>2, <2>1, <2>2, <2>3, <2>4, <2>5, FailInBulkKeeps, RefundFundingKeeps, RefundTokenKeeps,
       KeepChargeKeeps, SettleFundingKeeps, SettleTokenKeeps, UpdateQuotaKeeps DEF Update
<1> QED
  BY <1>1, <1>2

-----------------------------------------------------------------------------
(* The other steps, and the theorems.                                       *)

\* Reading the tasks of a pass: the new jobs hold what the rows say.
LEMMA ListKeeps ==
  ASSUME TypeOK, NEW p \in Pollers, NEW t \in Tasks, NEW S \in SUBSET Tasks, TaskInv(t),
         \A u \in S : row[u].status \in Live, \A u \in Tasks : job[p][u].pc = "none",
         List(p, S), kind' = kind, kept' = kept, row' = row, taken' = taken, hurt' = hurt
  PROVE  TaskInv(t)'
<1> SUFFICES ASSUME Guarded(t)'
             PROVE  (/\ \A o \in Pollers : JobOK(o, t) /\ Progress(o, t)
                     /\ Alone(t)
                     /\ Books(t))'
  BY DEF TaskInv
<1>1. Guarded(t)
  BY DEF Guarded
<1>2. \A o \in Pollers : JobOK(o, t) /\ Progress(o, t)
  BY <1>1 DEF TaskInv
<1>3. Alone(t) /\ Books(t)
  BY <1>1 DEF TaskInv
<1>4. \A o \in Pollers \ {p} : job'[o][t] = job[o][t]
  BY DEF List, TypeOK
<1>5. t \in S => /\ job'[p][t].pc = "listed" /\ job'[p][t].status = row[t].status
                 /\ job'[p][t].quota = row[t].quota
  BY DEF List, TypeOK
<1>6. t \notin S => job'[p][t] = NoJob
  BY DEF List, TypeOK
<1>7. ~ Billing(p, t)' /\ ~ Billing(p, t)
  BY <1>5, <1>6 DEF Billing, NoJob
<1>8. \A o \in Pollers : Billing(o, t)' <=> Billing(o, t)
  BY <1>4, <1>7 DEF Billing
<1>9. (JobOK(p, t) /\ Progress(p, t))'
  BY <1>5, <1>6 DEF JobOK, Progress, Billing, NoJob
<1>10. \A o \in Pollers \ {p} : (JobOK(o, t) /\ Progress(o, t))'
  BY <1>2, <1>4 DEF JobOK, Progress, Billing, Settled
<1>11. Alone(t)'
  BY <1>3, <1>8 DEF Alone
<1>12. Books(t)'
  BY <1>3, <1>8 DEF Books, Settled, Quiet, Due
<1> QED
  BY <1>9, <1>10, <1>11, <1>12

\* A crash ends the billing that was under way, and is remembered.
LEMMA CrashKeeps ==
  ASSUME TypeOK, NEW p \in Pollers, NEW t \in Tasks, TaskInv(t), Crash(p)
  PROVE  TaskInv(t)'
<1> SUFFICES ASSUME Guarded(t)'
             PROVE  (/\ \A o \in Pollers : JobOK(o, t) /\ Progress(o, t)
                     /\ Alone(t)
                     /\ Books(t))'
  BY DEF TaskInv
<1>1. Guarded(t) /\ row' = row /\ taken' = taken /\ kind' = kind /\ kept' = kept
  BY DEF Guarded, Crash
<1>2. \A o \in Pollers : JobOK(o, t) /\ Progress(o, t)
  BY <1>1 DEF TaskInv
<1>3. Alone(t) /\ Books(t)
  BY <1>1 DEF TaskInv
<1>4. job'[p][t] = NoJob /\ \A o \in Pollers \ {p} : job'[o][t] = job[o][t]
  BY DEF Crash, TypeOK
<1>5. hurt'[t] = IF job[p][t].pc \in {"none", "listed"} THEN hurt[t] ELSE hurt[t] \cup {"crash"}
  BY DEF Crash
<1>6. (Settled(t)' <=> Settled(t)) /\ (hurt'[t] = {} => hurt[t] = {} /\ ~ Billing(p, t))
  BY <1>5 DEF Settled, Billing
<1>7. ~ Billing(p, t)' /\ \A o \in Pollers \ {p} : Billing(o, t)' <=> Billing(o, t)
  BY <1>4 DEF Billing, NoJob
<1>8. \A o \in Pollers : (JobOK(o, t) /\ Progress(o, t))'
  <2> TAKE o \in Pollers
  <2>1. CASE o = p
    BY <1>4, <2>1 DEF JobOK, Progress, Billing, NoJob
  <2>2. CASE o # p
    BY <1>1, <1>2, <1>4, <1>6, <2>2 DEF JobOK, Progress, Billing
  <2> QED
    BY <2>1, <2>2
<1>9. Alone(t)'
  BY <1>3, <1>7 DEF Alone
<1>10. hurt'[t] = {} /\ Quiet(t)' => hurt[t] = {} /\ Quiet(t)
  BY <1>6, <1>7 DEF Quiet
<1>11. Books(t)'
  BY <1>1, <1>3, <1>6, <1>10 DEF Books, Due
<1> QED
  BY <1>8, <1>9, <1>11

\* The submission of u.
LEMMA SubmitKeeps ==
  ASSUME TypeOK, NEW u \in Tasks, NEW t \in Tasks, TaskInv(t),
         Settle(u) \/ Insert(u) \/ InsertFails(u)
  PROVE  TaskInv(t)'
<1> SUFFICES ASSUME Guarded(t)' PROVE TaskInv(t)'
  BY DEF TaskInv
<1>0. /\ Guarded(t) /\ kind' = kind /\ kept' = kept /\ job' = job
      /\ \A o \in Pollers : JobOK(o, t) /\ Progress(o, t)
      /\ Alone(t) /\ Books(t)
  BY DEF Guarded, Settle, Insert, InsertFails, TaskInv
<1>1. CASE u # t
  <2>1. row'[t] = row[t] /\ taken'[t] = taken[t] /\ hurt'[t] = hurt[t]
    BY <1>1 DEF Settle, Insert, InsertFails, NoFailure, SetRow, Charge, Fails, TypeOK
  <2> QED
    BY <1>0, <2>1, Frame
<1>2. CASE u = t
  <2>1. row[t].status \in {"NONE", "SETTLED"}
    BY <1>2 DEF Settle, Insert, InsertFails
  <2>2. \A o \in Pollers : job[o][t].pc = "none"
    BY <1>0, <2>1 DEF JobOK, Live, Terminal
  <2>3. \A o \in Pollers : (JobOK(o, t) /\ Progress(o, t) /\ ~ Billing(o, t))'
    BY <1>0, <2>2 DEF JobOK, Progress, Billing
  <2>4. Alone(t)'
    BY <2>3 DEF Alone
  <2>5. taken[t].funding \in Int /\ taken[t].token \in Int /\ row[t].quota \in Nat
    BY RowType
  <2>6. Books(t)'
    <3>1. CASE Settle(t)
      <4>1. PICK q \in FinalQuotas :
              /\ SetRow(t, "SETTLED", FALSE, q)
              /\ \/ Charge(t, q, q) /\ NoFailure
                 \/ Charge(t, Estimate, Estimate) /\ Fails(t, "settle")
        BY <3>1 DEF Settle
      <4>2. q \in Nat /\ Estimate \in Nat
        BY TaskAssumption
      <4>3. row'[t].status = "SETTLED" /\ row'[t].quota = q
        BY <4>1 DEF SetRow, TypeOK
      <4>4. taken[t].funding = 0 /\ taken[t].token = 0 /\ t \notin kept'
        BY <1>0, <3>1 DEF Books, Settle
      <4>5. CASE Charge(t, q, q) /\ NoFailure
        <5>1. taken'[t].funding = q /\ taken'[t].token = q
          BY <4>2, <4>4, <4>5, ChargeAt
        <5> QED
          BY <4>2, <4>3, <4>4, <5>1 DEF Books, Due, Live
      <4>6. CASE Charge(t, Estimate, Estimate) /\ Fails(t, "settle")
        <5>1. taken'[t].funding = Estimate /\ taken'[t].token = Estimate
          BY <4>2, <4>4, <4>6, ChargeAt
        <5>2. ~ Settled(t)' /\ hurt'[t] # {}
          BY <4>6, FailsAt DEF Settled
        <5> QED
          BY <4>2, <4>3, <4>4, <5>1, <5>2 DEF Books, Live
      <4> QED
        BY <4>1, <4>5, <4>6
    <3>2. CASE Insert(t)
      <4>1. /\ row'[t].status = "NOT_START" /\ row'[t].quota = row[t].quota
            /\ taken' = taken /\ hurt' = hurt
        BY <3>2 DEF Insert, NoFailure, SetRow, TypeOK
      <4>2. hurt[t] = {} => Settled(t)
        BY DEF Settled
      <4> QED
        BY <1>0, <2>5, <3>2, <4>1, <4>2 DEF Insert, Books, Settled, Due, Live
    <3>3. CASE InsertFails(t)
      <4>1. hurt'[t] # {} /\ (Settled(t)' <=> Settled(t)) /\ row' = row /\ taken' = taken
        BY <3>3, FailsAt DEF InsertFails, Settled
      <4> QED
        BY <1>0, <4>1 DEF Books
    <3> QED
      BY <1>2, <3>1, <3>2, <3>3
  <2> QED
    BY <2>3, <2>4, <2>6 DEF TaskInv
<1> QED
  BY <1>1, <1>2

\* The initial state satisfies the invariant.
LEMMA InitMoney == Init => MoneyInv
<1> SUFFICES ASSUME Init PROVE MoneyInv
  OBVIOUS
<1>1. TypeOK
  BY InitType
<1>2. PassInv
  BY DEF Init, PassInv, NoJob
<1>4. FetchInv
  BY DEF Init, FetchInv, NoJob
<1>3. ASSUME NEW t \in Tasks PROVE TaskInv(t)
  <2>1. \A p \in Pollers : JobOK(p, t) /\ Progress(p, t) /\ ~ Billing(p, t)
    BY DEF Init, JobOK, Progress, Billing, NoJob
  <2>2. Books(t)
    BY DEF Init, Books, Due, Live
  <2> QED
    BY <2>1, <2>2 DEF TaskInv, Alone
<1> QED
  BY <1>1, <1>2, <1>3, <1>4 DEF MoneyInv

\* A node that goes on billing is inside its pass.
LEMMA PassStep == TypeOK /\ PassInv /\ [Next]_vars => PassInv'
<1> SUFFICES ASSUME TypeOK, PassInv, [Next]_vars PROVE PassInv'
  OBVIOUS
<1>1. ASSUME NEW p \in Pollers, NEW t \in Tasks, Update(p, t) PROVE PassInv'
  <2>1. pass' = pass /\ pass[p].phase # "idle"
    BY <1>1 DEF Update, SweepTask, FailInBulk, SkipTask, updateVideoSingleTask, updateSunoTask,
         SaveSunoTask, RefundFunding, RefundToken, KeepCharge, SettleFunding, SettleToken,
         UpdateQuota, Polled, PassInv
  <2>2. PICK m : job' = [job EXCEPT ![p][t] = m]
    BY <1>1 DEF Update, SweepTask, FailInBulk, SkipTask, updateVideoSingleTask, updateSunoTask,
         SaveSunoTask, RefundFunding, RefundToken, KeepCharge, SettleFunding, SettleToken,
         UpdateQuota, UpdateWithStatus, Won, Lost, CasFails, Goto, Finish, Hold
  <2>3. \A o \in Pollers \ {p} : job'[o] = job[o]
    BY <2>2 DEF TypeOK
  <2> QED
    BY <2>1, <2>3 DEF PassInv
<1>2. ASSUME NEW p \in Pollers,
             StartPass(p) \/ ReadTasks(p) \/ EndPass(p) \/ Cancel(p) \/ Crash(p)
      PROVE  PassInv'
  <2>1. \A o \in Pollers \ {p} : pass'[o] = pass[o] /\ job'[o] = job[o]
    BY <1>2 DEF StartPass, ReadTasks, EndPass, Cancel, Crash, List, TypeOK
  <2>2. CASE StartPass(p) \/ ReadTasks(p) \/ Cancel(p)
    <3>1. pass'[p].phase # "idle"
      BY <2>2 DEF StartPass, ReadTasks, Cancel, TypeOK
    <3> QED
      BY <2>1, <3>1 DEF PassInv
  <2>3. CASE EndPass(p) \/ Crash(p)
    <3>1. \A t \in Tasks : job'[p][t].pc = "none"
      BY <2>3 DEF EndPass, Crash, TypeOK, NoJob
    <3> QED
      BY <2>1, <3>1 DEF PassInv
  <2> QED
    BY <1>2, <2>2, <2>3
<1>3. ASSUME NEW t \in Tasks,
             \/ Settle(t) \/ Insert(t) \/ InsertFails(t) \/ Age(t)
             \/ FetchRead(t) \/ FetchWrite(t)
      PROVE  PassInv'
  BY <1>3 DEF Settle, Insert, InsertFails, Age, FetchRead, FetchWrite, PassInv
<1>4. CASE UNCHANGED vars
  BY <1>4 DEF vars, PassInv
<1> QED
  BY <1>1, <1>2, <1>3, <1>4 DEF Next, Run

\* Only Gemini tasks are fetched with a write.
LEMMA FetchStep == TypeOK /\ FetchInv /\ [Next]_vars => FetchInv'
<1> SUFFICES ASSUME TypeOK, FetchInv, [Next]_vars PROVE FetchInv'
  OBVIOUS
<1>1. CASE kind' = kind /\ fetch' = fetch
  BY <1>1 DEF FetchInv
<1>2. ASSUME NEW t \in Tasks, FetchRead(t) PROVE FetchInv'
  BY <1>2 DEF FetchRead, FetchInv, TypeOK
<1>3. ASSUME NEW t \in Tasks, FetchWrite(t) PROVE FetchInv'
  BY <1>3 DEF FetchWrite, FetchInv, TypeOK, NoJob
<1>4. ASSUME NEW p \in Pollers, Run(p) \/ Cancel(p) \/ Crash(p) PROVE FetchInv'
  BY <1>1, <1>4 DEF Run, Cancel, Crash, StartPass, ReadTasks, EndPass, Update, SweepTask,
     FailInBulk, SkipTask, updateVideoSingleTask, updateSunoTask, SaveSunoTask, RefundFunding,
     RefundToken, KeepCharge, SettleFunding, SettleToken, UpdateQuota, user
<1>5. ASSUME NEW t \in Tasks,
             Settle(t) \/ Insert(t) \/ InsertFails(t) \/ Age(t)
      PROVE  FetchInv'
  BY <1>1, <1>5 DEF Settle, Insert, InsertFails, Age, user
<1>6. CASE UNCHANGED vars
  BY <1>1, <1>6 DEF vars
<1> QED
  BY <1>2, <1>3, <1>4, <1>5, <1>6 DEF Next

\* The invariant is inductive.
LEMMA StepMoney == MoneyInv /\ [Next]_vars => MoneyInv'
<1> SUFFICES ASSUME MoneyInv, [Next]_vars PROVE MoneyInv'
  OBVIOUS
<1>0. TypeOK /\ PassInv /\ FetchInv /\ TypeOK' /\ PassInv' /\ FetchInv'
  BY StepType, PassStep, FetchStep DEF MoneyInv
<1> SUFFICES ASSUME NEW t \in Tasks PROVE TaskInv(t)'
  BY <1>0 DEF MoneyInv
<1>i. TaskInv(t)
  BY DEF MoneyInv
<1>1. ASSUME NEW p \in Pollers, NEW u \in Tasks, Update(p, u) PROVE TaskInv(t)'
  BY <1>0, <1>i, <1>1, UpdateStepKeeps
<1>2. ASSUME NEW p \in Pollers, StartPass(p) PROVE TaskInv(t)'
  <2> DEFINE S == {u \in aged : TimeoutEnabled /\ Unfinished(u)}
  <2>1. S \in SUBSET Tasks /\ List(p, S) /\ \A u \in S : row[u].status \in Live
    BY <1>0, <1>2 DEF StartPass, Unfinished, TypeOK
  <2>2. \A u \in Tasks : job[p][u].pc = "none"
    BY <1>0, <1>2 DEF StartPass, PassInv
  <2>3. kind' = kind /\ kept' = kept /\ row' = row /\ taken' = taken /\ hurt' = hurt
    BY <1>2 DEF StartPass
  <2> HIDE DEF S
  <2> QED
    BY <1>0, <1>i, <2>1, <2>2, <2>3, ListKeeps
<1>3. ASSUME NEW p \in Pollers, ReadTasks(p) PROVE TaskInv(t)'
  <2> DEFINE S == {u \in Tasks : Unfinished(u)}
  <2>1. S \in SUBSET Tasks /\ List(p, S) /\ \A u \in S : row[u].status \in Live
    BY <1>3 DEF ReadTasks, Unfinished
  <2>2. \A u \in Tasks : job[p][u].pc = "none"
    BY <1>3 DEF ReadTasks, Idle
  <2>3. kind' = kind /\ kept' = kept /\ row' = row /\ taken' = taken /\ hurt' = hurt
    BY <1>3 DEF ReadTasks
  <2> HIDE DEF S
  <2> QED
    BY <1>0, <1>i, <2>1, <2>2, <2>3, ListKeeps
<1>4. ASSUME NEW p \in Pollers, EndPass(p) \/ Cancel(p) PROVE TaskInv(t)'
  <2>1. kind' = kind /\ kept' = kept /\ row' = row /\ taken' = taken /\ hurt' = hurt
    BY <1>4 DEF EndPass, Cancel
  <2>2. \A o \in Pollers : \/ job'[o][t] = job[o][t]
                           \/ job[o][t].pc \in {"none", "listed"} /\ job'[o][t] = NoJob
    BY <1>0, <1>4 DEF EndPass, Cancel, Idle, Busy, TypeOK
  <2> QED
    BY <1>i, <2>1, <2>2, Frame
<1>5. ASSUME NEW p \in Pollers, Crash(p) PROVE TaskInv(t)'
  BY <1>0, <1>i, <1>5, CrashKeeps
<1>6. ASSUME NEW u \in Tasks, Settle(u) \/ Insert(u) \/ InsertFails(u) PROVE TaskInv(t)'
  BY <1>0, <1>i, <1>6, SubmitKeeps
<1>7. ASSUME NEW u \in Tasks, Age(u) \/ FetchRead(u) PROVE TaskInv(t)'
  <2>1. /\ kind' = kind /\ kept' = kept /\ row' = row /\ taken' = taken
        /\ hurt' = hurt /\ job' = job
    BY <1>7 DEF Age, FetchRead
  <2> QED
    BY <1>i, <2>1, Frame
<1>8. ASSUME NEW u \in Tasks, FetchWrite(u) PROVE TaskInv(t)'
  <2>1. kind' = kind /\ kept' = kept /\ taken' = taken /\ hurt' = hurt /\ job' = job
    BY <1>8 DEF FetchWrite
  <2>2. u # t => row'[t] = row[t]
    BY <1>0, <1>8 DEF FetchWrite, SetRow, TypeOK
  <2>3. CASE u # t
    BY <1>i, <2>1, <2>2, <2>3, Frame
  <2>4. CASE u = t /\ row' = row
    BY <1>i, <2>1, <2>4, Frame
  <2>5. CASE u = t /\ row' # row
    BY <1>0, <1>8, <2>1, <2>5 DEF FetchWrite, FetchInv, TaskInv, Guarded
  <2> QED
    BY <2>3, <2>4, <2>5
<1>9. CASE UNCHANGED vars
  BY <1>i, <1>9, Frame DEF vars
<1> QED
  BY <1>1, <1>2, <1>3, <1>4, <1>5, <1>6, <1>7, <1>8, <1>9 DEF Next, Run

\* The invariant holds in every state.
LEMMA MoneyAlways == Spec => []MoneyInv
<1>1. Init => MoneyInv
  BY InitMoney
<1>2. MoneyInv /\ [Next]_vars => MoneyInv'
  BY StepMoney
<1> QED
  BY <1>1, <1>2, PTL DEF Spec

\* However many passes overlap, no two of them bill the same video task, and the
\* one that does bills the status the row has, or had until a bulk update
\* overwrote it.
THEOREM OneBillerAlways == Spec => []OneBiller
<1>1. MoneyInv => OneBiller
  <2> SUFFICES ASSUME MoneyInv, NEW t \in Tasks, NEW p \in Pollers, Guarded(t), Billing(p, t)
               PROVE  /\ IF job[p][t].pc \in {"refund", "refundToken"}
                         THEN row[t].status = "FAILURE" /\ t \notin kept
                         ELSE row[t].status = "SUCCESS" \/ t \in kept
                      /\ \A o \in Pollers \ {p} : ~ Billing(o, t)
    BY DEF OneBiller
  <2>1. JobOK(p, t) /\ Alone(t) /\ job[p][t].pc \in PCs
    BY JobType DEF MoneyInv, TaskInv
  <2> QED
    BY <2>1 DEF JobOK, Alone, Billing, PCs
<1> QED
  BY <1>1, MoneyAlways, PTL

\* Crashes, failed statements and lost leases never refund a video task twice.
THEOREM NeverOverRefundedAlways == Spec => []NeverOverRefunded
<1>1. MoneyInv => NeverOverRefunded
  BY DEF MoneyInv, TaskInv, Books, Settled, NeverOverRefunded
<1> QED
  BY <1>1, MoneyAlways, PTL

\* A video task that met no failing statement has cost what its row says, or
\* nothing if it failed otherwise than in bulk, whenever nobody is billing it.
THEOREM ExactChargeAlways == Spec => []ExactCharge
<1>1. MoneyInv => ExactCharge
  BY DEF MoneyInv, TaskInv, Books, ExactCharge
<1> QED
  BY <1>1, MoneyAlways, PTL

\* The token of a failed video task is refunded only after its funding source; a
\* task failed in bulk is not refunded at all.
THEOREM FundingFirst == Spec => []FundingBeforeToken
<1>1. MoneyInv => FundingBeforeToken
  BY DEF MoneyInv, TaskInv, Books, FundingBeforeToken
<1> QED
  BY <1>1, MoneyAlways, PTL

\* The status of a video task that ended changes in one way only, SUCCESS
\* overwritten by a bulk update: every other write is a compare-and-swap from a
\* status it no longer has.
THEOREM EndIsFinal == Spec => TerminalIsFinal
<1> DEFINE Final(t) == (Guarded(t) /\ row[t].status \in Terminal /\ row'[t].status # row[t].status)
              => row[t].status = "SUCCESS" /\ row'[t].status = "FAILURE" /\ t \in kept' \ kept
<1>1. MoneyInv /\ [Next]_vars => [\A t \in Tasks : Final(t)]_vars
  <2> SUFFICES ASSUME MoneyInv, Next, NEW t \in Tasks, Guarded(t), row[t].status \in Terminal
               PROVE  Final(t)
    OBVIOUS
  <2>0. TypeOK /\ Books(t) /\ \A p \in Pollers : JobOK(p, t)
    BY DEF MoneyInv, TaskInv
  <2>1. ASSUME NEW p \in Pollers, NEW u \in Tasks, Update(p, u)
        PROVE  Final(t)
    <3>1. CASE u # t
      <4>1. row'[t] = row[t]
        BY <2>0, <2>1, <3>1, SetRowAt DEF Update, SweepTask, FailInBulk, SkipTask,
           updateVideoSingleTask, updateSunoTask, SaveSunoTask, RefundFunding, RefundToken,
           KeepCharge, SettleFunding, SettleToken, UpdateQuota, UpdateWithStatus, Won, Lost,
           CasFails
      <4> QED
        BY <4>1
    <3>2. CASE u = t
      <4>1. job[p][t].pc = "listed" => job[p][t].status # row[t].status
        BY <2>0 DEF JobOK, Live, Terminal
      <4>2. CASE SweepTask(p, t)
        BY <4>1, <4>2 DEF SweepTask, UpdateWithStatus, Won, Lost, CasFails
      <4>3. CASE updateVideoSingleTask(p, t)
        BY <4>1, <4>3 DEF updateVideoSingleTask, Polled, UpdateWithStatus, Won, Lost, CasFails
      <4>4. CASE updateSunoTask(p, t)
        BY <4>4 DEF updateSunoTask, Guarded
      <4>5. CASE SaveSunoTask(p, t)
        BY <2>0, <4>5 DEF SaveSunoTask, JobOK
      <4>6. CASE UpdateQuota(p, t)
        BY <2>0, <4>6, SetRowAt DEF UpdateQuota
      <4>7. CASE FailInBulk(p, t)
        <5>1. row'[t].status = "FAILURE"
          BY <2>0, <4>7, SetRowAt DEF FailInBulk
        <5>2. kept' = IF row[t].status = "FAILURE" THEN kept ELSE kept \cup {t}
          BY <4>7 DEF FailInBulk
        <5> QED
          BY <2>0, <5>1, <5>2 DEF Books, Terminal
      <4> QED
        BY <2>1, <3>2, <4>2, <4>3, <4>4, <4>5, <4>6, <4>7 DEF Update, SkipTask, RefundFunding,
           RefundToken, KeepCharge, SettleFunding, SettleToken
    <3> QED
      BY <3>1, <3>2
  <2>2. ASSUME NEW u \in Tasks, Settle(u) \/ Insert(u) \/ FetchWrite(u)
        PROVE  row'[t].status = row[t].status
    <3>1. u # t \/ row' = row
      BY <2>2 DEF Settle, Insert, FetchWrite, MoneyInv, FetchInv, Guarded, Terminal
    <3> QED
      BY <2>0, <2>2, <3>1 DEF Settle, Insert, FetchWrite, SetRow, TypeOK
  <2> QED
    BY <2>1, <2>2 DEF Next, Run, InsertFails, Age, FetchRead, Cancel, Crash, StartPass,
       ReadTasks, EndPass
<1> QED
  BY <1>1, MoneyAlways, PTL DEF Spec, TerminalIsFinal
=============================================================================
