----------------------------- MODULE TaskPolling -----------------------------
(***************************************************************************)
(* Asynchronous relay tasks (Suno, video): the row a submission leaves     *)
(* behind, the polling passes that move it to its end and settle or refund *)
(* it (service/task_polling.go, service/task_billing.go), and the fetch by *)
(* which a user reads a Gemini or Vertex task (relay/relay_task.go).       *)
(*                                                                         *)
(* A polling pass is a system task; a node that loses its lease may still  *)
(* be inside a pass when another node starts one, so passes overlap.  The  *)
(* channels of a pass run in goroutines of their own: every task of a pass *)
(* has its own program counter, job[p][t].pc.  A step is one database      *)
(* statement; the call to the upstream provider touches no shared state    *)
(* and is part of the step that uses its answer.                           *)
(***************************************************************************)
EXTENDS Integers

CONSTANTS
  Tasks,         \* submitted tasks
  Pollers,       \* nodes that run async_task_poll
  Kinds,         \* the kinds of task that occur: a subset of AllKinds
  Estimate,      \* quota pre-consumed before the submission
  FinalQuotas,   \* quotas a submission may be settled at
  Actuals,       \* quotas a finished task may turn out to cost; 0 = no recalculation
  Faults,        \* statements that may fail, and "crash"
  MaxFaults,     \* bound on the failures of one behaviour
  TimeoutEnabled, \* TaskTimeoutMinutes > 0
  MaxFetches,    \* bound on the fetches of one task by its user
  MaxDrift       \* bound on how far a task's charge is followed from zero

\* "legacy": a video task submitted before legacyTaskCutoff; "noid": a task
\* without an upstream id.
AllKinds == {"video", "legacy", "gemini", "suno", "noid"}
AllFaults == {"settle", "insert", "cas", "funding", "token", "quota", "crash"}
Live == {"NOT_START", "IN_PROGRESS"}
Terminal == {"SUCCESS", "FAILURE"}
Status == {"NONE", "SETTLED"} \cup Live \cup Terminal

ASSUME TaskAssumption ==
  /\ Kinds \subseteq AllKinds
  /\ Estimate \in Nat /\ FinalQuotas \subseteq Nat /\ Actuals \subseteq Nat
  /\ Faults \subseteq AllFaults /\ MaxFaults \in Nat
  /\ TimeoutEnabled \in BOOLEAN /\ MaxFetches \in Nat /\ MaxDrift \in Nat

VARIABLES
  kind,      \* platform and channel type of each task
  row,       \* its row: status, progress = 100%, quota
  taken,     \* net quota taken from the funding source and from the token
  aged,      \* tasks older than TaskTimeoutMinutes
  pass,      \* the polling pass of each node
  job,       \* the task objects of a pass, and where their update stands
  fetch,     \* the task object of a user's fetch, or NoJob
  fetches,   \* how often the user fetched each task
  kept,      \* tasks failed in bulk, which keep their charge (history)
  hurt,      \* failures met on behalf of each task (history)
  faults     \* how many failures there were

vars == <<kind, row, taken, aged, pass, job, fetch, fetches, kept, hurt, faults>>

user == <<fetch, fetches>>
failures == <<hurt, faults>>

NoJob == [pc |-> "none", status |-> "NONE", done |-> FALSE, quota |-> 0, actual |-> 0]

Init ==
  /\ kind \in [Tasks -> Kinds]
  /\ row = [t \in Tasks |-> [status |-> "NONE", done |-> FALSE, quota |-> 0]]
  /\ taken = [t \in Tasks |-> [funding |-> 0, token |-> 0]]
  /\ aged = {} /\ kept = {}
  /\ pass = [p \in Pollers |-> [phase |-> "idle", cancelled |-> FALSE]]
  /\ job = [p \in Pollers |-> [t \in Tasks |-> NoJob]]
  /\ fetch = [t \in Tasks |-> NoJob]
  /\ fetches = [t \in Tasks |-> 0]
  /\ hurt = [t \in Tasks |-> {}]
  /\ faults = 0

Fails(t, f) ==
  /\ f \in Faults /\ faults < MaxFaults
  /\ faults' = faults + 1
  /\ hurt' = [hurt EXCEPT ![t] = hurt[t] \cup {f}]

SetRow(t, s, done, q) ==
  row' = [row EXCEPT ![t] = [status |-> s, done |-> done, quota |-> q]]

\* "quota = quota - ?" on the funding source and on the token.
Charge(t, f, k) ==
  taken' = [taken EXCEPT ![t] = [funding |-> taken[t].funding + f, token |-> taken[t].token + k]]

NoFailure == UNCHANGED failures

-----------------------------------------------------------------------------
(* RelayTask: the accepted submission is settled, then its row inserted.    *)

\* An error of SettleBilling is logged and the row keeps the final quota.
Settle(t) ==
  /\ row[t].status = "NONE"
  /\ \E q \in FinalQuotas :
       /\ SetRow(t, "SETTLED", FALSE, q)
       /\ \/ /\ Charge(t, q, q)
             /\ NoFailure
          \/ /\ Charge(t, Estimate, Estimate)
             /\ Fails(t, "settle")
  /\ UNCHANGED <<kind, aged, kept, pass, job, user>>

\* A failed insert is only logged: a charge for a task nobody will ever poll.
Insert(t) ==
  /\ row[t].status = "SETTLED" /\ "insert" \notin hurt[t]
  /\ SetRow(t, "NOT_START", FALSE, row[t].quota)
  /\ NoFailure
  /\ UNCHANGED <<kind, taken, aged, kept, pass, job, user>>

InsertFails(t) ==
  /\ row[t].status = "SETTLED" /\ "insert" \notin hurt[t]
  /\ Fails(t, "insert")
  /\ UNCHANGED <<kind, row, taken, aged, kept, pass, job, user>>

Age(t) ==
  /\ row[t].status \in Live /\ t \notin aged
  /\ aged' = aged \cup {t}
  /\ UNCHANGED <<kind, row, taken, kept, pass, job, user, failures>>

-----------------------------------------------------------------------------
(* One pass, RunTaskPollingOnce: sweep the timed-out tasks, then update     *)
(* every unfinished one.                                                    *)

Idle(p) == \A t \in Tasks : job[p][t].pc = "none"
Busy(p) == \E t \in Tasks : job[p][t].pc \notin {"none", "listed"}

\* A Suno or a Gemini task can be billed again and again (see FailedRefunded);
\* its charge is followed within MaxDrift of zero.
WithinBound(t) == taken[t].funding \in -MaxDrift .. MaxDrift

Unfinished(t) == row[t].status \in Live /\ ~ row[t].done /\ WithinBound(t)

List(p, S) ==
  job' = [job EXCEPT ![p] = [t \in Tasks |->
    IF t \in S THEN [pc |-> "listed", status |-> row[t].status, done |-> row[t].done,
                     quota |-> row[t].quota, actual |-> 0]
               ELSE NoJob]]

\* asyncTaskPollHandler.Enabled: a pass is scheduled while a task is unfinished.
StartPass(p) ==
  /\ pass[p].phase = "idle"
  /\ \E t \in Tasks : Unfinished(t)
  /\ pass' = [pass EXCEPT ![p] = [phase |-> "sweep", cancelled |-> FALSE]]
  /\ List(p, {t \in aged : TimeoutEnabled /\ Unfinished(t)})
  /\ UNCHANGED <<kind, row, taken, aged, kept, user, failures>>

ReadTasks(p) ==
  /\ pass[p].phase = "sweep" /\ Idle(p)
  /\ pass' = [pass EXCEPT ![p] = [phase |-> "poll", cancelled |-> pass[p].cancelled]]
  /\ List(p, {t \in Tasks : Unfinished(t)})
  /\ UNCHANGED <<kind, row, taken, aged, kept, user, failures>>

\* The lease is lost: the updates not yet begun are dropped, the sweep is not.
Cancel(p) ==
  /\ pass[p].phase # "idle" /\ ~ pass[p].cancelled
  /\ pass' = [pass EXCEPT ![p] = [phase |-> pass[p].phase, cancelled |-> TRUE]]
  /\ UNCHANGED <<kind, row, taken, aged, kept, job, user, failures>>

EndPass(p) ==
  /\ pass[p].phase = "poll"
  /\ Idle(p) \/ (pass[p].cancelled /\ ~ Busy(p))
  /\ pass' = [pass EXCEPT ![p] = [phase |-> "idle", cancelled |-> FALSE]]
  /\ job' = [job EXCEPT ![p] = [t \in Tasks |-> NoJob]]
  /\ UNCHANGED <<kind, row, taken, aged, kept, user, failures>>

Crash(p) ==
  /\ pass[p].phase # "idle"
  /\ "crash" \in Faults /\ faults < MaxFaults
  /\ faults' = faults + 1
  /\ hurt' = [t \in Tasks |-> IF job[p][t].pc \in {"none", "listed"} THEN hurt[t]
                              ELSE hurt[t] \cup {"crash"}]
  /\ pass' = [pass EXCEPT ![p] = [phase |-> "idle", cancelled |-> FALSE]]
  /\ job' = [job EXCEPT ![p] = [t \in Tasks |-> NoJob]]
  /\ UNCHANGED <<kind, row, taken, aged, kept, user>>

-----------------------------------------------------------------------------
(* Task.UpdateWithStatus: the whole row, if the status is still `from'.     *)

\* The task object p holds of t, and where its update goes on.
Hold(p, t, pc, s, done, actual) ==
  job' = [job EXCEPT ![p][t] = IF pc = "none" THEN NoJob
            ELSE [pc |-> pc, status |-> s, done |-> done, quota |-> job[p][t].quota,
                  actual |-> actual]]

Finish(p, t) == job' = [job EXCEPT ![p][t] = NoJob]

\* Won: the row is the caller's, and the job goes on with the billing `next'.
\* Mutant of Won: an unconditional update.
WonAnyway(p, t, s, done, next) ==
  /\ SetRow(t, s, done, job[p][t].quota)
  /\ Hold(p, t, next, s, done, 0)
  /\ NoFailure
Won(p, t, s, done, next) ==
  /\ row[t].status = job[p][t].status
  /\ SetRow(t, s, done, job[p][t].quota)
  /\ Hold(p, t, next, s, done, 0)
  /\ NoFailure

\* Mutant of Lost: the loser refunds as well.
LostRefunds(p, t) ==
  /\ row[t].status # job[p][t].status
  /\ Hold(p, t, "refund", row[t].status, TRUE, 0) /\ NoFailure /\ UNCHANGED row
Lost(p, t) ==
  /\ row[t].status # job[p][t].status
  /\ Finish(p, t) /\ NoFailure /\ UNCHANGED row

\* The statement fails, applied or not; the caller does no billing.
CasFails(p, t, s, done) ==
  /\ Fails(t, "cas")
  /\ Finish(p, t)
  /\ \/ UNCHANGED row
     \/ /\ row[t].status = job[p][t].status
        /\ SetRow(t, s, done, job[p][t].quota)

UpdateWithStatus(p, t, s, done, next) ==
  Won(p, t, s, done, next) \/ Lost(p, t) \/ CasFails(p, t, s, done)

\* Mutant of SweepTask: only tasks that never started time out.
SweepNotStarted(p, t) ==
  /\ pass[p].phase = "sweep" /\ job[p][t].pc = "listed" /\ ~ Busy(p)
  /\ \/ /\ job[p][t].status = "NOT_START"
        /\ UpdateWithStatus(p, t, "FAILURE", TRUE,
             IF kind[t] # "legacy" /\ job[p][t].quota # 0 THEN "refund" ELSE "none")
     \/ /\ job[p][t].status # "NOT_START"
        /\ Finish(p, t) /\ UNCHANGED <<row, failures>>
  /\ UNCHANGED <<kind, taken, aged, kept, pass, user>>
\* sweepTimedOutTasks, one task after the other.
SweepTask(p, t) ==
  /\ pass[p].phase = "sweep" /\ job[p][t].pc = "listed" /\ ~ Busy(p)
  /\ UpdateWithStatus(p, t, "FAILURE", TRUE,
       IF kind[t] # "legacy" /\ job[p][t].quota # 0 THEN "refund" ELSE "none")
  /\ UNCHANGED <<kind, taken, aged, kept, pass, user>>

\* A task of the poll that ctx has not cancelled before its turn.
Polled(p, t) ==
  /\ pass[p].phase = "poll" /\ ~ pass[p].cancelled
  /\ job[p][t].pc = "listed"

\* TaskBulkUpdateByID: the task has no upstream id, or CacheGetChannel returned
\* an error (the channel was deleted, is not in the memory cache, or could not be
\* read).  No compare-and-swap, so that the status of an ended task is overwritten
\* as well, and no refund.
FailInBulk(p, t) ==
  /\ Polled(p, t)
  /\ SetRow(t, "FAILURE", TRUE, row[t].quota)
  /\ kept' = IF row[t].status = "FAILURE" THEN kept ELSE kept \cup {t}
  /\ Finish(p, t)
  /\ UNCHANGED <<kind, taken, aged, pass, user, failures>>

\* No usable answer: the fetch or its parsing failed, the status is unknown,
\* or the upstream said 429; nothing changed; or the bulk update failed.  The
\* task waits for the next pass.
SkipTask(p, t) ==
  /\ Polled(p, t)
  /\ Finish(p, t)
  /\ UNCHANGED <<kind, row, taken, aged, kept, pass, user, failures>>

\* updateVideoSingleTask.  The progress the upstream reports, 100% with any
\* status included, replaces the one of the status, but for a failure.  A task
\* that is not finished is saved without billing; one that is, is billed by the
\* caller that won the update.
updateVideoSingleTask(p, t) ==
  /\ Polled(p, t) /\ kind[t] \in {"video", "legacy", "gemini"}
  /\ \/ \E done \in BOOLEAN :
          \/ UpdateWithStatus(p, t, "IN_PROGRESS", done, "none")
          \/ UpdateWithStatus(p, t, "SUCCESS", done, "settle")
     \/ UpdateWithStatus(p, t, "FAILURE", TRUE, IF job[p][t].quota # 0 THEN "refund" ELSE "none")
  /\ UNCHANGED <<kind, taken, aged, kept, pass, user>>

\* updateSunoTasks: the object takes the answer's status (if any); a failure,
\* or a reason with any status, is refunded before the row is saved.  The status
\* may be the one it had: taskNeedsUpdate compares the other fields as well.
updateSunoTask(p, t) ==
  /\ Polled(p, t) /\ kind[t] = "suno"
  /\ \E s \in {job[p][t].status, "IN_PROGRESS"} \cup Terminal, reason \in BOOLEAN :
       LET failed == reason \/ s = "FAILURE" IN
       Hold(p, t, IF failed /\ job[p][t].quota # 0 THEN "refund" ELSE "save",
            s, failed \/ s = "SUCCESS", 0)
  /\ UNCHANGED <<kind, row, taken, aged, kept, pass, user, failures>>

\* Task.Update: the whole row, whatever became of it meanwhile.
SaveSunoTask(p, t) ==
  /\ job[p][t].pc = "save"
  /\ SetRow(t, job[p][t].status, job[p][t].done, job[p][t].quota)
  /\ Finish(p, t)
  /\ UNCHANGED <<kind, taken, aged, kept, pass, user, failures>>

-----------------------------------------------------------------------------
(* RefundTaskQuota and RecalculateTaskQuota: the funding source, the token, *)
(* then the quota column.  A failure of the first ends the call.            *)

Goto(p, t, pc) ==
  Hold(p, t, pc, job[p][t].status, job[p][t].done, job[p][t].actual)

AfterRefund(p, t) == IF kind[t] = "suno" /\ pass[p].phase = "poll" THEN "save" ELSE "none"

\* Mutant of RefundFunding: the token is refunded although the funding failed.
RefundFundingGoesOn(p, t) ==
  /\ job[p][t].pc = "refund"
  /\ \/ Charge(t, - job[p][t].quota, 0) /\ NoFailure
     \/ Fails(t, "funding") /\ UNCHANGED taken
  /\ Goto(p, t, "refundToken")
  /\ UNCHANGED <<kind, row, aged, kept, pass, user>>
RefundFunding(p, t) ==
  /\ job[p][t].pc = "refund"
  /\ \/ /\ Charge(t, - job[p][t].quota, 0)
        /\ Goto(p, t, "refundToken") /\ NoFailure
     \/ /\ Fails(t, "funding") /\ Goto(p, t, AfterRefund(p, t)) /\ UNCHANGED taken
  /\ UNCHANGED <<kind, row, aged, kept, pass, user>>

\* Mutant of RefundToken: the token is forgotten.
RefundTokenForgotten(p, t) ==
  /\ job[p][t].pc = "refundToken"
  /\ Goto(p, t, AfterRefund(p, t))
  /\ UNCHANGED <<kind, row, taken, aged, kept, pass, user, failures>>
RefundToken(p, t) ==
  /\ job[p][t].pc = "refundToken"
  /\ \/ /\ Charge(t, 0, - job[p][t].quota)
        /\ NoFailure
     \/ Fails(t, "token") /\ UNCHANGED taken
  /\ Goto(p, t, AfterRefund(p, t))
  /\ UNCHANGED <<kind, row, aged, kept, pass, user>>

\* settleTaskBillingOnComplete: a task billed per call, or with neither an
\* adaptor quota nor tokens, keeps its charge.
KeepCharge(p, t) ==
  /\ job[p][t].pc = "settle"
  /\ 0 \in Actuals \/ job[p][t].quota \in Actuals
  /\ Finish(p, t)
  /\ UNCHANGED <<kind, row, taken, aged, kept, pass, user, failures>>

SettleFunding(p, t) ==
  /\ job[p][t].pc = "settle"
  /\ \E a \in Actuals \ {0, job[p][t].quota} :
       \/ /\ Charge(t, a - job[p][t].quota, 0)
          /\ Hold(p, t, "settleToken", "SUCCESS", TRUE, a)
          /\ NoFailure
       \/ Fails(t, "funding") /\ Finish(p, t) /\ UNCHANGED taken
  /\ UNCHANGED <<kind, row, aged, kept, pass, user>>

SettleToken(p, t) ==
  /\ job[p][t].pc = "settleToken"
  /\ \/ /\ Charge(t, 0, job[p][t].actual - job[p][t].quota)
        /\ NoFailure
     \/ Fails(t, "token") /\ UNCHANGED taken
  /\ Goto(p, t, "quota")
  /\ UNCHANGED <<kind, row, aged, kept, pass, user>>

\* Mutant of UpdateQuota: the difference is written, not the quota.
UpdateQuotaDelta(p, t) ==
  /\ job[p][t].pc = "quota"
  /\ SetRow(t, row[t].status, row[t].done, job[p][t].actual - job[p][t].quota)
  /\ Finish(p, t)
  /\ UNCHANGED <<kind, taken, aged, kept, pass, user, failures>>
UpdateQuota(p, t) ==
  /\ job[p][t].pc = "quota"
  /\ \/ /\ SetRow(t, row[t].status, row[t].done, job[p][t].actual) /\ NoFailure
     \/ Fails(t, "quota") /\ UNCHANGED row
  /\ Finish(p, t)
  /\ UNCHANGED <<kind, taken, aged, kept, pass, user>>

-----------------------------------------------------------------------------
(* tryRealtimeFetch: a user's fetch of a Gemini or Vertex task asks the     *)
(* upstream and stores what it says, without any billing.                   *)

FetchRead(t) ==
  /\ kind[t] = "gemini" /\ row[t].status \in Live \cup Terminal
  /\ fetch[t].pc = "none" /\ fetches[t] < MaxFetches
  /\ fetches' = [fetches EXCEPT ![t] = fetches[t] + 1]
  /\ fetch' = [fetch EXCEPT ![t] =
       [pc |-> "read", status |-> row[t].status, done |-> row[t].done,
        quota |-> row[t].quota, actual |-> 0]]
  /\ UNCHANGED <<kind, row, taken, aged, kept, pass, job, failures>>

\* The whole row is written, with the quota that was read, when any field changed
\* and the status is still the one that was read; an error is ignored.
FetchWrite(t) ==
  /\ fetch[t].pc = "read"
  /\ \/ /\ row[t].status = fetch[t].status
        /\ \E s \in {fetch[t].status, "IN_PROGRESS"} \cup Terminal, done \in BOOLEAN :
             SetRow(t, s, done, fetch[t].quota)
     \/ UNCHANGED row
  /\ fetch' = [fetch EXCEPT ![t] = NoJob]
  /\ UNCHANGED <<kind, fetches, taken, aged, kept, pass, job, failures>>

-----------------------------------------------------------------------------

Update(p, t) ==
  \/ SweepTask(p, t) \/ FailInBulk(p, t) \/ SkipTask(p, t)
  \/ updateVideoSingleTask(p, t) \/ updateSunoTask(p, t) \/ SaveSunoTask(p, t)
  \/ RefundFunding(p, t) \/ RefundToken(p, t)
  \/ KeepCharge(p, t) \/ SettleFunding(p, t) \/ SettleToken(p, t) \/ UpdateQuota(p, t)

\* The steps a node takes by itself.
Run(p) == StartPass(p) \/ ReadTasks(p) \/ EndPass(p) \/ \E t \in Tasks : Update(p, t)

Next ==
  \/ \E t \in Tasks :
       \/ Settle(t) \/ Insert(t) \/ InsertFails(t) \/ Age(t)
       \/ FetchRead(t) \/ FetchWrite(t)
  \/ \E p \in Pollers : Run(p) \/ Cancel(p) \/ Crash(p)

Spec == Init /\ [][Next]_vars

\* Time passes, and nodes go on with their passes.
Fairness ==
  /\ \A t \in Tasks : WF_vars(Age(t)) /\ WF_vars(Insert(t))
  /\ \A p \in Pollers : WF_vars(Run(p))

FairSpec == Spec /\ Fairness

-----------------------------------------------------------------------------
(* Properties.                                                              *)

\* The type invariant.
Mem(pcs) == [pc: pcs, status: Status, done: BOOLEAN, quota: Nat, actual: Nat]

TypeOK ==
  /\ kind \in [Tasks -> AllKinds]
  /\ row \in [Tasks -> [status: Status, done: BOOLEAN, quota: Nat]]
  /\ taken \in [Tasks -> [funding: Int, token: Int]]
  /\ aged \subseteq Tasks /\ kept \subseteq Tasks
  /\ pass \in [Pollers -> [phase: {"idle", "sweep", "poll"}, cancelled: BOOLEAN]]
  /\ job \in [Pollers -> [Tasks -> Mem({"none", "listed", "refund", "refundToken", "settle",
                                        "settleToken", "quota", "save"})]]
  /\ fetch \in [Tasks -> Mem({"none", "read"})]
  /\ fetches \in [Tasks -> Nat]
  /\ hurt \in [Tasks -> SUBSET AllFaults]
  /\ faults \in Nat

\* Billing(p, t): p won the last status change of t and is paying for it.
Billing(p, t) == job[p][t].pc \notin {"none", "listed", "save"}

\* A task whose status only the polling passes change.
Guarded(t) == kind[t] \in {"video", "legacy"}

Quiet(t) == \A p \in Pollers : ~ Billing(p, t)

\* What task t may have cost.  A task failed in bulk is not refunded, and neither
\* is a legacy task that times out.
Due(t) ==
  IF row[t].status # "FAILURE" \/ t \in kept THEN {row[t].quota}
  ELSE IF kind[t] = "legacy" THEN {0, row[t].quota} ELSE {0}

\* Two passes never bill the same video task at the same time; one is refunded
\* only while its row says FAILURE, and settled only while its row says SUCCESS
\* or after a bulk update overwrote that.
OneBiller ==
  \A t \in Tasks, p \in Pollers :
    (Guarded(t) /\ Billing(p, t)) =>
      /\ IF job[p][t].pc \in {"refund", "refundToken"}
         THEN row[t].status = "FAILURE" /\ t \notin kept
         ELSE row[t].status = "SUCCESS" \/ t \in kept
      /\ \A o \in Pollers \ {p} : ~ Billing(o, t)

\* Whatever crashes, failed statements, bulk failures and overlapping passes do
\* after the submission was settled, a video task is never refunded more than it
\* paid.
NeverOverRefunded ==
  \A t \in Tasks :
    (Guarded(t) /\ "settle" \notin hurt[t]) => (taken[t].funding >= 0 /\ taken[t].token >= 0)

\* Without failing statements, a video task nobody is billing has cost what its
\* row says, and nothing if it failed: refunded or settled exactly once.  A task
\* that was failed in bulk, because its channel could not be had, has paid in
\* full, at the quota it was settled at if that was under way.
ExactCharge ==
  \A t \in Tasks :
    (Guarded(t) /\ hurt[t] = {} /\ Quiet(t)) =>
      taken[t].funding \in Due(t) /\ taken[t].token = taken[t].funding

\* A crash or a failed statement may lose a refund or half of it, never more: the
\* token is given back only after the funding source.  (A task failed in bulk in
\* the middle of its settlement is not being refunded.)
FundingBeforeToken ==
  \A t \in Tasks :
    (Guarded(t) /\ row[t].status = "FAILURE" /\ t \notin kept) =>
      taken[t].funding <= taken[t].token

\* The status of a video task that ended is final, but for one case: a bulk update
\* of a pass with an older list turns SUCCESS into FAILURE.
TerminalIsFinal ==
  [][\A t \in Tasks :
       (Guarded(t) /\ row[t].status \in Terminal /\ row'[t].status # row[t].status) =>
         row[t].status = "SUCCESS" /\ row'[t].status = "FAILURE" /\ t \in kept' \ kept]_vars

\* A video task ends, even if the upstream never says so, as long as the timeout
\* is enabled, nodes go on polling and fail only finitely often; unless the
\* upstream reported 100% with a status that is no end, a row that neither the
\* poll nor the sweep lists again.
EveryTaskEnds ==
  \A t \in Tasks :
    (TimeoutEnabled /\ Guarded(t) /\ row[t].status \in Live) ~>
      (row[t].status \in Terminal \/ row[t].done)

\* RefundTaskQuota's comment: when an asynchronous task fails, the quota it
\* was charged is given back.
FailedRefunded ==
  \A t \in Tasks :
    (row[t].status = "FAILURE" /\ hurt[t] = {} /\ Quiet(t) /\ kind[t] # "legacy"
       /\ t \notin kept) =>
      taken[t].funding = 0
=============================================================================
