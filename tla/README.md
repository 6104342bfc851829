# QAPI: TLA+ models, model checks and proofs

QAPI is a gateway in Go that relays AI API requests to upstream providers and
charges users for them in *quota*. The core of the program is therefore
accounting under concurrency: every relayed request takes quota in advance from a
wallet or a subscription and from an API token, settles the difference when the
cost is known, and gives everything back when it fails. Around it, several nodes
that share one database run background tasks under leases, one of which moves the
long-running tasks (music, video) to their end and pays for them. Two programs in
JavaScript go with it: the web interface, of which the playground page keeps a
conversation and its streams, and a desktop shell that runs the server as a child.

The models follow the source under `src/`. `PROJECT.json` maps every definition to
its lines.

## 1. Inventory

| Component | State | Operations | Interacts with |
|---|---|---|---|
| Billing session (`service/billing_session.go`, `funding_source.go`, `billing.go`) | per request, in memory: pre-consumed quota, token quota taken, extra reservation, funding source, settled/refunded flags | NewBillingSession, Reserve, Settle, Refund | quota rows, subscription, relay controller, goroutine pool |
| Charges beside the session (`service/quota.go`, `violation_fee.go`) | none of its own | PreConsumeTokenQuota, PostConsumeQuota, PreWssConsumeQuota, ChargeViolationFeeIfNeeded | the same rows as the session |
| Quota rows (`model/user.go`, `model/token.go`) | `users.quota`, `tokens.remain_quota` | increase and decrease by `quota = quota ± ?` | Redis cache, batch updater |
| Subscription consumption (`model/subscription.go`) | `amount_used`, pre-consume records by request id | PreConsumeUserSubscription, RefundSubscriptionPreConsume, PostConsumeUserSubscriptionDelta | billing session, plan reset |
| System tasks (`model/system_task.go`, `service/system_task.go`) | task rows, one lease per type, a runner and its handlers per node | create, claim, take over, renew, finish, expire | every periodic job of the program |
| Quota cache and batch updater (`model/utils.go`, `user_cache.go`, `token_cache.go`) | Redis hashes, an in-memory batch | populate, asynchronous increment, periodic flush | quota rows |
| Subscription lifecycle (`model/subscription.go`, `service/subscription_reset_task.go`) | orders, subscriptions, user groups | complete, expire, buy, reset, cancel | payments, billing session |
| Asynchronous relay tasks (`service/task_polling.go`, `task_billing.go`, `relay/relay_task.go`) | task rows with the quota charged | submit, poll, sweep, refund, recalculate, fetch | billing session, system tasks |
| Playground page (`web/default/src/features/playground`) | conversation, stream or request under way, chunk buffer, timers, copy in local storage | send, regenerate, edit, delete, clear, stop, stream events, save, load, leave | relay API, browser |
| Desktop shell (`electron/main.js`) | child process, connection attempts, windows, tray, message boxes | launch, connect, retry, quit, show, server exit | operating system, the server |
| Activation queue (`service/activation_queue.go`, `model/activation_queue.go`) | targets, jobs | reconcile, enqueue, claim, finish, retry | system tasks |
| Payments (`model/topup.go`, `redemption.go`, `token_sale.go`) | orders, codes | create, complete on callback, expire | quota rows |
| Channel selection, rate limits, adaptors, pricing, accounts, settings, logs, rest of the web interface | see `components` in `PROJECT.json` | | |

What is hard in this code, and what makes each part correct:

- **Several statements, no transaction.** A pre-consume updates the token and then
  the funding source; a settlement the other way round; a refund up to four rows,
  in a goroutine. Other requests run in between, and any statement may fail.
  Correct: a settled request has paid what it cost, a refunded or refused one
  nothing, and nobody gets back more than was paid.
- **Nested and retried transactions.** The refund of a subscription is retried
  around a transaction that may have committed already.
- **Limits shared by concurrent requests.** The subscription's total must hold.
- **Leases.** Nodes crash, stall and compare leases with times they read earlier.
  Correct: one runner per task, a result is final, and no task blocks its type for
  ever.
- **Overlapping polls.** A node that lost its lease is still inside a polling pass
  when the next one begins, and users fetch the same tasks. Correct: a task is
  settled or refunded once, by one pass, and its end is final; where the code gives
  that up (a bulk failure overwrites and refunds nothing), nothing worse happens.
- **Callbacks in an order nobody chose.** Stream events, timers, the continuation of
  an awaited request, clicks and reloads meet in the playground page. Correct: an
  answer is complete and in order as far as the page reads the server right, nothing
  waits for ever, whatever the open page receives can be stopped, leaving it loses
  nothing.
- **A child process that does not obey.** It may never start, hang, ignore SIGTERM
  or be dead already when the shell quits. Correct: the start ends in a window or a
  message, a quit ends, and no server is left behind.
- **Out of order and repeated deliveries** (payment callbacks, cache fills): planned.

The `hazards` of `PROJECT.json` give the line of each, with the properties that
cover it.

## 2. Modules

| Module | Content |
|---|---|
| `BillingSession` | the billing session over shared rows, with the charges made beside it |
| `MCBillingSession` | small instances: kinds of requests, symmetry |
| `BillingSession_proofs` | inductive invariant and theorems: types, limits, one outcome |
| `BillingLedger_proofs` | what each request has paid at every moment: exact amounts |
| `SystemTask` | rows, lease, runners and handlers of one task type |
| `JobQueue` | what the system tasks of one type promise, without nodes and leases |
| `MCSystemTask` | symmetry for small instances |
| `SystemTask_proofs` | inductive invariants, theorems, the refinement |
| `TaskPolling` | rows of asynchronous tasks, polling passes, billing, a user's fetch |
| `MCTaskPolling` | small instances |
| `TaskPolling_proofs` | inductive invariant and theorems |
| `Playground` | the playground page: conversation, streams, requests, local storage |
| `MCPlayground` | small instance |
| `Playground_proofs` | inductive invariant and theorems |
| `Electron` | the desktop shell: server process, start, windows, quitting |
| `MCElectron` | small instance |
| `Electron_proofs` | inductive invariant and theorems |

A definition named "Mutant of X" in a comment is X with a plausible mistake; no
specification uses it. `mutants` in `PROJECT.json` says which property it breaks.

### BillingSession

One user, one token and one subscription are shared by all `Requests`. An action is
one SQL statement or one transaction, so everything the code does not do in one
transaction interleaves. The session's mutex is the program counter `req[r].pc`: a
call under way has left `"open"`. The goroutine that `Refund` starts has a counter
of its own, `refund[r].pc`, and runs beside the request.

| Code | Model |
|---|---|
| `users.quota`, `tokens.remain_quota`, `amount_used` | `userQuota`, `tokenQuota`, `amountUsed` |
| `subscription_pre_consume_records.status` | `record[r]` |
| `BillingSession` and `WalletFunding` / `SubscriptionFunding` | `sess[r]`: `pre`, `tok`, `extra`, `trusted`, `fSettled`, `settled`, `refunded`; `consumed`, `subPre` |
| context of the request (`RelayInfo`, token quota read by the auth middleware) | `input[r]`, `req[r]` |
| NewBillingSession: `tryWallet`, `trySubscription` and both fallbacks | `CheckSubscription`, `TryWallet`, `TrySubscription`, `CheckOverflow` |
| `preConsume` | `CheckToken`, `DecreaseToken`, `PreConsumeWallet`, `PreConsumeSubscription`, `RollbackToken` |
| `Reserve` | `ReserveFunding`, then the token actions with `op = "reserve"`, `ReserveRollback` |
| `Settle` | `SettleFunding`, `SettleToken` |
| `Refund` and its goroutine | `Refund`, `RefundWallet`, `RefundSubscription`, `RefundMark`, `RefundExtra`, `RefundToken` |
| `PostConsumeQuota` and its callers | `PreWssConsumeQuota`, `ChargeViolationFee`, `PostConsumeFunding`, `PostConsumeToken` |

`paid` (net quota taken on behalf of each request, per row) and `faults` (statements
that failed on its behalf) are history variables. A statement fails only if its
class is in the constant `Faults`; the properties about exact amounts are stated for
requests on whose behalf nothing failed, the others for all.

Decisions worth knowing:

- `Refund` is called by the relay's deferred function when a request failed; no
  caller settles afterwards, although `Settle` itself does not look at `refunded`.
  `req[r].failed` models that protocol of the callers.
- `Reserve` is part of the interface (`relay/common/billing.go:22`) and has no
  caller at this commit; it is modelled as a call any open session may receive, so
  the properties also hold for a future caller. None of the hazards is about it.
- A funding source that refuses a `Reserve` or a `Settle` has changed nothing, and
  such a refusal is no action.
- The two reads of PreWssConsumeQuota (user, token) are one step, either may fail,
  and a connection may go on after a refusal: the model has more behaviours than the
  code here. The early return for `relayInfo.UsePrice` (`service/quota.go:90`) is
  left out because nothing in the repository assigns that field
  (`relay/common/relay_info.go:103`); a fixed price sets `PriceData.UsePrice`.
- A failing statement of PreConsumeUserSubscription is reported as "no active
  subscription" or as another error, depending on which one it is
  (`model/subscription.go:1355`): the model allows both, with and without fallback.
- The trust decision uses `tokenSeen`, read when the request arrives, and the
  wallet quota read by `tryWallet`, as the code does.
- The refund of a subscription is two steps because PostConsumeUserSubscriptionDelta
  opens a transaction of its own on the global connection (`RefundSubscription`
  ends with its commit, `RefundMark` is the rest of the outer transaction).

Not in the module: the Redis cache and batch mode, several subscriptions per user,
the plan reset inside PreConsumeUserSubscription, the price formulas.

### SystemTask

One task type is modelled, since rows and leases of different types never meet. An
action is one SQL statement. Time is the lease's remaining life: `Tick` lets it run
down, and below zero the lease is stale. The code compares `locked_until` with a
`now` read at the start of a pass or of a claim; a runner whose `now` is later than
`locked_until` is in `lock.late`, and the guarded UPDATE and DELETE test that.
A new lease has an empty `late`. The nodes' clocks agree.

| Code | Model |
|---|---|
| `system_tasks` (status, locked_by, active_key) | `row[t]` |
| `system_task_locks` | `lock` |
| the loop `runPass` on each node | `loc[n]`: `ExpireFind`/`SkipExpire`, `ExpireMark`, `ExpireDelete`, `Schedule`, `ClaimFind`, `AcquireInsert`, `AcquireRead`, `Takeover`, `MarkOld`, `SetRunning`, `Unclaim` |
| handler goroutines with their heartbeat | `handler[n][t]`: `Renew`, `Finish`, `FinishRelease` |
| EnqueueSystemTask, StartLogCleanupTask | `Enqueue` |
| crash of a node; a failing statement; time | `Crash`, the `DbFails` disjuncts, `Tick` |

- A node that restarts gets a new runner id in the code, so a crashed runner stays
  dead.
- The scheduler's read and insert are one step: the unique `active_key` makes the
  insert fail in every case where a later one would differ.
- `LegacyTasks` are pending rows without `active_key`, written by an older version.
  The code handles them, and `model/system_task_test.go:116` tests it. They are the
  only way to several active rows of a type, and to a takeover of another row's
  lease. With them two rows of a type can be running at once: a claimer that took
  over a lease and then crashed, or whose MarkSystemTaskLeaseExpired failed, leaves
  the old row running. `SystemTaskLegacy` therefore has a crash and a failing
  statement and checks what the code keeps in spite of them: no row is executed by
  two runners, and no result is overwritten. `RunningIsLeased` is claimed, checked
  and proved without legacy rows only.
- `PromptClaims` says that a node that is up finishes a claim within the lease's
  60 seconds. Without it a stalled claimer may write a lease that is stale already;
  another node deletes it, and the claimer then sets the row running without any
  lease. `RunningIsLeased` and `TaskEnds` are stated for `PromptClaims`;
  `OneRunnerPerTask` and `EndedIsFinal` are proved without it.

- `ImplementsQueue`: under the mapping `status <- row[t].status` every behaviour is one
  of `JobQueue`, which accepts one task at a time, starts it at most once and ends it
  once. Leases, heartbeats, claims and crashes are stuttering steps. The mapping is
  claimed for rows with an `active_key` only (`LegacyTasks = {}`).

### TaskPolling

A submission has been accepted by the upstream and its billing session is about to be
settled. An action is one SQL statement; the call to the upstream belongs to the step
that uses its answer, since it touches nothing shared. Passes overlap: the pass is a
system task, and a node whose lease lapsed goes on until it looks at its context.

| Code | Model |
|---|---|
| the `tasks` row: status, progress, quota | `row[t]`; "SETTLED" is the moment between settlement and insert |
| wallet or subscription, and token | `taken[t]`: the net quota taken for the task (history) |
| the `Task` objects a pass holds, each goroutine's place | `job[p][t]` |
| RelayTask, after the upstream accepted | `Settle`, `Insert`, `InsertFails` |
| RunTaskPollingOnce | `StartPass`, `ReadTasks`, `Cancel`, `EndPass` |
| sweepTimedOutTasks | `SweepTask` |
| Task.UpdateWithStatus | `Won`, `Lost`, `CasFails` |
| updateVideoSingleTask, updateSunoTasks, TaskBulkUpdateByID | `updateVideoSingleTask`, `SkipTask`, `updateSunoTask`, `SaveSunoTask`, `FailInBulk` |
| RefundTaskQuota, RecalculateTaskQuota | `RefundFunding`, `RefundToken`; `KeepCharge`, `SettleFunding`, `SettleToken`, `UpdateQuota` |
| tryRealtimeFetch | `FetchRead`, `FetchWrite` |

- SUBMITTED, QUEUED and IN_PROGRESS are one status: the code treats them alike.
- `kind` separates what the code separates: Suno tasks (unconditional save), video
  tasks (compare-and-swap), Gemini and Vertex tasks (also moved by fetches), tasks
  older than `legacyTaskCutoff`, tasks without an upstream id. The cutoff is
  1740182400, which is 2025-02-22; the comment beside it (`task_polling.go:53`) says
  2026-02-22. The model only needs that some tasks are older.
- Channels are no state of the model: CacheGetChannel returns an error for a deleted
  channel, for one that the memory cache does not have, and when the database cannot
  be read, so any polled task may meet one. `FailInBulk` then fails it without a
  compare-and-swap and without a refund, as it does a task without an upstream id.
  `kept` remembers (history) the tasks that this turned into failures.
- The progress an upstream reports is copied whatever the status, so a row may be
  IN_PROGRESS at 100% (`done`). Such a row is listed neither by the poll nor by the
  sweep, and stays as it is.
- `Guarded(t)` names the tasks the money properties speak of: video tasks, legacy ones
  included. What a bulk failure does to them is in the properties: the task has paid
  what it was settled at and no pass refunds it (`ExactCharge`), a settlement under way
  goes on over it (`OneBiller`, `FundingBeforeToken`), and it is the only update that
  replaces an end by another (`TerminalIsFinal`). `EveryTaskEnds` needs the timeout
  (`TimeoutEnabled`; without it the upstream alone decides) and excepts rows at 100%.
  For Suno tasks TLC refutes `NeverOverRefunded` and `ExactCharge` (the refund comes
  before an unconditional save, so two passes both refund). Nothing in the code
  promises more for these cases, so they are hazards with a note and not findings.
- A fetch writes the whole row when any field changed, also with the status it read,
  and with the quota it read (`FetchWrite`).
- `NeverOverRefunded` also needs that the submission was settled: an error of
  SettleBilling is logged, the row keeps the final quota, and a refund then gives back
  more than was taken. TLC refutes the property without the premise.

### Playground

JavaScript runs one callback at a time, so an action is one callback: a click, an
event of a stream, a timer, what follows an `await`. Click handlers use what React
rendered last, `view`; `Render` brings it up to date, and the changes of a click are
rendered before the next one (React flushes discrete events synchronously).

| Code | Model |
|---|---|
| usePlaygroundState: messages, refs, save timer | `messages`, `loaded`, `saveTimer`, `stored` |
| useStreamRequest: sseSourceRef, open sources | `sse`, `sources` |
| useChatHandler: chunk buffer, timer, request id, abort controller | `pending`, `flushTimer`, `requests`, `requestId`, `abortCtl`, `isRequesting` |
| usePlaygroundConversation, message actions | `Send`, `Regenerate`, `OpenEditor`, `CloseEditor`, `ApplyEdit`, `Delete`, `Clear`, `Stop` |
| stream handlers | `StreamChunk`, `FlushStreamUpdates`, `StreamComplete`, `StreamError`, `StreamEndsQuietly` |
| continuation of sendNonStreamingChat | `RequestAborted`, `RequestAnswered`, `RequestFailed` |
| storage.ts | `Trim`, `Recent`, `Normalized`, `Sanitized`, `LoadMessages`, `Loadable`, `Store`, `Save` |
| effects and their clean-up | `Load`, `SaveMessages`, `Unmount`, `Mount`; `Reload` runs no clean-up |
| callbacks of a page that was left | `abandoned`; `LateFlush`, `LateReply` |

- Text is a sequence of words, of any content and any division into parts. A server
  sends parts or snapshots, and the page has to guess which: `MergeChunk` and
  `AppendableChunk` take a chunk that begins like the buffer, or like the text shown,
  for a snapshot. For a part the guess can be wrong ("ha" after "ha", "10" after "1"),
  and text is lost; `LooksLikeSnapshot` says when, and `misread` remembers the answers
  it happened to. `said` is what the server really sent. `AnswerInOrder` speaks of all
  other answers: it says that this guess is the only thing that can lose, double or
  reorder text.
- The code buffers reasoning and content in the same way; the model keeps one of them.
  Versions of a message are left out, since only the first is ever created.
- removeMessageByKey filters by key; `RemoveMessageByKey` removes the one message that
  has it, since no two have the same (`KeysDistinct`, proved in `Playground_proofs`).
- Loading: a stored conversation of more than 1 MB is removed and the page starts empty
  (`lib/storage/storage.ts:60-63`), a value that cannot be read or parsed is kept and the
  page starts empty as well, texts over the limit are cut, and older messages than fit
  are dropped. Sizes in characters are not counted, so `Loadable` allows each of these
  whatever is stored. A write may fail (quota, private mode); the page goes on.
- Leaving: no clean-up closes the source or aborts the request
  (`hooks/use-chat-handler.ts:132-139` clears only the flush timer). The connections of
  a page that was left go on (`abandoned`), and nobody can stop them: `Stoppable` is
  about the open page. React drops updates of a component that is gone, but may evaluate
  the first one eagerly, and the updater of updateMessages starts the timer of a save: a
  page that was left may overwrite what a later visit stored. `LateSave` models that,
  `apart` remembers it for `LeaveSaves`, and `AnswerInOrder` and `SettledWhenIdle` hold
  with it. A reload ends all connections.
- External: sse.js delivers the events of a source in order and none after `close()`;
  React's treatment of updates as above.
- `hasty` remembers the two moments no guard covers: a message sent before the stored
  conversation is loaded, and an edit saved while an answer is being generated. After
  them TLC refutes `Stoppable` (two requests, one abort controller), `AnswerInOrder`
  and `SettledWhenIdle`. No comment or test says otherwise; it is listed as a hazard.

### Electron

An action is one callback of the main process, or something that the user, the server
or the operating system does. `check` counts connection attempts made, requests under
way and retries due; a request that times out is destroyed, which may report an error
as well and lead to two retries. `foreign` says that another process answers on the
port: a server left by a killed shell, or a stranger.

| Code | Model |
|---|---|
| startServer, checkServerAvailability | `Launch`, `Connect`, `ConnectFails`, `Retry`, `SpawnError`, `Reject` |
| the child and its 'close' event | `ServerListens`, `ServerExits`, `ServerClose`, `PortFreed` |
| before-quit, its timer and its close handler | `AppQuit`, `QuitTimer`, `ServerClose` |
| tray menu, message boxes, quit of the system | `TrayQuit`, `Dismiss`, `ViewLog`, `OsQuit` |
| createWindow, tray, dock | `CreateWindow`, `UserCloses`, `TrayShow`, `TrayClick`, `Activate` |

External: `app.quit()` runs before-quit and, unless prevented, closes the windows and
exits unless one refuses; `app.exit()` exits at once. `early` remembers a click on the
dock icon before the server answered, after which there are two windows and the tray
knows only the second; `OneWindow` is stated without it.

## 3. Runs

| Run | Instance | Question |
|---|---|---|
| `BillingFaultFree` | 2 requests of 6 kinds, no faults, 2.4 million states | exact settlement, full refund, nothing paid when refused, nobody credited, the total holds, one outcome |
| `BillingFaults` | a relayed and a realtime request, every statement but `refundMark` may fail, 2.7 million states | what still holds when statements fail |
| `BillingLive` | 2 requests that fall back, failing refund marks, 113 thousand states | every session is decided, every refund ends |
| `BillingRefundRetry` | `refundMark` may fail | *violated*: the refund of a subscription is not idempotent |
| `BillingRealtime` | realtime connections, no faults | *violated*: usage is charged during the connection and again at its end |
| `SystemTaskLegacy` | 3 nodes, 2 legacy rows, one crash, one failing statement, 1.4 million states | mutual exclusion and finality across takeovers |
| `SystemTaskCrash` | 2 nodes, 2 tasks, one crash, one failing statement, 124 thousand states | every task ends; the nodes together implement `JobQueue` |
| `SystemTaskLease` | 3 nodes, 1 task, one crash | *violated*: a late expiry fails a task whose runner holds a live lease |
| `TaskPolling` | 1 task of 5 kinds, 2 nodes, one failure or crash anywhere, one fetch, 639 thousand states | one biller, exact charge, no excess refund, final status up to bulk failures, every task ends |
| `TaskPollingRefund` | a Gemini task, a user's fetch, no failures | *violated*: a task that a fetch finds failed is never refunded |
| `Playground` | 3 messages, 2 chunks that may repeat, 1 stored message, one leave, 493 thousand states | answers in order unless misread, nothing waits or runs for ever, the open page can be stopped, leaving saves |
| `Electron` | 3 attempts, 3 windows, 2 launches, 33 thousand states | no orphan, one window, a start answers, a quit ends |

**Bounds.** A session meets other sessions only through the three rows, and each
of its statements is an increment of one row or a check against it. A second
request whose steps fall anywhere between those of the first can move every row up
and down there, which is what any further request could do. The quotas (3 each, requests of up to 2) are chosen so that the rows do not
suffice for both requests: refusals, fallbacks, overdrawn wallets and the edge of
the subscription all occur. `TrustQuota = 2` makes requests trusted at first and
not later. Actual costs below, equal to and above the pre-consumed quota occur.
`MaxReserved` and `MaxRealtime` bound what one session may reserve and report.
For system tasks three nodes are needed for the violation (one crashes, one claims,
one expires); a `TTL` of 1 has a live, a last and a stale moment.
A task of `TaskPolling` never reads another task's row or charge, so one is enough;
two passes are, since only the holder of the row's status and one loser matter to a
compare-and-swap. `Estimate` 1, final quota 2 and actual costs 0, 1, 3 give settlements
that fail, keep, lower and raise a charge. `MaxDrift` bounds how often a Suno or Gemini
task is billed again. In `Playground` three messages are
a question with its answer and one regeneration or submitted edit, so that a second
generation meets what is left of the first. The parts `<<a>>` and `<<a, b>>` repeat one
another, begin like one another and differ; two chunks are one before and one after a
flush, or two in one buffer. With room for one stored message the conversation is
trimmed; one leave has a first and a second load, with a connection of the first page
still open. The safety properties were also checked with two stored messages, with four
messages and no leave, and with two leaves and two messages.
In `Electron`
two launches let the second meet the server of the first, and three attempts include
a doubled retry.

**Deadlock** is checked for system tasks, whose loops never stop, and not for
billing, tasks, the page and the shell, where requests and tasks end, the user may do
nothing more, and the number of launches is bounded.

**Fairness.** Billing: weak fairness of `NewBillingSession(r)` (a request goroutine
runs on until it has an answer) and of `RefundGoroutine(r)` (gopool runs every
function it is given). Nothing forces a request to be settled: that depends on the
upstream. System tasks: weak fairness of a runner's loop, of handlers ending (all
handlers return, or are cancelled), and of time; strong fairness of `ExpireFind`,
because the pass is throttled to one in 30 seconds against a ticker of 15 seconds,
so it is let through again and again but not every time. Task polling: weak fairness
of time (`Age`), of the insert after a settlement, and of each node's own steps `Run`
(the scheduler starts a pass while a task is unfinished); failures are finite. The
upstream owes nothing, so that only the timeout guarantees an end. Playground: weak
fairness of rendering, of the timers, and of connections ending in some way; the user
owes nothing. Electron: weak fairness of socket events, timers and child events, which
Node delivers; the user and the server owe nothing, and SIGTERM may be ignored.

**Findings.** The four violated runs, with the lines they contradict, are in
`findings` of `PROJECT.json`. (1) RefundSubscriptionPreConsume calls
PostConsumeUserSubscriptionDelta, which commits separately; if the outer write
fails, the retry refunds again. (2) A realtime connection pays through
PostConsumeQuota for every response and is settled for their sum. (3)
ExpireStaleSystemTaskLocks fails a row by its id alone, after another node may have
taken over the stale lease of that row while it was still pending and started it.
(4) tryRealtimeFetch stores the end of a Gemini or Vertex task without billing it; the
poller no longer sees the task, and a failed one keeps its charge.

## 4. Proofs

All theorems hold for every value of the constants that satisfies
the module's assumption (`BillingAssumption`, `SystemTaskAssumption`, `TaskAssumption`,
`PlaygroundAssumption`, `ElectronAssumption`: types of the constants only).

**BillingSession_proofs**: `TypeCorrect` (`TypeOK`), `WithinTotal`
(`SubscriptionWithinTotal`), `OneOutcome` (`SettledOrRefunded`). The inductive
invariant `BillingInv` adds to the first two `UnderWay` for each request: a
reservation under way on a wallet is part of `consumed` (or `ReserveRollback`
could make it negative); a refund that may still fail has attempts left; the
goroutine runs only for refunded sessions; a refunded session has failed and is
not settled; a failed request is past every call of its session; a settlement
half-way has `fSettled`. `OwnStep` reduces an action of `r` to the three records
of `r`; one lemma per group of actions follows, and `StepKeeps` combines them.

**BillingLedger_proofs**: `RefusedForFree` (`RejectedPaysNothing`), and, if
`"refundMark" \notin Faults`, `SettledExactly` (`ExactSettlement`), `RefundedExactly`
(`RefundedInFull`), `NothingForFree` (`NeverCredited`) and `NothingLost` (`amountUsed`
is the sum of what the requests took), for any number of requests on the same rows.
The hypothesis excludes the fault of finding 1, and only that one: with it TLC refutes
`RefundedInFull` and `NeverCredited` (see `BillingRefundRetry`); `BillingFaultFree` and
`BillingFaults`, the runs that check the four properties, satisfy it. The invariant `Ledger` has two parts. `AccountOf(r)` relates
`paid[r]` to the session at each program counter: `Shape` (which fields may be set
there), `Early` (before the session exists nothing is paid), `Covered` (whatever
failed, at least what the session would give back has been paid) and `Exact` (if
nothing failed, exactly that). `Accounted` says that `amountUsed` is the sum of
`paid[r].sub`. They need each other: the database clamps a refund of the subscription
at zero, so that it is exact only if `amountUsed` is at least what the request took,
and that follows from the sum, all parts of which are natural by `Covered`. The sum is
the number of pairs of a request and a unit it paid (`Units`), so that the theorems on
cardinality do what an induction over the requests would have to.

**SystemTask_proofs**: `TypeCorrect`, `ResultIsFinal` (`EndedIsFinal`), `OneRunner`
(`OneRunnerPerTask`, from `HandlerOwnsRow`: the row of a task with a handler names
that runner and is past pending), and `RunningLeased`: with `PromptClaims` and
without legacy rows, `[]RunningIsLeased`. Its invariant `Leases` says that at most
one row is active (`OneActiveRow`), that a claimer past the lease holds it alive
(`ClaimerHolds`), that a lease which a claimer may take over or an expirer delete
covers no running row (`StaleCoversNothing`), and that a running row is named by the
lease (`RunningIsNamed`). The two hypotheses of `RunningLeased` are needed: a stalled claimer
breaks it as described above, and with legacy rows a claimer that crashes between
`Takeover` and `MarkOld` leaves the old row running without a lease. `Implementation`:
without legacy rows the specification implements `JobQueue`; `OneActiveRow` is what
makes a schedule or an enqueue a `Submit`, and `RowLife` what makes every other change
of a row a `Start` or an `End`.

**TaskPolling_proofs**: `TypeCorrect`, `OneBillerAlways`, `NeverOverRefundedAlways`,
`ExactChargeAlways`, `FundingFirst`, `EndIsFinal`, for any number of tasks, nodes,
failures and crashes, with bulk failures at any moment. None of them is inductive: what has been taken is right only
relative to where the billing stands. `MoneyInv` says so for each guarded task:
`JobOK` (a copy read by a pass is of a live row and has its quota; a copy being billed
has the row's quota, and its status unless a bulk failure overwrote it), `Alone` (one node bills), `Progress` (what has been
taken at each statement of a refund or a settlement), `Books` (what has been taken in
each status of the row, and for a task in `kept`). `PassInv` and `FetchInv` keep idle nodes and fetches out of it. One
lemma per action shows that its task keeps `TaskInv` and that the others are untouched.

**Playground_proofs**: `TypeCorrect`, `KeysDistinct`, `StoppableAlways`,
`InOrderAlways` (`AnswerInOrder`), `SettledAlways` (`SettledWhenIdle`),
`LeaveSavesAlways` (`LeaveSaves`), for conversations of any length and answers of any
text in any division. The invariant `PageInv` says that keys are distinct and none is
ahead of `lastKey` (`Conversations`); that a page has one source at most, the one it can
close (`OneSource`); that requests have different keys and an aborted one cannot be taken
for the current one (`OneRequest`); that every answer has one connection, of the page or
of one that was left (`Connections`, without which two of them could write one answer);
that a rendered page is not behind in what guards rely on (`Shown`); that without a
running timer storage is up to date unless something failed (`Saved`); and, until
`hasty`, `Orderly`. Its core is `Receiving`: a source's message is the last one, and,
unless the answer was misread, `Buffered` relates the text shown, the buffer and what was
said: with parts the buffer is exactly the rest and does not begin with the text shown
(or the next flush would misread it), with snapshots the text shown is a prefix and the
buffer is empty or everything. `Resumable` says the same of the copy a page that was left
holds, so that a late save stores a proper conversation. `Orderly` adds that a request
under way is the current one, that only a last message waits, and only while the page is
generating, and that a page that is not generating shows the current conversation. TLC
checked `PageInv` before it was proved. The actions fall into groups with one lemma each:
an answer begins (`BeginsKeeps`: send, regenerate, submitted edit), a conversation at
rest is rewritten (`RewritesKeeps`), an answer ends (`EndsKeeps`: stop, completion,
error, reply), the server speaks (`SpokenOrderly`, used for chunks and late updates),
the page is left or loaded (`LeaveKeeps`, `LoadKeeps`), and a left page saves
(`LateSaveKeeps`).

**Electron_proofs**: `TypeCorrect`, `NeverOrphaned` (`NoOrphan`), `OneWindowAlways`
(`OneWindow`), for any number of attempts, windows and launches. `ShellInv` adds that
the start has room for its window (`Room`), the main window exists (`MainExists`), a
running shell knows its child (`Known`, without which an exit with no
`serverProcess` could leave one), and that before the server answers there is neither
tray nor, unless `early`, a window (`Quiet`).

**Only model-checked**: the liveness properties
`RefundCompletes`, `SessionDecided`, `TaskEnds`, `EveryTaskEnds`, `GenerationEnds`,
`QuitEnds`, `StartupAnswers`, which are out of the prover's reach.

## 5. Plan

Built: `BillingSession`, `SystemTask` with `JobQueue`, `TaskPolling`, `Playground`,
`Electron`. What is left, in this order:

1. `Subscription`: orders, completion callbacks, reset and expiry against
   consumption and refunds of the previous period.
2. `QuotaCache`: database row, Redis hash, populate against increment, batch flush.
3. `ActivationQueue`: targets, dedupe keys, claims, retries, reconciliation.
4. `Payments`: top-up and redemption, each callback delivered more than once.

Abstract specification still worth stating: a *ledger* (a request is charged nothing, a
reservation, exactly its cost, or nothing again) that `BillingSession` without faults
and the guarded tasks of `TaskPolling` implement.

## 6. Not modelled

- Quota cache, subscription lifecycle, activation queue, payments: planned, see above;
  their hazards are listed with a note.
- Format conversion of the adaptors, price formulas, random channel selection,
  accounts and OAuth, logs and metrics: data or library code without the shared state
  that a model checker explores.
- The rest of the two web interfaces (`web/default`, `web/classic`), by far the largest
  part of the repository in lines: forms, tables, dialogs, charts, settings pages and
  translations. They render what the server returns and submit what the user typed;
  each keeps form state and one query at a time through a library, and has no protocol
  of its own. A model of them would be a list of fields. The playground page is the
  part of the interface that has concurrency, storage and failure of its own.
- In `TaskPolling`: rendering of task results, proxied media, Midjourney tasks (a
  separate table and poller). In `Playground`: model and group selection, parameters,
  attachments and rendering. In `Electron`: the wording of the message boxes and the
  classification of errors by the text of the server's log.

The reasons are given per component in `PROJECT.json`.
