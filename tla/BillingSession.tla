--------------------------- MODULE BillingSession ---------------------------
(***************************************************************************)
(* The billing session of one relayed request: pre-consume, reserve,       *)
(* settle, refund (service/billing_session.go, service/funding_source.go), *)
(* with the wallet, token and subscription rows they update and the        *)
(* charges made outside the session (realtime usage, violation fee).       *)
(*                                                                         *)
(* One user, one token and one subscription are shared by every request in *)
(* Requests.  An action is one database statement or transaction, so that  *)
(* the steps of several requests interleave between them, and so does the  *)
(* goroutine that Refund starts.  The session's mutex is the program       *)
(* counter: a call in progress has left "open", and no other call of that  *)
(* session starts before it is back.                                       *)
(***************************************************************************)
EXTENDS Integers, FiniteSets

CONSTANTS
  Requests,         \* relayed requests of one user and one token
  Inputs,           \* the requests that arrive: [pref, kind, want, playground, force]
  ReserveTargets,   \* quotas a caller may raise the reservation to
  ActualQuotas,     \* quotas a request may turn out to cost
  InitUserQuota,    \* users.quota at the start
  InitTokenQuota,   \* tokens.remain_quota at the start
  AmountTotal,      \* user_subscriptions.amount_total, 0 = unlimited
  TrustQuota,       \* common.GetTrustQuota()
  FeeQuota,         \* the violation fee, 0 = disabled
  MaxReserved,      \* bound on the wallet quota one session may hold
  MaxRealtime,      \* bound on the usage one realtime connection reports
  Faults            \* database statements that may fail in this instance

AllPrefs == {"subscription_first", "wallet_first", "subscription_only", "wallet_only"}
AllInputs ==
  [pref: AllPrefs, kind: {"relay", "realtime"}, want: Nat, playground: BOOLEAN, force: BOOLEAN]
AllFaults == {"read", "token", "wallet", "subscription", "rollback", "refundMark"}

ASSUME BillingAssumption ==
  /\ \A in \in Inputs : in \in AllInputs
  /\ ReserveTargets \subseteq Nat /\ ActualQuotas \subseteq Nat
  /\ InitUserQuota \in Int /\ InitTokenQuota \in Int
  /\ AmountTotal \in Nat /\ TrustQuota \in Int /\ FeeQuota \in Nat
  /\ MaxReserved \in Nat /\ MaxRealtime \in Nat
  /\ Faults \subseteq AllFaults

VARIABLES
  userQuota,    \* users.quota
  tokenQuota,   \* tokens.remain_quota
  amountUsed,   \* user_subscriptions.amount_used
  subActive,    \* the subscription is active and has not ended
  setup,        \* token.unlimited_quota and subscription.allow_wallet_overflow
  record,       \* subscription_pre_consume_records.status, by request id
  input,        \* what each request asks for: preference, quota, playground...
  req,          \* the request: its RelayInfo, and where its goroutine stands
  sess,         \* its BillingSession and FundingSource
  refund,       \* the goroutine Refund starts
  paid,         \* net quota each request has taken from each row (history)
  faults        \* statements that failed on behalf of each request (history)

db == <<userQuota, tokenQuota, amountUsed>>
env == <<setup, input>>
vars == <<userQuota, tokenQuota, amountUsed, subActive, setup, record, input, req,
          sess, refund, paid, faults>>

-----------------------------------------------------------------------------

NoSession ==
  [funding |-> "none", pre |-> 0, tok |-> 0, extra |-> 0, trusted |-> FALSE,
   consumed |-> 0, subPre |-> 0, fSettled |-> FALSE, settled |-> FALSE,
   refunded |-> FALSE, actual |-> 0]

NewRequest ==
  [pc |-> "new", tokenSeen |-> 0, op |-> "pre", amt |-> 0, insufficient |-> FALSE,
   total |-> 0, post |-> 0, failed |-> FALSE]

Init ==
  /\ userQuota = InitUserQuota
  /\ tokenQuota = InitTokenQuota
  /\ amountUsed = 0
  /\ subActive \in BOOLEAN
  /\ setup \in [unlimited: BOOLEAN, overflow: BOOLEAN]
  /\ record = [r \in Requests |-> "none"]
  /\ input \in [Requests -> Inputs]
  /\ req = [r \in Requests |-> NewRequest]
  /\ sess = [r \in Requests |-> NoSession]
  /\ refund = [r \in Requests |-> [pc |-> "none", attempt |-> 0]]
  /\ paid = [r \in Requests |-> [wallet |-> 0, token |-> 0, sub |-> 0]]
  /\ faults = [r \in Requests |-> {}]

-----------------------------------------------------------------------------
(* Database statements.  Quota columns move by "quota = quota - ?".         *)

Fails(r, f) ==
  /\ f \in Faults
  /\ faults' = [faults EXCEPT ![r] = @ \cup {f}]

TakeWallet(r, n) ==
  /\ userQuota' = userQuota - n
  /\ paid' = [paid EXCEPT ![r].wallet = @ + n]
  /\ UNCHANGED <<tokenQuota, amountUsed>>

TakeToken(r, n) ==
  /\ tokenQuota' = tokenQuota - n
  /\ paid' = [paid EXCEPT ![r].token = @ + n]
  /\ UNCHANGED <<userQuota, amountUsed>>

\* PostConsumeUserSubscriptionDelta: clamped at zero, refused above the total.
UsedAfter(delta) == IF amountUsed + delta < 0 THEN 0 ELSE amountUsed + delta

\* Mutant of Exceeds: compares the amount used before the charge.
ExceedsBefore(delta) == AmountTotal > 0 /\ amountUsed > AmountTotal
Exceeds(delta) == AmountTotal > 0 /\ UsedAfter(delta) > AmountTotal

TakeSub(r, delta) ==
  /\ ~ Exceeds(delta)
  /\ amountUsed' = UsedAfter(delta)
  /\ paid' = [paid EXCEPT ![r].sub = @ + (UsedAfter(delta) - amountUsed)]
  /\ UNCHANGED <<userQuota, tokenQuota>>

Goto(r, pc) == req' = [req EXCEPT ![r].pc = pc]

-----------------------------------------------------------------------------
(* NewBillingSession: choosing the funding source, with its fallbacks.      *)

\* The request arrives; the auth middleware has put the token's quota in the
\* context, where shouldTrust reads it later.
Start(r) ==
  /\ req[r].pc = "new"
  /\ req' = [req EXCEPT ![r] =
       [@ EXCEPT !.pc = CASE input[r].pref = "subscription_first" -> "check"
                          [] input[r].pref = "subscription_only" -> "sub"
                          [] OTHER -> "wallet",
                 !.tokenSeen = tokenQuota]]
  /\ UNCHANGED <<db, subActive, env, record, sess, refund, paid, faults>>

\* A query of the selection phase fails: the request is refused.
ReadFails(r) ==
  /\ req[r].pc \in {"check", "wallet", "overflow"}
  /\ Fails(r, "read")
  /\ Goto(r, "rejected")
  /\ UNCHANGED <<db, subActive, env, record, sess, refund, paid>>

CheckSubscription(r) ==
  /\ req[r].pc = "check"
  /\ Goto(r, IF subActive THEN "sub" ELSE "wallet")
  /\ UNCHANGED <<db, subActive, env, record, sess, refund, paid, faults>>

shouldTrust(r) ==
  /\ ~ input[r].force
  /\ TrustQuota > 0
  /\ setup.unlimited \/ req[r].tokenSeen > TrustQuota
  /\ userQuota > TrustQuota

\* tryWallet: the quota is read here and deducted two statements later.
TryWallet(r) ==
  /\ req[r].pc = "wallet"
  /\ IF userQuota <= 0 \/ userQuota - input[r].want < 0
     THEN /\ Goto(r, IF input[r].pref = "wallet_first" THEN "sub" ELSE "rejected")
          /\ UNCHANGED sess
     ELSE LET trust == shouldTrust(r)
              amount == IF trust THEN 0 ELSE input[r].want
          IN  /\ sess' = [sess EXCEPT ![r] =
                   [NoSession EXCEPT !.funding = "wallet", !.trusted = trust]]
              /\ req' = [req EXCEPT ![r] =
                   [@ EXCEPT !.pc = IF amount = 0 THEN "open" ELSE "token",
                             !.op = "pre", !.amt = amount]]
  /\ UNCHANGED <<db, subActive, env, record, refund, paid, faults>>

TrySubscription(r) ==
  /\ req[r].pc = "sub"
  /\ sess' = [sess EXCEPT ![r] = [NoSession EXCEPT !.funding = "subscription"]]
  /\ req' = [req EXCEPT ![r] =
       [@ EXCEPT !.pc = "token", !.op = "pre",
                 !.amt = IF input[r].want > 0 THEN input[r].want ELSE 1]]
  /\ UNCHANGED <<db, subActive, env, record, refund, paid, faults>>

\* Mutant of CheckOverflow: falls back to the subscription again.
CheckOverflowLoops(r) ==
  /\ req[r].pc = "overflow"
  /\ Goto(r, IF setup.overflow \/ ~ subActive THEN "sub" ELSE "rejected")
  /\ UNCHANGED <<db, subActive, env, record, sess, refund, paid, faults>>

\* UserActiveSubscriptionsAllowWalletOverflow: no active subscription forbids it.
CheckOverflow(r) ==
  /\ req[r].pc = "overflow"
  /\ Goto(r, IF setup.overflow \/ ~ subActive THEN "wallet" ELSE "rejected")
  /\ UNCHANGED <<db, subActive, env, record, sess, refund, paid, faults>>

-----------------------------------------------------------------------------
(* PreConsumeTokenQuota, called by preConsume ("pre") and by Reserve.       *)

\* What the caller does when the token part fails.
TokenRefused(r) ==
  IF req[r].op = "pre"
  THEN /\ Goto(r, "rejected")
       /\ sess' = [sess EXCEPT ![r] = NoSession]
  ELSE /\ Goto(r, "reserveRollback")
       /\ UNCHANGED sess

\* Mutant of TokenTaken: Reserve does not raise preConsumedQuota.
TokenTakenStalePre(r) ==
  LET n == req[r].amt IN
  IF req[r].op = "pre"
  THEN /\ Goto(r, "funding")
       /\ sess' = [sess EXCEPT ![r].tok = n]
  ELSE /\ Goto(r, "open")
       /\ sess' = [sess EXCEPT ![r] =
            [sess[r] EXCEPT !.tok = sess[r].tok + n, !.extra = sess[r].extra + n]]

\* What the caller records when the token part succeeds.
TokenTaken(r) ==
  LET n == req[r].amt IN
  IF req[r].op = "pre"
  THEN /\ Goto(r, "funding")
       /\ sess' = [sess EXCEPT ![r].tok = n]
  ELSE /\ Goto(r, "open")
       /\ sess' = [sess EXCEPT ![r] =
            [sess[r] EXCEPT !.pre = sess[r].pre + n, !.tok = sess[r].tok + n,
                            !.extra = sess[r].extra + n]]

CheckToken(r) ==
  /\ req[r].pc = "token"
  /\ IF input[r].playground
     THEN TokenTaken(r)
     ELSE IF ~ setup.unlimited /\ tokenQuota < req[r].amt
          THEN TokenRefused(r)
          ELSE Goto(r, "tokenTake") /\ UNCHANGED sess
  /\ UNCHANGED <<db, subActive, env, record, refund, paid, faults>>

DecreaseToken(r) ==
  /\ req[r].pc = "tokenTake"
  /\ \/ /\ TakeToken(r, req[r].amt)
        /\ TokenTaken(r)
        /\ UNCHANGED faults
     \/ /\ Fails(r, "token")
        /\ TokenRefused(r)
        /\ UNCHANGED <<db, paid>>
  /\ UNCHANGED <<subActive, env, record, refund>>

-----------------------------------------------------------------------------
(* FundingSource.PreConsume and the rollback of the token on failure.       *)

\* Mutant of FundingRefused: the token quota is not rolled back.
FundingRefusedKeepsToken(r, insufficient) ==
  /\ Goto(r, IF insufficient /\ input[r].pref = "subscription_first"
             THEN "overflow" ELSE "rejected")
  /\ sess' = [sess EXCEPT ![r] = NoSession]

\* preConsume's error branch; the session is dropped.
FundingRefused(r, insufficient) ==
  LET next == IF insufficient /\ input[r].pref = "subscription_first"
              THEN "overflow" ELSE "rejected"
  IN IF input[r].playground
     THEN /\ Goto(r, next)
          /\ sess' = [sess EXCEPT ![r] = NoSession]
     ELSE /\ req' = [req EXCEPT ![r] =
               [@ EXCEPT !.pc = "rollback", !.insufficient = insufficient]]
          /\ UNCHANGED sess

Opened(r, extra) ==
  /\ Goto(r, "open")
  /\ sess' = [sess EXCEPT ![r] = extra]

PreConsumeWallet(r) ==
  /\ req[r].pc = "funding" /\ sess[r].funding = "wallet"
  /\ \/ /\ TakeWallet(r, req[r].amt)
        /\ Opened(r, [sess[r] EXCEPT !.pre = req[r].amt, !.consumed = req[r].amt])
        /\ UNCHANGED faults
     \/ /\ Fails(r, "wallet")
        /\ FundingRefused(r, FALSE)
        /\ UNCHANGED <<db, paid>>
  /\ UNCHANGED <<subActive, env, record, refund>>

\* PreConsumeUserSubscription: one transaction that inserts the record and
\* adds to amount_used.  When its locked SELECT fails, the error reads "no
\* active subscription"; any other failure keeps its own.
PreConsumeSubscription(r) ==
  /\ req[r].pc = "funding" /\ sess[r].funding = "subscription"
  /\ LET n == req[r].amt
         fits == subActive /\ (AmountTotal > 0 => AmountTotal - amountUsed >= n)
     IN \/ /\ fits
           /\ amountUsed' = amountUsed + n
           /\ paid' = [paid EXCEPT ![r].sub = @ + n]
           /\ record' = [record EXCEPT ![r] = "consumed"]
           /\ Opened(r, [sess[r] EXCEPT !.pre = n, !.subPre = n])
           /\ UNCHANGED <<userQuota, tokenQuota, faults>>
        \/ /\ ~ fits
           /\ FundingRefused(r, TRUE)
           /\ UNCHANGED <<db, paid, record, faults>>
        \/ /\ Fails(r, "subscription")
           /\ \E insufficient \in BOOLEAN : FundingRefused(r, insufficient)
           /\ UNCHANGED <<db, paid, record>>
  /\ UNCHANGED <<subActive, env, refund>>

RollbackToken(r) ==
  /\ req[r].pc = "rollback"
  /\ \/ TakeToken(r, - sess[r].tok) /\ UNCHANGED faults
     \/ Fails(r, "rollback") /\ UNCHANGED <<db, paid>>
  /\ Goto(r, IF req[r].insufficient /\ input[r].pref = "subscription_first"
             THEN "overflow" ELSE "rejected")
  /\ sess' = [sess EXCEPT ![r] = NoSession]
  /\ UNCHANGED <<subActive, env, record, refund>>

-----------------------------------------------------------------------------
(* Reserve: raise the pre-consumed quota to a target before sending.  When  *)
(* the funding source refuses, nothing has changed.                         *)

ReserveFunding(r, target) ==
  LET delta == target - sess[r].pre IN
  /\ req[r].pc = "open" /\ ~ req[r].failed
  /\ ~ sess[r].settled /\ ~ sess[r].refunded /\ ~ sess[r].trusted
  /\ delta > 0
  /\ \/ /\ sess[r].funding = "wallet" /\ sess[r].consumed + delta <= MaxReserved
        /\ TakeWallet(r, delta)
        /\ sess' = [sess EXCEPT ![r].consumed = @ + delta]
     \/ /\ sess[r].funding = "subscription"
        /\ TakeSub(r, delta)
        /\ UNCHANGED sess
  /\ req' = [req EXCEPT ![r] = [@ EXCEPT !.pc = "token", !.op = "reserve", !.amt = delta]]
  /\ UNCHANGED <<subActive, env, record, refund, faults>>

\* Mutant of ReserveRollback: WalletFunding.consumed keeps the extra amount.
ReserveRollbackStale(r) ==
  LET delta == req[r].amt IN
  /\ req[r].pc = "reserveRollback"
  /\ \/ sess[r].funding = "wallet" /\ TakeWallet(r, - delta)
     \/ sess[r].funding = "subscription" /\ TakeSub(r, - delta)
  /\ Goto(r, "open")
  /\ UNCHANGED <<subActive, env, record, refund, sess, faults>>

\* rollbackFundingReserve, after the token refused the extra amount.
ReserveRollback(r) ==
  LET delta == req[r].amt IN
  /\ req[r].pc = "reserveRollback"
  /\ \/ /\ sess[r].funding = "wallet"
        /\ TakeWallet(r, - delta)
        /\ sess' = [sess EXCEPT ![r].consumed = @ - delta]
        /\ UNCHANGED faults
     \/ /\ sess[r].funding = "subscription"
        /\ TakeSub(r, - delta)
        /\ UNCHANGED <<sess, faults>>
     \/ /\ Fails(r, "rollback")
        /\ UNCHANGED <<db, paid, sess>>
  /\ Goto(r, "open")
  /\ UNCHANGED <<subActive, env, record, refund>>

-----------------------------------------------------------------------------
(* Settle: charge the difference to the funding source, then to the token.  *)
(* A subscription without room for it refuses, and nothing has changed.  No *)
(* caller settles after it asked for a refund (req[r].failed).              *)

\* SettleBilling is called with what the request cost; a realtime connection
\* settles the usage it reported.
ActualOf(r) == IF input[r].kind = "realtime" THEN {req[r].total} ELSE ActualQuotas

SettleFunding(r, actual) ==
  LET delta == actual - sess[r].pre IN
  /\ req[r].pc = "open" /\ ~ req[r].failed
  /\ ~ sess[r].settled
  /\ \/ /\ delta = 0
        /\ sess' = [sess EXCEPT ![r] = [@ EXCEPT !.settled = TRUE, !.actual = actual]]
        /\ UNCHANGED <<db, paid, req, faults>>
     \/ /\ delta # 0
        /\ \/ sess[r].funding = "wallet" /\ TakeWallet(r, delta)
           \/ sess[r].funding = "subscription" /\ TakeSub(r, delta)
        /\ sess' = [sess EXCEPT ![r] = [@ EXCEPT !.fSettled = TRUE, !.actual = actual]]
        /\ Goto(r, "settleToken")
        /\ UNCHANGED faults
     \/ /\ delta # 0                       \* funding.Settle returns an error
        /\ Fails(r, sess[r].funding)
        /\ UNCHANGED <<db, paid, req, sess>>
  /\ UNCHANGED <<subActive, env, record, refund>>

\* A token failure is only logged: the funding source is already committed.
SettleToken(r) ==
  /\ req[r].pc = "settleToken"
  /\ \/ /\ ~ input[r].playground
        /\ TakeToken(r, sess[r].actual - sess[r].pre)
        /\ UNCHANGED faults
     \/ /\ ~ input[r].playground
        /\ Fails(r, "token")
        /\ UNCHANGED <<db, paid>>
     \/ /\ input[r].playground
        /\ UNCHANGED <<db, paid, faults>>
  /\ sess' = [sess EXCEPT ![r].settled = TRUE]
  /\ Goto(r, "open")
  /\ UNCHANGED <<subActive, env, record, refund>>

-----------------------------------------------------------------------------
(* Refund: decided under the mutex, carried out by a goroutine.             *)

\* Mutants of needsRefund: a second refund, and a refund of a settled session.
needsRefundTwice(r) ==
  /\ ~ sess[r].settled /\ ~ sess[r].fSettled
  /\ sess[r].tok > 0 \/ sess[r].subPre > 0
needsRefundSettled(r) ==
  /\ ~ sess[r].refunded
  /\ sess[r].tok > 0 \/ sess[r].subPre > 0

needsRefund(r) ==
  /\ ~ sess[r].settled /\ ~ sess[r].refunded /\ ~ sess[r].fSettled
  /\ sess[r].tok > 0 \/ sess[r].subPre > 0

\* Relay's deferred function: the request failed, its billing is refunded.
Refund(r) ==
  /\ req[r].pc = "open"
  /\ req' = [req EXCEPT ![r].failed = TRUE]
  /\ IF needsRefund(r)
     THEN /\ sess' = [sess EXCEPT ![r].refunded = TRUE]
          /\ refund' = [refund EXCEPT ![r].pc = "funding"]
     ELSE UNCHANGED <<sess, refund>>
  /\ UNCHANGED <<db, subActive, env, record, paid, faults>>

RefundGoto(r, pc) == refund' = [refund EXCEPT ![r].pc = pc]

\* WalletFunding.Refund: one increment, never retried.
RefundWallet(r) ==
  /\ refund[r].pc = "funding" /\ sess[r].funding = "wallet"
  /\ \/ TakeWallet(r, - sess[r].consumed) /\ UNCHANGED faults
     \/ sess[r].consumed > 0 /\ Fails(r, "wallet") /\ UNCHANGED <<db, paid>>
  /\ RefundGoto(r, "token")
  /\ UNCHANGED <<subActive, env, record, req, sess>>

maxAttempts == 3

\* Mutants of RefundAttemptFailed: one attempt too many, and no count at all.
RefundAttemptFailedOnceMore(r) ==
  LET attempts == refund[r].attempt + 1 IN
  refund' = [refund EXCEPT ![r] =
    [pc |-> IF attempts <= maxAttempts THEN "funding" ELSE "extra", attempt |-> attempts]]
RefundAttemptFailedForever(r) == refund' = [refund EXCEPT ![r].pc = "funding"]

\* refundWithRetry: another attempt, or give up and go on with the rest.
RefundAttemptFailed(r) ==
  LET attempts == refund[r].attempt + 1 IN
  refund' = [refund EXCEPT ![r] =
    [pc |-> IF attempts < maxAttempts THEN "funding" ELSE "extra", attempt |-> attempts]]

\* RefundSubscriptionPreConsume up to the commit of the transaction that
\* PostConsumeUserSubscriptionDelta opens for itself.
RefundSubscription(r) ==
  /\ refund[r].pc = "funding" /\ sess[r].funding = "subscription"
  /\ \/ /\ record[r] = "refunded"
        /\ RefundGoto(r, "extra")
        /\ UNCHANGED <<db, paid, faults>>
     \/ /\ record[r] = "consumed"
        /\ TakeSub(r, - sess[r].subPre)
        /\ RefundGoto(r, "mark")
        /\ UNCHANGED faults
     \/ /\ Fails(r, "subscription")
        /\ RefundAttemptFailed(r)
        /\ UNCHANGED <<db, paid>>
  /\ UNCHANGED <<subActive, env, record, req, sess>>

\* The rest of the outer transaction: the record becomes "refunded".
RefundMark(r) ==
  /\ refund[r].pc = "mark"
  /\ \/ /\ record' = [record EXCEPT ![r] = "refunded"]
        /\ RefundGoto(r, "extra")
        /\ UNCHANGED faults
     \/ /\ Fails(r, "refundMark")
        /\ RefundAttemptFailed(r)
        /\ UNCHANGED record
  /\ UNCHANGED <<db, subActive, env, req, sess, paid>>

\* Mutant of RefundExtra: the reserved amount is forgotten.
RefundExtraForgotten(r) ==
  /\ refund[r].pc = "extra"
  /\ RefundGoto(r, "token")
  /\ UNCHANGED <<db, subActive, env, record, req, sess, paid, faults>>

RefundExtra(r) ==
  /\ refund[r].pc = "extra"
  /\ \/ TakeSub(r, - sess[r].extra) /\ UNCHANGED faults
     \/ sess[r].extra > 0 /\ Fails(r, "subscription") /\ UNCHANGED <<db, paid>>
  /\ RefundGoto(r, "token")
  /\ UNCHANGED <<subActive, env, record, req, sess>>

RefundToken(r) ==
  /\ refund[r].pc = "token"
  /\ \/ TakeToken(r, IF input[r].playground THEN 0 ELSE - sess[r].tok) /\ UNCHANGED faults
     \/ sess[r].tok > 0 /\ ~ input[r].playground /\ Fails(r, "token") /\ UNCHANGED <<db, paid>>
  /\ RefundGoto(r, "done")
  /\ UNCHANGED <<subActive, env, record, req, sess>>

-----------------------------------------------------------------------------
(* PostConsumeQuota: quota charged beside the session.                      *)

\* ChargeViolationFeeIfNeeded runs once, after Refund was called and whether
\* or not its goroutine has finished.
ChargeViolationFee(r, violation) ==
  /\ req[r].pc = "open" /\ req[r].failed
  /\ req' = [req EXCEPT ![r] =
       [@ EXCEPT !.pc = IF violation /\ FeeQuota > 0 THEN "post" ELSE "closed",
                 !.op = "fee", !.amt = FeeQuota]]
  /\ UNCHANGED <<db, subActive, env, record, sess, refund, paid, faults>>

\* PreWssConsumeQuota: a realtime response reports usage while connected.
\* The usage counts towards the total also when the check refuses it or the
\* user or the token cannot be read.  (The early return for relayInfo.UsePrice
\* is never taken: nothing sets that field, prices set PriceData.UsePrice.)
PreWssConsumeQuota(r, quota) ==
  /\ req[r].pc = "open" /\ ~ req[r].failed /\ input[r].kind = "realtime"
  /\ ~ sess[r].settled
  /\ req[r].total + quota <= MaxRealtime
  /\ LET enough == userQuota >= quota /\ (setup.unlimited \/ tokenQuota >= quota)
         Used(pc) == req' = [req EXCEPT ![r] =
           [@ EXCEPT !.total = req[r].total + quota, !.op = "wss", !.amt = quota, !.pc = pc]]
     IN \/ Used(IF enough THEN "post" ELSE "open") /\ UNCHANGED faults
        \/ Used("open") /\ Fails(r, "read")
  /\ UNCHANGED <<db, subActive, env, record, sess, refund, paid>>

AfterPost(r) == IF req[r].op = "fee" THEN "closed" ELSE "open"

PostConsumeFunding(r) ==
  LET n == req[r].amt IN
  /\ req[r].pc = "post"
  /\ \/ /\ \/ sess[r].funding = "wallet" /\ TakeWallet(r, n)
           \/ sess[r].funding = "subscription" /\ TakeSub(r, n)
        /\ req' = [req EXCEPT ![r] = [@ EXCEPT !.pc = "postToken", !.post = req[r].post + n]]
        /\ UNCHANGED faults
     \/ /\ sess[r].funding = "subscription" /\ Exceeds(n)
        /\ Goto(r, AfterPost(r))
        /\ UNCHANGED <<db, paid, faults>>
     \/ /\ Fails(r, sess[r].funding)
        /\ Goto(r, AfterPost(r))
        /\ UNCHANGED <<db, paid>>
  /\ UNCHANGED <<subActive, env, record, sess, refund>>

PostConsumeToken(r) ==
  /\ req[r].pc = "postToken"
  /\ \/ TakeToken(r, IF input[r].playground THEN 0 ELSE req[r].amt) /\ UNCHANGED faults
     \/ ~ input[r].playground /\ Fails(r, "token") /\ UNCHANGED <<db, paid>>
  /\ Goto(r, AfterPost(r))
  /\ UNCHANGED <<subActive, env, record, sess, refund>>

-----------------------------------------------------------------------------

\* The subscription's end time passes, or an administrator cancels it.
SubscriptionEnds ==
  /\ subActive
  /\ subActive' = FALSE
  /\ UNCHANGED <<db, env, record, req, sess, refund, paid, faults>>

NewBillingSession(r) ==
  \/ ReadFails(r) \/ CheckSubscription(r) \/ TryWallet(r) \/ TrySubscription(r)
  \/ CheckOverflow(r) \/ CheckToken(r) \/ DecreaseToken(r) \/ PreConsumeWallet(r)
  \/ PreConsumeSubscription(r) \/ RollbackToken(r) \/ ReserveRollback(r)

RefundGoroutine(r) ==
  \/ RefundWallet(r) \/ RefundSubscription(r) \/ RefundMark(r)
  \/ RefundExtra(r) \/ RefundToken(r)

Step(r) ==
  \/ Start(r)
  \/ NewBillingSession(r)
  \/ \E target \in ReserveTargets : ReserveFunding(r, target)
  \/ \E actual \in ActualOf(r) : SettleFunding(r, actual)
  \/ SettleToken(r)
  \/ Refund(r)
  \/ RefundGoroutine(r)
  \/ \E violation \in BOOLEAN : ChargeViolationFee(r, violation)
  \/ \E quota \in ActualQuotas : PreWssConsumeQuota(r, quota)
  \/ PostConsumeFunding(r)
  \/ PostConsumeToken(r)

Next == SubscriptionEnds \/ \E r \in Requests : Step(r)

Spec == Init /\ [][Next]_vars

\* A request goroutine keeps running until it answers, and gopool runs every
\* function it is given.
Fairness ==
  \A r \in Requests :
    WF_vars(NewBillingSession(r)) /\ WF_vars(RefundGoroutine(r))

FairSpec == Spec /\ Fairness

-----------------------------------------------------------------------------

PCs == {"new", "check", "wallet", "sub", "overflow", "token", "tokenTake",
        "funding", "rollback", "rejected", "open", "reserveRollback",
        "settleToken", "post", "postToken", "closed"}

ReqType ==
  [pc: PCs, tokenSeen: Int, op: {"pre", "reserve", "fee", "wss"}, amt: Nat,
   insufficient: BOOLEAN, total: Nat, post: Nat, failed: BOOLEAN]
SessType ==
  [funding: {"none", "wallet", "subscription"}, pre: Nat, tok: Nat, extra: Nat,
   trusted: BOOLEAN, consumed: Nat, subPre: Nat, fSettled: BOOLEAN,
   settled: BOOLEAN, refunded: BOOLEAN, actual: Nat]
RefundType ==
  [pc: {"none", "funding", "mark", "extra", "token", "done"}, attempt: 0 .. maxAttempts]

\* The rows, sessions and goroutines have the shape the code gives them: the
\* amounts a session holds and amount_used are never negative, and a refund is
\* attempted maxAttempts times at most.
TypeOK ==
  /\ userQuota \in Int /\ tokenQuota \in Int /\ amountUsed \in Nat
  /\ subActive \in BOOLEAN
  /\ setup \in [unlimited: BOOLEAN, overflow: BOOLEAN]
  /\ record \in [Requests -> {"none", "consumed", "refunded"}]
  /\ input \in [Requests -> AllInputs]
  /\ req \in [Requests -> ReqType]
  /\ sess \in [Requests -> SessType]
  /\ refund \in [Requests -> RefundType]
  /\ paid \in [Requests -> [wallet: Int, token: Int, sub: Int]]
  /\ faults \in [Requests -> SUBSET AllFaults]

\* n quota taken for r from its funding source, and from the token unless the
\* request came from the playground.
Charge(r, n) ==
  [wallet |-> IF sess[r].funding = "wallet" THEN n ELSE 0,
   sub    |-> IF sess[r].funding = "subscription" THEN n ELSE 0,
   token  |-> IF input[r].playground THEN 0 ELSE n]

\* Settle: a settled request has been charged exactly what it cost (and what
\* was charged beside the session), by the funding source and by the token
\* alike, whatever was pre-consumed and reserved before.
ExactSettlement ==
  \A r \in Requests :
    sess[r].settled /\ req[r].pc = "open" /\ faults[r] = {}
      => paid[r] = Charge(r, sess[r].actual + req[r].post)

\* Refund "returns all the pre-consumed quota": once its goroutine is done, a
\* failed request has paid for nothing but a violation fee or realtime usage.
RefundedInFull ==
  \A r \in Requests :
    refund[r].pc = "done" /\ req[r].pc \in {"open", "closed"} /\ faults[r] = {}
      => paid[r] = Charge(r, req[r].post)

\* preConsume "rolls back the completed steps when any step fails": a request
\* that NewBillingSession refused has paid nothing, along every fallback.
RejectedPaysNothing ==
  \A r \in Requests :
    req[r].pc = "rejected" /\ faults[r] = {}
      => paid[r] = [wallet |-> 0, token |-> 0, sub |-> 0]

\* Whatever fails and in whatever order, no request ever gets back more quota
\* than it has paid, from any of the three rows.
NeverCredited ==
  \A r \in Requests : paid[r].wallet >= 0 /\ paid[r].token >= 0 /\ paid[r].sub >= 0

\* The requests sharing a subscription never use more than it grants, although
\* each checks and adds in transactions of its own.
SubscriptionWithinTotal == AmountTotal > 0 => amountUsed <= AmountTotal

\* A session is either settled or refunded: once the funding source has
\* committed a settlement, no refund of it starts, and the other way round.
SettledOrRefunded ==
  \A r \in Requests : sess[r].refunded => ~ sess[r].fSettled /\ ~ sess[r].settled

\* Every refund that is decided is carried out to its end, however often the
\* subscription's part of it fails (refundWithRetry gives up).
RefundCompletes == \A r \in Requests : sess[r].refunded ~> refund[r].pc = "done"

\* NewBillingSession answers every request: the fallbacks between wallet and
\* subscription do not go round in circles.
SessionDecided ==
  \A r \in Requests : req[r].pc = "token" ~> req[r].pc \in {"open", "rejected"}

\* "RefundSubscriptionPreConsume is idempotent": retrying it never gives a
\* request more subscription quota than it took.
SubscriptionRefundIdempotent == \A r \in Requests : paid[r].sub >= 0

\* "Settle charges according to the actual consumption": a settled realtime
\* connection has paid for the usage it reported, and once.
RealtimeChargedOnce ==
  \A r \in Requests :
    sess[r].settled /\ req[r].pc = "open" /\ input[r].kind = "realtime" /\ faults[r] = {}
      => paid[r] = Charge(r, req[r].total)
=============================================================================
