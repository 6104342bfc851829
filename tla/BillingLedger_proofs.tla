------------------------ MODULE BillingLedger_proofs ------------------------
(***************************************************************************)
(* What every request has paid, at every point of its session: the ledger  *)
(* behind exact settlement, full refunds and refusals that cost nothing.   *)
(***************************************************************************)
EXTENDS BillingSession_proofs, FiniteSetTheorems

\* Where request x stands: it has no session yet, its session is being paid
\* for, or the session is in use; Reserve may be raising it by Asked(x).
Reserving(x) == x.pc \in {"token", "tokenTake", "reserveRollback"} /\ x.op = "reserve"
Choosing(x) == x.pc \in {"new", "check", "wallet", "sub", "overflow", "rejected"}
Opening(x) ==
  x.pc \in {"funding", "rollback"} \/ (x.pc \in {"token", "tokenTake"} /\ x.op = "pre")
InUse(x) == x.pc \in {"open", "settleToken", "post", "postToken", "closed"} \/ Reserving(x)
Asked(x) == IF Reserving(x) THEN x.amt ELSE 0

\* What the session y of x has recorded of its own charges.
Shape(x, y, z, in) ==
  /\ Choosing(x) => y = NoSession
  /\ Opening(x) =>
       /\ y.pre = 0 /\ y.extra = 0 /\ y.consumed = 0 /\ y.subPre = 0
       /\ ~ y.settled /\ ~ y.fSettled
       /\ y.tok = IF x.pc \in {"token", "tokenTake"} THEN 0 ELSE x.amt
  /\ InUse(x) =>
       /\ y.funding # "none" /\ y.tok = y.pre
       /\ y.funding = "subscription" => y.subPre + y.extra = y.pre
       /\ y.funding = "wallet" => y.consumed >= y.pre + Asked(x)
  /\ ~ InUse(x) => x.post = 0
  /\ y.fSettled => y.settled \/ x.pc = "settleToken"
  /\ y.settled => InUse(x) /\ x.pc # "settleToken" /\ ~ Reserving(x)
  /\ x.pc \in {"tokenTake", "rollback"} => ~ in.playground
  /\ z.pc \in {"mark", "extra"} => y.funding = "subscription"

\* Until its session is in use a request has paid nothing but the token quota
\* that the session knows of.
Early(x, y, p, in, f) ==
  ~ InUse(x) =>
    /\ p.wallet = 0 /\ p.sub = 0
    /\ f = {} => p.token = IF in.playground THEN 0 ELSE y.tok

\* Whatever failed, a request has paid at least what a refund of its session
\* would still give back.
Covered(x, y, z, c, p, in) ==
  /\ p.wallet >= 0 /\ p.sub >= 0 /\ p.token >= 0
  /\ ~ y.settled /\ ~ y.fSettled /\ z.pc \in {"none", "funding"} =>
       /\ y.funding = "wallet" => p.wallet >= y.consumed
       /\ y.funding = "subscription" => p.sub >= y.pre + Asked(x)
  /\ z.pc \in {"mark", "extra"} => p.sub >= y.extra
  /\ ~ y.settled /\ z.pc # "done" /\ ~ in.playground => p.token >= y.tok
  /\ InUse(x) /\ y.funding = "subscription" /\ z.pc \in {"none", "funding", "mark"}
       => c = "consumed"

\* What the funding source and the token have been charged for the session.
Held(x, y, z) ==
  IF z.pc \in {"token", "done"} THEN 0
  ELSE IF z.pc \in {"mark", "extra"} THEN y.extra
  ELSE IF y.settled \/ y.fSettled THEN y.actual
  ELSE y.pre + Asked(x)
HeldToken(y, z) ==
  IF z.pc = "done" THEN 0 ELSE IF y.settled THEN y.actual ELSE y.tok

\* The books of a request for which nothing failed.
Exact(x, y, z, p, in) ==
  /\ p.wallet = IF y.funding = "wallet" THEN Held(x, y, z) + x.post ELSE 0
  /\ p.sub = IF y.funding = "subscription" THEN Held(x, y, z) + x.post ELSE 0
  /\ p.token = IF in.playground THEN 0
               ELSE HeldToken(y, z) + x.post - (IF x.pc = "postToken" THEN x.amt ELSE 0)
  /\ y.funding = "wallet" => y.consumed = y.pre + Asked(x)

Marks == "refundMark" \notin Faults

Account(x, y, z, c, p, in, f) ==
  /\ Shape(x, y, z, in) /\ Early(x, y, p, in, f)
  /\ Marks => Covered(x, y, z, c, p, in) /\ (f = {} => Exact(x, y, z, p, in))

AccountOf(r) ==
  Account(req[r], sess[r], refund[r], record[r], paid[r], input[r], faults[r])

-----------------------------------------------------------------------------
(* Fields of the records.                                                   *)

\* The fields of a request.
LEMMA ReqFields ==
  ASSUME NEW x \in ReqType
  PROVE  /\ x.pc \in PCs /\ x.op \in {"pre", "reserve", "fee", "wss"}
         /\ x.amt \in Nat /\ x.post \in Nat
  BY DEF ReqType

\* The fields of a session.
LEMMA SessFields ==
  ASSUME NEW y \in SessType
  PROVE  /\ y.funding \in {"none", "wallet", "subscription"}
         /\ y.pre \in Nat /\ y.tok \in Nat /\ y.extra \in Nat /\ y.consumed \in Nat
         /\ y.subPre \in Nat /\ y.actual \in Nat
         /\ y.fSettled \in BOOLEAN /\ y.settled \in BOOLEAN /\ y.refunded \in BOOLEAN
  BY DEF SessType

\* The fields of what was paid.
LEMMA PaidFields ==
  ASSUME NEW p \in PaidType
  PROVE  p.wallet \in Int /\ p.token \in Int /\ p.sub \in Int
  BY DEF PaidType

\* Assigning the program counter.
LEMMA GotoFields ==
  ASSUME BillingInv, NEW r \in Requests, NEW pc \in PCs, Goto(r, pc)
  PROVE  /\ req'[r].pc = pc /\ req'[r].op = req[r].op
         /\ req'[r].amt = req[r].amt /\ req'[r].post = req[r].post
<1>1. req \in [Requests -> ReqType] /\ req[r] \in ReqType
  BY Parts
<1> QED
  BY <1>1 DEF Goto, ReqType

\* Starting to charge n.
LEMMA ChargeFields ==
  ASSUME BillingInv, NEW r \in Requests, NEW pc \in PCs, NEW op \in {"pre", "reserve", "fee"},
         NEW n \in Nat,
         req' = [req EXCEPT ![r] = [@ EXCEPT !.pc = pc, !.op = op, !.amt = n]]
  PROVE  /\ req'[r].pc = pc /\ req'[r].op = op
         /\ req'[r].amt = n /\ req'[r].post = req[r].post
<1>1. req \in [Requests -> ReqType] /\ req[r] \in ReqType
  BY Parts
<1> QED
  BY <1>1 DEF ReqType

-----------------------------------------------------------------------------
(* Statements.                                                              *)

\* What a statement on the wallet or the token does to what r has paid.
LEMMA TakePaid ==
  ASSUME BillingInv, NEW r \in Requests, NEW n \in Int
  PROVE  /\ TakeWallet(r, n) =>
              /\ paid'[r].wallet = paid[r].wallet + n
              /\ paid'[r].token = paid[r].token /\ paid'[r].sub = paid[r].sub
         /\ TakeToken(r, n) =>
              /\ paid'[r].token = paid[r].token + n
              /\ paid'[r].wallet = paid[r].wallet /\ paid'[r].sub = paid[r].sub
<1>1. paid[r] \in PaidType /\ paid \in [Requests -> PaidType]
  BY Parts DEF DbOK
<1> QED
  BY <1>1 DEF PaidType, TakeWallet, TakeToken

\* A statement on the subscription moves amount_used and what r has paid alike;
\* the clamp takes back less than asked, and only if less was used.
LEMMA TakeSubPaid ==
  ASSUME BillingInv, NEW r \in Requests, NEW n \in Int, TakeSub(r, n)
  PROVE  /\ paid'[r].wallet = paid[r].wallet /\ paid'[r].token = paid[r].token
         /\ paid'[r].sub - paid[r].sub = amountUsed' - amountUsed
         /\ paid'[r].sub >= paid[r].sub + n
         /\ amountUsed + n >= 0 => paid'[r].sub = paid[r].sub + n
<1>1. paid[r] \in PaidType /\ paid \in [Requests -> PaidType] /\ amountUsed \in Nat
  BY Parts DEF DbOK
<1>2. UsedAfter(n) \in Nat /\ UsedAfter(n) >= amountUsed + n
      /\ (amountUsed + n >= 0 => UsedAfter(n) = amountUsed + n)
  BY <1>1 DEF UsedAfter
<1>3. /\ paid'[r].sub = paid[r].sub + (UsedAfter(n) - amountUsed)
      /\ paid'[r].wallet = paid[r].wallet /\ paid'[r].token = paid[r].token
      /\ amountUsed' = UsedAfter(n)
  BY <1>1 DEF PaidType, TakeSub
<1>4. paid[r].sub \in Int
  BY <1>1 DEF PaidType
<1> QED
  BY <1>1, <1>2, <1>3, <1>4

-----------------------------------------------------------------------------
(* Steps of a request keep its account.                                     *)

\* What the steps start from.
LEMMA Books ==
  ASSUME BillingInv, NEW r \in Requests
  PROVE  /\ UnderWay(req[r], sess[r], refund[r])
         /\ req[r] \in ReqType /\ sess[r] \in SessType /\ paid[r] \in PaidType
         /\ refund[r] \in RefundType /\ input[r].playground \in BOOLEAN
  BY Parts DEF DbOK, AllInputs

\* Before it has a session, a request only moves its program counter.
LEMMA ChoosingAccount ==
  ASSUME BillingInv, NEW r \in Requests, AccountOf(r),
         \/ Start(r) \/ ReadFails(r) \/ CheckSubscription(r) \/ CheckOverflow(r)
         \/ TryWallet(r) /\ (userQuota <= 0 \/ userQuota - input[r].want < 0)
  PROVE  AccountOf(r)'
<1>1. /\ UnderWay(req[r], sess[r], refund[r]) /\ req[r] \in ReqType
      /\ req \in [Requests -> ReqType] /\ faults \in [Requests -> SUBSET AllFaults]
  BY Parts
<1>2. Choosing(req[r])
  BY DEF Start, ReadFails, CheckSubscription, CheckOverflow, TryWallet, Choosing
<1>3. UNCHANGED <<sess, refund, record, paid, input>>
  BY DEF Start, ReadFails, CheckSubscription, CheckOverflow, TryWallet, env
<1>4. Choosing(req'[r]) /\ req'[r].post = req[r].post
  <2>1. CASE Start(r)
    BY <1>1, <2>1 DEF Start, ReqType, Choosing
  <2>2. CASE ~ Start(r)
    <3>1. \E pc \in {"sub", "wallet", "rejected"} : Goto(r, pc)
      BY <2>2 DEF ReadFails, CheckSubscription, CheckOverflow, TryWallet
    <3> QED
      BY <1>1, <3>1 DEF Goto, ReqType, Choosing
  <2> QED
    BY <2>1, <2>2
<1>5. faults'[r] = {} => faults[r] = {}
  BY <1>1 DEF Start, ReadFails, CheckSubscription, CheckOverflow, TryWallet, Fails
<1>6. ASSUME NEW x, Choosing(x)
      PROVE  /\ ~ InUse(x) /\ ~ Opening(x) /\ ~ Reserving(x)
             /\ x.pc \notin {"settleToken", "tokenTake", "rollback", "postToken"}
  BY <1>6 DEF Choosing, InUse, Opening, Reserving
<1>7. Asked(req'[r]) = Asked(req[r])
  BY <1>2, <1>4, <1>6 DEF Asked
<1> QED
  BY <1>2, <1>3, <1>4, <1>5, <1>6, <1>7 DEF AccountOf, Account, Shape, Early, Covered, Exact, Held

\* tryWallet and trySubscription start with a session that holds nothing.
LEMMA SelectAccount ==
  ASSUME BillingInv, NEW r \in Requests, AccountOf(r),
         NEW pc \in {"token", "open"}, NEW n \in Nat,
         Choosing(req[r]), UNCHANGED <<refund, record, paid, input, faults>>,
         req' = [req EXCEPT ![r] = [@ EXCEPT !.pc = pc, !.op = "pre", !.amt = n]],
         pc = "open" => sess'[r].funding = "wallet",
         sess'[r].funding # "none", sess'[r].pre = 0, sess'[r].tok = 0,
         sess'[r].extra = 0, sess'[r].consumed = 0, sess'[r].subPre = 0,
         sess'[r].settled = FALSE, sess'[r].fSettled = FALSE
  PROVE  AccountOf(r)'
<1>1. req[r].pc \notin Ended
  BY DEF Choosing, Ended
<1>2. refund[r].pc = "none"
  BY <1>1, NotFailed
<1>3. /\ req'[r].op = "pre" /\ req'[r].post = req[r].post
      /\ req'[r].pc = pc
  BY ChargeFields DEF PCs
<1>4. sess[r] = NoSession /\ ~ InUse(req[r]) /\ req[r].post = 0
  BY DEF AccountOf, Account, Shape, Choosing, InUse, Reserving
<1>5. ~ Reserving(req'[r]) /\ ~ Choosing(req'[r]) /\ Asked(req'[r]) = 0
  BY <1>3 DEF Reserving, Choosing, Asked
<1>6. Shape(req'[r], sess'[r], refund[r], input[r])
  BY <1>2, <1>3, <1>4, <1>5 DEF Shape, Opening, InUse
<1>7. /\ paid[r].wallet = 0 /\ paid[r].sub = 0
      /\ faults[r] = {} => paid[r].token = 0
      /\ Marks => paid[r].token >= 0
  BY <1>4 DEF AccountOf, Account, Early, Covered, NoSession
<1>8. Early(req'[r], sess'[r], paid[r], input[r], faults[r])
  BY <1>7 DEF Early
<1>9. Marks => Covered(req'[r], sess'[r], refund[r], record[r], paid[r], input[r])
  BY <1>2, <1>3, <1>5, <1>7 DEF Covered, InUse
<1>10. faults[r] = {} => Exact(req'[r], sess'[r], refund[r], paid[r], input[r])
  BY <1>2, <1>3, <1>4, <1>5, <1>7 DEF Exact, Held, HeldToken
<1> QED
  BY <1>6, <1>8, <1>9, <1>10 DEF AccountOf, Account

\* tryWallet.
LEMMA TryWalletAccount ==
  ASSUME BillingInv, NEW r \in Requests, AccountOf(r), TryWallet(r),
         ~ (userQuota <= 0 \/ userQuota - input[r].want < 0)
  PROVE  AccountOf(r)'
<1> DEFINE b == shouldTrust(r)
           n == IF b THEN 0 ELSE input[r].want
           pc == IF n = 0 THEN "open" ELSE "token"
           y == [NoSession EXCEPT !.funding = "wallet", !.trusted = b]
<1>1. input[r].want \in Nat
  BY Amounts
<1>2. sess \in [Requests -> SessType]
  BY Parts
<1>3. /\ Choosing(req[r]) /\ UNCHANGED <<refund, record, paid, input, faults>>
      /\ sess' = [sess EXCEPT ![r] = y]
      /\ req' = [req EXCEPT ![r] = [@ EXCEPT !.pc = pc, !.op = "pre", !.amt = n]]
  BY DEF TryWallet, Choosing, env
<1>4. n \in Nat /\ pc \in {"token", "open"}
  BY <1>1
<1> HIDE DEF b
<1>5. /\ y.funding = "wallet" /\ y.pre = 0 /\ y.tok = 0 /\ y.extra = 0 /\ y.consumed = 0
      /\ y.subPre = 0 /\ y.settled = FALSE /\ y.fSettled = FALSE
  BY DEF NoSession
<1> HIDE DEF n, pc, y
<1>6. sess'[r] = y
  BY <1>2, <1>3
<1> QED
  BY <1>3, <1>4, <1>5, <1>6, SelectAccount

\* trySubscription.
LEMMA TrySubscriptionAccount ==
  ASSUME BillingInv, NEW r \in Requests, AccountOf(r), TrySubscription(r)
  PROVE  AccountOf(r)'
<1> DEFINE n == IF input[r].want > 0 THEN input[r].want ELSE 1
           y == [NoSession EXCEPT !.funding = "subscription"]
<1>1. input[r].want \in Nat
  BY Amounts
<1>2. sess \in [Requests -> SessType]
  BY Parts
<1>3. /\ Choosing(req[r]) /\ UNCHANGED <<refund, record, paid, input, faults>>
      /\ sess' = [sess EXCEPT ![r] = y]
      /\ req' = [req EXCEPT ![r] = [@ EXCEPT !.pc = "token", !.op = "pre", !.amt = n]]
  BY DEF TrySubscription, Choosing, env
<1>4. n \in Nat
  BY <1>1
<1>5. /\ y.funding = "subscription" /\ y.pre = 0 /\ y.tok = 0 /\ y.extra = 0 /\ y.consumed = 0
      /\ y.subPre = 0 /\ y.settled = FALSE /\ y.fSettled = FALSE
  BY DEF NoSession
<1> HIDE DEF n, y
<1>6. sess'[r] = y
  BY <1>2, <1>3
<1> QED
  BY <1>3, <1>4, <1>5, <1>6, SelectAccount

\* While PreConsumeTokenQuota runs nothing is settled or refunded.
LEMMA TokenPhase ==
  ASSUME BillingInv, NEW r \in Requests, AccountOf(r),
         req[r].pc \in {"token", "tokenTake", "funding", "rollback", "reserveRollback"}
  PROVE  /\ refund[r].pc = "none" /\ ~ sess[r].settled /\ ~ sess[r].fSettled
         /\ req[r].op = "reserve" /\ req[r].pc \in {"token", "tokenTake", "reserveRollback"}
              => /\ Reserving(req[r]) /\ InUse(req[r]) /\ ~ Opening(req[r])
                 /\ Asked(req[r]) = req[r].amt
         /\ ~ (req[r].op = "reserve" /\ req[r].pc \in {"token", "tokenTake", "reserveRollback"})
              => /\ Opening(req[r]) /\ ~ InUse(req[r]) /\ Asked(req[r]) = 0
                 /\ ~ Reserving(req[r]) /\ req[r].pc # "reserveRollback"
         /\ ~ Choosing(req[r])
<1>1. UnderWay(req[r], sess[r], refund[r])
  BY Parts
<1>2. refund[r].pc = "none"
  BY NotFailed DEF Ended
<1>3. Shape(req[r], sess[r], refund[r], input[r])
  BY DEF AccountOf, Account
<1>4. ~ Choosing(req[r])
  BY DEF Choosing
<1>5. CASE req[r].op = "reserve" /\ req[r].pc \in {"token", "tokenTake", "reserveRollback"}
  <2>1. Reserving(req[r]) /\ InUse(req[r]) /\ ~ Opening(req[r]) /\ Asked(req[r]) = req[r].amt
    BY <1>5 DEF Reserving, InUse, Opening, Asked
  <2>2. ~ sess[r].settled /\ ~ sess[r].fSettled
    BY <1>3, <1>5, <2>1 DEF Shape
  <2> QED
    BY <1>2, <1>4, <1>5, <2>1, <2>2
<1>6. CASE ~ (req[r].op = "reserve" /\ req[r].pc \in {"token", "tokenTake", "reserveRollback"})
  <2>1. Opening(req[r]) /\ ~ InUse(req[r]) /\ ~ Reserving(req[r]) /\ req[r].pc # "reserveRollback"
    BY <1>1, <1>6 DEF Reserving, InUse, Opening, UnderWay
  <2>2. Asked(req[r]) = 0
    BY <2>1 DEF Asked
  <2>3. ~ sess[r].settled /\ ~ sess[r].fSettled
    BY <1>3, <2>1 DEF Shape
  <2> QED
    BY <1>2, <1>4, <1>6, <2>1, <2>2, <2>3
<1> QED
  BY <1>5, <1>6

\* The token part is done: what it took is what the session records.
LEMMA TokenTakenAccount ==
  ASSUME BillingInv, NEW r \in Requests, AccountOf(r),
         req[r].pc \in {"token", "tokenTake"}, TokenTaken(r),
         UNCHANGED <<refund, record, input, faults>>,
         paid'[r].wallet = paid[r].wallet, paid'[r].sub = paid[r].sub,
         paid'[r].token = paid[r].token + (IF input[r].playground THEN 0 ELSE req[r].amt)
  PROVE  AccountOf(r)'
<1>1. /\ req[r] \in ReqType /\ sess[r] \in SessType /\ paid[r] \in PaidType
      /\ sess \in [Requests -> SessType]
  BY Books, Parts
<1>2. /\ req[r].amt \in Nat /\ req[r].post \in Nat
      /\ req[r].op \in {"pre", "reserve"}
  BY Amounts, Books DEF UnderWay
<1>3. /\ sess[r].pre \in Nat /\ sess[r].tok \in Nat /\ sess[r].extra \in Nat
      /\ sess[r].consumed \in Nat /\ sess[r].subPre \in Nat
      /\ paid[r].wallet \in Int /\ paid[r].token \in Int /\ paid[r].sub \in Int
  BY <1>1, SessFields, PaidFields
<1>4. /\ refund[r].pc = "none" /\ ~ sess[r].settled /\ ~ sess[r].fSettled
  BY TokenPhase
<1>5. CASE req[r].op = "pre"
  <2>1. Goto(r, "funding") /\ sess' = [sess EXCEPT ![r].tok = req[r].amt]
    BY <1>5 DEF TokenTaken
  <2>2. /\ req'[r].pc = "funding" /\ req'[r].amt = req[r].amt /\ req'[r].post = req[r].post
    BY <2>1, GotoFields DEF PCs
  <2>3. /\ sess'[r].tok = req[r].amt /\ sess'[r].pre = sess[r].pre
        /\ sess'[r].extra = sess[r].extra /\ sess'[r].consumed = sess[r].consumed
        /\ sess'[r].subPre = sess[r].subPre /\ sess'[r].settled = sess[r].settled
        /\ sess'[r].fSettled = sess[r].fSettled /\ sess'[r].funding = sess[r].funding
    BY <1>1, <2>1 DEF SessType
  <2>4. /\ ~ InUse(req'[r]) /\ Opening(req'[r]) /\ ~ Choosing(req'[r])
        /\ ~ Reserving(req'[r]) /\ Asked(req'[r]) = 0
    BY <2>2 DEF InUse, Opening, Choosing, Reserving, Asked
  <2>5. Opening(req[r]) /\ ~ InUse(req[r]) /\ Asked(req[r]) = 0
    BY <1>5, TokenPhase
  <2>6. Shape(req'[r], sess'[r], refund[r], input[r])
    BY <1>4, <2>2, <2>3, <2>4, <2>5 DEF AccountOf, Account, Shape
  <2>7. Early(req'[r], sess'[r], paid'[r], input[r], faults[r])
    BY <1>2, <1>3, <2>2, <2>3, <2>4, <2>5 DEF AccountOf, Account, Shape, Early
  <2>8. Marks => Covered(req'[r], sess'[r], refund[r], record[r], paid'[r], input[r])
    BY <1>2, <1>3, <1>4, <2>2, <2>3, <2>4, <2>5 DEF AccountOf, Account, Shape, Covered
  <2>9. faults[r] = {} => Exact(req'[r], sess'[r], refund[r], paid'[r], input[r])
    <3>1. /\ paid[r].wallet = 0 /\ paid[r].sub = 0 /\ req[r].post = 0 /\ sess[r].tok = 0
          /\ sess[r].pre = 0 /\ sess[r].consumed = 0
          /\ faults[r] = {} => paid[r].token = 0
      BY <1>3, <1>5, <2>5 DEF AccountOf, Account, Shape, Early
    <3>2. Held(req'[r], sess'[r], refund[r]) = 0 /\ HeldToken(sess'[r], refund[r]) = req[r].amt
      BY <1>4, <2>3, <2>4, <3>1 DEF Held, HeldToken
    <3> QED
      BY <1>2, <2>2, <2>3, <2>4, <3>1, <3>2 DEF Exact
  <2> QED
    BY <2>6, <2>7, <2>8, <2>9 DEF AccountOf, Account
<1>6. CASE req[r].op = "reserve"
  <2> DEFINE n == req[r].amt
             y == [sess[r] EXCEPT !.pre = sess[r].pre + n, !.tok = sess[r].tok + n,
                                  !.extra = sess[r].extra + n]
  <2>1. Goto(r, "open") /\ sess' = [sess EXCEPT ![r] = y]
    BY <1>6 DEF TokenTaken
  <2>2. req'[r].pc = "open" /\ req'[r].amt = req[r].amt /\ req'[r].post = req[r].post
    BY <2>1, GotoFields DEF PCs
  <2>3. /\ y.tok = sess[r].tok + n /\ y.pre = sess[r].pre + n
        /\ y.extra = sess[r].extra + n /\ y.consumed = sess[r].consumed
        /\ y.subPre = sess[r].subPre /\ y.settled = sess[r].settled
        /\ y.fSettled = sess[r].fSettled /\ y.funding = sess[r].funding
    BY <1>1, <1>2, <1>3 DEF SessType
  <2> HIDE DEF y
  <2>y. sess'[r] = y
    BY <1>1, <2>1
  <2>4. /\ InUse(req'[r]) /\ ~ Opening(req'[r]) /\ ~ Choosing(req'[r])
        /\ ~ Reserving(req'[r]) /\ Asked(req'[r]) = 0
    BY <2>2 DEF InUse, Opening, Choosing, Reserving, Asked
  <2>5. Reserving(req[r]) /\ ~ Opening(req[r]) /\ InUse(req[r]) /\ Asked(req[r]) = n
    BY <1>6, TokenPhase
  <2>6. Shape(req'[r], sess'[r], refund[r], input[r])
    BY <1>2, <1>3, <1>4, <2>y, <2>2, <2>3, <2>4, <2>5 DEF AccountOf, Account, Shape
  <2>7. Early(req'[r], sess'[r], paid'[r], input[r], faults[r])
    BY <2>4 DEF Early
  <2>8. Marks => Covered(req'[r], sess'[r], refund[r], record[r], paid'[r], input[r])
    BY <1>2, <1>3, <1>4, <2>y, <2>2, <2>3, <2>4, <2>5 DEF AccountOf, Account, Shape, Covered
  <2>9. Marks /\ faults[r] = {} => Exact(req'[r], sess'[r], refund[r], paid'[r], input[r])
    BY <1>2, <1>3, <1>4, <2>y, <2>2, <2>3, <2>4, <2>5
    DEF AccountOf, Account, Shape, Exact, Held, HeldToken
  <2> QED
    BY <2>6, <2>7, <2>8, <2>9 DEF AccountOf, Account
<1> QED
  BY <1>2, <1>5, <1>6

\* A session that is dropped leaves a request that has paid nothing, as far as no
\* statement failed, and was never credited.
LEMMA Dropped ==
  ASSUME NEW r \in Requests, refund'[r].pc = "none", UNCHANGED input,
         req'[r].pc \in {"rejected", "overflow"}, req'[r].post = 0, sess'[r] = NoSession,
         paid'[r].wallet = 0, paid'[r].sub = 0,
         faults'[r] = {} => paid'[r].token = 0, Marks => paid'[r].token >= 0
  PROVE  AccountOf(r)'
<1>1. /\ ~ InUse(req'[r]) /\ ~ Opening(req'[r]) /\ Choosing(req'[r])
      /\ ~ Reserving(req'[r]) /\ Asked(req'[r]) = 0
  BY DEF InUse, Opening, Choosing, Reserving, Asked
<1>2. /\ NoSession.settled = FALSE /\ NoSession.fSettled = FALSE /\ NoSession.funding = "none"
      /\ NoSession.tok = 0
  BY DEF NoSession
<1>3. Shape(req'[r], NoSession, refund'[r], input[r])
  BY <1>1, <1>2 DEF Shape
<1>4. Early(req'[r], NoSession, paid'[r], input[r], faults'[r])
  BY <1>2 DEF Early
<1>5. Marks => Covered(req'[r], NoSession, refund'[r], record'[r], paid'[r], input[r])
  BY <1>1, <1>2 DEF Covered
<1>6. faults'[r] = {} => Exact(req'[r], NoSession, refund'[r], paid'[r], input[r])
  BY <1>2 DEF Exact, HeldToken
<1> QED
  BY <1>3, <1>4, <1>5, <1>6 DEF AccountOf, Account

\* The token part is under way or has refused: only what preConsume drops, a
\* session that holds nothing, changes.
LEMMA TokenGoesOnAccount ==
  ASSUME BillingInv, NEW r \in Requests, AccountOf(r),
         req[r].pc \in {"token", "tokenTake"},
         TokenRefused(r) \/ (Goto(r, "tokenTake") /\ UNCHANGED sess /\ ~ input[r].playground),
         UNCHANGED <<refund, record, paid, input>>,
         faults'[r] = {} => faults[r] = {}
  PROVE  AccountOf(r)'
<1>1. /\ req[r] \in ReqType /\ sess[r] \in SessType /\ paid[r] \in PaidType
      /\ sess \in [Requests -> SessType]
  BY Books, Parts
<1>2. req[r].amt \in Nat /\ req[r].post \in Nat /\ req[r].op \in {"pre", "reserve"}
  BY Amounts, Books DEF UnderWay
<1>4. /\ refund[r].pc = "none" /\ ~ sess[r].settled /\ ~ sess[r].fSettled
  BY TokenPhase
<1>5. CASE req[r].op = "pre" /\ TokenRefused(r)
  <2>1. Goto(r, "rejected") /\ sess'[r] = NoSession
    BY <1>1, <1>5 DEF TokenRefused
  <2>2. /\ req'[r].pc = "rejected" /\ req'[r].post = req[r].post
    BY <2>1, GotoFields DEF PCs
  <2>3. Opening(req[r]) /\ ~ InUse(req[r]) /\ Asked(req[r]) = 0
    BY <1>5, TokenPhase
  <2>4. /\ paid[r].wallet = 0 /\ paid[r].sub = 0 /\ req[r].post = 0
        /\ faults[r] = {} => paid[r].token = 0
        /\ Marks => paid[r].token >= 0
    BY <2>3 DEF AccountOf, Account, Shape, Early, Covered
  <2> QED
    BY <1>4, <2>1, <2>2, <2>4, Dropped
<1>6. CASE ~ (req[r].op = "pre" /\ TokenRefused(r))
  <2>1. \E pc \in {"tokenTake", "reserveRollback"} :
          /\ Goto(r, pc)
          /\ pc = "tokenTake" => ~ input[r].playground
          /\ pc = "reserveRollback" => req[r].op = "reserve"
    BY <1>2, <1>6 DEF TokenRefused
  <2>2. /\ req'[r].pc \in {"tokenTake", "reserveRollback"}
        /\ req'[r].op = req[r].op /\ req'[r].amt = req[r].amt /\ req'[r].post = req[r].post
        /\ req'[r].pc = "tokenTake" => ~ input[r].playground
        /\ req'[r].pc = "reserveRollback" => req[r].op = "reserve"
    BY <2>1, GotoFields DEF PCs
  <2>3. UNCHANGED sess
    BY <1>2, <1>6 DEF TokenRefused
  <2>4. /\ InUse(req'[r]) <=> InUse(req[r])
        /\ Opening(req'[r]) <=> Opening(req[r])
        /\ ~ Choosing(req'[r])
        /\ Reserving(req'[r]) <=> Reserving(req[r])
    BY <1>2, <2>2 DEF InUse, Opening, Choosing, Reserving
  <2>5. Asked(req'[r]) = Asked(req[r])
    BY <2>2, <2>4 DEF Asked
  <2>6. Shape(req'[r], sess[r], refund[r], input[r])
    BY <1>4, <2>2, <2>4, <2>5 DEF AccountOf, Account, Shape, Opening
  <2>7. Early(req'[r], sess[r], paid[r], input[r], faults'[r])
    BY <2>4 DEF AccountOf, Account, Early
  <2>8. Marks => Covered(req'[r], sess[r], refund[r], record[r], paid[r], input[r])
    BY <2>4, <2>5 DEF AccountOf, Account, Covered
  <2>9. Marks /\ faults[r] = {} => Exact(req'[r], sess[r], refund[r], paid[r], input[r])
    <3>1. Held(req'[r], sess[r], refund[r]) = Held(req[r], sess[r], refund[r])
      BY <2>5 DEF Held
    <3> QED
      BY <2>2, <2>5, <3>1 DEF AccountOf, Account, Exact
  <2> QED
    BY <2>3, <2>6, <2>7, <2>8, <2>9 DEF AccountOf, Account
<1> QED
  BY <1>5, <1>6

\* PreConsumeTokenQuota keeps the account.
LEMMA TokenAccount ==
  ASSUME BillingInv, NEW r \in Requests, AccountOf(r), CheckToken(r) \/ DecreaseToken(r)
  PROVE  AccountOf(r)'
<1>1. /\ UNCHANGED <<refund, record, input>> /\ req[r].pc \in {"token", "tokenTake"}
  BY DEF CheckToken, DecreaseToken, env
<1>2. req[r].amt \in Nat /\ paid[r].token \in Int /\ faults \in [Requests -> SUBSET AllFaults]
  BY Amounts, Books, PaidFields, Parts
<1>3. CASE CheckToken(r) /\ input[r].playground
  <2>1. TokenTaken(r) /\ UNCHANGED <<paid, faults>>
    BY <1>3 DEF CheckToken
  <2> QED
    BY <1>1, <1>2, <1>3, <2>1, TokenTakenAccount
<1>4. CASE CheckToken(r) /\ ~ input[r].playground
  <2>1. /\ TokenRefused(r) \/ (Goto(r, "tokenTake") /\ UNCHANGED sess)
        /\ UNCHANGED <<paid, faults>>
    BY <1>4 DEF CheckToken
  <2> QED
    BY <1>1, <1>4, <2>1, TokenGoesOnAccount
<1>5. CASE DecreaseToken(r) /\ TakeToken(r, req[r].amt) /\ TokenTaken(r) /\ UNCHANGED faults
  <2>1. ~ input[r].playground
    BY <1>5 DEF AccountOf, Account, Shape, DecreaseToken
  <2>2. /\ paid'[r].token = paid[r].token + req[r].amt
        /\ paid'[r].wallet = paid[r].wallet /\ paid'[r].sub = paid[r].sub
    BY <1>2, <1>5, TakePaid
  <2> QED
    BY <1>1, <1>5, <2>1, <2>2, TokenTakenAccount
<1>6. CASE DecreaseToken(r) /\ Fails(r, "token") /\ TokenRefused(r) /\ UNCHANGED paid
  <2>1. faults'[r] = {} => faults[r] = {}
    BY <1>2, <1>6 DEF Fails
  <2> QED
    BY <1>1, <1>6, <2>1, TokenGoesOnAccount
<1> QED
  BY <1>3, <1>4, <1>5, <1>6 DEF DecreaseToken

\* The session is paid for and opens.
LEMMA OpenedAccount ==
  ASSUME BillingInv, NEW r \in Requests, AccountOf(r), NEW n \in Nat, n = req[r].amt,
         req[r].pc = "funding", Goto(r, "open"), UNCHANGED <<refund, input, faults>>,
         sess'[r].funding = sess[r].funding, sess'[r].funding # "none",
         sess'[r].pre = n, sess'[r].tok = sess[r].tok, sess'[r].extra = sess[r].extra,
         sess'[r].settled = sess[r].settled, sess'[r].fSettled = sess[r].fSettled,
         sess[r].funding = "wallet" => sess'[r].consumed = n,
         sess[r].funding = "subscription" => sess'[r].subPre = n /\ record'[r] = "consumed",
         paid'[r].token = paid[r].token,
         paid'[r].wallet = paid[r].wallet + (IF sess[r].funding = "wallet" THEN n ELSE 0),
         paid'[r].sub = paid[r].sub + (IF sess[r].funding = "subscription" THEN n ELSE 0)
  PROVE  AccountOf(r)'
<1>1. req'[r].pc = "open" /\ req'[r].amt = n /\ req'[r].post = req[r].post
  BY GotoFields DEF PCs
<1>2. /\ refund[r].pc = "none" /\ ~ sess[r].settled /\ ~ sess[r].fSettled
      /\ Opening(req[r]) /\ ~ InUse(req[r])
  BY TokenPhase
<1>3. /\ InUse(req'[r]) /\ ~ Opening(req'[r]) /\ ~ Choosing(req'[r])
      /\ ~ Reserving(req'[r]) /\ Asked(req'[r]) = 0
  BY <1>1 DEF InUse, Opening, Choosing, Reserving, Asked
<1>4. /\ paid[r].wallet = 0 /\ paid[r].sub = 0 /\ req[r].post = 0
      /\ sess[r].tok = n /\ sess[r].extra = 0
      /\ faults[r] = {} => paid[r].token = IF input[r].playground THEN 0 ELSE n
      /\ Marks => paid[r].token >= 0 /\ (~ input[r].playground => paid[r].token >= n)
  BY <1>2 DEF AccountOf, Account, Shape, Early, Covered
<1>5. Shape(req'[r], sess'[r], refund[r], input[r])
  BY <1>1, <1>2, <1>3, <1>4 DEF Shape
<1>6. Early(req'[r], sess'[r], paid'[r], input[r], faults[r])
  BY <1>3 DEF Early
<1>7. Marks => Covered(req'[r], sess'[r], refund[r], record'[r], paid'[r], input[r])
  BY <1>2, <1>3, <1>4 DEF Covered
<1>8. faults[r] = {} => Exact(req'[r], sess'[r], refund[r], paid'[r], input[r])
  <2>1. Held(req'[r], sess'[r], refund[r]) = n /\ HeldToken(sess'[r], refund[r]) = n
    BY <1>2, <1>3, <1>4 DEF Held, HeldToken
  <2> QED
    BY <1>1, <1>3, <1>4, <2>1 DEF Exact
<1> QED
  BY <1>5, <1>6, <1>7, <1>8 DEF AccountOf, Account

\* The funding source refuses: the session is dropped once the token is rolled back.
LEMMA FundingRefusedAccount ==
  ASSUME BillingInv, NEW r \in Requests, AccountOf(r), NEW b \in BOOLEAN,
         req[r].pc = "funding", FundingRefused(r, b),
         UNCHANGED <<refund, record, paid, input>>, faults'[r] = {} => faults[r] = {}
  PROVE  AccountOf(r)'
<1>0. /\ refund[r].pc = "none" /\ ~ sess[r].settled /\ ~ sess[r].fSettled
      /\ Opening(req[r]) /\ ~ InUse(req[r]) /\ Asked(req[r]) = 0
  BY TokenPhase
<1>1. /\ sess \in [Requests -> SessType] /\ req \in [Requests -> ReqType]
      /\ req[r] \in ReqType
  BY Parts
<1>2. CASE input[r].playground
  <2>1. (\E pc \in {"overflow", "rejected"} : Goto(r, pc)) /\ sess'[r] = NoSession
    BY <1>1, <1>2 DEF FundingRefused
  <2>2. req'[r].pc \in {"overflow", "rejected"} /\ req'[r].post = req[r].post
    BY <2>1, GotoFields DEF PCs
  <2>3. /\ paid[r].wallet = 0 /\ paid[r].sub = 0 /\ req[r].post = 0
        /\ faults[r] = {} => paid[r].token = 0
        /\ Marks => paid[r].token >= 0
    BY <1>0, <1>2 DEF AccountOf, Account, Shape, Early, Covered
  <2> QED
    BY <1>0, <2>1, <2>2, <2>3, Dropped
<1>3. CASE ~ input[r].playground
  <2> DEFINE x == [req[r] EXCEPT !.pc = "rollback", !.insufficient = b]
  <2>1. req' = [req EXCEPT ![r] = x] /\ UNCHANGED sess
    BY <1>3 DEF FundingRefused
  <2>2. x.pc = "rollback" /\ x.amt = req[r].amt /\ x.post = req[r].post
    BY <1>1 DEF ReqType
  <2> HIDE DEF x
  <2>3. req'[r] = x
    BY <1>1, <2>1
  <2>4. /\ ~ InUse(x) /\ Opening(x) /\ ~ Choosing(x) /\ ~ Reserving(x) /\ Asked(x) = 0
    BY <2>2 DEF InUse, Opening, Choosing, Reserving, Asked
  <2>5. Shape(x, sess[r], refund[r], input[r])
    BY <1>0, <1>3, <2>2, <2>4 DEF AccountOf, Account, Shape
  <2>6. Early(x, sess[r], paid[r], input[r], faults'[r])
    BY <1>0 DEF AccountOf, Account, Early
  <2>7. Marks => Covered(x, sess[r], refund[r], record[r], paid[r], input[r])
    BY <1>0, <2>4 DEF AccountOf, Account, Covered
  <2>8. Marks /\ faults[r] = {} => Exact(x, sess[r], refund[r], paid[r], input[r])
    <3>1. Held(x, sess[r], refund[r]) = Held(req[r], sess[r], refund[r])
      BY <1>0, <2>4 DEF Held
    <3> QED
      BY <1>0, <2>2, <2>4, <3>1 DEF AccountOf, Account, Exact
  <2> QED
    BY <2>1, <2>3, <2>5, <2>6, <2>7, <2>8 DEF AccountOf, Account
<1> QED
  BY <1>2, <1>3

\* FundingSource.PreConsume keeps the account.
LEMMA PreConsumeAccount ==
  ASSUME BillingInv, NEW r \in Requests, AccountOf(r),
         PreConsumeWallet(r) \/ PreConsumeSubscription(r)
  PROVE  AccountOf(r)'
<1> DEFINE n == req[r].amt
           y1 == [sess[r] EXCEPT !.pre = n, !.consumed = n]
           y2 == [sess[r] EXCEPT !.pre = n, !.subPre = n]
<1>0. /\ sess \in [Requests -> SessType] /\ sess[r] \in SessType
      /\ n \in Nat /\ faults \in [Requests -> SUBSET AllFaults]
      /\ paid \in [Requests -> PaidType] /\ paid[r] \in PaidType
      /\ record \in [Requests -> RecordType]
  BY Parts, Amounts DEF DbOK
<1>1. req[r].pc = "funding" /\ UNCHANGED <<refund, input>>
  BY DEF PreConsumeWallet, PreConsumeSubscription, env
<1>2. CASE PreConsumeWallet(r) /\ TakeWallet(r, n) /\ Opened(r, y1) /\ UNCHANGED faults
  <2>1. /\ sess[r].funding = "wallet" /\ Goto(r, "open") /\ sess'[r] = y1 /\ UNCHANGED record
    BY <1>0, <1>2 DEF PreConsumeWallet, Opened
  <2>2. /\ y1.funding = sess[r].funding /\ y1.pre = n /\ y1.consumed = n
        /\ y1.tok = sess[r].tok /\ y1.extra = sess[r].extra
        /\ y1.settled = sess[r].settled /\ y1.fSettled = sess[r].fSettled
    BY <1>0 DEF SessType
  <2>3. /\ paid'[r].wallet = paid[r].wallet + n
        /\ paid'[r].token = paid[r].token /\ paid'[r].sub = paid[r].sub
        /\ paid[r].sub \in Int
    BY <1>0, <1>2, TakePaid, PaidFields
  <2> HIDE DEF y1
  <2> QED
    BY <1>0, <1>1, <1>2, <2>1, <2>2, <2>3, OpenedAccount
<1>3. CASE /\ PreConsumeSubscription(r) /\ paid' = [paid EXCEPT ![r].sub = @ + n]
           /\ record' = [record EXCEPT ![r] = "consumed"] /\ Opened(r, y2) /\ UNCHANGED faults
  <2>1. /\ sess[r].funding = "subscription" /\ Goto(r, "open") /\ sess'[r] = y2
        /\ record'[r] = "consumed"
    BY <1>0, <1>3 DEF PreConsumeSubscription, Opened
  <2>2. /\ y2.funding = sess[r].funding /\ y2.pre = n /\ y2.subPre = n
        /\ y2.tok = sess[r].tok /\ y2.extra = sess[r].extra
        /\ y2.settled = sess[r].settled /\ y2.fSettled = sess[r].fSettled
    BY <1>0 DEF SessType
  <2>3. /\ paid'[r].wallet = paid[r].wallet
        /\ paid'[r].token = paid[r].token /\ paid'[r].sub = paid[r].sub + n
        /\ paid[r].wallet \in Int
    BY <1>0, <1>3 DEF PaidType
  <2> HIDE DEF y2
  <2> QED
    BY <1>0, <1>1, <1>3, <2>1, <2>2, <2>3, OpenedAccount
<1>4. CASE \E b \in BOOLEAN : /\ FundingRefused(r, b) /\ UNCHANGED <<record, paid>>
                              /\ UNCHANGED faults \/ \E f : Fails(r, f)
  <2>1. faults'[r] = {} => faults[r] = {}
    BY <1>0, <1>4 DEF Fails
  <2> QED
    BY <1>1, <1>4, <2>1, FundingRefusedAccount
<1>5. CASE PreConsumeWallet(r)
  BY <1>2, <1>4, <1>5 DEF PreConsumeWallet
<1>6. CASE PreConsumeSubscription(r)
  BY <1>3, <1>4, <1>6 DEF PreConsumeSubscription
<1> QED
  BY <1>5, <1>6

\* Rolling the token back gives back what the session took from it.
LEMMA RollbackTokenAccount ==
  ASSUME BillingInv, NEW r \in Requests, AccountOf(r), RollbackToken(r)
  PROVE  AccountOf(r)'
<1>0. /\ sess \in [Requests -> SessType] /\ sess[r].tok \in Nat
      /\ faults \in [Requests -> SUBSET AllFaults] /\ paid[r].token \in Int
  BY Parts, Amounts, Books, PaidFields
<1>1. /\ refund[r].pc = "none" /\ ~ sess[r].settled /\ ~ sess[r].fSettled
      /\ ~ InUse(req[r])
  BY TokenPhase DEF RollbackToken
<1>2. /\ UNCHANGED <<refund, input>> /\ sess'[r] = NoSession
      /\ \E pc \in {"overflow", "rejected"} : Goto(r, pc)
  BY <1>0 DEF RollbackToken, env
<1>3. req'[r].pc \in {"overflow", "rejected"} /\ req'[r].post = req[r].post
  BY <1>2, GotoFields DEF PCs
<1>4. /\ paid[r].wallet = 0 /\ paid[r].sub = 0 /\ req[r].post = 0
      /\ faults[r] = {} => paid[r].token = sess[r].tok
      /\ Marks => paid[r].token >= sess[r].tok
  BY <1>1 DEF RollbackToken, AccountOf, Account, Shape, Early, Covered
<1>5. CASE TakeToken(r, - sess[r].tok) /\ UNCHANGED faults
  <2>1. /\ paid'[r].token = paid[r].token - sess[r].tok
        /\ paid'[r].wallet = paid[r].wallet /\ paid'[r].sub = paid[r].sub
    BY <1>0, <1>5, TakePaid
  <2> QED
    BY <1>0, <1>1, <1>2, <1>3, <1>4, <1>5, <2>1, Dropped
<1>6. CASE Fails(r, "rollback") /\ UNCHANGED paid
  <2>1. faults'[r] # {}
    BY <1>0, <1>6 DEF Fails
  <2>2. Marks => paid'[r].token >= 0
    BY <1>0, <1>4, <1>6
  <2> QED
    BY <1>1, <1>2, <1>3, <1>4, <1>6, <2>1, <2>2, Dropped
<1> QED
  BY <1>5, <1>6 DEF RollbackToken

-----------------------------------------------------------------------------
(* Reserve.                                                                 *)

\* The funding source has been charged what Reserve asks for, and the token is
\* next.
LEMMA ReserveAccount ==
  ASSUME BillingInv, NEW r \in Requests, AccountOf(r), NEW target \in Nat,
         ReserveFunding(r, target)
  PROVE  AccountOf(r)'
<1> DEFINE n == target - sess[r].pre
<1>0. /\ req[r] \in ReqType /\ sess[r] \in SessType /\ paid[r] \in PaidType
      /\ sess \in [Requests -> SessType] /\ amountUsed \in Nat
  BY Books, Parts DEF DbOK
<1>1. /\ sess[r].pre \in Nat /\ sess[r].tok \in Nat /\ sess[r].extra \in Nat
      /\ sess[r].consumed \in Nat /\ sess[r].subPre \in Nat
      /\ paid[r].wallet \in Int /\ paid[r].token \in Int /\ paid[r].sub \in Int
  BY <1>0, SessFields, PaidFields
<1>2. /\ req[r].pc = "open" /\ ~ req[r].failed /\ ~ sess[r].settled /\ n > 0
      /\ UNCHANGED <<refund, record, input, faults>>
      /\ req' = [req EXCEPT ![r] = [@ EXCEPT !.pc = "token", !.op = "reserve", !.amt = n]]
  BY DEF ReserveFunding, env
<1>3. n \in Nat
  BY <1>1, <1>2
<1>4. refund[r].pc = "none"
  BY <1>2, NotFailed
<1>5. /\ sess[r].funding = "wallet" =>
           /\ paid'[r].wallet = paid[r].wallet + n
           /\ paid'[r].token = paid[r].token /\ paid'[r].sub = paid[r].sub
           /\ sess' = [sess EXCEPT ![r].consumed = @ + n]
      /\ sess[r].funding = "subscription" =>
           /\ paid'[r].sub = paid[r].sub + n
           /\ paid'[r].token = paid[r].token /\ paid'[r].wallet = paid[r].wallet
           /\ UNCHANGED sess
      /\ sess[r].funding \in {"wallet", "subscription"}
  <2>1. CASE sess[r].funding = "wallet"
    <3>1. TakeWallet(r, n) /\ sess' = [sess EXCEPT ![r].consumed = @ + n]
      BY <2>1 DEF ReserveFunding
    <3> QED
      BY <1>3, <2>1, <3>1, TakePaid
  <2>2. CASE sess[r].funding = "subscription"
    <3>1. TakeSub(r, n) /\ UNCHANGED sess
      BY <2>2 DEF ReserveFunding
    <3>2. amountUsed + n >= 0
      BY <1>0, <1>3
    <3> QED
      BY <1>3, <2>2, <3>1, <3>2, TakeSubPaid
  <2> QED
    BY <2>1, <2>2 DEF ReserveFunding
<1> HIDE DEF n
<1>6. /\ req'[r].pc = "token" /\ req'[r].op = "reserve"
      /\ req'[r].amt = n /\ req'[r].post = req[r].post
  BY <1>2, <1>3, ChargeFields DEF PCs
<1>7. /\ sess'[r].funding = sess[r].funding /\ sess'[r].pre = sess[r].pre
      /\ sess'[r].tok = sess[r].tok /\ sess'[r].extra = sess[r].extra
      /\ sess'[r].subPre = sess[r].subPre /\ sess'[r].settled = sess[r].settled
      /\ sess'[r].fSettled = sess[r].fSettled
      /\ sess[r].funding = "wallet" => sess'[r].consumed = sess[r].consumed + n
  <2>1. CASE sess[r].funding = "wallet"
    BY <1>0, <1>3, <1>5, <2>1 DEF SessType
  <2>2. CASE sess[r].funding = "subscription"
    BY <1>5, <2>2
  <2> QED
    BY <1>5, <2>1, <2>2
<1>8. InUse(req[r]) /\ ~ Reserving(req[r]) /\ Asked(req[r]) = 0
  BY <1>2 DEF InUse, Reserving, Asked
<1>9. /\ InUse(req'[r]) /\ Reserving(req'[r]) /\ Asked(req'[r]) = n
      /\ ~ Choosing(req'[r]) /\ ~ Opening(req'[r])
  BY <1>6 DEF InUse, Reserving, Asked, Choosing, Opening
<1>10. ~ sess[r].fSettled
  BY <1>2 DEF AccountOf, Account, Shape
<1>11. Shape(req'[r], sess'[r], refund[r], input[r])
  BY <1>1, <1>2, <1>3, <1>4, <1>6, <1>7, <1>8, <1>9, <1>10 DEF AccountOf, Account, Shape
<1>12. Early(req'[r], sess'[r], paid'[r], input[r], faults[r])
  BY <1>9 DEF Early
<1>13. Marks => Covered(req'[r], sess'[r], refund[r], record[r], paid'[r], input[r])
  BY <1>1, <1>2, <1>3, <1>4, <1>5, <1>7, <1>8, <1>9, <1>10 DEF AccountOf, Account, Covered
<1>14. Marks /\ faults[r] = {} => Exact(req'[r], sess'[r], refund[r], paid'[r], input[r])
  <2>1. /\ Held(req'[r], sess'[r], refund[r]) = Held(req[r], sess[r], refund[r]) + n
        /\ HeldToken(sess'[r], refund[r]) = HeldToken(sess[r], refund[r])
        /\ Held(req[r], sess[r], refund[r]) \in Nat /\ HeldToken(sess[r], refund[r]) \in Nat
    BY <1>1, <1>2, <1>3, <1>4, <1>7, <1>8, <1>9, <1>10 DEF Held, HeldToken
  <2>2. req[r].post \in Nat
    BY Amounts
  <2> QED
    BY <1>1, <1>2, <1>3, <1>5, <1>6, <1>7, <1>8, <1>9, <2>1, <2>2 DEF AccountOf, Account, Exact
<1> QED
  BY <1>2, <1>11, <1>12, <1>13, <1>14 DEF AccountOf, Account

\* amount_used covers what r has taken from the subscription, so that giving
\* that back is not clamped.
Backed(r) == Marks => paid[r].sub <= amountUsed

\* rollbackFundingReserve gives back what was asked for, or a statement failed.
LEMMA ReserveRollbackAccount ==
  ASSUME BillingInv, NEW r \in Requests, AccountOf(r), Backed(r), ReserveRollback(r)
  PROVE  AccountOf(r)'
<1> DEFINE n == req[r].amt
<1>0. /\ req[r] \in ReqType /\ sess[r] \in SessType /\ paid[r] \in PaidType
      /\ sess \in [Requests -> SessType] /\ amountUsed \in Nat
      /\ faults \in [Requests -> SUBSET AllFaults] /\ UnderWay(req[r], sess[r], refund[r])
  BY Books, Parts DEF DbOK
<1>1. /\ sess[r].pre \in Nat /\ sess[r].tok \in Nat /\ sess[r].extra \in Nat
      /\ sess[r].consumed \in Nat /\ sess[r].subPre \in Nat
      /\ paid[r].wallet \in Int /\ paid[r].token \in Int /\ paid[r].sub \in Int
      /\ n \in Nat /\ req[r].post \in Nat
  BY <1>0, SessFields, PaidFields, Amounts
<1>2. req[r].pc = "reserveRollback" /\ Goto(r, "open") /\ UNCHANGED <<refund, record, input>>
  BY DEF ReserveRollback, env
<1>3. req[r].op = "reserve"
  BY <1>0, <1>2 DEF UnderWay
<1>4. /\ refund[r].pc = "none" /\ ~ sess[r].settled /\ ~ sess[r].fSettled
      /\ Reserving(req[r]) /\ InUse(req[r]) /\ Asked(req[r]) = n
  BY <1>2, <1>3, TokenPhase
<1>5. req'[r].pc = "open" /\ req'[r].post = req[r].post
  BY <1>2, GotoFields DEF PCs
<1>6. /\ InUse(req'[r]) /\ ~ Reserving(req'[r]) /\ Asked(req'[r]) = 0
      /\ ~ Choosing(req'[r]) /\ ~ Opening(req'[r])
  BY <1>5 DEF InUse, Reserving, Asked, Choosing, Opening
<1>7. /\ sess[r].funding = "subscription" => sess[r].subPre + sess[r].extra = sess[r].pre
      /\ sess[r].funding = "wallet" => sess[r].consumed >= sess[r].pre + n
      /\ sess[r].funding # "none" /\ sess[r].tok = sess[r].pre
  BY <1>4 DEF AccountOf, Account, Shape
<1>8. Marks => /\ paid[r].wallet >= 0 /\ paid[r].sub >= 0 /\ paid[r].token >= 0
               /\ sess[r].funding = "wallet" => paid[r].wallet >= sess[r].consumed
               /\ sess[r].funding = "subscription" =>
                    paid[r].sub >= sess[r].pre + n /\ record[r] = "consumed"
               /\ ~ input[r].playground => paid[r].token >= sess[r].tok
  BY <1>4 DEF AccountOf, Account, Covered
<1>9. /\ Held(req[r], sess[r], refund[r]) = sess[r].pre + n
      /\ HeldToken(sess[r], refund[r]) = sess[r].tok
  BY <1>4 DEF Held, HeldToken
<1>10. Early(req'[r], sess'[r], paid'[r], input[r], faults'[r])
  BY <1>6 DEF Early
<1>11. CASE /\ sess[r].funding = "wallet" /\ TakeWallet(r, - n)
            /\ sess' = [sess EXCEPT ![r].consumed = @ - n] /\ UNCHANGED faults
  <2>1. /\ sess'[r].funding = sess[r].funding /\ sess'[r].pre = sess[r].pre
        /\ sess'[r].tok = sess[r].tok /\ sess'[r].extra = sess[r].extra
        /\ sess'[r].subPre = sess[r].subPre /\ sess'[r].settled = sess[r].settled
        /\ sess'[r].fSettled = sess[r].fSettled /\ sess'[r].consumed = sess[r].consumed - n
    BY <1>0, <1>1, <1>11 DEF SessType
  <2>2. /\ paid'[r].wallet = paid[r].wallet - n
        /\ paid'[r].token = paid[r].token /\ paid'[r].sub = paid[r].sub
    BY <1>1, <1>11, TakePaid
  <2>3. Shape(req'[r], sess'[r], refund[r], input[r])
    BY <1>1, <1>4, <1>5, <1>6, <1>7, <1>11, <2>1 DEF Shape
  <2>4. Marks => Covered(req'[r], sess'[r], refund[r], record[r], paid'[r], input[r])
    BY <1>1, <1>4, <1>6, <1>7, <1>8, <1>11, <2>1, <2>2 DEF Covered
  <2>5. Marks /\ faults[r] = {} => Exact(req'[r], sess'[r], refund[r], paid'[r], input[r])
    <3>1. /\ Held(req'[r], sess'[r], refund[r]) = sess[r].pre
          /\ HeldToken(sess'[r], refund[r]) = sess[r].tok
      BY <1>1, <1>4, <1>6, <2>1 DEF Held, HeldToken
    <3> QED
      BY <1>1, <1>2, <1>4, <1>5, <1>6, <1>9, <1>11, <2>1, <2>2, <3>1
      DEF AccountOf, Account, Exact
  <2> QED
    BY <1>2, <1>10, <1>11, <2>3, <2>4, <2>5 DEF AccountOf, Account
<1>12. CASE sess[r].funding = "subscription" /\ TakeSub(r, - n) /\ UNCHANGED <<sess, faults>>
  <2>1. /\ paid'[r].wallet = paid[r].wallet /\ paid'[r].token = paid[r].token
        /\ Marks => paid'[r].sub = paid[r].sub - n
    <3>1. Marks => amountUsed + (- n) >= 0
      BY <1>0, <1>1, <1>8, <1>12 DEF Backed
    <3>2. - n \in Int
      BY <1>1
    <3> QED
      BY <1>1, <1>12, <3>1, <3>2, TakeSubPaid
  <2>2. Shape(req'[r], sess[r], refund[r], input[r])
    BY <1>1, <1>4, <1>5, <1>6, <1>7, <1>12 DEF Shape
  <2>3. Marks => Covered(req'[r], sess[r], refund[r], record[r], paid'[r], input[r])
    BY <1>1, <1>4, <1>6, <1>7, <1>8, <1>12, <2>1 DEF Covered
  <2>4. Marks /\ faults[r] = {} => Exact(req'[r], sess[r], refund[r], paid'[r], input[r])
    <3>1. /\ Held(req'[r], sess[r], refund[r]) = sess[r].pre
          /\ HeldToken(sess[r], refund[r]) = sess[r].tok
      BY <1>1, <1>4, <1>6 DEF Held, HeldToken
    <3> QED
      BY <1>1, <1>2, <1>4, <1>5, <1>6, <1>9, <1>12, <2>1, <3>1
      DEF AccountOf, Account, Exact
  <2> QED
    BY <1>2, <1>10, <1>12, <2>2, <2>3, <2>4 DEF AccountOf, Account
<1>13. CASE Fails(r, "rollback") /\ UNCHANGED <<db, paid, sess>>
  <2>1. faults'[r] # {}
    BY <1>0, <1>13 DEF Fails
  <2>2. Shape(req'[r], sess[r], refund[r], input[r])
    BY <1>1, <1>4, <1>5, <1>6, <1>7 DEF Shape
  <2>3. Marks => Covered(req'[r], sess[r], refund[r], record[r], paid[r], input[r])
    BY <1>1, <1>4, <1>6, <1>7, <1>8 DEF Covered
  <2> QED
    BY <1>2, <1>10, <1>13, <2>1, <2>2, <2>3 DEF AccountOf, Account
<1> QED
  BY <1>11, <1>12, <1>13 DEF ReserveRollback

-----------------------------------------------------------------------------
(* Settle.                                                                  *)

\* A session in use that Reserve is not raising.
LEMMA UsePhase ==
  ASSUME NEW x, x.pc \in {"open", "settleToken", "post", "postToken", "closed"}
  PROVE  /\ InUse(x) /\ ~ Reserving(x) /\ Asked(x) = 0 /\ ~ Choosing(x) /\ ~ Opening(x)
  BY DEF InUse, Reserving, Asked, Choosing, Opening

\* The numbers of request r.
LEMMA Numbers ==
  ASSUME BillingInv, NEW r \in Requests
  PROVE  /\ sess[r].pre \in Nat /\ sess[r].tok \in Nat /\ sess[r].extra \in Nat
         /\ sess[r].consumed \in Nat /\ sess[r].subPre \in Nat /\ sess[r].actual \in Nat
         /\ paid[r].wallet \in Int /\ paid[r].token \in Int /\ paid[r].sub \in Int
         /\ req[r].amt \in Nat /\ req[r].post \in Nat /\ amountUsed \in Nat
         /\ sess[r].funding \in {"none", "wallet", "subscription"}
<1>1. req[r] \in ReqType /\ sess[r] \in SessType /\ paid[r] \in PaidType /\ amountUsed \in Nat
  BY Books, Parts DEF DbOK
<1> QED
  BY <1>1, SessFields, PaidFields, Amounts

\* What the account says of a session in use.
LEMMA InUseFacts ==
  ASSUME NEW r \in Requests, AccountOf(r), InUse(req[r]), ~ Reserving(req[r]),
         Asked(req[r]) = 0
  PROVE  /\ sess[r].funding # "none" /\ sess[r].tok = sess[r].pre
         /\ sess[r].funding = "subscription" => sess[r].subPre + sess[r].extra = sess[r].pre
         /\ sess[r].funding = "wallet" => sess[r].consumed >= sess[r].pre + 0
         /\ sess[r].fSettled => sess[r].settled \/ req[r].pc = "settleToken"
         /\ req[r].pc = "settleToken" => ~ sess[r].settled
         /\ Marks => Covered(req[r], sess[r], refund[r], record[r], paid[r], input[r])
         /\ Marks /\ faults[r] = {} => Exact(req[r], sess[r], refund[r], paid[r], input[r])
  BY DEF AccountOf, Account, Shape

\* A settlement that finds nothing left to charge.
LEMMA SettleSame ==
  ASSUME BillingInv, NEW r \in Requests, AccountOf(r), NEW a \in Nat,
         req[r].pc = "open", ~ req[r].failed, ~ sess[r].settled, a = sess[r].pre,
         sess' = [sess EXCEPT ![r] = [@ EXCEPT !.settled = TRUE, !.actual = a]],
         UNCHANGED <<req, refund, record, paid, input, faults>>
  PROVE  AccountOf(r)'
<1> DEFINE y == [sess[r] EXCEPT !.settled = TRUE, !.actual = a]
<1>0. sess \in [Requests -> SessType] /\ sess[r] \in SessType
  BY Parts
<1>1. /\ y.funding = sess[r].funding /\ y.pre = sess[r].pre /\ y.tok = sess[r].tok
      /\ y.extra = sess[r].extra /\ y.subPre = sess[r].subPre
      /\ y.consumed = sess[r].consumed /\ y.fSettled = sess[r].fSettled
      /\ y.settled = TRUE /\ y.actual = a
  BY <1>0 DEF SessType
<1>2. sess'[r] = y
  BY <1>0
<1> HIDE DEF y
<1>3. /\ InUse(req[r]) /\ ~ Reserving(req[r]) /\ Asked(req[r]) = 0 /\ ~ Choosing(req[r])
      /\ ~ Opening(req[r]) /\ refund[r].pc = "none"
  BY UsePhase, NotFailed
<1>4. Shape(req[r], y, refund[r], input[r])
  BY <1>1, <1>3, Numbers, InUseFacts DEF Shape
<1>5. Early(req[r], y, paid[r], input[r], faults[r])
  BY <1>3 DEF Early
<1>6. Marks => Covered(req[r], y, refund[r], record[r], paid[r], input[r])
  BY <1>1, <1>3, InUseFacts DEF Covered
<1>7. Marks /\ faults[r] = {} => Exact(req[r], y, refund[r], paid[r], input[r])
  <2>1. /\ Held(req[r], sess[r], refund[r]) = a /\ HeldToken(sess[r], refund[r]) = a
        /\ Held(req[r], y, refund[r]) = a /\ HeldToken(y, refund[r]) = a
    BY <1>1, <1>3, InUseFacts DEF Held, HeldToken
  <2> QED
    BY <1>1, <1>3, <2>1, InUseFacts DEF Exact
<1> QED
  BY <1>2, <1>4, <1>5, <1>6, <1>7 DEF AccountOf, Account

\* The funding source is charged the difference.
LEMMA SettleDelta ==
  ASSUME BillingInv, NEW r \in Requests, AccountOf(r), Backed(r), NEW a \in Nat,
         req[r].pc = "open", ~ req[r].failed, ~ sess[r].settled,
         \/ sess[r].funding = "wallet" /\ TakeWallet(r, a - sess[r].pre)
         \/ sess[r].funding = "subscription" /\ TakeSub(r, a - sess[r].pre),
         sess' = [sess EXCEPT ![r] = [@ EXCEPT !.fSettled = TRUE, !.actual = a]],
         Goto(r, "settleToken"), UNCHANGED <<refund, record, input, faults>>
  PROVE  AccountOf(r)'
<1> DEFINE y == [sess[r] EXCEPT !.fSettled = TRUE, !.actual = a]
<1>0. sess \in [Requests -> SessType] /\ sess[r] \in SessType
  BY Parts
<1>1. /\ y.funding = sess[r].funding /\ y.pre = sess[r].pre /\ y.tok = sess[r].tok
      /\ y.extra = sess[r].extra /\ y.subPre = sess[r].subPre
      /\ y.consumed = sess[r].consumed /\ y.fSettled = TRUE
      /\ y.settled = sess[r].settled /\ y.actual = a
  BY <1>0 DEF SessType
<1>2. sess'[r] = y
  BY <1>0
<1> HIDE DEF y
<1>3. /\ InUse(req[r]) /\ ~ Reserving(req[r]) /\ Asked(req[r]) = 0 /\ ~ Choosing(req[r])
      /\ ~ Opening(req[r]) /\ refund[r].pc = "none"
  BY UsePhase, NotFailed
<1>4. req'[r].pc = "settleToken" /\ req'[r].post = req[r].post
  BY GotoFields DEF PCs
<1>5. /\ InUse(req'[r]) /\ ~ Reserving(req'[r]) /\ Asked(req'[r]) = 0 /\ ~ Choosing(req'[r])
      /\ ~ Opening(req'[r])
  BY <1>4, UsePhase
<1>6. ~ sess[r].fSettled
  BY <1>3, InUseFacts
<1>7. Marks => /\ paid[r].wallet >= 0 /\ paid[r].sub >= 0 /\ paid[r].token >= 0
               /\ sess[r].funding = "wallet" => paid[r].wallet >= sess[r].pre
               /\ sess[r].funding = "subscription" =>
                    paid[r].sub >= sess[r].pre /\ record[r] = "consumed"
               /\ ~ input[r].playground => paid[r].token >= sess[r].tok
  BY <1>3, <1>6, Numbers, InUseFacts DEF Covered
<1>8. /\ paid'[r].token = paid[r].token
      /\ sess[r].funding = "wallet" => /\ paid'[r].wallet = paid[r].wallet + (a - sess[r].pre)
                                       /\ paid'[r].sub = paid[r].sub
      /\ sess[r].funding = "subscription" =>
           /\ paid'[r].wallet = paid[r].wallet
           /\ Marks => paid'[r].sub = paid[r].sub + (a - sess[r].pre)
  <2>0. a - sess[r].pre \in Int
    BY Numbers
  <2>1. CASE sess[r].funding = "wallet"
    BY <2>0, <2>1, TakePaid
  <2>2. CASE sess[r].funding = "subscription"
    <3>1. Marks => amountUsed + (a - sess[r].pre) >= 0
      BY <1>7, <2>2, Numbers DEF Backed
    <3> QED
      BY <2>0, <2>2, <3>1, TakeSubPaid
  <2> QED
    BY <2>1, <2>2
<1>9. Shape(req'[r], y, refund[r], input[r])
  BY <1>1, <1>3, <1>4, <1>5, Numbers, InUseFacts DEF Shape
<1>10. Early(req'[r], y, paid'[r], input[r], faults[r])
  BY <1>5 DEF Early
<1>11. Marks => Covered(req'[r], y, refund[r], record[r], paid'[r], input[r])
  BY <1>1, <1>3, <1>5, <1>7, <1>8, Numbers DEF Covered
<1>12. Marks /\ faults[r] = {} => Exact(req'[r], y, refund[r], paid'[r], input[r])
  <2>1. /\ Held(req[r], sess[r], refund[r]) = sess[r].pre
        /\ HeldToken(sess[r], refund[r]) = sess[r].tok
        /\ Held(req'[r], y, refund[r]) = a /\ HeldToken(y, refund[r]) = sess[r].tok
    BY <1>1, <1>3, <1>6, Numbers DEF Held, HeldToken
  <2>2. Marks /\ faults[r] = {} => Exact(req[r], sess[r], refund[r], paid[r], input[r])
    BY <1>3, InUseFacts
  <2> QED
    BY <1>1, <1>3, <1>4, <1>5, <1>8, <2>1, <2>2, Numbers DEF Exact
<1> QED
  BY <1>2, <1>9, <1>10, <1>11, <1>12 DEF AccountOf, Account

\* A step that leaves request r as it is, apart from a fault.
LEMMA SameAccount ==
  ASSUME NEW r \in Requests, AccountOf(r),
         req'[r] = req[r], sess'[r] = sess[r], refund'[r] = refund[r], record'[r] = record[r],
         paid'[r] = paid[r], input'[r] = input[r], faults'[r] = {} => faults[r] = {}
  PROVE  AccountOf(r)'
  BY DEF AccountOf, Account, Early

\* A statement that fails is remembered.
LEMMA FailsRecorded ==
  ASSUME BillingInv, NEW r \in Requests, NEW f, Fails(r, f)
  PROVE  faults'[r] # {}
<1>1. faults \in [Requests -> SUBSET AllFaults]
  BY Parts
<1> QED
  BY <1>1 DEF Fails

\* The first half of Settle keeps the account.
LEMMA SettleFundingAccount ==
  ASSUME BillingInv, NEW r \in Requests, AccountOf(r), Backed(r), NEW a \in Nat,
         SettleFunding(r, a)
  PROVE  AccountOf(r)'
<1>1. /\ req[r].pc = "open" /\ ~ req[r].failed /\ ~ sess[r].settled
      /\ UNCHANGED <<record, refund, input>>
  BY DEF SettleFunding, env
<1>2. CASE /\ a - sess[r].pre = 0
           /\ sess' = [sess EXCEPT ![r] = [@ EXCEPT !.settled = TRUE, !.actual = a]]
           /\ UNCHANGED <<paid, req, faults>>
  <2>1. a = sess[r].pre
    BY <1>2, Numbers
  <2> QED
    BY <1>1, <1>2, <2>1, SettleSame
<1>3. CASE /\ \/ sess[r].funding = "wallet" /\ TakeWallet(r, a - sess[r].pre)
              \/ sess[r].funding = "subscription" /\ TakeSub(r, a - sess[r].pre)
           /\ sess' = [sess EXCEPT ![r] = [@ EXCEPT !.fSettled = TRUE, !.actual = a]]
           /\ Goto(r, "settleToken") /\ UNCHANGED faults
  BY <1>1, <1>3, SettleDelta
<1>4. CASE Fails(r, sess[r].funding) /\ UNCHANGED <<paid, req, sess>>
  <2>1. faults'[r] # {}
    BY <1>4, FailsRecorded
  <2> QED
    BY <1>1, <1>4, <2>1, SameAccount
<1> QED
  BY <1>2, <1>3, <1>4 DEF SettleFunding

\* The second half charges the token what the funding source was charged.
LEMMA SettleTokenAccount ==
  ASSUME BillingInv, NEW r \in Requests, AccountOf(r), SettleToken(r)
  PROVE  AccountOf(r)'
<1> DEFINE y == [sess[r] EXCEPT !.settled = TRUE]
<1>0. sess \in [Requests -> SessType] /\ sess[r] \in SessType
  BY Parts
<1>1. /\ y.funding = sess[r].funding /\ y.pre = sess[r].pre /\ y.tok = sess[r].tok
      /\ y.extra = sess[r].extra /\ y.subPre = sess[r].subPre
      /\ y.consumed = sess[r].consumed /\ y.fSettled = sess[r].fSettled
      /\ y.settled = TRUE /\ y.actual = sess[r].actual
  BY <1>0 DEF SessType
<1>2. sess'[r] = y
  BY <1>0 DEF SettleToken
<1> HIDE DEF y
<1>3. /\ req[r].pc = "settleToken" /\ Goto(r, "open") /\ UNCHANGED <<record, refund, input>>
  BY DEF SettleToken, env
<1>4. /\ InUse(req[r]) /\ ~ Reserving(req[r]) /\ Asked(req[r]) = 0
      /\ refund[r].pc = "none" /\ sess[r].fSettled /\ ~ sess[r].settled
  <2>1. InUse(req[r]) /\ ~ Reserving(req[r]) /\ Asked(req[r]) = 0
    BY <1>3, UsePhase
  <2>2. refund[r].pc = "none"
    BY <1>3, NotFailed DEF Ended
  <2>3. sess[r].fSettled
    BY <1>3, Books DEF UnderWay
  <2> QED
    BY <1>3, <2>1, <2>2, <2>3, InUseFacts
<1>5. req'[r].pc = "open" /\ req'[r].post = req[r].post
  BY <1>3, GotoFields DEF PCs
<1>6. /\ InUse(req'[r]) /\ ~ Reserving(req'[r]) /\ Asked(req'[r]) = 0 /\ ~ Choosing(req'[r])
      /\ ~ Opening(req'[r])
  BY <1>5, UsePhase
<1>7. Shape(req'[r], y, refund[r], input[r])
  BY <1>1, <1>4, <1>5, <1>6, Numbers, InUseFacts DEF Shape
<1>8. Early(req'[r], y, paid'[r], input[r], faults'[r])
  BY <1>6 DEF Early
<1>9. Marks => /\ paid[r].wallet >= 0 /\ paid[r].sub >= 0 /\ paid[r].token >= 0
               /\ sess[r].funding = "subscription" => record[r] = "consumed"
               /\ ~ input[r].playground => paid[r].token >= sess[r].pre
  BY <1>4, InUseFacts DEF Covered
<1>10. /\ Held(req[r], sess[r], refund[r]) = sess[r].actual
       /\ HeldToken(sess[r], refund[r]) = sess[r].pre
       /\ Held(req'[r], y, refund[r]) = sess[r].actual
       /\ HeldToken(y, refund[r]) = sess[r].actual
  BY <1>1, <1>4, InUseFacts DEF Held, HeldToken
<1>11. Marks /\ faults[r] = {} => Exact(req[r], sess[r], refund[r], paid[r], input[r])
  BY <1>4, InUseFacts
<1>12. CASE /\ ~ input[r].playground /\ TakeToken(r, sess[r].actual - sess[r].pre)
            /\ UNCHANGED faults
  <2>0. sess[r].actual - sess[r].pre \in Int
    BY Numbers
  <2>1. /\ paid'[r].token = paid[r].token + (sess[r].actual - sess[r].pre)
        /\ paid'[r].wallet = paid[r].wallet /\ paid'[r].sub = paid[r].sub
    BY <1>12, <2>0, TakePaid
  <2>2. Marks => Covered(req'[r], y, refund[r], record[r], paid'[r], input[r])
    BY <1>1, <1>4, <1>6, <1>9, <1>12, <2>1, Numbers DEF Covered
  <2>3. Marks /\ faults[r] = {} => Exact(req'[r], y, refund[r], paid'[r], input[r])
    BY <1>1, <1>3, <1>4, <1>5, <1>6, <1>10, <1>11, <1>12, <2>1, Numbers DEF Exact
  <2> QED
    BY <1>2, <1>3, <1>7, <1>8, <1>12, <2>2, <2>3 DEF AccountOf, Account
<1>13. CASE UNCHANGED paid /\ (Fails(r, "token") \/ (UNCHANGED faults /\ input[r].playground))
  <2>1. Marks => Covered(req'[r], y, refund[r], record[r], paid[r], input[r])
    BY <1>1, <1>4, <1>6, <1>9 DEF Covered
  <2>2. Marks /\ faults'[r] = {} => Exact(req'[r], y, refund[r], paid[r], input[r])
    <3>1. faults'[r] = {} => faults[r] = {} /\ input[r].playground
      BY <1>13, FailsRecorded
    <3> QED
      BY <1>1, <1>3, <1>4, <1>5, <1>6, <1>10, <1>11, <3>1, Numbers DEF Exact
  <2> QED
    BY <1>2, <1>3, <1>7, <1>8, <1>13, <2>1, <2>2 DEF AccountOf, Account
<1> QED
  BY <1>12, <1>13 DEF SettleToken

-----------------------------------------------------------------------------
(* Refund.                                                                  *)

\* Deciding on a refund moves no quota.
LEMMA RefundAccount ==
  ASSUME BillingInv, NEW r \in Requests, AccountOf(r), Refund(r)
  PROVE  AccountOf(r)'
<1> DEFINE x == [req[r] EXCEPT !.failed = TRUE]
           y == [sess[r] EXCEPT !.refunded = TRUE]
           z == [refund[r] EXCEPT !.pc = "funding"]
<1>0. /\ req \in [Requests -> ReqType] /\ req[r] \in ReqType
      /\ sess \in [Requests -> SessType] /\ sess[r] \in SessType
      /\ refund \in [Requests -> RefundType] /\ refund[r] \in RefundType
  BY Parts
<1>1. /\ req[r].pc = "open" /\ req' = [req EXCEPT ![r] = x]
      /\ UNCHANGED <<record, paid, input, faults>>
      /\ \/ /\ needsRefund(r)
            /\ sess' = [sess EXCEPT ![r] = y] /\ refund' = [refund EXCEPT ![r] = z]
         \/ UNCHANGED <<sess, refund>>
  BY DEF Refund, env
<1>2. x.pc = req[r].pc /\ x.amt = req[r].amt /\ x.post = req[r].post /\ x.op = req[r].op
  BY <1>0 DEF ReqType
<1>3. /\ y.funding = sess[r].funding /\ y.pre = sess[r].pre /\ y.tok = sess[r].tok
      /\ y.extra = sess[r].extra /\ y.subPre = sess[r].subPre
      /\ y.consumed = sess[r].consumed /\ y.fSettled = sess[r].fSettled
      /\ y.settled = sess[r].settled /\ y.actual = sess[r].actual
  BY <1>0 DEF SessType
<1>4. z.pc = "funding"
  BY <1>0 DEF RefundType
<1> HIDE DEF x, y, z
<1>5. req'[r] = x
  BY <1>0, <1>1
<1>6. /\ sess'[r].funding = sess[r].funding /\ sess'[r].pre = sess[r].pre
      /\ sess'[r].tok = sess[r].tok
      /\ sess'[r].extra = sess[r].extra /\ sess'[r].subPre = sess[r].subPre
      /\ sess'[r].consumed = sess[r].consumed /\ sess'[r].fSettled = sess[r].fSettled
      /\ sess'[r].settled = sess[r].settled /\ sess'[r].actual = sess[r].actual
  BY <1>0, <1>1, <1>3
<1>7. refund'[r].pc = refund[r].pc \/ (refund[r].pc = "none" /\ refund'[r].pc = "funding")
  <2>1. needsRefund(r) => refund[r].pc = "none"
    BY Books DEF needsRefund, UnderWay
  <2> QED
    BY <1>0, <1>1, <1>4, <2>1
<1>8. /\ InUse(req[r]) /\ ~ Reserving(req[r]) /\ Asked(req[r]) = 0
      /\ InUse(x) /\ ~ Reserving(x) /\ Asked(x) = 0 /\ ~ Choosing(x) /\ ~ Opening(x)
  BY <1>1, <1>2, UsePhase
<1>9. Shape(x, sess'[r], refund'[r], input[r])
  BY <1>2, <1>6, <1>7, <1>8 DEF AccountOf, Account, Shape
<1>10. Early(x, sess'[r], paid[r], input[r], faults[r])
  BY <1>8 DEF Early
<1>11. Marks => Covered(x, sess'[r], refund'[r], record[r], paid[r], input[r])
  <2>1. Marks => Covered(req[r], sess[r], refund[r], record[r], paid[r], input[r])
    BY DEF AccountOf, Account
  <2> QED
    BY <1>6, <1>7, <1>8, <2>1 DEF Covered
<1>12. Marks /\ faults[r] = {} => Exact(x, sess'[r], refund'[r], paid[r], input[r])
  <2>1. /\ Held(x, sess'[r], refund'[r]) = Held(req[r], sess[r], refund[r])
        /\ HeldToken(sess'[r], refund'[r]) = HeldToken(sess[r], refund[r])
    BY <1>6, <1>7, <1>8 DEF Held, HeldToken
  <2> QED
    BY <1>2, <1>6, <1>8, <2>1 DEF AccountOf, Account, Exact
<1> QED
  BY <1>1, <1>5, <1>9, <1>10, <1>11, <1>12 DEF AccountOf, Account

\* While the goroutine runs the session is in use, and not settled.
LEMMA RefundPhase ==
  ASSUME BillingInv, NEW r \in Requests, refund[r].pc # "none"
  PROVE  /\ InUse(req[r]) /\ ~ Reserving(req[r]) /\ Asked(req[r]) = 0
         /\ ~ Choosing(req[r]) /\ ~ Opening(req[r])
         /\ ~ sess[r].settled /\ ~ sess[r].fSettled
<1>1. ~ sess[r].settled /\ ~ sess[r].fSettled /\ req[r].pc \in Ended
  BY Books DEF UnderWay
<1> QED
  BY <1>1, UsePhase DEF Ended

\* A step of the goroutine keeps the account if it keeps the amounts.
LEMMA GoroutineAccount ==
  ASSUME BillingInv, NEW r \in Requests, AccountOf(r), refund[r].pc # "none",
         UNCHANGED <<req, sess, input>>,
         refund'[r].pc \in {"mark", "extra"} => sess[r].funding = "subscription",
         Marks => Covered(req[r], sess[r], refund'[r], record'[r], paid'[r], input[r]),
         Marks /\ faults'[r] = {} => Exact(req[r], sess[r], refund'[r], paid'[r], input[r])
  PROVE  AccountOf(r)'
<1>1. /\ InUse(req[r]) /\ ~ Choosing(req[r]) /\ ~ Opening(req[r])
  BY RefundPhase
<1>2. Shape(req[r], sess[r], refund'[r], input[r])
  BY <1>1 DEF AccountOf, Account, Shape
<1>3. Early(req[r], sess[r], paid'[r], input[r], faults'[r])
  BY <1>1 DEF Early
<1> QED
  BY <1>2, <1>3 DEF AccountOf, Account

\* Where the goroutine goes next.
LEMMA RefundGotoFields ==
  ASSUME BillingInv, NEW r \in Requests,
         NEW pc \in {"mark", "extra", "token", "done"}, RefundGoto(r, pc)
  PROVE  refund'[r].pc = pc
<1>1. refund \in [Requests -> RefundType] /\ refund[r] \in RefundType
  BY Parts
<1> QED
  BY <1>1 DEF RefundGoto, RefundType

\* WalletFunding.Refund gives back what the session consumed.
LEMMA RefundWalletAccount ==
  ASSUME BillingInv, NEW r \in Requests, AccountOf(r), RefundWallet(r)
  PROVE  AccountOf(r)'
<1>1. /\ refund[r].pc = "funding" /\ sess[r].funding = "wallet" /\ RefundGoto(r, "token")
      /\ UNCHANGED <<req, sess, input, record>>
  BY DEF RefundWallet, env
<1>2. refund'[r].pc = "token"
  BY <1>1, RefundGotoFields
<1>3. /\ InUse(req[r]) /\ ~ Reserving(req[r]) /\ Asked(req[r]) = 0
      /\ ~ sess[r].settled /\ ~ sess[r].fSettled
  BY <1>1, RefundPhase
<1>4. Marks => /\ paid[r].wallet >= sess[r].consumed /\ paid[r].sub >= 0 /\ paid[r].token >= 0
               /\ paid[r].wallet >= 0
               /\ ~ input[r].playground => paid[r].token >= sess[r].tok
  BY <1>1, <1>3, InUseFacts DEF Covered
<1>5. CASE TakeWallet(r, - sess[r].consumed) /\ UNCHANGED faults
  <2>1. /\ paid'[r].wallet = paid[r].wallet - sess[r].consumed
        /\ paid'[r].token = paid[r].token /\ paid'[r].sub = paid[r].sub
    <3>1. - sess[r].consumed \in Int
      BY Numbers
    <3> QED
      BY <1>5, <3>1, TakePaid, Numbers
  <2>2. Marks => Covered(req[r], sess[r], refund'[r], record'[r], paid'[r], input[r])
    BY <1>1, <1>2, <1>4, <2>1, Numbers DEF Covered
  <2>3. Marks /\ faults[r] = {} => Exact(req[r], sess[r], refund'[r], paid'[r], input[r])
    <3>1. /\ Held(req[r], sess[r], refund[r]) = sess[r].pre
          /\ HeldToken(sess[r], refund[r]) = sess[r].tok
          /\ Held(req[r], sess[r], refund'[r]) = 0
          /\ HeldToken(sess[r], refund'[r]) = sess[r].tok
      BY <1>1, <1>2, <1>3, Numbers DEF Held, HeldToken
    <3>2. Marks /\ faults[r] = {} => Exact(req[r], sess[r], refund[r], paid[r], input[r])
      BY <1>3, InUseFacts
    <3> QED
      BY <1>1, <1>3, <2>1, <3>1, <3>2, Numbers DEF Exact
  <2> QED
    BY <1>1, <1>2, <1>5, <2>2, <2>3, GoroutineAccount
<1>6. CASE Fails(r, "wallet") /\ UNCHANGED paid
  <2>1. faults'[r] # {}
    BY <1>6, FailsRecorded
  <2>2. Marks => Covered(req[r], sess[r], refund'[r], record'[r], paid'[r], input[r])
    BY <1>1, <1>2, <1>4, <1>6 DEF Covered
  <2> QED
    BY <1>1, <1>2, <2>1, <2>2, GoroutineAccount
<1> QED
  BY <1>5, <1>6 DEF RefundWallet

\* A failed attempt moves nothing; the goroutine tries again or goes on.
LEMMA AttemptAccount ==
  ASSUME BillingInv, NEW r \in Requests, AccountOf(r), refund[r].pc \in {"funding", "mark"},
         refund[r].pc = "mark" => ~ Marks, sess[r].funding = "subscription",
         NEW f, Fails(r, f), RefundAttemptFailed(r), UNCHANGED <<req, sess, input, record, paid>>
  PROVE  AccountOf(r)'
<1>1. faults'[r] # {}
  BY FailsRecorded
<1>2. refund'[r].pc \in {"funding", "extra"}
  <2>1. refund \in [Requests -> RefundType]
    BY Parts
  <2> QED
    BY <2>1 DEF RefundAttemptFailed
<1>3. /\ InUse(req[r]) /\ ~ Reserving(req[r]) /\ Asked(req[r]) = 0
      /\ ~ sess[r].settled /\ ~ sess[r].fSettled
  BY RefundPhase
<1>4. Marks => Covered(req[r], sess[r], refund'[r], record'[r], paid'[r], input[r])
  <2>1. sess[r].pre >= sess[r].extra
    BY <1>3, InUseFacts, Numbers
  <2> QED
    BY <1>2, <1>3, <2>1, InUseFacts, Numbers DEF Covered
<1> QED
  BY <1>1, <1>2, <1>4, GoroutineAccount

\* RefundSubscriptionPreConsume gives back what was pre-consumed, and once.
LEMMA RefundSubscriptionAccount ==
  ASSUME BillingInv, NEW r \in Requests, AccountOf(r), Backed(r), RefundSubscription(r)
  PROVE  AccountOf(r)'
<1>1. /\ refund[r].pc = "funding" /\ sess[r].funding = "subscription"
      /\ UNCHANGED <<req, sess, input, record>>
  BY DEF RefundSubscription, env
<1>2. /\ InUse(req[r]) /\ ~ Reserving(req[r]) /\ Asked(req[r]) = 0
      /\ ~ sess[r].settled /\ ~ sess[r].fSettled
  BY <1>1, RefundPhase
<1>3. Marks => /\ paid[r].wallet >= 0 /\ paid[r].token >= 0 /\ paid[r].sub >= 0
               /\ paid[r].sub >= sess[r].subPre + sess[r].extra /\ record[r] = "consumed"
               /\ ~ input[r].playground => paid[r].token >= sess[r].tok
  BY <1>1, <1>2, InUseFacts, Numbers DEF Covered
<1>4. CASE record[r] = "refunded" /\ RefundGoto(r, "extra")
  <2>1. refund'[r].pc = "extra" /\ ~ Marks
    BY <1>3, <1>4, RefundGotoFields
  <2> QED
    BY <1>1, <2>1, GoroutineAccount
<1>5. CASE TakeSub(r, - sess[r].subPre) /\ RefundGoto(r, "mark") /\ UNCHANGED faults
  <2>1. refund'[r].pc = "mark"
    BY <1>5, RefundGotoFields
  <2>2. /\ paid'[r].wallet = paid[r].wallet /\ paid'[r].token = paid[r].token
        /\ Marks => paid'[r].sub = paid[r].sub - sess[r].subPre
    <3>1. Marks => amountUsed + (- sess[r].subPre) >= 0
      BY <1>3, Numbers DEF Backed
    <3>2. - sess[r].subPre \in Int
      BY Numbers
    <3> QED
      BY <1>5, <3>1, <3>2, TakeSubPaid, Numbers
  <2>3. Marks => Covered(req[r], sess[r], refund'[r], record'[r], paid'[r], input[r])
    BY <1>1, <1>3, <2>1, <2>2, Numbers DEF Covered
  <2>4. Marks /\ faults[r] = {} => Exact(req[r], sess[r], refund'[r], paid'[r], input[r])
    <3>1. /\ Held(req[r], sess[r], refund[r]) = sess[r].pre
          /\ HeldToken(sess[r], refund[r]) = sess[r].tok
          /\ Held(req[r], sess[r], refund'[r]) = sess[r].extra
          /\ HeldToken(sess[r], refund'[r]) = sess[r].tok
      BY <1>1, <1>2, <2>1, Numbers DEF Held, HeldToken
    <3>2. Marks /\ faults[r] = {} => Exact(req[r], sess[r], refund[r], paid[r], input[r])
      BY <1>2, InUseFacts
    <3>3. sess[r].subPre + sess[r].extra = sess[r].pre
      BY <1>1, <1>2, InUseFacts
    <3> QED
      BY <1>1, <1>2, <2>2, <3>1, <3>2, <3>3, Numbers DEF Exact
  <2> QED
    BY <1>1, <1>5, <2>1, <2>3, <2>4, GoroutineAccount
<1>6. CASE Fails(r, "subscription") /\ RefundAttemptFailed(r) /\ UNCHANGED paid
  BY <1>1, <1>6, AttemptAccount
<1> QED
  BY <1>4, <1>5, <1>6 DEF RefundSubscription

\* Marking the record moves no quota; only an instance in which that write may
\* fail after the inner transaction has committed refunds twice.
LEMMA RefundMarkAccount ==
  ASSUME BillingInv, NEW r \in Requests, AccountOf(r), RefundMark(r)
  PROVE  AccountOf(r)'
<1>1. refund[r].pc = "mark" /\ UNCHANGED <<req, sess, input, paid>>
  BY DEF RefundMark, env
<1>2. sess[r].funding = "subscription"
  BY <1>1 DEF AccountOf, Account, Shape
<1>3. /\ InUse(req[r]) /\ ~ Reserving(req[r]) /\ Asked(req[r]) = 0
      /\ ~ sess[r].settled /\ ~ sess[r].fSettled
  BY <1>1, RefundPhase
<1>4. CASE RefundGoto(r, "extra") /\ UNCHANGED faults
  <2>1. refund'[r].pc = "extra"
    BY <1>4, RefundGotoFields
  <2>2. Marks => Covered(req[r], sess[r], refund'[r], record'[r], paid'[r], input[r])
    BY <1>1, <1>3, <2>1, InUseFacts DEF Covered
  <2>3. Marks /\ faults[r] = {} => Exact(req[r], sess[r], refund'[r], paid'[r], input[r])
    <3>1. /\ Held(req[r], sess[r], refund'[r]) = Held(req[r], sess[r], refund[r])
          /\ HeldToken(sess[r], refund'[r]) = HeldToken(sess[r], refund[r])
      BY <1>1, <2>1 DEF Held, HeldToken
    <3> QED
      BY <1>1, <1>3, <3>1, InUseFacts DEF Exact
  <2> QED
    BY <1>1, <1>2, <1>4, <2>2, <2>3, GoroutineAccount
<1>5. CASE Fails(r, "refundMark") /\ RefundAttemptFailed(r) /\ UNCHANGED record
  <2>1. ~ Marks
    BY <1>5 DEF Fails, Marks
  <2> QED
    BY <1>1, <1>2, <1>5, <2>1, AttemptAccount
<1> QED
  BY <1>4, <1>5 DEF RefundMark

\* What Reserve added is given back next.
LEMMA RefundExtraAccount ==
  ASSUME BillingInv, NEW r \in Requests, AccountOf(r), Backed(r), RefundExtra(r)
  PROVE  AccountOf(r)'
<1>1. /\ refund[r].pc = "extra" /\ RefundGoto(r, "token")
      /\ UNCHANGED <<req, sess, input, record>>
  BY DEF RefundExtra, env
<1>2. sess[r].funding = "subscription" /\ refund'[r].pc = "token"
  BY <1>1, RefundGotoFields DEF AccountOf, Account, Shape
<1>3. /\ InUse(req[r]) /\ ~ Reserving(req[r]) /\ Asked(req[r]) = 0
      /\ ~ sess[r].settled /\ ~ sess[r].fSettled
  BY <1>1, RefundPhase
<1>4. Marks => /\ paid[r].wallet >= 0 /\ paid[r].token >= 0 /\ paid[r].sub >= 0
               /\ paid[r].sub >= sess[r].extra
               /\ ~ input[r].playground => paid[r].token >= sess[r].tok
  BY <1>1, <1>3, InUseFacts DEF Covered
<1>5. CASE TakeSub(r, - sess[r].extra) /\ UNCHANGED faults
  <2>1. /\ paid'[r].wallet = paid[r].wallet /\ paid'[r].token = paid[r].token
        /\ Marks => paid'[r].sub = paid[r].sub - sess[r].extra
    <3>1. Marks => amountUsed + (- sess[r].extra) >= 0
      BY <1>4, Numbers DEF Backed
    <3>2. - sess[r].extra \in Int
      BY Numbers
    <3> QED
      BY <1>5, <3>1, <3>2, TakeSubPaid, Numbers
  <2>2. Marks => Covered(req[r], sess[r], refund'[r], record'[r], paid'[r], input[r])
    BY <1>1, <1>2, <1>4, <2>1, Numbers DEF Covered
  <2>3. Marks /\ faults[r] = {} => Exact(req[r], sess[r], refund'[r], paid'[r], input[r])
    <3>1. /\ Held(req[r], sess[r], refund[r]) = sess[r].extra
          /\ HeldToken(sess[r], refund[r]) = sess[r].tok
          /\ Held(req[r], sess[r], refund'[r]) = 0
          /\ HeldToken(sess[r], refund'[r]) = sess[r].tok
      BY <1>1, <1>2, <1>3, Numbers DEF Held, HeldToken
    <3>2. Marks /\ faults[r] = {} => Exact(req[r], sess[r], refund[r], paid[r], input[r])
      BY <1>3, InUseFacts
    <3> QED
      BY <1>2, <1>3, <2>1, <3>1, <3>2, Numbers DEF Exact
  <2> QED
    BY <1>1, <1>2, <1>5, <2>2, <2>3, GoroutineAccount
<1>6. CASE Fails(r, "subscription") /\ UNCHANGED paid
  <2>1. faults'[r] # {}
    BY <1>6, FailsRecorded
  <2>2. Marks => Covered(req[r], sess[r], refund'[r], record'[r], paid'[r], input[r])
    BY <1>1, <1>2, <1>4, <1>6 DEF Covered
  <2> QED
    BY <1>1, <1>2, <2>1, <2>2, GoroutineAccount
<1> QED
  BY <1>5, <1>6 DEF RefundExtra

\* And the token last.
LEMMA RefundTokenAccount ==
  ASSUME BillingInv, NEW r \in Requests, AccountOf(r), RefundToken(r)
  PROVE  AccountOf(r)'
<1> DEFINE n == IF input[r].playground THEN 0 ELSE - sess[r].tok
<1>1. /\ refund[r].pc = "token" /\ RefundGoto(r, "done")
      /\ UNCHANGED <<req, sess, input, record>>
  BY DEF RefundToken, env
<1>2. refund'[r].pc = "done"
  BY <1>1, RefundGotoFields
<1>3. /\ InUse(req[r]) /\ ~ Reserving(req[r]) /\ Asked(req[r]) = 0
      /\ ~ sess[r].settled /\ ~ sess[r].fSettled
  BY <1>1, RefundPhase
<1>4. Marks => /\ paid[r].wallet >= 0 /\ paid[r].token >= 0 /\ paid[r].sub >= 0
               /\ ~ input[r].playground => paid[r].token >= sess[r].tok
  BY <1>1, <1>3, InUseFacts DEF Covered
<1>5. CASE TakeToken(r, n) /\ UNCHANGED faults
  <2>1. n \in Int
    BY Numbers
  <2>2. /\ paid'[r].token = paid[r].token + n
        /\ paid'[r].wallet = paid[r].wallet /\ paid'[r].sub = paid[r].sub
    <3> HIDE DEF n
    <3> QED
      BY <1>5, <2>1, TakePaid
  <2>3. Marks => Covered(req[r], sess[r], refund'[r], record'[r], paid'[r], input[r])
    BY <1>1, <1>2, <1>4, <2>2, Numbers DEF Covered
  <2>4. Marks /\ faults[r] = {} => Exact(req[r], sess[r], refund'[r], paid'[r], input[r])
    <3>1. /\ Held(req[r], sess[r], refund[r]) = 0
          /\ HeldToken(sess[r], refund[r]) = sess[r].tok
          /\ Held(req[r], sess[r], refund'[r]) = 0
          /\ HeldToken(sess[r], refund'[r]) = 0
      BY <1>1, <1>2, <1>3, Numbers DEF Held, HeldToken
    <3>2. Marks /\ faults[r] = {} => Exact(req[r], sess[r], refund[r], paid[r], input[r])
      BY <1>3, InUseFacts
    <3> QED
      BY <1>3, <2>2, <3>1, <3>2, Numbers DEF Exact
  <2> QED
    BY <1>1, <1>2, <1>5, <2>3, <2>4, GoroutineAccount
<1>6. CASE Fails(r, "token") /\ UNCHANGED paid
  <2>1. faults'[r] # {}
    BY <1>6, FailsRecorded
  <2>2. Marks => Covered(req[r], sess[r], refund'[r], record'[r], paid'[r], input[r])
    BY <1>1, <1>2, <1>4, <1>6 DEF Covered
  <2> QED
    BY <1>1, <1>2, <2>1, <2>2, GoroutineAccount
<1> QED
  BY <1>5, <1>6 DEF RefundToken

-----------------------------------------------------------------------------
(* Charges beside the session.                                              *)

\* What PostConsumeQuota still has to take from the token.
Owed(x) == IF x.pc = "postToken" THEN x.amt ELSE 0

\* Charges beside the session only add to what was paid, and, unless a
\* statement failed, exactly what they add to the request's post.
LEMMA BesideAccount ==
  ASSUME BillingInv, NEW r \in Requests, AccountOf(r),
         req[r].pc \in Ended, req'[r].pc \in Ended, req'[r].post \in Nat, req'[r].amt \in Nat,
         UNCHANGED <<sess, refund, record, input>>,
         NEW w \in Nat, NEW u \in Nat, NEW t \in Nat,
         paid'[r].wallet = paid[r].wallet + w, paid'[r].sub = paid[r].sub + u,
         paid'[r].token = paid[r].token + t,
         faults'[r] = {} =>
           /\ faults[r] = {}
           /\ w = IF sess[r].funding = "wallet" THEN req'[r].post - req[r].post ELSE 0
           /\ u = IF sess[r].funding = "subscription" THEN req'[r].post - req[r].post ELSE 0
           /\ t = IF input[r].playground THEN 0
                  ELSE (req'[r].post - Owed(req'[r])) - (req[r].post - Owed(req[r]))
  PROVE  AccountOf(r)'
<1>1. /\ InUse(req[r]) /\ ~ Reserving(req[r]) /\ Asked(req[r]) = 0
      /\ ~ Choosing(req[r]) /\ ~ Opening(req[r])
  BY UsePhase DEF Ended
<1>2. /\ InUse(req'[r]) /\ ~ Reserving(req'[r]) /\ Asked(req'[r]) = 0
      /\ ~ Choosing(req'[r]) /\ ~ Opening(req'[r]) /\ req'[r].pc # "settleToken"
  BY UsePhase DEF Ended
<1>3. Shape(req'[r], sess[r], refund[r], input[r])
  BY <1>1, <1>2 DEF AccountOf, Account, Shape, Ended
<1>4. Early(req'[r], sess[r], paid'[r], input[r], faults'[r])
  BY <1>2 DEF Early
<1>5. Marks => Covered(req'[r], sess[r], refund[r], record[r], paid'[r], input[r])
  <2>1. Marks => Covered(req[r], sess[r], refund[r], record[r], paid[r], input[r])
    BY DEF AccountOf, Account
  <2> QED
    BY <1>1, <1>2, <2>1, Numbers DEF Covered
<1>6. Marks /\ faults'[r] = {} => Exact(req'[r], sess[r], refund[r], paid'[r], input[r])
  <2>1. Held(req'[r], sess[r], refund[r]) = Held(req[r], sess[r], refund[r])
    BY <1>1, <1>2 DEF Held
  <2>2. /\ Held(req[r], sess[r], refund[r]) \in Nat /\ HeldToken(sess[r], refund[r]) \in Nat
    BY <1>1, Numbers DEF Held, HeldToken
  <2>3. Owed(req[r]) \in Nat /\ Owed(req'[r]) \in Nat
    BY Numbers DEF Owed
  <2>4. Marks /\ faults'[r] = {} => Exact(req[r], sess[r], refund[r], paid[r], input[r])
    BY DEF AccountOf, Account
  <2>5. ASSUME NEW x PROVE (IF x.pc = "postToken" THEN x.amt ELSE 0) = Owed(x)
    BY DEF Owed
  <2>6. Marks /\ faults'[r] = {} =>
          /\ paid[r].wallet = IF sess[r].funding = "wallet"
                              THEN Held(req[r], sess[r], refund[r]) + req[r].post ELSE 0
          /\ paid[r].sub = IF sess[r].funding = "subscription"
                           THEN Held(req[r], sess[r], refund[r]) + req[r].post ELSE 0
          /\ paid[r].token = IF input[r].playground THEN 0
                             ELSE HeldToken(sess[r], refund[r]) + req[r].post - Owed(req[r])
          /\ sess[r].funding = "wallet" => sess[r].consumed = sess[r].pre + 0
    BY <1>1, <2>4, <2>5 DEF Exact
  <2>7. Marks /\ faults'[r] = {} =>
          /\ paid'[r].wallet = IF sess[r].funding = "wallet"
                               THEN Held(req[r], sess[r], refund[r]) + req'[r].post ELSE 0
          /\ paid'[r].sub = IF sess[r].funding = "subscription"
                            THEN Held(req[r], sess[r], refund[r]) + req'[r].post ELSE 0
          /\ paid'[r].token = IF input[r].playground THEN 0
                              ELSE HeldToken(sess[r], refund[r]) + req'[r].post - Owed(req'[r])
    BY <2>2, <2>3, <2>6, Numbers
  <2> QED
    BY <1>2, <2>1, <2>5, <2>6, <2>7 DEF Exact
<1> QED
  BY <1>3, <1>4, <1>5, <1>6 DEF AccountOf, Account

\* Deciding to charge beside the session moves no quota.
LEMMA BesideStart ==
  ASSUME BillingInv, NEW r \in Requests, AccountOf(r), NEW n \in Nat,
         \/ \E violation \in BOOLEAN : ChargeViolationFee(r, violation)
         \/ PreWssConsumeQuota(r, n)
  PROVE  AccountOf(r)'
<1>0. /\ req \in [Requests -> ReqType] /\ req[r] \in ReqType /\ FeeQuota \in Nat
      /\ req[r].total \in Nat
  BY Parts, Amounts, BillingAssumption DEF BillingAssumption
<1>1. /\ req[r].pc = "open" /\ UNCHANGED <<sess, refund, record, paid, input>>
      /\ UNCHANGED faults \/ Fails(r, "read")
  BY DEF ChargeViolationFee, PreWssConsumeQuota, env
<1>2. /\ req'[r].pc \in {"open", "post", "closed"} /\ req'[r].amt \in Nat
      /\ req'[r].post = req[r].post
  <2>1. CASE \E violation \in BOOLEAN : ChargeViolationFee(r, violation)
    <3>1. PICK pc \in {"post", "closed"} :
            req' = [req EXCEPT ![r] = [@ EXCEPT !.pc = pc, !.op = "fee", !.amt = FeeQuota]]
      BY <2>1 DEF ChargeViolationFee
    <3> QED
      BY <1>0, <3>1, ChargeFields DEF PCs
  <2>2. CASE PreWssConsumeQuota(r, n)
    <3> DEFINE x(pc) == [req[r] EXCEPT !.total = req[r].total + n, !.op = "wss", !.amt = n,
                                       !.pc = pc]
    <3>1. ASSUME NEW pc \in {"post", "open"}
          PROVE  x(pc).pc = pc /\ x(pc).amt = n /\ x(pc).post = req[r].post
      BY <1>0 DEF ReqType
    <3>2. PICK pc \in {"post", "open"} : req' = [req EXCEPT ![r] = x(pc)]
      BY <2>2 DEF PreWssConsumeQuota
    <3> HIDE DEF x
    <3>3. req'[r] = x(pc)
      BY <1>0, <3>2
    <3> QED
      BY <3>1, <3>2, <3>3
  <2> QED
    BY <2>1, <2>2
<1>3. Owed(req[r]) = 0 /\ Owed(req'[r]) = 0
  BY <1>1, <1>2 DEF Owed
<1>4. /\ paid'[r].wallet = paid[r].wallet + 0 /\ paid'[r].sub = paid[r].sub + 0
      /\ paid'[r].token = paid[r].token + 0
  BY <1>1, Numbers
<1>5. /\ req[r].post - req[r].post = 0
      /\ (req[r].post - 0) - (req[r].post - 0) = 0
  BY Numbers
<1>6. req[r].pc \in Ended /\ req'[r].pc \in Ended /\ req'[r].post \in Nat /\ 0 \in Nat
  BY <1>1, <1>2, Numbers DEF Ended
<1>7. faults'[r] = faults[r] \/ faults'[r] # {}
  BY <1>1, FailsRecorded
<1> QED
  BY <1>1, <1>2, <1>3, <1>4, <1>5, <1>6, <1>7, BesideAccount

\* Charging the funding source.
LEMMA PostFundingAccount ==
  ASSUME BillingInv, NEW r \in Requests, AccountOf(r), PostConsumeFunding(r)
  PROVE  AccountOf(r)'
<1> DEFINE n == req[r].amt
           x == [req[r] EXCEPT !.pc = "postToken", !.post = req[r].post + n]
<1>0. /\ req \in [Requests -> ReqType] /\ req[r] \in ReqType
  BY Parts
<1>1. req[r].pc = "post" /\ UNCHANGED <<sess, refund, record, input>>
  BY DEF PostConsumeFunding, env
<1>2. req[r].pc \in Ended /\ Owed(req[r]) = 0 /\ 0 \in Nat
  BY <1>1 DEF Ended, Owed
<1>3. CASE /\ \/ sess[r].funding = "wallet" /\ TakeWallet(r, n)
              \/ sess[r].funding = "subscription" /\ TakeSub(r, n)
           /\ req' = [req EXCEPT ![r] = x] /\ UNCHANGED faults
  <2>1. x.pc = "postToken" /\ x.amt = n /\ x.post = req[r].post + n
    BY <1>0 DEF ReqType
  <2> HIDE DEF x
  <2>2. req'[r] = x
    BY <1>0, <1>3
  <2>3. Owed(x) = n /\ x.pc \in Ended /\ x.post \in Nat /\ x.amt \in Nat
    BY <2>1, Numbers DEF Owed, Ended
  <2>4. x.post - req[r].post = n /\ (x.post - n) - (req[r].post - 0) = 0
    BY <2>1, Numbers
  <2>5. CASE sess[r].funding = "wallet" /\ TakeWallet(r, n)
    <3>1. /\ paid'[r].wallet = paid[r].wallet + n /\ paid'[r].sub = paid[r].sub + 0
          /\ paid'[r].token = paid[r].token + 0 /\ n \in Nat
      BY <2>5, TakePaid, Numbers
    <3> HIDE DEF n
    <3> QED
      BY <1>1, <1>2, <1>3, <2>2, <2>3, <2>4, <2>5, <3>1, BesideAccount
  <2>6. CASE sess[r].funding = "subscription" /\ TakeSub(r, n)
    <3>1. /\ paid'[r].sub = paid[r].sub + n /\ paid'[r].wallet = paid[r].wallet + 0
          /\ paid'[r].token = paid[r].token + 0 /\ n \in Nat
      <4>1. amountUsed + n >= 0 /\ n \in Int
        BY Numbers
      <4> QED
        BY <2>6, <4>1, TakeSubPaid, Numbers
    <3> HIDE DEF n
    <3> QED
      BY <1>1, <1>2, <1>3, <2>2, <2>3, <2>4, <2>6, <3>1, BesideAccount
  <2> QED
    BY <1>3, <2>5, <2>6
<1>4. CASE Goto(r, AfterPost(r)) /\ UNCHANGED paid /\ (UNCHANGED faults \/ \E f : Fails(r, f))
  <2>1. AfterPost(r) \in {"open", "closed"}
    BY DEF AfterPost
  <2>2. req'[r].pc \in {"open", "closed"} /\ req'[r].amt = n /\ req'[r].post = req[r].post
    BY <1>4, <2>1, GotoFields DEF PCs
  <2>3. /\ req'[r].pc \in Ended /\ Owed(req'[r]) = 0 /\ req'[r].post \in Nat
        /\ req'[r].amt \in Nat
    BY <2>2, Numbers DEF Ended, Owed
  <2>4. faults'[r] = {} => faults[r] = {}
    BY <1>4, FailsRecorded
  <2>5. /\ paid'[r].wallet = paid[r].wallet + 0 /\ paid'[r].sub = paid[r].sub + 0
        /\ paid'[r].token = paid[r].token + 0
    BY <1>4, Numbers
  <2>6. /\ req[r].post - req[r].post = 0
        /\ (req[r].post - 0) - (req[r].post - 0) = 0
    BY Numbers
  <2> QED
    BY <1>1, <1>2, <2>2, <2>3, <2>4, <2>5, <2>6, BesideAccount
<1> QED
  BY <1>3, <1>4 DEF PostConsumeFunding

\* Charging the token.
LEMMA PostTokenAccount ==
  ASSUME BillingInv, NEW r \in Requests, AccountOf(r), PostConsumeToken(r)
  PROVE  AccountOf(r)'
<1> DEFINE n == IF input[r].playground THEN 0 ELSE req[r].amt
<1>1. req[r].pc = "postToken" /\ Goto(r, AfterPost(r)) /\ UNCHANGED <<sess, refund, record, input>>
  BY DEF PostConsumeToken, env
<1>2. AfterPost(r) \in {"open", "closed"}
  BY DEF AfterPost
<1>3. req'[r].pc \in {"open", "closed"} /\ req'[r].amt = req[r].amt /\ req'[r].post = req[r].post
  BY <1>1, <1>2, GotoFields DEF PCs
<1>4. /\ req[r].pc \in Ended /\ Owed(req[r]) = req[r].amt
      /\ req'[r].pc \in Ended /\ Owed(req'[r]) = 0 /\ req'[r].post \in Nat
      /\ req'[r].amt \in Nat /\ 0 \in Nat
  BY <1>1, <1>3, Numbers DEF Ended, Owed
<1>5. /\ req[r].post - req[r].post = 0
      /\ (req[r].post - 0) - (req[r].post - req[r].amt) = req[r].amt
  BY Numbers
<1>6. CASE TakeToken(r, n) /\ UNCHANGED faults
  <2>1. n \in Nat
    BY Numbers
  <2>2. /\ paid'[r].wallet = paid[r].wallet + 0 /\ paid'[r].sub = paid[r].sub + 0
        /\ paid'[r].token = paid[r].token + n
    <3> HIDE DEF n
    <3> QED
      BY <1>6, <2>1, TakePaid, Numbers
  <2>3. n = IF input[r].playground THEN 0
            ELSE (req'[r].post - Owed(req'[r])) - (req[r].post - Owed(req[r]))
    BY <1>3, <1>4, <1>5
  <2>4. 0 = req'[r].post - req[r].post
    BY <1>3, <1>5
  <2> HIDE DEF n
  <2> QED
    BY <1>1, <1>4, <1>6, <2>1, <2>2, <2>3, <2>4, BesideAccount
<1>7. CASE Fails(r, "token") /\ UNCHANGED paid
  <2>1. faults'[r] # {}
    BY <1>7, FailsRecorded
  <2>2. /\ paid'[r].wallet = paid[r].wallet + 0 /\ paid'[r].sub = paid[r].sub + 0
        /\ paid'[r].token = paid[r].token + 0
    BY <1>7, Numbers
  <2> QED
    BY <1>1, <1>4, <2>1, <2>2, BesideAccount
<1> QED
  BY <1>6, <1>7 DEF PostConsumeToken

-----------------------------------------------------------------------------
(* amount_used is the sum of what the requests have taken from the          *)
(* subscription: the number of units they hold.                             *)

Units(p) == {u \in Requests \X Nat : u[2] < p[u[1]].sub}
Row(r, n) == {r} \X (0 .. n - 1)

Accounted == IsFiniteSet(Units(paid)) /\ Cardinality(Units(paid)) = amountUsed

\* A request holds as many units as it has paid.
LEMMA RowSize ==
  ASSUME NEW r, NEW n \in Nat
  PROVE  IsFiniteSet(Row(r, n)) /\ Cardinality(Row(r, n)) = n
<1>1. IsFiniteSet(0 .. n - 1) /\ Cardinality(0 .. n - 1) = n
  <2>1. 0 \in Int /\ n - 1 \in Int
    OBVIOUS
  <2>2. IsFiniteSet(0 .. n - 1) /\ Cardinality(0 .. n - 1) = IF 0 > n - 1 THEN 0 ELSE (n - 1) - 0 + 1
    BY <2>1, FS_Interval
  <2> QED
    BY <2>2
<1>2. IsFiniteSet({r}) /\ Cardinality({r}) = 1
  BY FS_Singleton
<1>3. IsFiniteSet(Row(r, n)) /\ Cardinality(Row(r, n)) = Cardinality({r}) * Cardinality(0 .. n - 1)
  BY <1>1, <1>2, FS_Product DEF Row
<1>4. Cardinality({r}) * Cardinality(0 .. n - 1) = n
  BY <1>1, <1>2
<1> QED
  BY <1>3, <1>4

\* The units of the others, and those of r.
LEMMA UnitsSplit ==
  ASSUME NEW p, NEW r \in Requests, p[r].sub \in Nat
  PROVE  LET O == {u \in Requests \X Nat : u[1] # r /\ u[2] < p[u[1]].sub}
         IN  /\ Units(p) = O \cup Row(r, p[r].sub)
             /\ O \cap Row(r, p[r].sub) = {}
             /\ O = Units(p) \ Row(r, p[r].sub)
<1> DEFINE O == {u \in Requests \X Nat : u[1] # r /\ u[2] < p[u[1]].sub}
           R == Row(r, p[r].sub)
<1>1. ASSUME NEW u \in Requests \X Nat
      PROVE  u \in R <=> u[1] = r /\ u[2] < p[r].sub
  <2>1. u[2] \in 0 .. p[r].sub - 1 <=> u[2] < p[r].sub
    OBVIOUS
  <2>2. u = <<u[1], u[2]>>
    OBVIOUS
  <2>3. u \in R <=> u[1] \in {r} /\ u[2] \in 0 .. p[r].sub - 1
    BY <2>2 DEF Row
  <2> QED
    BY <2>1, <2>3
<1>2. R \subseteq Requests \X Nat
  BY DEF Row
<1> HIDE DEF R
<1>3. Units(p) = O \cup R
  BY <1>1, <1>2 DEF Units
<1>4. O \cap R = {}
  BY <1>1
<1> QED
  BY <1>3, <1>4 DEF R

\* When only r's share moves, the number of units moves by as much.
LEMMA UnitsMove ==
  ASSUME NEW p, NEW q, NEW r \in Requests, p[r].sub \in Nat, q[r].sub \in Nat,
         \A k \in Requests : k # r => q[k].sub = p[k].sub,
         IsFiniteSet(Units(p))
  PROVE  /\ IsFiniteSet(Units(q))
         /\ Cardinality(Units(q)) = Cardinality(Units(p)) + (q[r].sub - p[r].sub)
         /\ p[r].sub <= Cardinality(Units(p))
<1> DEFINE O == {u \in Requests \X Nat : u[1] # r /\ u[2] < p[u[1]].sub}
           Q == {u \in Requests \X Nat : u[1] # r /\ u[2] < q[u[1]].sub}
<1>1. O = Q
  OBVIOUS
<1>2. /\ Units(p) = O \cup Row(r, p[r].sub) /\ O \cap Row(r, p[r].sub) = {}
      /\ O = Units(p) \ Row(r, p[r].sub)
  BY UnitsSplit
<1>3. Units(q) = Q \cup Row(r, q[r].sub) /\ Q \cap Row(r, q[r].sub) = {}
  BY UnitsSplit
<1> HIDE DEF O, Q
<1>4. IsFiniteSet(O)
  BY <1>2, FS_Difference
<1>5. /\ IsFiniteSet(Row(r, p[r].sub)) /\ Cardinality(Row(r, p[r].sub)) = p[r].sub
      /\ IsFiniteSet(Row(r, q[r].sub)) /\ Cardinality(Row(r, q[r].sub)) = q[r].sub
  BY RowSize
<1>6. Cardinality(O) \in Nat
  BY <1>4, FS_CardinalityType
<1>7. Cardinality({}) = 0
  BY FS_EmptySet
<1>8. Cardinality(Units(p)) = Cardinality(O) + p[r].sub - 0
  BY <1>2, <1>4, <1>5, <1>7, FS_Union
<1>9. IsFiniteSet(Units(q)) /\ Cardinality(Units(q)) = Cardinality(O) + q[r].sub - 0
  BY <1>1, <1>3, <1>4, <1>5, <1>7, FS_Union
<1> QED
  BY <1>6, <1>8, <1>9

-----------------------------------------------------------------------------
(* A step of request r is about r alone.                                    *)

\* The rows and the books of the other requests stay as they are.
Alone(r) ==
  \A q \in Requests : q # r =>
    /\ req'[q] = req[q] /\ sess'[q] = sess[q] /\ refund'[q] = refund[q]
    /\ record'[q] = record[q] /\ paid'[q] = paid[q] /\ input'[q] = input[q]
    /\ faults'[q] = faults[q]

\* What r takes from the subscription is what amount_used moves by.
Moves(r) == paid'[r].sub - paid[r].sub = amountUsed' - amountUsed

\* A step that runs at most one statement on the quota columns.
OneStatement(r) ==
  \/ UNCHANGED <<db, paid>>
  \/ \E d \in Int : TakeWallet(r, d) \/ TakeToken(r, d) \/ TakeSub(r, d)
  \/ /\ amountUsed' = amountUsed + req[r].amt
     /\ paid' = [paid EXCEPT ![r].sub = @ + req[r].amt]

\* The rows of the history that a step of r may write.
OwnHistory(r) ==
  /\ UNCHANGED faults \/ \E f : Fails(r, f)
  /\ UNCHANGED record \/ \E c \in RecordType : record' = [record EXCEPT ![r] = c]
  /\ UNCHANGED input

\* Such a step is about r alone.
LEMMA OneStatementAlone ==
  ASSUME BillingInv, NEW r \in Requests, OneStatement(r), OwnHistory(r),
         \E x, y, z : Own(r, x, y, z)
  PROVE  Alone(r) /\ Moves(r)
<1>1. /\ req \in [Requests -> ReqType] /\ sess \in [Requests -> SessType]
      /\ refund \in [Requests -> RefundType] /\ record \in [Requests -> RecordType]
      /\ faults \in [Requests -> SUBSET AllFaults] /\ paid \in [Requests -> PaidType]
      /\ paid[r] \in PaidType
  BY Parts DEF DbOK
<1>2. ASSUME NEW q \in Requests, q # r
      PROVE  req'[q] = req[q] /\ sess'[q] = sess[q] /\ refund'[q] = refund[q]
  BY <1>1, <1>2 DEF Own
<1>3. ASSUME NEW q \in Requests, q # r
      PROVE  record'[q] = record[q] /\ faults'[q] = faults[q] /\ input'[q] = input[q]
  BY <1>1, <1>3 DEF OwnHistory, Fails
<1>4. ASSUME NEW q \in Requests, q # r PROVE paid'[q] = paid[q]
  BY <1>1, <1>4 DEF OneStatement, TakeWallet, TakeToken, TakeSub
<1>5. Moves(r)
  <2>1. CASE UNCHANGED <<db, paid>>
    BY <2>1, Numbers DEF Moves, db
  <2>2. ASSUME NEW d \in Int, TakeWallet(r, d) \/ TakeToken(r, d) PROVE Moves(r)
    <3>1. paid'[r].sub = paid[r].sub /\ amountUsed' = amountUsed
      BY <2>2, TakePaid DEF TakeWallet, TakeToken
    <3> QED
      BY <3>1, Numbers DEF Moves
  <2>3. ASSUME NEW d \in Int, TakeSub(r, d) PROVE Moves(r)
    BY <2>3, TakeSubPaid DEF Moves
  <2>4. CASE /\ amountUsed' = amountUsed + req[r].amt
             /\ paid' = [paid EXCEPT ![r].sub = @ + req[r].amt]
    <3>1. paid'[r].sub = paid[r].sub + req[r].amt
      BY <1>1, <2>4 DEF PaidType
    <3> QED
      BY <2>4, <3>1, Numbers DEF Moves
  <2> QED
    BY <2>1, <2>2, <2>3, <2>4 DEF OneStatement
<1> QED
  BY <1>2, <1>3, <1>4, <1>5 DEF Alone

\* The steps of NewBillingSession.
LEMMA NewAlone ==
  ASSUME BillingInv, NEW r \in Requests, Start(r) \/ NewBillingSession(r)
  PROVE  Alone(r) /\ Moves(r)
<1>0. req[r].amt \in Int /\ - req[r].amt \in Int /\ - sess[r].tok \in Int
  BY Numbers
<1>1. \E x, y, z : Own(r, x, y, z)
  BY SelectStep, TokenStep, FundingStep, ReserveRollbackStep DEF NewBillingSession
<1>2. OwnHistory(r)
  <2>1. UNCHANGED input
    BY DEF NewBillingSession, Start, ReadFails, CheckSubscription, TryWallet, TrySubscription,
           CheckOverflow, CheckToken, DecreaseToken, PreConsumeWallet,
           PreConsumeSubscription, RollbackToken, ReserveRollback, env
  <2>2. UNCHANGED faults \/ \E f : Fails(r, f)
    BY DEF NewBillingSession, Start, ReadFails, CheckSubscription, TryWallet, TrySubscription,
           CheckOverflow, CheckToken, DecreaseToken, PreConsumeWallet,
           PreConsumeSubscription, RollbackToken, ReserveRollback
  <2>3. UNCHANGED record \/ record' = [record EXCEPT ![r] = "consumed"]
    BY DEF NewBillingSession, Start, ReadFails, CheckSubscription, TryWallet, TrySubscription,
           CheckOverflow, CheckToken, DecreaseToken, PreConsumeWallet,
           PreConsumeSubscription, RollbackToken, ReserveRollback
  <2> QED
    BY <2>1, <2>2, <2>3 DEF OwnHistory, RecordType
<1>3. OneStatement(r)
  <2>1. CASE Start(r) \/ ReadFails(r) \/ CheckSubscription(r) \/ TryWallet(r)
             \/ TrySubscription(r) \/ CheckOverflow(r) \/ CheckToken(r)
    BY <2>1 DEF Start, ReadFails, CheckSubscription, TryWallet, TrySubscription,
                CheckOverflow, CheckToken, OneStatement
  <2>2. CASE DecreaseToken(r)
    BY <1>0, <2>2 DEF DecreaseToken, OneStatement
  <2>3. CASE PreConsumeWallet(r)
    BY <1>0, <2>3 DEF PreConsumeWallet, OneStatement
  <2>4. CASE PreConsumeSubscription(r)
    BY <2>4 DEF PreConsumeSubscription, OneStatement
  <2>5. CASE RollbackToken(r)
    BY <1>0, <2>5 DEF RollbackToken, OneStatement
  <2>6. CASE ReserveRollback(r)
    BY <1>0, <2>6 DEF ReserveRollback, OneStatement
  <2> QED
    BY <2>1, <2>2, <2>3, <2>4, <2>5, <2>6 DEF NewBillingSession
<1> QED
  BY <1>1, <1>2, <1>3, OneStatementAlone

\* Reserving, settling and charging beside the session.
LEMMA UseAlone ==
  ASSUME BillingInv, NEW r \in Requests, NEW n \in Nat,
         \/ ReserveFunding(r, n) \/ SettleFunding(r, n) \/ SettleToken(r)
         \/ (\E violation \in BOOLEAN : ChargeViolationFee(r, violation))
         \/ PreWssConsumeQuota(r, n) \/ PostConsumeFunding(r) \/ PostConsumeToken(r)
  PROVE  Alone(r) /\ Moves(r)
<1>0. n - sess[r].pre \in Int /\ sess[r].actual - sess[r].pre \in Int /\ req[r].amt \in Int
  BY Numbers
<1>1. \E x, y, z : Own(r, x, y, z)
  BY ReserveStep, SettleStep, PostStep
<1>2. OwnHistory(r)
  BY DEF ReserveFunding, SettleFunding, SettleToken, ChargeViolationFee, PreWssConsumeQuota,
         PostConsumeFunding, PostConsumeToken, env, OwnHistory
<1>3. OneStatement(r)
  <2>1. CASE ReserveFunding(r, n)
    BY <1>0, <2>1 DEF ReserveFunding, OneStatement
  <2>2. CASE SettleFunding(r, n)
    BY <1>0, <2>2 DEF SettleFunding, OneStatement
  <2>3. CASE SettleToken(r)
    BY <1>0, <2>3 DEF SettleToken, OneStatement
  <2>4. CASE PostConsumeFunding(r)
    BY <1>0, <2>4 DEF PostConsumeFunding, OneStatement
  <2>5. CASE PostConsumeToken(r)
    BY <1>0, <2>5 DEF PostConsumeToken, OneStatement
  <2>6. CASE (\E violation \in BOOLEAN : ChargeViolationFee(r, violation))
             \/ PreWssConsumeQuota(r, n)
    BY <2>6 DEF ChargeViolationFee, PreWssConsumeQuota, OneStatement
  <2> QED
    BY <2>1, <2>2, <2>3, <2>4, <2>5, <2>6
<1> QED
  BY <1>1, <1>2, <1>3, OneStatementAlone

\* Refunds.
LEMMA RefundAlone ==
  ASSUME BillingInv, NEW r \in Requests, Refund(r) \/ RefundGoroutine(r)
  PROVE  Alone(r) /\ Moves(r)
<1>0. /\ - sess[r].consumed \in Int /\ - sess[r].subPre \in Int
      /\ - sess[r].extra \in Int /\ - sess[r].tok \in Int
  BY Numbers
<1>1. \E x, y, z : Own(r, x, y, z)
  BY RefundDecision, RefundGoroutineStep
<1>2. OwnHistory(r)
  <2>1. UNCHANGED input /\ (UNCHANGED faults \/ \E f : Fails(r, f))
    BY DEF Refund, RefundGoroutine, RefundWallet, RefundSubscription, RefundMark, RefundExtra,
           RefundToken, env
  <2>2. UNCHANGED record \/ record' = [record EXCEPT ![r] = "refunded"]
    BY DEF Refund, RefundGoroutine, RefundWallet, RefundSubscription, RefundMark, RefundExtra,
           RefundToken
  <2> QED
    BY <2>1, <2>2 DEF OwnHistory, RecordType
<1>3. OneStatement(r)
  <2>1. CASE Refund(r) \/ RefundMark(r)
    BY <2>1 DEF Refund, RefundMark, OneStatement
  <2>2. CASE RefundWallet(r)
    BY <1>0, <2>2 DEF RefundWallet, OneStatement
  <2>3. CASE RefundSubscription(r)
    BY <1>0, <2>3 DEF RefundSubscription, OneStatement
  <2>4. CASE RefundExtra(r)
    BY <1>0, <2>4 DEF RefundExtra, OneStatement
  <2>5. CASE RefundToken(r)
    BY <1>0, <2>5 DEF RefundToken, OneStatement
  <2> QED
    BY <2>1, <2>2, <2>3, <2>4, <2>5 DEF RefundGoroutine
<1> QED
  BY <1>1, <1>2, <1>3, OneStatementAlone

-----------------------------------------------------------------------------
(* The ledger.                                                              *)

\* Every request's account is in order and, unless a refund may be repeated, the
\* subscription's amount_used is what the requests have taken from it.
Ledger ==
  /\ \A r \in Requests : AccountOf(r)
  /\ Marks => Accounted

\* A step of request r keeps r's account.
LEMMA StepAccount ==
  ASSUME BillingInv, NEW r \in Requests, AccountOf(r), Backed(r), Step(r)
  PROVE  AccountOf(r)' /\ Alone(r) /\ Moves(r)
<1>0. 0 \in Nat
  OBVIOUS
<1>1. CASE Start(r) \/ NewBillingSession(r)
  <2>1. AccountOf(r)'
    BY <1>1, ChoosingAccount, TryWalletAccount, TrySubscriptionAccount, TokenAccount,
       PreConsumeAccount, RollbackTokenAccount, ReserveRollbackAccount DEF NewBillingSession
  <2> QED
    BY <1>1, <2>1, NewAlone
<1>2. CASE \E target \in ReserveTargets : ReserveFunding(r, target)
  <2>1. PICK n \in Nat : ReserveFunding(r, n)
    BY <1>2, BillingAssumption DEF BillingAssumption
  <2> QED
    BY <2>1, ReserveAccount, UseAlone
<1>3. CASE \E actual \in ActualOf(r) : SettleFunding(r, actual)
  <2>1. req[r].total \in Nat
    BY Amounts
  <2>2. PICK n \in Nat : SettleFunding(r, n)
    BY <1>3, <2>1, BillingAssumption DEF BillingAssumption, ActualOf
  <2> QED
    BY <2>2, SettleFundingAccount, UseAlone
<1>4. CASE SettleToken(r)
  BY <1>0, <1>4, SettleTokenAccount, UseAlone
<1>5. CASE Refund(r)
  BY <1>5, RefundAccount, RefundAlone
<1>6. CASE RefundGoroutine(r)
  <2>1. AccountOf(r)'
    BY <1>6, RefundWalletAccount, RefundSubscriptionAccount, RefundMarkAccount,
       RefundExtraAccount, RefundTokenAccount DEF RefundGoroutine
  <2> QED
    BY <1>6, <2>1, RefundAlone
<1>7. CASE \E violation \in BOOLEAN : ChargeViolationFee(r, violation)
  BY <1>0, <1>7, BesideStart, UseAlone
<1>8. CASE \E quota \in ActualQuotas : PreWssConsumeQuota(r, quota)
  <2>1. PICK n \in Nat : PreWssConsumeQuota(r, n)
    BY <1>8, BillingAssumption DEF BillingAssumption
  <2> QED
    BY <2>1, BesideStart, UseAlone
<1>9. CASE PostConsumeFunding(r) \/ PostConsumeToken(r)
  BY <1>0, <1>9, PostFundingAccount, PostTokenAccount, UseAlone
<1> QED
  BY <1>1, <1>2, <1>3, <1>4, <1>5, <1>6, <1>7, <1>8, <1>9 DEF Step

\* In the ledger nobody holds a negative share of the subscription.
LEMMA LedgerShares ==
  ASSUME BillingInv, Ledger, Marks, NEW r \in Requests
  PROVE  paid[r].sub \in Nat /\ paid[r].sub <= amountUsed
<1>1. paid[r].sub \in Int
  BY Numbers
<1>2. paid[r].sub >= 0
  BY DEF Ledger, AccountOf, Account, Covered
<1>3. paid[r].sub \in Nat
  BY <1>1, <1>2
<1>4. IsFiniteSet(Units(paid)) /\ Cardinality(Units(paid)) = amountUsed
  BY DEF Ledger, Accounted
<1>5. paid[r].sub <= Cardinality(Units(paid))
  BY <1>3, <1>4, UnitsMove
<1> QED
  BY <1>3, <1>4, <1>5

\* A step of a request keeps the ledger.
LEMMA StepLedger ==
  ASSUME BillingInv, BillingInv', Ledger, NEW r \in Requests, Step(r)
  PROVE  Ledger'
<1>1. AccountOf(r) /\ Backed(r)
  BY LedgerShares DEF Ledger, Backed
<1>2. AccountOf(r)' /\ Alone(r) /\ Moves(r)
  BY <1>1, StepAccount
<1>3. ASSUME NEW q \in Requests PROVE AccountOf(q)'
  <2>1. CASE q = r
    BY <1>2, <2>1
  <2>2. CASE q # r
    BY <1>2, <2>2, SameAccount DEF Alone, Ledger
  <2> QED
    BY <2>1, <2>2
<1>4. ASSUME Marks PROVE Accounted'
  <2>1. paid[r].sub \in Nat /\ amountUsed \in Nat
    BY <1>4, LedgerShares, Numbers
  <2>2. paid'[r].sub \in Nat
    <3>1. paid'[r].sub \in Int
      BY DEF BillingInv, TypeOK
    <3>2. paid'[r].sub >= 0
      BY <1>2, <1>4 DEF AccountOf, Account, Covered
    <3> QED
      BY <3>1, <3>2
  <2>3. \A k \in Requests : k # r => paid'[k].sub = paid[k].sub
    BY <1>2 DEF Alone
  <2>4. IsFiniteSet(Units(paid)) /\ Cardinality(Units(paid)) = amountUsed
    BY <1>4 DEF Ledger, Accounted
  <2>5. /\ IsFiniteSet(Units(paid'))
        /\ Cardinality(Units(paid')) = amountUsed + (paid'[r].sub - paid[r].sub)
    BY <2>1, <2>2, <2>3, <2>4, UnitsMove
  <2>6. amountUsed' = amountUsed + (paid'[r].sub - paid[r].sub)
    <3>1. amountUsed' \in Int
      BY DEF BillingInv, TypeOK
    <3> QED
      BY <1>2, <2>1, <2>2, <3>1 DEF Moves
  <2>7. Units(paid)' = Units(paid')
    BY DEF Units
  <2> QED
    BY <2>5, <2>6, <2>7 DEF Accounted
<1>5. Marks' <=> Marks
  BY DEF Marks
<1> QED
  BY <1>3, <1>4, <1>5 DEF Ledger

\* At the start nobody has paid and amount_used is zero.
LEMMA InitLedger == Init => Ledger
<1> SUFFICES ASSUME Init PROVE Ledger
  OBVIOUS
<1>1. ASSUME NEW r \in Requests PROVE AccountOf(r)
  <2> DEFINE z == [pc |-> "none", attempt |-> 0]
             p == [wallet |-> 0, token |-> 0, sub |-> 0]
  <2>1. /\ req[r] = NewRequest /\ sess[r] = NoSession /\ refund[r] = z /\ paid[r] = p
        /\ faults[r] = {}
    BY DEF Init
  <2>2. /\ ~ InUse(NewRequest) /\ ~ Opening(NewRequest) /\ Choosing(NewRequest)
        /\ ~ Reserving(NewRequest) /\ Asked(NewRequest) = 0
        /\ NewRequest.pc = "new" /\ NewRequest.post = 0
    BY DEF NewRequest, InUse, Opening, Choosing, Reserving, Asked
  <2>3. /\ NoSession.settled = FALSE /\ NoSession.fSettled = FALSE /\ NoSession.funding = "none"
        /\ NoSession.tok = 0
    BY DEF NoSession
  <2>4. z.pc = "none" /\ p.wallet = 0 /\ p.token = 0 /\ p.sub = 0
    OBVIOUS
  <2> HIDE DEF z, p
  <2>5. Shape(NewRequest, NoSession, z, input[r])
    BY <2>2, <2>3, <2>4 DEF Shape
  <2>6. Early(NewRequest, NoSession, p, input[r], faults[r])
    BY <2>3, <2>4 DEF Early
  <2>7. Covered(NewRequest, NoSession, z, record[r], p, input[r])
    BY <2>2, <2>3, <2>4 DEF Covered
  <2>8. Exact(NewRequest, NoSession, z, p, input[r])
    BY <2>2, <2>3, <2>4 DEF Exact, HeldToken
  <2> QED
    BY <2>1, <2>5, <2>6, <2>7, <2>8 DEF AccountOf, Account
<1>2. Accounted
  <2>1. \A r \in Requests : paid[r].sub = 0
    BY DEF Init
  <2>2. Units(paid) = {}
    BY <2>1 DEF Units
  <2>3. amountUsed = 0
    BY DEF Init
  <2> QED
    BY <2>2, <2>3, FS_EmptySet DEF Accounted
<1> QED
  BY <1>1, <1>2 DEF Ledger

\* Every step keeps the ledger.
LEMMA NextLedger == BillingInv /\ BillingInv' /\ Ledger /\ [Next]_vars => Ledger'
<1> SUFFICES ASSUME BillingInv, BillingInv', Ledger, [Next]_vars PROVE Ledger'
  OBVIOUS
<1>1. CASE \E r \in Requests : Step(r)
  BY <1>1, StepLedger
<1>2. CASE SubscriptionEnds \/ UNCHANGED vars
  <2>1. UNCHANGED <<amountUsed, req, sess, refund, record, paid, input, faults>>
    BY <1>2 DEF SubscriptionEnds, vars, db, env
  <2>2. ASSUME NEW r \in Requests PROVE AccountOf(r)'
    BY <2>1, SameAccount DEF Ledger
  <2>3. Accounted' <=> Accounted
    BY <2>1 DEF Accounted, Units
  <2>4. Marks' <=> Marks
    BY DEF Marks
  <2> QED
    BY <2>2, <2>3, <2>4 DEF Ledger
<1> QED
  BY <1>1, <1>2 DEF Next

\* The ledger is in order in every reachable state.
LEMMA LedgerHolds == Spec => [](BillingInv /\ Ledger)
<1>1. Init => BillingInv /\ Ledger
  BY InitHolds, InitLedger
<1>2. BillingInv /\ Ledger /\ [Next]_vars => BillingInv' /\ Ledger'
  BY NextKeeps, NextLedger
<1> QED
  BY <1>1, <1>2, PTL DEF Spec

-----------------------------------------------------------------------------
(* The theorems.                                                            *)

\* A request that NewBillingSession refused has paid nothing, whichever of the
\* fallbacks between wallet and subscription it went through, whatever the other
\* requests did meanwhile, unless one of its own statements failed.
THEOREM RefusedForFree == Spec => []RejectedPaysNothing
<1>1. BillingInv /\ Ledger => RejectedPaysNothing
  <2> SUFFICES ASSUME BillingInv, Ledger, NEW r \in Requests,
                      req[r].pc = "rejected", faults[r] = {}
               PROVE  paid[r] = [wallet |-> 0, token |-> 0, sub |-> 0]
    BY DEF RejectedPaysNothing
  <2>1. paid[r] \in PaidType
    BY Books
  <2>2. ~ InUse(req[r]) /\ Choosing(req[r])
    BY DEF InUse, Reserving, Choosing
  <2>3. sess[r].tok = 0
    BY <2>2 DEF Ledger, AccountOf, Account, Shape, NoSession
  <2>4. paid[r].wallet = 0 /\ paid[r].sub = 0 /\ paid[r].token = 0
    BY <2>2, <2>3 DEF Ledger, AccountOf, Account, Early
  <2> QED
    BY <2>1, <2>4 DEF PaidType
<1> QED
  BY <1>1, LedgerHolds, PTL

\* Whatever statements fail, retries of refunds included, no request ever gets
\* back more than it has paid, from the wallet, the token or the subscription:
\* as long as marking the refunded record does not fail after the refund has
\* been committed.
THEOREM NothingForFree == "refundMark" \notin Faults => (Spec => []NeverCredited)
<1> SUFFICES ASSUME "refundMark" \notin Faults PROVE Spec => []NeverCredited
  OBVIOUS
<1>1. BillingInv /\ Ledger => NeverCredited
  BY DEF Ledger, AccountOf, Account, Covered, Marks, NeverCredited
<1> QED
  BY <1>1, LedgerHolds, PTL

\* What was paid, field by field.
LEMMA PaidCharge ==
  ASSUME BillingInv, NEW r \in Requests, NEW n \in Nat,
         paid[r].wallet = IF sess[r].funding = "wallet" THEN n ELSE 0,
         paid[r].sub = IF sess[r].funding = "subscription" THEN n ELSE 0,
         paid[r].token = IF input[r].playground THEN 0 ELSE n
  PROVE  paid[r] = Charge(r, n)
<1>1. paid[r] \in [wallet: Int, token: Int, sub: Int]
  BY Books DEF PaidType
<1>2. paid[r] = [wallet |-> paid[r].wallet, sub |-> paid[r].sub, token |-> paid[r].token]
  BY <1>1
<1> QED
  BY <1>2 DEF Charge

\* A settled request has paid exactly what it cost, plus what was charged beside
\* its session, from the funding source and from the token alike.
THEOREM SettledExactly == "refundMark" \notin Faults => (Spec => []ExactSettlement)
<1> SUFFICES ASSUME "refundMark" \notin Faults PROVE Spec => []ExactSettlement
  OBVIOUS
<1>1. BillingInv /\ Ledger => ExactSettlement
  <2> SUFFICES ASSUME BillingInv, Ledger, NEW r \in Requests,
                      sess[r].settled, req[r].pc = "open", faults[r] = {}
               PROVE  paid[r] = Charge(r, sess[r].actual + req[r].post)
    BY DEF ExactSettlement
  <2>1. Exact(req[r], sess[r], refund[r], paid[r], input[r])
    BY DEF Ledger, AccountOf, Account, Marks
  <2>2. refund[r].pc = "none"
    BY Books DEF UnderWay
  <2>3. /\ Held(req[r], sess[r], refund[r]) = sess[r].actual
        /\ HeldToken(sess[r], refund[r]) = sess[r].actual
    BY <2>2 DEF Held, HeldToken
  <2>4. sess[r].actual + req[r].post \in Nat
    BY Numbers
  <2>5. sess[r].actual + req[r].post - 0 = sess[r].actual + req[r].post
    BY Numbers
  <2> QED
    BY <2>1, <2>3, <2>4, <2>5, PaidCharge DEF Exact
<1> QED
  BY <1>1, LedgerHolds, PTL

\* Once its refund is carried out, a failed request has paid for nothing but
\* what was charged beside its session.
THEOREM RefundedExactly == "refundMark" \notin Faults => (Spec => []RefundedInFull)
<1> SUFFICES ASSUME "refundMark" \notin Faults PROVE Spec => []RefundedInFull
  OBVIOUS
<1>1. BillingInv /\ Ledger => RefundedInFull
  <2> SUFFICES ASSUME BillingInv, Ledger, NEW r \in Requests, refund[r].pc = "done",
                      req[r].pc \in {"open", "closed"}, faults[r] = {}
               PROVE  paid[r] = Charge(r, req[r].post)
    BY DEF RefundedInFull
  <2>1. Exact(req[r], sess[r], refund[r], paid[r], input[r])
    BY DEF Ledger, AccountOf, Account, Marks
  <2>2. Held(req[r], sess[r], refund[r]) = 0 /\ HeldToken(sess[r], refund[r]) = 0
    BY DEF Held, HeldToken
  <2>3. req[r].post \in Nat
    BY Numbers
  <2>4. 0 + req[r].post = req[r].post /\ 0 + req[r].post - 0 = req[r].post
    BY <2>3
  <2> QED
    BY <2>1, <2>2, <2>3, <2>4, PaidCharge DEF Exact
<1> QED
  BY <1>1, LedgerHolds, PTL

\* amount_used never drifts: it is the sum of what the requests have taken from
\* the subscription, although every one of them moves it by differences of its
\* own and a negative difference is clamped at zero.
THEOREM NothingLost == "refundMark" \notin Faults => (Spec => []Accounted)
<1> SUFFICES ASSUME "refundMark" \notin Faults PROVE Spec => []Accounted
  OBVIOUS
<1>1. BillingInv /\ Ledger => Accounted
  BY DEF Ledger, Marks
<1> QED
  BY <1>1, LedgerHolds, PTL
=============================================================================
