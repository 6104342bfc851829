------------------------ MODULE BillingSession_proofs ------------------------
(***************************************************************************)
(* What BillingSession guarantees for every number of requests and every   *)
(* quota, whatever statements fail.                                        *)
(***************************************************************************)
EXTENDS BillingSession, TLAPS

PaidType == [wallet: Int, token: Int, sub: Int]
RecordType == {"none", "consumed", "refunded"}

\* The quota columns and the history of what was taken from them.
DbOK ==
  /\ userQuota \in Int /\ tokenQuota \in Int /\ amountUsed \in Nat
  /\ paid \in [Requests -> PaidType]
  /\ SubscriptionWithinTotal

\* A request x, its session y and its refund z go together.  A reservation under
\* way on a wallet is part of what the session consumed; a refund that may still
\* fail has attempts left; a refund goroutine runs only for a refunded session,
\* whose caller has given up and which is not settled, not even in part.
Ended == {"open", "post", "postToken", "closed"}
UnderWay(x, y, z) ==
  /\ x.pc \in {"token", "tokenTake"} => x.op \in {"pre", "reserve"}
  /\ x.pc = "reserveRollback" => x.op = "reserve"
  /\ x.pc \in {"token", "tokenTake", "reserveRollback"} /\ x.op = "reserve"
       => (y.funding = "wallet" => y.consumed >= x.amt)
  /\ z.pc \in {"none", "funding", "mark"} => z.attempt < maxAttempts
  /\ z.pc # "none" => y.refunded
  /\ y.refunded => x.failed /\ ~ y.fSettled /\ ~ y.settled
  /\ x.failed => x.pc \in Ended
  /\ x.pc = "settleToken" => y.fSettled

\* The inductive invariant.
BillingInv ==
  /\ TypeOK /\ SubscriptionWithinTotal
  /\ \A r \in Requests : UnderWay(req[r], sess[r], refund[r])

\* Everything a step of a request does apart from req, sess and refund.
Rest ==
  /\ DbOK' /\ UNCHANGED <<subActive, setup, input>>
  /\ record' \in [Requests -> RecordType]
  /\ faults' \in [Requests -> SUBSET AllFaults]

\* Request r gets the variables x, y and z, which go together.
Own(r, x, y, z) ==
  /\ x \in ReqType /\ y \in SessType /\ z \in RefundType
  /\ UnderWay(x, y, z)
  /\ req' = [req EXCEPT ![r] = x]
  /\ sess' = [sess EXCEPT ![r] = y]
  /\ refund' = [refund EXCEPT ![r] = z]

-----------------------------------------------------------------------------
(* The parts of the invariant, and what is enough to keep it.               *)

\* The parts of the invariant that a step of request r starts from.
LEMMA Parts ==
  ASSUME BillingInv, NEW r \in Requests
  PROVE  /\ DbOK /\ UnderWay(req[r], sess[r], refund[r])
         /\ req \in [Requests -> ReqType] /\ req[r] \in ReqType
         /\ sess \in [Requests -> SessType] /\ sess[r] \in SessType
         /\ refund \in [Requests -> RefundType] /\ refund[r] \in RefundType
         /\ record \in [Requests -> RecordType]
         /\ faults \in [Requests -> SUBSET AllFaults]
         /\ input[r] \in AllInputs
  BY DEF BillingInv, TypeOK, DbOK, PaidType, RecordType

\* The amounts a request and its session hold are natural numbers.
LEMMA Amounts ==
  ASSUME BillingInv, NEW r \in Requests
  PROVE  /\ req[r].amt \in Nat /\ req[r].total \in Nat /\ req[r].post \in Nat
         /\ sess[r].pre \in Nat /\ sess[r].tok \in Nat /\ sess[r].extra \in Nat
         /\ sess[r].consumed \in Nat /\ sess[r].subPre \in Nat /\ sess[r].actual \in Nat
         /\ input[r].want \in Nat
<1>1. req[r] \in ReqType /\ sess[r] \in SessType /\ input[r] \in AllInputs
  BY Parts
<1>2. req[r].amt \in Nat /\ req[r].total \in Nat /\ req[r].post \in Nat
  BY <1>1 DEF ReqType
<1>3. /\ sess[r].pre \in Nat /\ sess[r].tok \in Nat /\ sess[r].extra \in Nat
      /\ sess[r].consumed \in Nat /\ sess[r].subPre \in Nat /\ sess[r].actual \in Nat
  BY <1>1 DEF SessType
<1>4. input[r].want \in Nat
  BY <1>1 DEF AllInputs
<1> QED
  BY <1>2, <1>3, <1>4

\* A step of request r keeps the invariant if what it gives r goes together.
LEMMA OwnStep ==
  ASSUME BillingInv, NEW r \in Requests, NEW x, NEW y, NEW z, Own(r, x, y, z), Rest
  PROVE  BillingInv'
<1>1. TypeOK' /\ SubscriptionWithinTotal'
  <2>1. req' \in [Requests -> ReqType]
    BY DEF BillingInv, TypeOK, Own
  <2>2. sess' \in [Requests -> SessType]
    BY DEF BillingInv, TypeOK, Own
  <2>3. refund' \in [Requests -> RefundType]
    BY DEF BillingInv, TypeOK, Own
  <2> QED
    BY <2>1, <2>2, <2>3 DEF BillingInv, TypeOK, Rest, DbOK, PaidType, RecordType
<1>2. ASSUME NEW q \in Requests PROVE UnderWay(req'[q], sess'[q], refund'[q])
  BY DEF BillingInv, TypeOK, Own
<1> QED
  BY <1>1, <1>2 DEF BillingInv, UnderWay

\* Writing back what is there changes nothing.
LEMMA WriteBack ==
  ASSUME BillingInv, NEW r \in Requests
  PROVE  /\ req = [req EXCEPT ![r] = req[r]]
         /\ sess = [sess EXCEPT ![r] = sess[r]]
         /\ refund = [refund EXCEPT ![r] = refund[r]]
  BY DEF BillingInv, TypeOK

-----------------------------------------------------------------------------
(* The database statements.                                                 *)

\* Moving a quota column by an integer leaves integers; amount_used stays a
\* natural number because of the clamp, and within the total because of the check.
LEMMA TakeType ==
  ASSUME DbOK, NEW r \in Requests, NEW n \in Int,
         TakeWallet(r, n) \/ TakeToken(r, n) \/ TakeSub(r, n)
  PROVE  DbOK'
<1>1. paid[r] \in PaidType
  BY DEF DbOK
<1>2. CASE TakeWallet(r, n)
  <2>1. [paid[r] EXCEPT !.wallet = @ + n] \in PaidType
    BY <1>1 DEF PaidType
  <2> QED
    BY <1>2, <2>1 DEF TakeWallet, DbOK, SubscriptionWithinTotal
<1>3. CASE TakeToken(r, n)
  <2>1. [paid[r] EXCEPT !.token = @ + n] \in PaidType
    BY <1>1 DEF PaidType
  <2> QED
    BY <1>3, <2>1 DEF TakeToken, DbOK, SubscriptionWithinTotal
<1>4. CASE TakeSub(r, n)
  <2>1. UsedAfter(n) \in Nat
    BY DEF UsedAfter, DbOK
  <2>2. [paid[r] EXCEPT !.sub = @ + (UsedAfter(n) - amountUsed)] \in PaidType
    BY <1>1, <2>1 DEF PaidType, DbOK
  <2>3. SubscriptionWithinTotal'
    <3>1. AmountTotal \in Nat
      BY BillingAssumption DEF BillingAssumption
    <3> QED
      BY <1>4, <2>1, <3>1 DEF TakeSub, Exceeds, SubscriptionWithinTotal
  <2> QED
    BY <1>4, <2>1, <2>2, <2>3 DEF TakeSub, DbOK
<1> QED
  BY <1>2, <1>3, <1>4

\* A failing statement is one of Faults.
LEMMA FailsType ==
  ASSUME faults \in [Requests -> SUBSET AllFaults], NEW r \in Requests, NEW f, Fails(r, f)
  PROVE  faults' \in [Requests -> SUBSET AllFaults]
<1>1. f \in AllFaults
  BY BillingAssumption DEF BillingAssumption, Fails
<1> QED
  BY <1>1 DEF Fails

\* Statements that leave the quota columns alone.
LEMMA DbSame ==
  ASSUME DbOK, UNCHANGED <<db, paid>>
  PROVE  DbOK'
  BY DEF DbOK, db, SubscriptionWithinTotal

\* The transaction of PreConsumeUserSubscription.
LEMMA PreConsumeType ==
  ASSUME DbOK, NEW r \in Requests, NEW n \in Nat,
         AmountTotal > 0 => AmountTotal - amountUsed >= n,
         amountUsed' = amountUsed + n, paid' = [paid EXCEPT ![r].sub = @ + n],
         UNCHANGED <<userQuota, tokenQuota>>
  PROVE  DbOK'
<1>1. paid[r] \in PaidType
  BY DEF DbOK
<1>2. [paid[r] EXCEPT !.sub = @ + n] \in PaidType
  BY <1>1 DEF PaidType
<1>3. AmountTotal \in Nat
  BY BillingAssumption DEF BillingAssumption
<1>4. SubscriptionWithinTotal'
  BY <1>3 DEF DbOK, SubscriptionWithinTotal
<1> QED
  BY <1>2, <1>4 DEF DbOK

\* The steps of NewBillingSession keep the rows in shape.
LEMMA RestNew ==
  ASSUME BillingInv, NEW r \in Requests, Start(r) \/ NewBillingSession(r)
  PROVE  Rest
<1>0. /\ DbOK /\ record \in [Requests -> RecordType]
      /\ faults \in [Requests -> SUBSET AllFaults]
  BY Parts
<1>1. req[r].amt \in Int /\ - req[r].amt \in Int /\ - sess[r].tok \in Int /\ req[r].amt \in Nat
  BY Amounts
<1>2. UNCHANGED <<subActive, setup, input>>
  BY DEF NewBillingSession, Start, ReadFails, CheckSubscription, TryWallet, TrySubscription,
         CheckOverflow, CheckToken, DecreaseToken, PreConsumeWallet,
         PreConsumeSubscription, RollbackToken, ReserveRollback, env
<1>3. UNCHANGED faults \/ \E f : Fails(r, f)
  BY DEF NewBillingSession, Start, ReadFails, CheckSubscription, TryWallet, TrySubscription,
         CheckOverflow, CheckToken, DecreaseToken, PreConsumeWallet,
         PreConsumeSubscription, RollbackToken, ReserveRollback
<1>4. UNCHANGED record \/ record' = [record EXCEPT ![r] = "consumed"]
  BY DEF NewBillingSession, Start, ReadFails, CheckSubscription, TryWallet, TrySubscription,
         CheckOverflow, CheckToken, DecreaseToken, PreConsumeWallet,
         PreConsumeSubscription, RollbackToken, ReserveRollback
<1>5. DbOK'
  <2>1. CASE Start(r) \/ ReadFails(r) \/ CheckSubscription(r) \/ TryWallet(r)
             \/ TrySubscription(r) \/ CheckOverflow(r) \/ CheckToken(r)
    <3>1. UNCHANGED <<db, paid>>
      BY <2>1 DEF Start, ReadFails, CheckSubscription, TryWallet, TrySubscription,
                  CheckOverflow, CheckToken
    <3> QED
      BY <1>0, <3>1, DbSame
  <2>2. CASE DecreaseToken(r)
    <3>1. TakeToken(r, req[r].amt) \/ UNCHANGED <<db, paid>>
      BY <2>2 DEF DecreaseToken
    <3> QED
      BY <1>0, <1>1, <3>1, DbSame, TakeType
  <2>3. CASE PreConsumeWallet(r)
    <3>1. TakeWallet(r, req[r].amt) \/ UNCHANGED <<db, paid>>
      BY <2>3 DEF PreConsumeWallet
    <3> QED
      BY <1>0, <1>1, <3>1, DbSame, TakeType
  <2>4. CASE PreConsumeSubscription(r)
    <3>1. CASE UNCHANGED <<db, paid>>
      BY <1>0, <3>1, DbSame
    <3>2. CASE ~ UNCHANGED <<db, paid>>
      <4>1. /\ AmountTotal > 0 => AmountTotal - amountUsed >= req[r].amt
            /\ amountUsed' = amountUsed + req[r].amt
            /\ paid' = [paid EXCEPT ![r].sub = @ + req[r].amt]
            /\ UNCHANGED <<userQuota, tokenQuota>>
        BY <2>4, <3>2 DEF PreConsumeSubscription
      <4> QED
        BY <1>0, <1>1, <4>1, PreConsumeType
    <3> QED
      BY <3>1, <3>2
  <2>5. CASE RollbackToken(r)
    <3>1. TakeToken(r, - sess[r].tok) \/ UNCHANGED <<db, paid>>
      BY <2>5 DEF RollbackToken
    <3> QED
      BY <1>0, <1>1, <3>1, DbSame, TakeType
  <2>6. CASE ReserveRollback(r)
    <3>1. TakeWallet(r, - req[r].amt) \/ TakeSub(r, - req[r].amt) \/ UNCHANGED <<db, paid>>
      BY <2>6 DEF ReserveRollback
    <3> QED
      BY <1>0, <1>1, <3>1, DbSame, TakeType
  <2> QED
    BY <2>1, <2>2, <2>3, <2>4, <2>5, <2>6 DEF NewBillingSession
<1>6. faults' \in [Requests -> SUBSET AllFaults]
  BY <1>0, <1>3, FailsType
<1>7. record' \in [Requests -> RecordType]
  BY <1>0, <1>4 DEF RecordType
<1> QED
  BY <1>2, <1>5, <1>6, <1>7 DEF Rest

\* The steps that reserve, settle and charge beside the session do too.
LEMMA RestUse ==
  ASSUME BillingInv, NEW r \in Requests, NEW n \in Nat,
         \/ ReserveFunding(r, n) \/ SettleFunding(r, n) \/ SettleToken(r)
         \/ (\E violation \in BOOLEAN : ChargeViolationFee(r, violation))
         \/ PreWssConsumeQuota(r, n) \/ PostConsumeFunding(r) \/ PostConsumeToken(r)
  PROVE  Rest
<1>0. /\ DbOK /\ record \in [Requests -> RecordType]
      /\ faults \in [Requests -> SUBSET AllFaults]
  BY Parts
<1>1. n - sess[r].pre \in Int /\ sess[r].actual - sess[r].pre \in Int /\ req[r].amt \in Int
  BY Amounts
<1>2. UNCHANGED <<subActive, setup, input, record>>
  BY DEF ReserveFunding, SettleFunding, SettleToken, ChargeViolationFee, PreWssConsumeQuota,
         PostConsumeFunding, PostConsumeToken, env
<1>3. UNCHANGED faults \/ \E f : Fails(r, f)
  BY DEF ReserveFunding, SettleFunding, SettleToken, ChargeViolationFee, PreWssConsumeQuota,
         PostConsumeFunding, PostConsumeToken
<1>4. UNCHANGED <<db, paid>>
        \/ \E d \in Int : TakeWallet(r, d) \/ TakeToken(r, d) \/ TakeSub(r, d)
  <2>1. CASE ReserveFunding(r, n)
    BY <1>1, <2>1 DEF ReserveFunding
  <2>2. CASE SettleFunding(r, n)
    BY <1>1, <2>2 DEF SettleFunding
  <2>3. CASE SettleToken(r)
    BY <1>1, <2>3 DEF SettleToken
  <2>4. CASE PostConsumeFunding(r)
    BY <1>1, <2>4 DEF PostConsumeFunding
  <2>5. CASE PostConsumeToken(r)
    BY <1>1, <2>5 DEF PostConsumeToken
  <2>6. CASE (\E violation \in BOOLEAN : ChargeViolationFee(r, violation))
             \/ PreWssConsumeQuota(r, n)
    BY <2>6 DEF ChargeViolationFee, PreWssConsumeQuota
  <2> QED
    BY <2>1, <2>2, <2>3, <2>4, <2>5, <2>6
<1>5. DbOK'
  BY <1>0, <1>4, DbSame, TakeType
<1>6. faults' \in [Requests -> SUBSET AllFaults]
  BY <1>0, <1>3, FailsType
<1> QED
  BY <1>0, <1>2, <1>5, <1>6 DEF Rest

\* And so does a refund.
LEMMA RestRefund ==
  ASSUME BillingInv, NEW r \in Requests, Refund(r) \/ RefundGoroutine(r)
  PROVE  Rest
<1>0. /\ DbOK /\ record \in [Requests -> RecordType]
      /\ faults \in [Requests -> SUBSET AllFaults]
  BY Parts
<1>1. /\ - sess[r].consumed \in Int /\ - sess[r].subPre \in Int
      /\ - sess[r].extra \in Int /\ - sess[r].tok \in Int
  BY Amounts
<1>2. UNCHANGED <<subActive, setup, input>>
  BY DEF Refund, RefundGoroutine, RefundWallet, RefundSubscription, RefundMark, RefundExtra,
         RefundToken, env
<1>3. UNCHANGED faults \/ \E f : Fails(r, f)
  BY DEF Refund, RefundGoroutine, RefundWallet, RefundSubscription, RefundMark, RefundExtra,
         RefundToken
<1>4. UNCHANGED <<db, paid>>
        \/ \E d \in Int : TakeWallet(r, d) \/ TakeToken(r, d) \/ TakeSub(r, d)
  <2>1. CASE Refund(r) \/ RefundMark(r)
    BY <2>1 DEF Refund, RefundMark
  <2>2. CASE RefundWallet(r)
    BY <1>1, <2>2 DEF RefundWallet
  <2>3. CASE RefundSubscription(r)
    BY <1>1, <2>3 DEF RefundSubscription
  <2>4. CASE RefundExtra(r)
    BY <1>1, <2>4 DEF RefundExtra
  <2>5. CASE RefundToken(r)
    BY <1>1, <2>5 DEF RefundToken
  <2> QED
    BY <2>1, <2>2, <2>3, <2>4, <2>5 DEF RefundGoroutine
<1>5. DbOK'
  BY <1>0, <1>4, DbSame, TakeType
<1>6. faults' \in [Requests -> SUBSET AllFaults]
  BY <1>0, <1>3, FailsType
<1>7. UNCHANGED record \/ record' = [record EXCEPT ![r] = "refunded"]
  BY DEF Refund, RefundGoroutine, RefundWallet, RefundSubscription, RefundMark, RefundExtra,
         RefundToken
<1>8. record' \in [Requests -> RecordType]
  BY <1>0, <1>7 DEF RecordType
<1> QED
  BY <1>2, <1>5, <1>6, <1>8 DEF Rest

-----------------------------------------------------------------------------
(* What the steps of a request give it goes together.                       *)

\* Choosing the funding source.
LEMMA SelectStep ==
  ASSUME BillingInv, NEW r \in Requests,
         \/ Start(r) \/ ReadFails(r) \/ CheckSubscription(r) \/ CheckOverflow(r)
         \/ TryWallet(r) \/ TrySubscription(r)
  PROVE  \E x, y, z : Own(r, x, y, z)
<1>0. /\ req[r] \in ReqType /\ sess[r] \in SessType /\ refund[r] \in RefundType
      /\ UnderWay(req[r], sess[r], refund[r])
  BY Parts
<1>1. /\ req[r].pc \in {"new", "check", "wallet", "sub", "overflow"}
      /\ UNCHANGED refund
  BY DEF Start, ReadFails, CheckSubscription, CheckOverflow, TryWallet, TrySubscription
<1>2. ~ req[r].failed /\ ~ sess[r].refunded /\ refund[r].pc = "none"
  BY <1>0, <1>1 DEF UnderWay, Ended
<1>3. tokenQuota \in Int /\ input[r].want \in Nat
  BY Parts, Amounts DEF DbOK
<1>4. \E x : x \in ReqType /\ x.pc \in {"check", "sub", "wallet", "rejected", "open", "token"}
             /\ ~ x.failed /\ (x.pc = "token" => x.op = "pre")
             /\ req' = [req EXCEPT ![r] = x]
  <2>1. CASE Start(r)
    <3> DEFINE x(pc) == [req[r] EXCEPT !.pc = pc, !.tokenSeen = tokenQuota]
    <3>1. ASSUME NEW pc \in {"check", "sub", "wallet"}
          PROVE  x(pc) \in ReqType /\ x(pc).pc = pc /\ x(pc).failed = req[r].failed
      BY <1>0, <1>3 DEF ReqType, PCs
    <3>2. \E pc \in {"check", "sub", "wallet"} : req' = [req EXCEPT ![r] = x(pc)]
      BY <2>1 DEF Start
    <3> HIDE DEF x
    <3> QED
      BY <1>2, <3>1, <3>2
  <2>2. CASE \E pc \in {"sub", "wallet", "rejected"} : Goto(r, pc)
    <3> DEFINE x(pc) == [req[r] EXCEPT !.pc = pc]
    <3>1. ASSUME NEW pc \in {"sub", "wallet", "rejected"}
          PROVE  x(pc) \in ReqType /\ x(pc).pc = pc /\ x(pc).failed = req[r].failed
      BY <1>0 DEF ReqType, PCs
    <3>2. \E pc \in {"sub", "wallet", "rejected"} : req' = [req EXCEPT ![r] = x(pc)]
      BY <2>2 DEF Goto
    <3> HIDE DEF x
    <3> QED
      BY <1>2, <3>1, <3>2
  <2>3. CASE \E pc \in {"open", "token"}, n \in Nat :
               req' = [req EXCEPT ![r] = [@ EXCEPT !.pc = pc, !.op = "pre", !.amt = n]]
    <3> DEFINE x(pc, n) == [req[r] EXCEPT !.pc = pc, !.op = "pre", !.amt = n]
    <3>1. ASSUME NEW pc \in {"open", "token"}, NEW n \in Nat
          PROVE  /\ x(pc, n) \in ReqType /\ x(pc, n).pc = pc /\ x(pc, n).op = "pre"
                 /\ x(pc, n).failed = req[r].failed
      BY <1>0 DEF ReqType, PCs
    <3>2. PICK pc \in {"open", "token"}, n \in Nat : req' = [req EXCEPT ![r] = x(pc, n)]
      BY <2>3
    <3>3. x(pc, n) \in ReqType /\ x(pc, n).pc \in {"open", "token"} /\ x(pc, n).op = "pre"
          /\ ~ x(pc, n).failed
      <4>1. /\ x(pc, n) \in ReqType /\ x(pc, n).pc = pc /\ x(pc, n).op = "pre"
            /\ x(pc, n).failed = req[r].failed
        BY <3>1
      <4> HIDE DEF x
      <4> QED
        BY <1>2, <4>1
    <3> HIDE DEF x
    <3> QED
      BY <3>2, <3>3
  <2>4. CASE ReadFails(r) \/ CheckSubscription(r) \/ CheckOverflow(r)
    BY <2>2, <2>4 DEF ReadFails, CheckSubscription, CheckOverflow
  <2>5. CASE TryWallet(r)
    BY <1>3, <2>2, <2>3, <2>5 DEF TryWallet
  <2>6. CASE TrySubscription(r)
    BY <1>3, <2>3, <2>6 DEF TrySubscription
  <2> QED
    BY <2>1, <2>4, <2>5, <2>6
<1>5. \E y : y \in SessType /\ ~ y.refunded /\ sess' = [sess EXCEPT ![r] = y]
  <2>1. CASE UNCHANGED sess
    BY <1>0, <1>2, <2>1, WriteBack
  <2>2. CASE \E b \in BOOLEAN : sess' = [sess EXCEPT ![r] =
               [NoSession EXCEPT !.funding = "wallet", !.trusted = b]]
    <3>1. ASSUME NEW b \in BOOLEAN
          PROVE  LET y == [NoSession EXCEPT !.funding = "wallet", !.trusted = b]
                 IN y \in SessType /\ ~ y.refunded
      BY DEF NoSession, SessType
    <3> QED
      BY <2>2, <3>1
  <2>3. CASE sess' = [sess EXCEPT ![r] = [NoSession EXCEPT !.funding = "subscription"]]
    <3>1. LET y == [NoSession EXCEPT !.funding = "subscription"]
          IN y \in SessType /\ ~ y.refunded
      BY DEF NoSession, SessType
    <3> QED
      BY <2>3, <3>1
  <2>4. shouldTrust(r) \in BOOLEAN
    BY DEF shouldTrust
  <2> QED
    BY <2>1, <2>2, <2>3, <2>4 DEF Start, ReadFails, CheckSubscription, CheckOverflow,
                                  TryWallet, TrySubscription
<1>6. refund' = [refund EXCEPT ![r] = refund[r]]
  BY <1>1, WriteBack
<1>7. ASSUME NEW x, x.pc \in {"check", "sub", "wallet", "rejected", "open", "token"},
             ~ x.failed, x.pc = "token" => x.op = "pre", NEW y, ~ y.refunded
      PROVE  UnderWay(x, y, refund[r])
  BY <1>0, <1>2, <1>7 DEF UnderWay
<1>8. PICK x : /\ x \in ReqType
               /\ x.pc \in {"check", "sub", "wallet", "rejected", "open", "token"}
               /\ ~ x.failed /\ (x.pc = "token" => x.op = "pre")
               /\ req' = [req EXCEPT ![r] = x]
  BY <1>4
<1>9. PICK y : y \in SessType /\ ~ y.refunded /\ sess' = [sess EXCEPT ![r] = y]
  BY <1>5
<1>10. UnderWay(x, y, refund[r])
  BY <1>7, <1>8, <1>9
<1>11. Own(r, x, y, refund[r])
  BY <1>0, <1>6, <1>8, <1>9, <1>10 DEF Own
<1> QED
  BY <1>11

\* A step that moves the program counter of r and replaces its session.
LEMMA GotoOwn ==
  ASSUME BillingInv, NEW r \in Requests, NEW pc \in PCs, NEW y \in SessType,
         Goto(r, pc), sess' = [sess EXCEPT ![r] = y], UNCHANGED refund,
         pc \in {"token", "tokenTake", "reserveRollback"}
           => y = sess[r] /\ req[r].pc \in {"token", "tokenTake"},
         pc = "reserveRollback" => req[r].op = "reserve",
         refund[r].pc # "none" => y.refunded,
         y.refunded => req[r].failed /\ ~ y.fSettled /\ ~ y.settled,
         req[r].failed => pc \in Ended,
         pc = "settleToken" => y.fSettled
  PROVE  \E x, v, z : Own(r, x, v, z)
<1> DEFINE x == [req[r] EXCEPT !.pc = pc]
<1>0. /\ req[r] \in ReqType /\ refund[r] \in RefundType
      /\ UnderWay(req[r], sess[r], refund[r])
  BY Parts
<1>1. x \in ReqType
  BY <1>0 DEF ReqType
<1>2. x.pc = pc /\ x.op = req[r].op /\ x.amt = req[r].amt /\ x.failed = req[r].failed
  BY <1>0 DEF ReqType
<1>3. req' = [req EXCEPT ![r] = x]
  BY DEF Goto
<1>4. refund' = [refund EXCEPT ![r] = refund[r]]
  BY WriteBack
<1> HIDE DEF x
<1>5. UnderWay(x, y, refund[r])
  BY <1>0, <1>2 DEF UnderWay
<1>6. Own(r, x, y, refund[r])
  BY <1>0, <1>1, <1>3, <1>4, <1>5 DEF Own
<1> QED
  BY <1>6

\* A request that has not failed is not being refunded.
LEMMA NotFailed ==
  ASSUME BillingInv, NEW r \in Requests, ~ req[r].failed \/ req[r].pc \notin Ended
  PROVE  ~ req[r].failed /\ ~ sess[r].refunded /\ refund[r].pc = "none"
<1>1. UnderWay(req[r], sess[r], refund[r])
  BY Parts
<1> QED
  BY <1>1 DEF UnderWay

\* PreConsumeTokenQuota, for preConsume and for Reserve.
LEMMA TokenStep ==
  ASSUME BillingInv, NEW r \in Requests, CheckToken(r) \/ DecreaseToken(r)
  PROVE  \E x, y, z : Own(r, x, y, z)
<1>0. /\ req[r].pc \in {"token", "tokenTake"} /\ UNCHANGED refund
      /\ TokenTaken(r) \/ TokenRefused(r) \/ (Goto(r, "tokenTake") /\ UNCHANGED sess)
  BY DEF CheckToken, DecreaseToken
<1>1. ~ req[r].failed /\ ~ sess[r].refunded /\ refund[r].pc = "none"
  BY <1>0, NotFailed DEF Ended
<1>2. sess[r] \in SessType /\ UnderWay(req[r], sess[r], refund[r])
  BY Parts
<1>3. req[r].amt \in Nat /\ sess[r].pre \in Nat /\ sess[r].tok \in Nat /\ sess[r].extra \in Nat
  BY Amounts
<1>4. req[r].op \in {"pre", "reserve"}
  BY <1>0, <1>2 DEF UnderWay
<1>5. {"funding", "open", "rejected", "reserveRollback", "tokenTake"} \subseteq PCs
  BY DEF PCs
<1>6. CASE TokenTaken(r)
  <2> DEFINE n == req[r].amt
             y1 == [sess[r] EXCEPT !.tok = n]
             y2(a, b, c) == [sess[r] EXCEPT !.pre = a, !.tok = b, !.extra = c]
             y == y2(sess[r].pre + n, sess[r].tok + n, sess[r].extra + n)
  <2>1. y1 \in SessType /\ y1.refunded = sess[r].refunded
    BY <1>2, <1>3 DEF SessType
  <2>2. y \in SessType /\ y.refunded = sess[r].refunded
    <3>1. ASSUME NEW a \in Nat, NEW b \in Nat, NEW c \in Nat
          PROVE  y2(a, b, c) \in SessType /\ y2(a, b, c).refunded = sess[r].refunded
      BY <1>2 DEF SessType
    <3>2. sess[r].pre + n \in Nat /\ sess[r].tok + n \in Nat /\ sess[r].extra + n \in Nat
      BY <1>3
    <3> HIDE DEF y2
    <3> QED
      BY <3>1, <3>2
  <2>3. \/ Goto(r, "funding") /\ sess' = [sess EXCEPT ![r] = y1]
        \/ Goto(r, "open") /\ sess' = [sess EXCEPT ![r] = y]
    <3>1. CASE req[r].op = "pre"
      BY <1>6, <3>1 DEF TokenTaken
    <3>2. CASE req[r].op # "pre"
      <4>1. Goto(r, "open")
        BY <1>6, <3>2 DEF TokenTaken
      <4>2. sess' = [sess EXCEPT ![r] =
              [sess[r] EXCEPT !.pre = sess[r].pre + n, !.tok = sess[r].tok + n,
                              !.extra = sess[r].extra + n]]
        BY <1>6, <3>2 DEF TokenTaken
      <4> QED
        BY <4>1, <4>2, Zenon
    <3> QED
      BY <3>1, <3>2
  <2> HIDE DEF y1, y
  <2> QED
    BY <1>0, <1>1, <1>5, <2>1, <2>2, <2>3, GotoOwn
<1>7. CASE TokenRefused(r)
  <2>1. NoSession \in SessType /\ ~ NoSession.refunded
    BY DEF NoSession, SessType
  <2>2. \/ Goto(r, "rejected") /\ sess' = [sess EXCEPT ![r] = NoSession]
        \/ req[r].op = "reserve" /\ Goto(r, "reserveRollback") /\ UNCHANGED sess
    BY <1>4, <1>7 DEF TokenRefused
  <2>3. CASE Goto(r, "rejected") /\ sess' = [sess EXCEPT ![r] = NoSession]
    BY <1>0, <1>1, <1>5, <2>1, <2>3, GotoOwn DEF Ended
  <2>4. CASE req[r].op = "reserve" /\ Goto(r, "reserveRollback") /\ UNCHANGED sess
    <3>1. sess' = [sess EXCEPT ![r] = sess[r]]
      BY <2>4, WriteBack
    <3> QED
      BY <1>0, <1>1, <1>2, <1>5, <2>4, <3>1, GotoOwn
  <2> QED
    BY <2>2, <2>3, <2>4
<1>8. CASE Goto(r, "tokenTake") /\ UNCHANGED sess
  <2>1. sess' = [sess EXCEPT ![r] = sess[r]]
    BY <1>8, WriteBack
  <2> QED
    BY <1>0, <1>1, <1>2, <1>5, <1>8, <2>1, GotoOwn
<1> QED
  BY <1>0, <1>6, <1>7, <1>8

\* FundingSource.PreConsume and the rollback of the token.
LEMMA FundingStep ==
  ASSUME BillingInv, NEW r \in Requests,
         PreConsumeWallet(r) \/ PreConsumeSubscription(r) \/ RollbackToken(r)
  PROVE  \E x, y, z : Own(r, x, y, z)
<1> DEFINE y1 == [sess[r] EXCEPT !.pre = req[r].amt, !.consumed = req[r].amt]
           y2 == [sess[r] EXCEPT !.pre = req[r].amt, !.subPre = req[r].amt]
           x(b) == [req[r] EXCEPT !.pc = "rollback", !.insufficient = b]
<1>0. req[r].pc \in {"funding", "rollback"} /\ UNCHANGED refund
  BY DEF PreConsumeWallet, PreConsumeSubscription, RollbackToken
<1>1. ~ req[r].failed /\ ~ sess[r].refunded /\ refund[r].pc = "none"
  BY <1>0, NotFailed DEF Ended
<1>2. /\ req[r] \in ReqType /\ sess[r] \in SessType /\ refund[r] \in RefundType
      /\ UnderWay(req[r], sess[r], refund[r]) /\ req[r].amt \in Nat
  BY Parts, Amounts
<1>3. y1 \in SessType /\ y1.refunded = sess[r].refunded
  BY <1>2 DEF SessType
<1>4. y2 \in SessType /\ y2.refunded = sess[r].refunded
  BY <1>2 DEF SessType
<1>5. NoSession \in SessType /\ ~ NoSession.refunded
  BY DEF NoSession, SessType
<1>6. \/ Goto(r, "open") /\ (sess' = [sess EXCEPT ![r] = y1] \/ sess' = [sess EXCEPT ![r] = y2])
      \/ (Goto(r, "overflow") \/ Goto(r, "rejected")) /\ sess' = [sess EXCEPT ![r] = NoSession]
      \/ \E b \in BOOLEAN : req' = [req EXCEPT ![r] = x(b)] /\ UNCHANGED sess
  BY DEF PreConsumeWallet, PreConsumeSubscription, RollbackToken, Opened, FundingRefused
<1>7. {"open", "overflow", "rejected"} \subseteq PCs
  BY DEF PCs
<1>8. CASE \E b \in BOOLEAN : req' = [req EXCEPT ![r] = x(b)] /\ UNCHANGED sess
  <2>1. PICK b \in BOOLEAN : req' = [req EXCEPT ![r] = x(b)] /\ UNCHANGED sess
    BY <1>8
  <2>2. x(b) \in ReqType /\ x(b).pc = "rollback" /\ x(b).failed = req[r].failed
    BY <1>2 DEF ReqType, PCs
  <2>3. sess' = [sess EXCEPT ![r] = sess[r]] /\ refund' = [refund EXCEPT ![r] = refund[r]]
    BY <1>0, <2>1, WriteBack
  <2> HIDE DEF x
  <2>4. UnderWay(x(b), sess[r], refund[r])
    BY <1>1, <1>2, <2>2 DEF UnderWay
  <2>5. Own(r, x(b), sess[r], refund[r])
    BY <1>2, <2>1, <2>2, <2>3, <2>4 DEF Own
  <2> QED
    BY <2>5
<1> HIDE DEF y1, y2, x
<1> QED
  BY <1>0, <1>1, <1>3, <1>4, <1>5, <1>6, <1>7, <1>8, GotoOwn

\* Reserve: the amount under way is part of what a wallet session consumed.
LEMMA ReserveStep ==
  ASSUME BillingInv, NEW r \in Requests, NEW n \in Nat, ReserveFunding(r, n)
  PROVE  \E x, y, z : Own(r, x, y, z)
<1> DEFINE d == n - sess[r].pre
           x == [req[r] EXCEPT !.pc = "token", !.op = "reserve", !.amt = d]
           y == [sess[r] EXCEPT !.consumed = sess[r].consumed + d]
<1>0. /\ req[r] \in ReqType /\ sess[r] \in SessType /\ refund[r] \in RefundType
      /\ UnderWay(req[r], sess[r], refund[r])
  BY Parts
<1>1. /\ ~ req[r].failed /\ d > 0 /\ req' = [req EXCEPT ![r] = x] /\ UNCHANGED refund
      /\ \/ sess[r].funding = "wallet" /\ sess' = [sess EXCEPT ![r] = y]
         \/ sess[r].funding = "subscription" /\ UNCHANGED sess
  BY DEF ReserveFunding
<1>2. ~ req[r].failed /\ ~ sess[r].refunded /\ refund[r].pc = "none"
  BY <1>1, NotFailed
<1>3. d \in Nat /\ sess[r].consumed \in Nat
  BY <1>1, Amounts
<1>4. refund' = [refund EXCEPT ![r] = refund[r]]
  BY <1>1, WriteBack
<1> HIDE DEF d
<1>5. x \in ReqType
  BY <1>0, <1>3 DEF ReqType, PCs
<1>6. x.pc = "token" /\ x.op = "reserve" /\ x.amt = d /\ x.failed = req[r].failed
  BY <1>0 DEF ReqType
<1> HIDE DEF x
<1>7. CASE sess[r].funding = "wallet" /\ sess' = [sess EXCEPT ![r] = y]
  <2>1. sess[r].consumed + d \in Nat /\ sess[r].consumed + d >= d
    BY <1>3
  <2>2. y \in SessType
    BY <1>0, <2>1 DEF SessType
  <2>3. y.consumed = sess[r].consumed + d /\ y.refunded = sess[r].refunded
    BY <1>0 DEF SessType
  <2> HIDE DEF y
  <2>4. UnderWay(x, y, refund[r])
    BY <1>0, <1>2, <1>6, <2>1, <2>3 DEF UnderWay
  <2>5. Own(r, x, y, refund[r])
    BY <1>0, <1>1, <1>4, <1>5, <1>7, <2>2, <2>4 DEF Own
  <2> QED
    BY <2>5
<1>8. CASE sess[r].funding = "subscription" /\ UNCHANGED sess
  <2>1. sess' = [sess EXCEPT ![r] = sess[r]]
    BY <1>8, WriteBack
  <2>2. UnderWay(x, sess[r], refund[r])
    BY <1>0, <1>2, <1>6, <1>8 DEF UnderWay
  <2>3. Own(r, x, sess[r], refund[r])
    BY <1>0, <1>1, <1>4, <1>5, <2>1, <2>2 DEF Own
  <2> QED
    BY <2>3
<1> QED
  BY <1>1, <1>7, <1>8

\* rollbackFundingReserve takes no more back than the session consumed.
LEMMA ReserveRollbackStep ==
  ASSUME BillingInv, NEW r \in Requests, ReserveRollback(r)
  PROVE  \E x, y, z : Own(r, x, y, z)
<1> DEFINE y == [sess[r] EXCEPT !.consumed = sess[r].consumed - req[r].amt]
<1>0. /\ sess[r] \in SessType /\ UnderWay(req[r], sess[r], refund[r])
      /\ req[r].amt \in Nat /\ sess[r].consumed \in Nat
  BY Parts, Amounts
<1>1. /\ req[r].pc = "reserveRollback" /\ UNCHANGED refund /\ Goto(r, "open")
      /\ \/ sess[r].funding = "wallet" /\ sess' = [sess EXCEPT ![r] = y]
         \/ UNCHANGED sess
  BY DEF ReserveRollback
<1>2. ~ req[r].failed /\ ~ sess[r].refunded /\ refund[r].pc = "none"
  BY <1>1, NotFailed DEF Ended
<1>3. "open" \in PCs
  BY DEF PCs
<1>4. CASE sess[r].funding = "wallet" /\ sess' = [sess EXCEPT ![r] = y]
  <2>1. sess[r].consumed - req[r].amt \in Nat
    BY <1>0, <1>1, <1>4 DEF UnderWay
  <2>2. y \in SessType
    BY <1>0, <2>1 DEF SessType
  <2>3. y.refunded = sess[r].refunded
    BY <1>0 DEF SessType
  <2> HIDE DEF y
  <2> QED
    BY <1>1, <1>2, <1>3, <1>4, <2>2, <2>3, GotoOwn
<1>5. CASE UNCHANGED sess
  <2>1. sess' = [sess EXCEPT ![r] = sess[r]]
    BY <1>5, WriteBack
  <2> QED
    BY <1>0, <1>1, <1>2, <1>3, <2>1, GotoOwn
<1> QED
  BY <1>1, <1>4, <1>5

\* Settle: only a session that is not being refunded is settled.
LEMMA SettleStep ==
  ASSUME BillingInv, NEW r \in Requests, NEW n \in Nat, SettleFunding(r, n) \/ SettleToken(r)
  PROVE  \E x, y, z : Own(r, x, y, z)
<1> DEFINE y1 == [sess[r] EXCEPT !.settled = TRUE, !.actual = n]
           y2 == [sess[r] EXCEPT !.fSettled = TRUE, !.actual = n]
           y3 == [sess[r] EXCEPT !.settled = TRUE]
<1>0. /\ req[r] \in ReqType /\ sess[r] \in SessType /\ refund[r] \in RefundType
      /\ UnderWay(req[r], sess[r], refund[r])
  BY Parts
<1>1. ~ req[r].failed \/ req[r].pc \notin Ended
  BY DEF SettleFunding, SettleToken, Ended
<1>2. /\ UNCHANGED refund
      /\ \/ Goto(r, "settleToken") /\ sess' = [sess EXCEPT ![r] = y2]
         \/ Goto(r, "open") /\ sess' = [sess EXCEPT ![r] = y3]
         \/ UNCHANGED req /\ sess' = [sess EXCEPT ![r] = y1] /\ req[r].pc = "open"
         \/ UNCHANGED <<req, sess>>
  BY DEF SettleFunding, SettleToken
<1>3. ~ req[r].failed /\ ~ sess[r].refunded /\ refund[r].pc = "none"
  BY <1>1, NotFailed
<1>4. y1 \in SessType /\ y1.refunded = sess[r].refunded
  BY <1>0 DEF SessType
<1>5. y2 \in SessType /\ y2.refunded = sess[r].refunded /\ y2.fSettled
  BY <1>0 DEF SessType
<1>6. y3 \in SessType /\ y3.refunded = sess[r].refunded
  BY <1>0 DEF SessType
<1>7. {"open", "settleToken"} \subseteq PCs
  BY DEF PCs
<1> HIDE DEF y1, y2, y3
<1>8. CASE \/ Goto(r, "settleToken") /\ sess' = [sess EXCEPT ![r] = y2]
           \/ Goto(r, "open") /\ sess' = [sess EXCEPT ![r] = y3]
  BY <1>2, <1>3, <1>5, <1>6, <1>7, <1>8, GotoOwn
<1>9. CASE UNCHANGED req /\ sess' = [sess EXCEPT ![r] = y1] /\ req[r].pc = "open"
  <2>1. UnderWay(req[r], y1, refund[r])
    BY <1>0, <1>3, <1>4, <1>9 DEF UnderWay
  <2>2. req' = [req EXCEPT ![r] = req[r]] /\ refund' = [refund EXCEPT ![r] = refund[r]]
    BY <1>2, <1>9, WriteBack
  <2>3. Own(r, req[r], y1, refund[r])
    BY <1>0, <1>4, <1>9, <2>1, <2>2 DEF Own
  <2> QED
    BY <2>3
<1>10. CASE UNCHANGED <<req, sess>>
  <2>1. /\ req' = [req EXCEPT ![r] = req[r]] /\ sess' = [sess EXCEPT ![r] = sess[r]]
        /\ refund' = [refund EXCEPT ![r] = refund[r]]
    BY <1>2, <1>10, WriteBack
  <2>2. Own(r, req[r], sess[r], refund[r])
    BY <1>0, <2>1 DEF Own
  <2> QED
    BY <2>2
<1> QED
  BY <1>2, <1>8, <1>9, <1>10

\* Refund: only a session that is not settled, and only once.
LEMMA RefundDecision ==
  ASSUME BillingInv, NEW r \in Requests, Refund(r)
  PROVE  \E x, y, z : Own(r, x, y, z)
<1> DEFINE x == [req[r] EXCEPT !.failed = TRUE]
           y == [sess[r] EXCEPT !.refunded = TRUE]
           z == [refund[r] EXCEPT !.pc = "funding"]
<1>0. /\ req[r] \in ReqType /\ sess[r] \in SessType /\ refund[r] \in RefundType
      /\ UnderWay(req[r], sess[r], refund[r])
  BY Parts
<1>1. /\ req[r].pc = "open" /\ req' = [req EXCEPT ![r] = x]
      /\ \/ /\ needsRefund(r)
            /\ sess' = [sess EXCEPT ![r] = y] /\ refund' = [refund EXCEPT ![r] = z]
         \/ UNCHANGED <<sess, refund>>
  BY DEF Refund
<1>2. x \in ReqType
  BY <1>0 DEF ReqType
<1>3. x.pc = req[r].pc /\ x.failed = TRUE
  BY <1>0 DEF ReqType
<1> HIDE DEF x
<1>4. CASE /\ needsRefund(r)
           /\ sess' = [sess EXCEPT ![r] = y] /\ refund' = [refund EXCEPT ![r] = z]
  <2>1. ~ sess[r].settled /\ ~ sess[r].refunded /\ ~ sess[r].fSettled
    BY <1>4 DEF needsRefund
  <2>2. y \in SessType
    BY <1>0 DEF SessType
  <2>3. y.refunded = TRUE /\ y.settled = sess[r].settled /\ y.fSettled = sess[r].fSettled
    BY <1>0 DEF SessType
  <2>4. z \in RefundType
    BY <1>0 DEF RefundType
  <2>5. z.pc = "funding" /\ z.attempt = refund[r].attempt
    BY <1>0 DEF RefundType
  <2>6. refund[r].attempt < maxAttempts
    BY <1>0, <2>1 DEF UnderWay
  <2> HIDE DEF y, z
  <2>7. UnderWay(x, y, z)
    BY <1>1, <1>3, <2>1, <2>3, <2>5, <2>6 DEF UnderWay, Ended
  <2>8. Own(r, x, y, z)
    BY <1>1, <1>2, <1>4, <2>2, <2>4, <2>7 DEF Own
  <2> QED
    BY <2>8
<1>5. CASE UNCHANGED <<sess, refund>>
  <2>1. sess' = [sess EXCEPT ![r] = sess[r]] /\ refund' = [refund EXCEPT ![r] = refund[r]]
    BY <1>5, WriteBack
  <2>2. UnderWay(x, sess[r], refund[r])
    BY <1>0, <1>1, <1>3 DEF UnderWay, Ended
  <2>3. Own(r, x, sess[r], refund[r])
    BY <1>0, <1>1, <1>2, <2>1, <2>2 DEF Own
  <2> QED
    BY <2>3
<1> QED
  BY <1>1, <1>4, <1>5

\* The refund goroutine gives up before it runs out of attempts.
LEMMA RefundGoroutineStep ==
  ASSUME BillingInv, NEW r \in Requests, RefundGoroutine(r)
  PROVE  \E x, y, z : Own(r, x, y, z)
<1> DEFINE z1(pc) == [refund[r] EXCEPT !.pc = pc]
           z2(pc) == [pc |-> pc, attempt |-> refund[r].attempt + 1]
           pc2 == IF refund[r].attempt + 1 < maxAttempts THEN "funding" ELSE "extra"
<1>0. /\ req[r] \in ReqType /\ sess[r] \in SessType /\ refund[r] \in RefundType
      /\ UnderWay(req[r], sess[r], refund[r])
  BY Parts
<1>1. /\ refund[r].pc # "none" /\ UNCHANGED <<req, sess>>
      /\ \/ \E pc \in {"token", "extra", "done"} : refund' = [refund EXCEPT ![r] = z1(pc)]
         \/ refund[r].pc = "funding" /\ refund' = [refund EXCEPT ![r] = z1("mark")]
         \/ refund[r].pc \in {"funding", "mark"} /\ refund' = [refund EXCEPT ![r] = z2(pc2)]
  BY DEF RefundGoroutine, RefundWallet, RefundSubscription, RefundMark, RefundExtra,
         RefundToken, RefundGoto, RefundAttemptFailed
<1>2. req' = [req EXCEPT ![r] = req[r]] /\ sess' = [sess EXCEPT ![r] = sess[r]]
  BY <1>1, WriteBack
<1>3. refund[r].attempt \in 0 .. maxAttempts
  BY <1>0 DEF RefundType
<1>4. \E z : /\ z \in RefundType /\ refund' = [refund EXCEPT ![r] = z]
             /\ z.pc \in {"funding", "mark"} => z.attempt < maxAttempts
             /\ z.pc # "none"
  <2>1. ASSUME NEW pc \in {"token", "extra", "done", "mark"}
        PROVE  z1(pc) \in RefundType /\ z1(pc).pc = pc /\ z1(pc).attempt = refund[r].attempt
    BY <1>0 DEF RefundType
  <2>2. CASE \E pc \in {"token", "extra", "done"} : refund' = [refund EXCEPT ![r] = z1(pc)]
    <3> HIDE DEF z1
    <3> QED
      BY <2>1, <2>2
  <2>3. CASE refund[r].pc = "funding" /\ refund' = [refund EXCEPT ![r] = z1("mark")]
    <3>1. refund[r].attempt < maxAttempts
      BY <1>0, <2>3 DEF UnderWay
    <3> HIDE DEF z1
    <3> QED
      BY <2>1, <2>3, <3>1
  <2>4. CASE refund[r].pc \in {"funding", "mark"} /\ refund' = [refund EXCEPT ![r] = z2(pc2)]
    <3>1. refund[r].attempt < maxAttempts
      BY <1>0, <2>4 DEF UnderWay
    <3>2. refund[r].attempt + 1 \in 0 .. maxAttempts
      BY <1>3, <3>1 DEF maxAttempts
    <3>3. z2(pc2) \in RefundType
      BY <3>2 DEF RefundType
    <3>4. z2(pc2).pc = pc2 /\ z2(pc2).attempt = refund[r].attempt + 1
      OBVIOUS
    <3> HIDE DEF z2
    <3> QED
      BY <2>4, <3>3, <3>4
  <2> QED
    BY <1>1, <2>2, <2>3, <2>4
<1>5. PICK z : /\ z \in RefundType /\ refund' = [refund EXCEPT ![r] = z]
               /\ z.pc \in {"funding", "mark"} => z.attempt < maxAttempts
               /\ z.pc # "none"
  BY <1>4
<1>6. UnderWay(req[r], sess[r], z)
  BY <1>0, <1>1, <1>5 DEF UnderWay
<1>7. Own(r, req[r], sess[r], z)
  BY <1>0, <1>2, <1>5, <1>6 DEF Own
<1> QED
  BY <1>7

\* Charges beside the session leave the session alone.
LEMMA PostStep ==
  ASSUME BillingInv, NEW r \in Requests, NEW n \in Nat,
         \/ \E violation \in BOOLEAN : ChargeViolationFee(r, violation)
         \/ PreWssConsumeQuota(r, n) \/ PostConsumeFunding(r) \/ PostConsumeToken(r)
  PROVE  \E x, y, z : Own(r, x, y, z)
<1> DEFINE x1(pc) == [req[r] EXCEPT !.pc = pc, !.op = "fee", !.amt = FeeQuota]
           x2(pc, m) == [req[r] EXCEPT !.total = m, !.op = "wss", !.amt = n, !.pc = pc]
           x3(m) == [req[r] EXCEPT !.pc = "postToken", !.post = m]
           x4(pc) == [req[r] EXCEPT !.pc = pc]
<1>0. /\ req[r] \in ReqType /\ sess[r] \in SessType /\ refund[r] \in RefundType
      /\ UnderWay(req[r], sess[r], refund[r])
  BY Parts
<1>1. req[r].total \in Nat /\ req[r].post \in Nat /\ req[r].amt \in Nat /\ FeeQuota \in Nat
  BY Amounts, BillingAssumption DEF BillingAssumption
<1>2. UNCHANGED <<sess, refund>>
  BY DEF ChargeViolationFee, PreWssConsumeQuota, PostConsumeFunding, PostConsumeToken
<1>3. \E x : /\ x \in ReqType /\ req' = [req EXCEPT ![r] = x]
             /\ x.pc \in Ended /\ x.failed = req[r].failed
  <2>1. ASSUME NEW pc \in Ended
        PROVE  x1(pc) \in ReqType /\ x1(pc).pc = pc /\ x1(pc).failed = req[r].failed
    BY <1>0, <1>1 DEF ReqType, PCs, Ended
  <2>2. ASSUME NEW pc \in Ended, NEW m \in Nat
        PROVE  x2(pc, m) \in ReqType /\ x2(pc, m).pc = pc /\ x2(pc, m).failed = req[r].failed
    BY <1>0 DEF ReqType, PCs, Ended
  <2>3. ASSUME NEW m \in Nat
        PROVE  x3(m) \in ReqType /\ x3(m).pc \in Ended /\ x3(m).failed = req[r].failed
    BY <1>0 DEF ReqType, PCs, Ended
  <2>4. ASSUME NEW pc \in Ended
        PROVE  x4(pc) \in ReqType /\ x4(pc).pc = pc /\ x4(pc).failed = req[r].failed
    BY <1>0 DEF ReqType, PCs, Ended
  <2>5. req[r].total + n \in Nat /\ req[r].post + req[r].amt \in Nat
    BY <1>1
  <2>6. \/ \E pc \in Ended : req' = [req EXCEPT ![r] = x1(pc)]
        \/ \E pc \in Ended : req' = [req EXCEPT ![r] = x2(pc, req[r].total + n)]
        \/ req' = [req EXCEPT ![r] = x3(req[r].post + req[r].amt)]
        \/ \E pc \in Ended : req' = [req EXCEPT ![r] = x4(pc)]
    <3>1. CASE \E violation \in BOOLEAN : ChargeViolationFee(r, violation)
      BY <3>1 DEF ChargeViolationFee, Ended
    <3>2. CASE PreWssConsumeQuota(r, n)
      BY <3>2 DEF PreWssConsumeQuota, Ended
    <3>3. CASE PostConsumeFunding(r)
      BY <3>3 DEF PostConsumeFunding, Goto, AfterPost, Ended
    <3>4. CASE PostConsumeToken(r)
      BY <3>4 DEF PostConsumeToken, Goto, AfterPost, Ended
    <3> QED
      BY <3>1, <3>2, <3>3, <3>4
  <2> HIDE DEF x1, x2, x3, x4
  <2> QED
    BY <2>1, <2>2, <2>3, <2>4, <2>5, <2>6
<1>4. sess' = [sess EXCEPT ![r] = sess[r]] /\ refund' = [refund EXCEPT ![r] = refund[r]]
  BY <1>2, WriteBack
<1>5. PICK x : /\ x \in ReqType /\ req' = [req EXCEPT ![r] = x]
               /\ x.pc \in Ended /\ x.failed = req[r].failed
  BY <1>3
<1>6. UnderWay(x, sess[r], refund[r])
  BY <1>0, <1>5 DEF UnderWay, Ended
<1>7. Own(r, x, sess[r], refund[r])
  BY <1>0, <1>4, <1>5, <1>6 DEF Own
<1> QED
  BY <1>7

-----------------------------------------------------------------------------

\* Every step of a request keeps the invariant.
LEMMA StepKeeps ==
  ASSUME BillingInv, NEW r \in Requests, Step(r)
  PROVE  BillingInv'
<1>0. 0 \in Nat
  OBVIOUS
<1>1. CASE Start(r) \/ NewBillingSession(r)
  <2>1. Rest
    BY <1>1, RestNew
  <2>2. \E x, y, z : Own(r, x, y, z)
    BY <1>1, SelectStep, TokenStep, FundingStep, ReserveRollbackStep DEF NewBillingSession
  <2> QED
    BY <2>1, <2>2, OwnStep
<1>2. CASE \E target \in ReserveTargets : ReserveFunding(r, target)
  <2>1. PICK n \in Nat : ReserveFunding(r, n)
    BY <1>2, BillingAssumption DEF BillingAssumption
  <2> QED
    BY <2>1, ReserveStep, RestUse, OwnStep
<1>3. CASE \E actual \in ActualOf(r) : SettleFunding(r, actual)
  <2>1. req[r].total \in Nat
    BY Amounts
  <2>2. PICK n \in Nat : SettleFunding(r, n)
    BY <1>3, <2>1, BillingAssumption DEF BillingAssumption, ActualOf
  <2> QED
    BY <2>2, SettleStep, RestUse, OwnStep
<1>4. CASE SettleToken(r)
  BY <1>0, <1>4, SettleStep, RestUse, OwnStep
<1>5. CASE Refund(r)
  BY <1>5, RefundDecision, RestRefund, OwnStep
<1>6. CASE RefundGoroutine(r)
  BY <1>6, RefundGoroutineStep, RestRefund, OwnStep
<1>7. CASE \E violation \in BOOLEAN : ChargeViolationFee(r, violation)
  BY <1>0, <1>7, PostStep, RestUse, OwnStep
<1>8. CASE \E quota \in ActualQuotas : PreWssConsumeQuota(r, quota)
  <2>1. PICK n \in Nat : PreWssConsumeQuota(r, n)
    BY <1>8, BillingAssumption DEF BillingAssumption
  <2> QED
    BY <2>1, PostStep, RestUse, OwnStep
<1>9. CASE PostConsumeFunding(r) \/ PostConsumeToken(r)
  BY <1>0, <1>9, PostStep, RestUse, OwnStep
<1> QED
  BY <1>1, <1>2, <1>3, <1>4, <1>5, <1>6, <1>7, <1>8, <1>9 DEF Step

\* The initial rows and requests satisfy the invariant.
LEMMA InitHolds == Init => BillingInv
<1> SUFFICES ASSUME Init PROVE BillingInv
  OBVIOUS
<1>1. \A r \in Requests : input[r] \in AllInputs
  BY BillingAssumption DEF BillingAssumption, Init
<1>2. NewRequest \in ReqType
  BY DEF NewRequest, ReqType, PCs
<1>3. NoSession \in SessType
  BY DEF NoSession, SessType
<1>4. [pc |-> "none", attempt |-> 0] \in RefundType
  BY DEF RefundType, maxAttempts
<1>5. TypeOK
  BY <1>1, <1>2, <1>3, <1>4, BillingAssumption DEF Init, TypeOK, BillingAssumption
<1>6. SubscriptionWithinTotal
  BY BillingAssumption DEF Init, SubscriptionWithinTotal, BillingAssumption
<1>7. UnderWay(NewRequest, NoSession, [pc |-> "none", attempt |-> 0])
  BY DEF UnderWay, NewRequest, NoSession, maxAttempts
<1>8. \A r \in Requests : UnderWay(req[r], sess[r], refund[r])
  BY <1>7 DEF Init
<1> QED
  BY <1>5, <1>6, <1>8 DEF BillingInv

\* Every step keeps the invariant.
LEMMA NextKeeps == BillingInv /\ [Next]_vars => BillingInv'
<1> SUFFICES ASSUME BillingInv, [Next]_vars PROVE BillingInv'
  OBVIOUS
<1>1. CASE \E r \in Requests : Step(r)
  BY <1>1, StepKeeps
<1>2. CASE SubscriptionEnds
  BY <1>2 DEF SubscriptionEnds, BillingInv, TypeOK, SubscriptionWithinTotal, UnderWay, db, env
<1>3. CASE UNCHANGED vars
  BY <1>3 DEF vars, BillingInv, TypeOK, SubscriptionWithinTotal, UnderWay
<1> QED
  BY <1>1, <1>2, <1>3 DEF Next

\* The inductive invariant holds in every reachable state.
LEMMA BillingInvHolds == Spec => []BillingInv
  BY InitHolds, NextKeeps, PTL DEF Spec

\* Type correctness: the amounts a session holds and the subscription's
\* amount_used never become negative, and refundWithRetry never goes beyond
\* maxAttempts, whatever fails and however the requests interleave.
THEOREM TypeCorrect == Spec => []TypeOK
<1>1. BillingInv => TypeOK
  BY DEF BillingInv
<1> QED
  BY <1>1, BillingInvHolds, PTL

\* Any number of concurrent requests, each pre-consuming, reserving, settling
\* and refunding in its own transactions, stay within the subscription's total.
THEOREM WithinTotal == Spec => []SubscriptionWithinTotal
<1>1. BillingInv => SubscriptionWithinTotal
  BY DEF BillingInv
<1> QED
  BY <1>1, BillingInvHolds, PTL

\* No session is both refunded and settled, not even when the settlement stops
\* half-way: Refund looks at fundingSettled under the session's mutex.
THEOREM OneOutcome == Spec => []SettledOrRefunded
<1>1. BillingInv => SettledOrRefunded
  BY DEF BillingInv, UnderWay, SettledOrRefunded
<1> QED
  BY <1>1, BillingInvHolds, PTL
=============================================================================
