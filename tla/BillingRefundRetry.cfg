SPECIFICATION Spec
CONSTANTS
  Requests = {r1, r2}
  Inputs <- MixedInputs
  ReserveTargets = {2}
  ActualQuotas = {1}
  InitUserQuota = 3
  InitTokenQuota = 3
  AmountTotal = 3
  TrustQuota = 2
  FeeQuota = 1
  MaxReserved = 3
  MaxRealtime = 2
  Faults = {"refundMark"}
SYMMETRY Symmetry
CHECK_DEADLOCK FALSE
INVARIANTS
  SubscriptionRefundIdempotent
