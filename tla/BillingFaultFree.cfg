SPECIFICATION Spec
CONSTANTS
  Requests = {r1, r2}
  Inputs <- RelayInputs
  ReserveTargets = {2}
  ActualQuotas = {0, 1, 3}
  InitUserQuota = 3
  InitTokenQuota = 3
  AmountTotal = 3
  TrustQuota = 2
  FeeQuota = 1
  MaxReserved = 3
  MaxRealtime = 2
  Faults = {}
SYMMETRY Symmetry
CHECK_DEADLOCK FALSE
INVARIANTS
  ExactSettlement
  RefundedInFull
  RejectedPaysNothing
  NeverCredited
  SubscriptionWithinTotal
  SettledOrRefunded
