SPECIFICATION Spec
CONSTANTS
  Requests = {r1, r2}
  Inputs <- MixedInputs
  ReserveTargets = {2}
  ActualQuotas = {2}
  InitUserQuota = 3
  InitTokenQuota = 3
  AmountTotal = 3
  TrustQuota = 2
  FeeQuota = 0
  MaxReserved = 3
  MaxRealtime = 2
  Faults = {"read", "token", "wallet", "subscription", "rollback"}
SYMMETRY Symmetry
CHECK_DEADLOCK FALSE
INVARIANTS
  TypeOK
  ExactSettlement
  NeverCredited
  SubscriptionWithinTotal
  SettledOrRefunded
