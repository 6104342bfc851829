SPECIFICATION FairSpec
CONSTANTS
  Requests = {r1, r2}
  Inputs <- FallbackInputs
  ReserveTargets = {}
  ActualQuotas = {1}
  InitUserQuota = 3
  InitTokenQuota = 3
  AmountTotal = 3
  TrustQuota = 2
  FeeQuota = 0
  MaxReserved = 3
  MaxRealtime = 2
  Faults = {"refundMark"}
CHECK_DEADLOCK FALSE
PROPERTIES
  RefundCompletes
  SessionDecided
