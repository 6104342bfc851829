CONSTANTS
  t1 = t1
  p1 = p1
  p2 = p2
  Tasks = {t1}
  Pollers <- MCPollers
  Kinds = {"gemini"}
  Estimate = 2
  FinalQuotas = {2}
  Actuals = {0}
  Faults = {}
  MaxFaults = 0
  MaxFetches = 1
  MaxDrift = 2
  TimeoutEnabled = TRUE
SPECIFICATION Spec
INVARIANT FailedRefunded
CHECK_DEADLOCK FALSE
