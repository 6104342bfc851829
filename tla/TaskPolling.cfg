CONSTANTS
  p1 = p1
  p2 = p2
  Tasks = {t1}
  t1 = t1
  Pollers <- MCPollers
  Kinds = {"video", "legacy", "gemini", "suno", "noid"}
  Estimate = 1
  FinalQuotas = {2}
  Actuals = {0, 1, 3}
  Faults <- MCFaults
  MaxFaults = 1
  MaxDrift = 2
  TimeoutEnabled = TRUE
  MaxFetches = 1
SPECIFICATION FairSpec
INVARIANTS TypeOK OneBiller NeverOverRefunded ExactCharge FundingBeforeToken
PROPERTIES TerminalIsFinal EveryTaskEnds
CHECK_DEADLOCK FALSE
