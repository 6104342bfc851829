SPECIFICATION Spec
CONSTANTS
  Runners = {n1, n2, n3}
  Tasks = {1}
  LegacyTasks = {}
  TTL = 1
  MaxCrashes = 1
  MaxErrors = 0
  PromptClaims = TRUE
  NoTask = NoTask
  NoRunner = NoRunner
PROPERTIES
  LeaseProtectsRunner
