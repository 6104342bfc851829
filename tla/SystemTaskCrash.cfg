SPECIFICATION FairSpec
CONSTANTS
  Runners = {n1, n2}
  Tasks = {1, 2}
  LegacyTasks = {}
  TTL = 1
  MaxCrashes = 1
  MaxErrors = 1
  PromptClaims = TRUE
  NoTask = NoTask
  NoRunner = NoRunner
INVARIANTS
  OneRunnerPerTask
  RunningIsLeased
PROPERTIES
  TaskEnds
  ImplementsQueue
