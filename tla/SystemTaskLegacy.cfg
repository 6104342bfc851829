SPECIFICATION Spec
CONSTANTS
  Runners = {n1, n2, n3}
  Tasks = {1, 2}
  LegacyTasks = {1, 2}
  TTL = 1
  MaxCrashes = 1
  MaxErrors = 1
  PromptClaims = TRUE
  NoTask = NoTask
  NoRunner = NoRunner
SYMMETRY Symmetry
INVARIANTS
  TypeOK
  OneRunnerPerTask
PROPERTIES
  EndedIsFinal
