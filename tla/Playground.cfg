CONSTANTS
  a = a
  b = b
  Words = {a, b}
  Parts <- MCParts
  Written = written
  MaxKeys = 3
  MaxChunks = 2
  MaxStored = 1
  MaxLeaves = 1
SPECIFICATION FairSpec
INVARIANTS TypeOK Stoppable AnswerInOrder SettledWhenIdle
PROPERTIES LeaveSaves GenerationEnds
CHECK_DEADLOCK FALSE
