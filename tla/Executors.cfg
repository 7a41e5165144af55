CONSTANTS
  MaxToolCalls = 2
  MaxTurn = 2
  CommandsListed = TRUE
  MaxReadBytes = 3
  MaxMatches = 1
  MaxFileBytes = 2
  MaxTotalBytes = 3
  MaxGlob = 1
  ReadTexts <- MCReadTexts
  GrepFiles <- MCGrepFiles
  GlobCounts = {0, 1, 2}
SPECIFICATION ExecSpec
INVARIANTS
  SpawnTruth
  ResultTruthful
  AnswersHonest
PROPERTIES
  ExecutorSettles
CHECK_DEADLOCK FALSE
