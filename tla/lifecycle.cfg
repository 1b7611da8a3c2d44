SPECIFICATION Spec
CONSTANTS
  Fixtures = {1, 2, 3, 4}
  Kickoff <- MCKickoff
  DateOnly = {1}
  DayLength = 2
  Snapshots = {1, 4, 5}
  Polls <- MCPolls
  MaxTime = 6
  MaxPredictions = 4
CHECK_DEADLOCK FALSE
INVARIANTS
  TypeOK
  NoLookahead
  LedgerReplays
  ReplacementKnowsBatch
  SupersessionKeepsState
