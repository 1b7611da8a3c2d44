SPECIFICATION Spec
CONSTANTS
  Fixtures = {1, 2}
  Kickoff <- MCKickoff
  Teams = {1, 2}
INVARIANT CanonicalRowsAccepted
CHECK_DEADLOCK FALSE
