SPECIFICATION FairSpec
CONSTANTS
  Readers = {r1, r2}
  Fixtures = {1, 2}
  Cursors = {"first", "p"}
  First = "first"
  End = "end"
  Layouts <- MCLayouts
  TTL = 1
  MaxTime = 1
CHECK_DEADLOCK FALSE
INVARIANTS
  TypeOK
  NothingExpiredIsSynced
  SyncedPagesAreCached
  OnePagePerFixture
  SettledReadsAreComplete
PROPERTY ReadsEnd
