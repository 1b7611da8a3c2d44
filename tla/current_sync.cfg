CONSTANTS
  References = {"a", "b"}
  Fixtures = {"f", "g"}
  Home <- MCHome
  Away <- MCAway
  Schedules <- MCSchedules
  Polls <- MCPolls
  ResultLists <- MCResultLists
  DayLength = 3
  MaxTime = 3
  MaxResponses = 5
SPECIFICATION Spec
INVARIANTS
  TypeOK
  HistoriesProgress
  OfficialScoresAgree
  ResultsFollowFixtures
  StoredResponsesReplay
  PlannedBatchesValidate
  TablesCountOfficialResults
