SPECIFICATION Spec
CONSTANTS
    Historical = {1, 2, 3, 4, 5}
    Upcoming = {6, 7}
    SeasonOf <- MCSeasonOf
    HistoricalKickoff <- MCHistoricalKickoff
    DateOnly = {1}
    DayLength = 2
    LastDevelopment = 3
    Sealed = {4}
    HoldoutSeasons = 1
    InitialTraining = 1
    MinimumRows = 1
    Slots = {11, 13, 14}
    FirstKickoff <- MCFirstKickoff
    Opening = 10
    MaxTime = 15
    MaxMoves = 1
    MaxPolls = 2
    MaxFeatures = 3
    MaxCandidates = 1
    MaxReports = 1
    MaxSnapshots = 1
INVARIANTS
    NoModelKnowsItsHoldout
    ComputedBeforeKickoff
CHECK_DEADLOCK FALSE
