SPECIFICATION Spec
CONSTANTS
    j1 = j1  j2 = j2
    bytes1 = bytes1  bytes2 = bytes2  bytes3 = bytes3
    file1 = file1  file2 = file2  file3 = file3
    None = None
    Jobs = {j1, j2}
    Commands <- MCCommands
    N = 2
    Checksums = {bytes1, bytes2, bytes3}
    Captures = {1, 2}
    Paths = {file1, file2, file3}
    Revisions <- MCRevisions
    Reviewed <- MCReviewed
    RawStores <- MCRawStores
    Earlier <- MCEarlier
    MaxStarts = 2
    MaxEdits = 1
    MaxCrashes = 1
INVARIANTS
    FeaturesFromOneRevision
    TrainingFromOneRevision
    ComparedOnOneTraining
    ArtifactsAreWhole
    RerunRepairs
PROPERTY RawIsImmutable
CHECK_DEADLOCK FALSE
