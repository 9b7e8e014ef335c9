SPECIFICATION FairSpec
CONSTANTS
    Launches = {w1, w2}
    ImplSteps <- MCSteps
    MaxTries = 2
    PipeSize = 1
INVARIANTS TypeOK StopBounded FilesInOrder OrphansOfNewHost DanglingExplained
PROPERTIES TrackerSpec RunsReported
CHECK_DEADLOCK FALSE
