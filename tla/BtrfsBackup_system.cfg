SPECIFICATION FairSpec
CONSTANTS
    Snaps = {s1, s2}
    NoSnap = NoSnap
    Runs = {r1, r2}
    MaxFaults = 1
    MaxInvocations = 3
INVARIANTS TypeOK ExclusiveReceive LineageOK UndisturbedRunCopies
PROPERTIES DebrisNeedsOperator StoreSpec UndisturbedRunSyncs
CHECK_DEADLOCK FALSE
