SPECIFICATION FairSpec
CONSTANTS
    Snaps = {s1, s2}
    NoSnap = NoSnap
    Runs = {r1}
    MaxFaults = 1
    MaxInvocations = 3
PROPERTIES ReadmeFullOnlyWhenNew
CHECK_DEADLOCK FALSE
