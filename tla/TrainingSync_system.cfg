SPECIFICATION FairSpec
CONSTANTS
    Procs = {p1, p2}
    Templates = {t1, t2}
    MaxCrashes = 1
    Items = {i1}
    Values = {blank, seven}
    Blank = blank
    Refused = {}
    MaxPosts = 3
    MaxPending = 1
    MaxLosses = 1
INVARIANTS FilledOnce
PROPERTIES HalfFilledForever FinallyServes EntriesGetSynced
CHECK_DEADLOCK FALSE
