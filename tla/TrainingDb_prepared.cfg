SPECIFICATION FairDbSpec
CONSTANTS
    Procs = {p1}
    Templates = {t1, t2}
    MaxCrashes = 2
INVARIANTS ServesPrepared
CHECK_DEADLOCK FALSE
