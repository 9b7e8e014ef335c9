SPECIFICATION Spec
CONSTANTS
    Procs = {p1}
    Templates = {t1}
    MaxCrashes = 1
    Items = {i1, i2}
    Values = {blank, seven, minus}
    Blank = blank
    Refused = {minus}
    MaxPosts = 2
    MaxPending = 2
    MaxLosses = 1
SYMMETRY Symmetry
INVARIANTS SyncTypeOK LogIsTrue
PROPERTIES AcknowledgedNotReposted
CHECK_DEADLOCK FALSE
