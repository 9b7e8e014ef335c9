SPECIFICATION FairSpec
CONSTANTS
    N = 2
    short = short
    other = other
    large = large
    Files = {short}
    Dir = Dir
    Absent = Absent
    Paths <- MCPaths
    Size <- MCSize
    Colors = 2
    Exclude = TRUE
    RootNamed = TRUE
    NotUtf8 <- OddNames
    MaxChanges = 1
    MaxUnread = 1
INVARIANTS TypeOK TreeOK DiffIsUnion ReportedOnce
PROPERTY Ends
CHECK_DEADLOCK FALSE
