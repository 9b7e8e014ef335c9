SPECIFICATION Spec
CONSTANTS
    N = 4
    short = short
    other = other
    large = large
    Files = {short, other, large}
    Dir = Dir
    Absent = Absent
    Paths <- OnePath
    Size <- GroupSize
    Colors = 3
    Exclude = FALSE
    RootNamed = TRUE
    NotUtf8 = {}
    MaxChanges = 0
    MaxUnread = 1
INVARIANT GroupsAreClasses
CHECK_DEADLOCK FALSE
