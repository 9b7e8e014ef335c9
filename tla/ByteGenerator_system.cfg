SPECIFICATION FairSpec
CONSTANTS
    Jobs = {j1, j2}
    f1 = f1
    f2 = f2
    Files = {f1, f2}
    Writable = {f1}
    Forms <- MCForms
    BlockSize = 2
    MaxByte = 2
    MaxEdits = 1
INVARIANTS TypeOK BytesAddUp FileIsExpected ButtonLossExplained
PROPERTIES ButtonReturns
CHECK_DEADLOCK FALSE
