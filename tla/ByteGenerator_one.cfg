SPECIFICATION Spec
CONSTANTS
    Jobs = {j1, j2}
    f1 = f1
    f2 = f2
    Files = {f1, f2}
    Writable = {f1}
    Forms <- FewForms
    BlockSize = 2
    MaxByte = 2
    MaxEdits = 1
INVARIANTS OneGeneration
CHECK_DEADLOCK FALSE
