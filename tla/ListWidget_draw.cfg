SPECIFICATION Spec
CONSTANTS
    NoRow = NoRow
    Columns = {0, 1, 2}
    MaxRows = 5
    Steps = {0, 1, 3}
    Sizes <- MCSizes
INVARIANTS TypeOK SelectionSound DrawnIfRoom
CHECK_DEADLOCK FALSE
