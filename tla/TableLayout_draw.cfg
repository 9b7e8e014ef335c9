SPECIFICATION Spec
CONSTANTS
    list = list
    label = label
    empty = empty
    None = None
    Widgets = {list, label, empty}
    MinSpace <- MCMinSpace
    Positions <- MCPositions
    Expands <- MCExpands
    Borders <- MCBorders
    Dimensions <- MCDimensions
INVARIANTS TypeOK TableConsistent DrawnInPlace PanicOnlyWhenSmall SpaceUsed
CHECK_DEADLOCK FALSE
