\* Every order of puts and updates of six keys, pages of two cells.
SPECIFICATION Spec
CONSTANTS
    Key = {1, 2, 3, 4, 5, 6}
    Value = {v1, v2}
    None = None
    maxLeafNodeCells = 3
    maxInternalNodeCells = 3
SYMMETRY Symmetry
INVARIANTS
    TypeOK
    GetsLastPutAboveFirst
    OffsetsSorted
CHECK_DEADLOCK FALSE
