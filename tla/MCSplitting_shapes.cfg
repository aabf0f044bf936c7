CONSTANTS
    MinRows = 129
    MaxRows = 129
    SortKeys = {0, 1}
    MaxSortRows = 5
INIT Init
NEXT Next
INVARIANT SubcircuitIndexingConsistent
