CONSTANTS
    MinRows = 2
    MaxRows = 2
    SortKeys = {0, 1}
    MaxSortRows = 5
INIT Init
NEXT Next
INVARIANT SubcircuitIndexingConsistent
