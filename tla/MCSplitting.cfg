CONSTANTS
    MinRows = 2
    MaxRows = 200
    SortKeys = {0, 1}
    MaxSortRows = 5
INIT Init
NEXT Next
INVARIANT MergeLayersAreCeilLog2
INVARIANT BatchedKeysMatchShapes
INVARIANT MergeIsStableSort
INVARIANT BitonicNetworkSorts
INVARIANT SortedCheckAccepts
