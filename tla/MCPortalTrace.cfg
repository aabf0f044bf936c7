CONSTANTS
    Kinds = {"multi", "single"}
    RowCounts = {1, 2, 3, 4, 63, 64, 65, 129}
    ShipDates = {11, 12, 13}
    Rhs = 12
    MaxSubcircuits = 4
    NoTrace = NoTrace
SPECIFICATION Spec
INVARIANT ProverFollowsTrace
CHECK_DEADLOCK FALSE
