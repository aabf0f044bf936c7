CONSTANTS
    Kinds = {"bitonic"}
    RowCounts = {1, 2, 3}
    ShipDates = {11, 12, 13}
    Rhs = 12
    MaxSubcircuits = 4
    NoTrace = NoTrace
SPECIFICATION Spec
INVARIANT ProverFollowsTrace
CHECK_DEADLOCK FALSE
