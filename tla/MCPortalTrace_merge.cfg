CONSTANTS
    Kinds = {"merge"}
    RowCounts = {2, 3, 4, 5}
    ShipDates = {12}
    Rhs = 12
    MaxSubcircuits = 4
    NoTrace = NoTrace
SPECIFICATION Spec
INVARIANT ProverFollowsTrace
CHECK_DEADLOCK FALSE
