CONSTANTS
    Kinds = {"merge"}
    RowCounts = {7}
    ShipDates = {12}
    Rhs = 12
    MaxSubcircuits = 4
    NoTrace = NoTrace
SPECIFICATION Spec
INVARIANT TraceIsRom
CHECK_DEADLOCK FALSE
