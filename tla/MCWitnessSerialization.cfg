CONSTANTS
    Kinds = {"multi", "single"}
    MaxRows = 140
SPECIFICATION Spec
INVARIANT WitnessRoundTrip
CHECK_DEADLOCK FALSE
