CONSTANTS
    NumRows = 150
    CircN <- MCCircN
    Shape <- MCShape
    Circuits = {c1}
    Rand = {r1, r2}
    OrchestratorDrains = FALSE
    MaxFaults = 2
    NoFile = NoFile
SPECIFICATION Spec
INVARIANT ProofVerifies
