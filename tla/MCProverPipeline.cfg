CONSTANTS
    NumRows = 200
    CircN <- MCCircN
    Shape <- MCShape
    Circuits = {c1}
    Rand = {r1, r2}
    OrchestratorDrains = TRUE
    MaxFaults = 3
    NoFile = NoFile
SPECIFICATION Spec
INVARIANT TypeOK
INVARIANT ProofVerifies
PROPERTY CoordinatorRefinement
PROPERTY EventuallyProof
