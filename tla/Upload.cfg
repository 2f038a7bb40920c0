CONSTANTS
    Kinds = {"link", "deposit"}
    Sizes <- MCSizes
    SEGMENT_BYTES = 2
    MAX_QUIET_RETRIES = 1
    MaxRestarts = 1
    MaxSeals = 6
    MaxUps = 6
    MaxClaims = 6
    MaxFaults = 5
    None = None
SPECIFICATION Spec
INVARIANTS BlobsAreSound
PROPERTIES RestartKeepsTheFile UploadEnds Refinement
CHECK_DEADLOCK FALSE
