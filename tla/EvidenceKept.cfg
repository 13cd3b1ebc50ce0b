SPECIFICATION Spec
CONSTANTS
    Workers = {w1, w2}
    MaxAttempts = 4
    MaxFailures = 3
CHECK_DEADLOCK FALSE
INVARIANTS
    FinalArtifactsKept
