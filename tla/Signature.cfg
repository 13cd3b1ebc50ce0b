SPECIFICATION SignatureSpec
CONSTANTS
    Requests = {r1, r2}
    MaxCodes = 2
    MaxWrong = 2
    MaxRecent = 3
    MaxFailures = 1
CHECK_DEADLOCK FALSE
INVARIANTS
    CodesSound
PROPERTIES
    RemovedIsClosed
    LiveCodeArrives
