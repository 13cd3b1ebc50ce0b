SPECIFICATION Spec
CONSTANTS
    plain = plain
    code = code
    Messages <- MCMessages
    Expiring <- MCPerishable
    Withdrawable <- MCPerishable
    NoMessage = NoMessage
    Workers = {w1, w2}
    MaxAttempts = 3
    MaxFailures = 2
INVARIANTS
    CopiesAreCounted
    DuplicatesNeedFailures
PROPERTIES
    EveryMessageSettles
    ImplementsMailbox
