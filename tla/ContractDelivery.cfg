SPECIFICATION Spec
CONSTANTS
    NoData = NoData
    NoGeneration = NoGeneration
    Requests = {r1, r2, r3}
    Data = {d1, d2}
    Generations = {g1, g2, g3}
    MaxFailures = 1
INVARIANTS
    ContractSound
PROPERTIES
    ImplementsAgreement
    RetriesDeliver
