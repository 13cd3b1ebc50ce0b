SPECIFICATION Spec
CONSTANTS
    Requests = {r1, r2}
    Values = {v1}
    Documents = {d1, d2}
    MaxCorrections = 1
    Nothing = Nothing
CHECK_DEADLOCK FALSE
INVARIANTS
    SavesAreKept
    RegistrationSound
PROPERTIES
    SubmittedIsFrozen
    SubmissionIsSettled
