SPECIFICATION Spec
CONSTANTS
    Requests = {r1, r2}
    Tokens = {t1, t2}
    Delegated <- MCDelegated
    RequiresPolicy = TRUE
    Legacy <- MCLegacy
    Nobody = Nobody
CHECK_DEADLOCK FALSE
INVARIANTS
    SetupSound
    NoticesSound
PROPERTIES
    SubmittedIsFrozen
    ReadyIsAnnounced
    ImplementsHandover
