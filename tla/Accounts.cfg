SPECIFICATION Spec
CONSTANTS
    Users = {u1, u2, u3}
    Requests = {r1, r2}
SYMMETRY MCSymmetry
CHECK_DEADLOCK FALSE
INVARIANTS
    AccountsSound
PROPERTIES
    SuperAdminRemains
    ElevatedChangedByLeaders
