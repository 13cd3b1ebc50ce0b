SPECIFICATION SessionsSpec
CONSTANTS
    Emails = {e1, e2}
    Account = e1
    Attempts = {r1, r2}
    Opened = {s1, s2}
    MaxResets = 2
    MaxPasswords = 2
    PairLimit = 2
    IpLimit = 3
SYMMETRY MCSymmetry
CHECK_DEADLOCK FALSE
INVARIANTS
    SessionsSound
    LinksWorkOnce
    FailuresAreBounded
