SPECIFICATION PresentationsSpec
CONSTANTS
    Nothing = Nothing
    Users = {boss, seller}
    ReadAll = {boss}
    Publishers = {boss}
    Presentations = {p1, p2}
    Clients = {c1, c2}
    Cnpjs = {k}
    Contents = {x, y}
    Requests = {r1, r2}
    MaxVersion = 2
SYMMETRY MCSymmetry
CHECK_DEADLOCK FALSE
INVARIANTS
    PresentationsSound
    PdfMatchesLink
PROPERTIES
    LinksStay
    PublishesItsOwn
