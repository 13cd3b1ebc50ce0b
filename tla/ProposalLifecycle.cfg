SPECIFICATION Spec
CONSTANTS
    boss = boss
    seller = seller
    template = template
    NoTemplate = NoTemplate
    NoDate = NoDate
    NoContent = NoContent
    NoOwner = NoOwner
    Editors <- MCEditors
    AllAccess = {boss}
    Publishers <- MCEditors
    PriceEditors = {boss}
    Customers = {k1, k2}
    Templates <- MCTemplates
    Forms <- MCForms
    MaxPrice = 1
    MaxVersion = 2
    MaxDay = 1
CHECK_DEADLOCK FALSE
INVARIANTS
    VersionsSound
    AcceptanceSound
PROPERTIES
    PublishedIsFrozen
    ImplementsNegotiation
    LapsedOfferEnds
