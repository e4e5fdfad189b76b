\* The two scenarios of MCPrimarySale in one state space.
SPECIFICATION Spec
CONSTANTS
    alice = alice
    bob = bob
    SaleIds = {1, 2}
    Admins = {alice, bob}
    Issuer = bob
    Classes <- MCClasses
    ApprovalTerms <- MCApprovalTerms
    SaleTerms <- MCSaleTerms
    Amounts = {1, 2}
    BrakeSets <- MCBrakeSets
    SALE_APPROVAL_MAX_TTL = 2
    MAX_SALE_DURATION = 2
    NoApproval = NoApproval
    NoSale = NoSale
    MaxTime = 3
    MaxMinted = 5
ACTION_CONSTRAINT Scenario
INVARIANTS
    SaleWithinReview
    MoneyTrail
    SupplyCapped
PROPERTIES
    LockIsFinal
CHECK_DEADLOCK FALSE
