\* The Review scenario of MCPrimarySale, with Admin keys that lose the role and
\* get it back while their approval is unexpired.
SPECIFICATION LapseSpec
CONSTANTS
    alice = alice
    bob = bob
    SaleIds = {1, 2}
    Admins = {alice, bob}
    Issuer = bob
    Classes <- MCClasses
    ApprovalTerms <- MCApprovalTerms
    SaleTerms <- MCSaleTerms
    Amounts = {1, 2}
    BrakeSets <- MCBrakeSets
    SALE_APPROVAL_MAX_TTL = 2
    MAX_SALE_DURATION = 2
    NoApproval = NoApproval
    NoSale = NoSale
    MaxTime = 3
    MaxMinted = 3
ACTION_CONSTRAINT Scenario
PROPERTIES
    ApprovalDiesWithApprover
CHECK_DEADLOCK FALSE
