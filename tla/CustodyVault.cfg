\* An investor and an outsider, a delivery escrow and a burn-only vault; or one
\* of the vaults under two operators.
SPECIFICATION CustodySpec
CONSTANTS
    investor = investor
    outsider = outsider
    delivery = delivery
    quarantine = quarantine
    op1 = op1
    op2 = op2
    InvestorUnits = 2
    OutsiderUnits = 1
    Keys = {op1, op2}
    FirstAdmin = op1
    Holders = {investor, outsider}
    Approvable = {investor}
    Blockable = {investor}
    VaultIds = {delivery, quarantine}
    OpenTypes <- MCOpenTypes
    StartUnits <- MCStartUnits
    Lots = {1}
    Deadlines = {0, 2}
    KYC_EXPIRY_CLAWBACK_GRACE_SECS = 1
    MAX_KYC_VALIDITY_SECS = 2
    DELIVERY_ESCROW_MIN_DEADLINE_SECS = 1
    DELIVERY_ESCROW_MAX_DEADLINE_SECS = 2
    PROPOSAL_WINDOW_SECS = 1
    MaxSupply = 3
    MaxTime = 4
INVARIANTS
    UnitsAccounted
PROPERTIES
    QuarantineOnlyBurns
    OnlyVettedHoldMore
    NobodyLosesUnawares
    DepositComesBack
CHECK_DEADLOCK FALSE
