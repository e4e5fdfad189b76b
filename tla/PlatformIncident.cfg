\* A compromised super admin against the incident build: no recovery delay.
SPECIFICATION IncidentSpec
CONSTANTS
    NoProposal = NoProposal
    a = a
    b = b
    c = c
    u = u
    Keys = {a, b, c}
    UpgradeAuthorities = {u}
    PauseBits = {"ONBOARDING", "PAYOUT_MODULES"}
    PauseCalls <- MCPauseCalls
    ADMIN_TIMELOCK = 1
    SUPER_ADMIN_ROTATION_TIMELOCK = 1
    PLATFORM_RECOVERY_DELAY = 0
    PROPOSAL_WINDOW = 1
    INCIDENT = TRUE
    MaxTime = 2
PROPERTIES
    RescueLands
CHECK_DEADLOCK FALSE
