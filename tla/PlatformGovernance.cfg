\* Three keys for two roles; timelocks and windows of one tick, so that all expire.
SPECIFICATION NoticeSpec
CONSTANTS
    NoProposal = NoProposal
    a = a
    b = b
    c = c
    u = u
    Keys = {a, b, c}
    UpgradeAuthorities = {u}
    PauseBits = {"ONBOARDING", "PAYOUT_MODULES"}
    PauseCalls <- MCPauseCalls
    ADMIN_TIMELOCK = 1
    SUPER_ADMIN_ROTATION_TIMELOCK = 1
    PLATFORM_RECOVERY_DELAY = 1
    PROPOSAL_WINDOW = 1
    INCIDENT = FALSE
    MaxTime = 2
SYMMETRY KeySymmetry
INVARIANTS
    RolesConsistent
PROPERTIES
    NoRoleWithoutNotice
CHECK_DEADLOCK FALSE
