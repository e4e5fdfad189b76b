\* The three scenarios of MCPayoutVaultLive in one state space.
SPECIFICATION LiveSpec
CONSTANTS
    NoRoot = NoRoot
    i1 = i1
    i2 = i2
    Investors = {i1, i2}
    Raises = {2, 4, 5, 7}
    Terms <- MCTerms
    Snapshots <- MCSnapshots
    YieldAmounts = {3, 8}
    VotingPeriods = {1, 2}
    BrakeSets <- MCBrakeSets
    MONTH = 2
    MIN_VAULT_VOTING_PERIOD = 2
    MISSED_FREEZE_THRESHOLD = 3
    MaxTime = 14
    MaxRounds = 2
    MaxPool = 4
INVARIANTS
    ScheduleKept
    EarnedTrancheIsDue
    TalliesMatchRecords
    LedgerBalances
    PromisesCovered
PROPERTIES
    ExtendIsAFreshStart
    KeepsPromise
    ActiveEnds
    EarnedTrancheIsPaid
    RefundsGetPaid
CHECK_DEADLOCK FALSE
