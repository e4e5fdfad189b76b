\* Three units, two tranches, two wallets, every order of instructions.
SPECIFICATION UnblockedSpec
CONSTANTS
    client = client
    holder = holder
    Wallets = {client, holder}
    Client = client
    SeriesTerms <- MCSeriesTerms
    Allocations = {1, 2}
    Lots = {1}
    MIN_APPROVAL_WINDOW_SECS = 1
    MAX_APPROVAL_WINDOW_SECS = 1
    MAX_VESTING_TRANCHES = 2
    NoSeries = NoSeries
    MaxTime = 3
    MaxPositions = 2
    MaxEscrow = 4
INVARIANTS
    RecipientsBacked
PROPERTIES
    VestedIsOwned
    UnvettedClientTakesItsOwn
    PromiseIsDelivered
CHECK_DEADLOCK FALSE
