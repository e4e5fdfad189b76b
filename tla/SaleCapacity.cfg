\* Two ids, two mints of which one has no rate at first, in two scenarios.
SPECIFICATION Spec
CONSTANTS
    SaleIds = {1, 2}
    Mints = {m1, m2}
    Grosses = {1, 2}
    UNITS_PER_TOKEN = 2
    NewRates = {3}
    StartRates <- MCStartRates
    Cap = 4
    None = None
    MaxReservations = 2
    MaxLandings = 2
    small = 1
    large = 2
    m1 = m1
    m2 = m2
INVARIANTS
    CountedOnce
    FollowsItsSale
    CapExceededOnlyByAdoption
PROPERTIES
    
    HoldsEndCounted
ACTION_CONSTRAINT Scenario
CHECK_DEADLOCK FALSE
