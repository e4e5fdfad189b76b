\* Two accounts through three transactions, two workers, lost and late events.
SPECIFICATION Spec
CONSTANTS
    a1 = a1
    a2 = a2
    w1 = w1
    w2 = w2
    None = None
    Accounts = {a1, a2}
    Workers = {w1, w2}
    SampleSize = 1
    MaxSlot = 3
INVARIANTS
    DecodedIsMirrored
    NothingMissing
SYMMETRY Symmetry
PROPERTIES
    MirrorsChain
ACTION_CONSTRAINT Scenario
CHECK_DEADLOCK FALSE
