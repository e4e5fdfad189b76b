\* One account that is opened and closed while one worker is late.
SPECIFICATION Spec
CONSTANTS
    a1 = a1
    a2 = a2
    w1 = w1
    w2 = w2
    None = None
    Accounts = {a1}
    Workers = {w1}
    SampleSize = 1
    MaxSlot = 2
PROPERTIES
    ProvenIsMirrored
ACTION_CONSTRAINT ReconcilesAtTip
CHECK_DEADLOCK FALSE
