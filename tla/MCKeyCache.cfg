CONSTANTS
    Calls = {c1, c2}
    Keys = {k1, k2}
    Idle = 2
    MaxDelay = 1
    Locked = Locked
    Zeroed = Zeroed
    None = None
SPECIFICATION FairSpec
INVARIANTS
    KeysInUseAreWhole
PROPERTIES
    ServedKeyIsFresh
    CatchesUp
    CallReturns
