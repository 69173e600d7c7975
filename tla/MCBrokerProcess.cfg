CONSTANTS
    c1 = c1
    c2 = c2
    b1 = b1
    b2 = b2
    Clients = {c1, c2}
    Brokers = {b1, b2}
    Commands <- Offered
    Backlog = 2
    None = None
SPECIFICATION FairSpec
PROPERTIES
    KeyIsDropped
    CommandReturns
    LockedStaysLocked
