CONSTANTS
    p1 = p1
    Procs = {p1}
    Offered <- UnsignedUpgrade
    Starts <- Existing
    MaxKeys = 1
    Others = {}
    NoItem = NoItem
    NoVault = NoVault
SPECIFICATION Spec
PROPERTIES
    RefusedUpgradeChangesNothing
