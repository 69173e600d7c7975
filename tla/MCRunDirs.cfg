CONSTANTS
    r1 = r1
    r2 = r2
    Runs = {r1, r2}
    d1 = d1
    d2 = d2
    Dirs = {d1, d2}
    MaxKills = 1
    None = None
SPECIFICATION FairSpec
INVARIANTS
    LiveSecretKept
PROPERTIES
    NothingLeftBehind
    SecretsAreSwept
