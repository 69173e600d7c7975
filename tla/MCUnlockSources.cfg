CONSTANTS
    p1 = p1
    p2 = p2
    p3 = p3
    right = right
    wrong = wrong
    Procs = {p1, p2, p3}
    Passphrases = {right, wrong}
    Commands = {"init", "unlock"}
    Starts <- AnyHome
    NoFile = NoFile
    Torn = Torn
    MaxSalts = 2
    KeychainOffered <- MacOffered
    KeychainStarts <- MacHomes
    MaxKeys = 3
    Others = {given}
    NoItem = NoItem
SPECIFICATION SourcesSpec
INVARIANTS
    PassphraseAlwaysOpens
    UnlockFinishesUpgrade
    NeverWeak
    KeychainOpens
PROPERTIES
    NeverFalselyRefused
