CONSTANTS
    p1 = p1
    p2 = p2
    p3 = p3
    right = right
    wrong = wrong
    Procs = {p1}
    Passphrases = {right}
    Commands = {"unlock"}
    Starts <- JustLegacy
    NoFile = NoFile
    Torn = Torn
    MaxSalts = 2
SPECIFICATION Spec
INVARIANTS
    BackupUnlocks
