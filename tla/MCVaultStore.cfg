CONSTANTS
    p1 = p1
    p2 = p2
    a = a
    b = b
    long = long
    other = other
    short = short
    k1 = k1
    k2 = k2
    Procs = {p1, p2}
    NoProc = NoProc
    NoVault = NoVault
    NoJob = NoJob
    Handles = {a, b}
    Values = {long, other, short}
    TooShort = {short}
    Absent = Absent
    Keys = {k1, k2}
    Offered <- MCOffered
    MaxSaves = 3
SPECIFICATION FairSpec
INVARIANTS
    TypeOK
    NoLostUpdate
    AckedSurvives
PROPERTIES
    ExposedUntilRotated
    WriterReturns
    BackupBeforeOverwrite
    DataKeyForever
    ImplementsAtomicVault
