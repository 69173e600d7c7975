CONSTANTS
    x = x
    y = y
    top = top
    root = root
    sub = sub
    clone = clone
    link = link
    p1 = p1
    p2 = p2
    Procs = {p1, p2}
    NoProc = NoProc
    NoFile = NoFile
    Absent = Absent
    Handles = {1, 2}
    Names = {x, y}
    DefaultName <- MCDefaultName
    Dirs = {top, root, sub, clone, link}
    Lexical <- MCLexical
    Physical <- MCPhysical
    Repositories = {clone}
    Root = root
    EnvFile <- MCEnvFile
    Offered <- MCOffered
SPECIFICATION Spec
SYMMETRY Symm
INVARIANTS
    PlaintextGoesLast
    RunGetsItsContract
    GlobalIsAmbient
PROPERTIES
    GlobalDeclarationsKept
