CONSTANTS
    Var = {"B", "x", "y"}
    Bound = {"B"}
    Name = {"t", "./t", "~/t", ".env"}
    SecretNames = {".env"}
    Tilde = {"~/t"}
    Clean <- MCClean
    Computed = {"$f"}
    File = {"home_t", "sub_t", "env"}
    Place <- MCPlace
    Dir = {"home", "sub"}
    ProcessDir = "home"
    Body <- MCBody
    Script <- MCScript
    Lines <- MCLines
    Foreign = {"good", "self"}
    Disks <- MCDisks
    MaxDepth = 3
    MaxLines = 3
    Secret = Secret
    None = None
SPECIFICATION FairSpec
CHECK_DEADLOCK FALSE
INVARIANTS
    WrittenScriptIsJudged
    RevealsNothing
PROPERTIES
    RecordStaysExact
    EvaluationEnds
