CONSTANTS
    q1 = q1
    q2 = q2
    Calls = {q1, q2}
    Ids = {q1, q2}
    IdOf <- OwnIds
    Kinds = {"ping", "run", "capture"}
    MaxLines = 3
    Other = Other
    None = None
    NoId = NoId
SPECIFICATION FairSpec
CHECK_DEADLOCK FALSE
INVARIANTS
    OneAnswerUnlessCancelled
    NothingIsLeftTracked
    CaptureReportsTheTruth
    EofDrains
PROPERTIES
    CancelReachesTheChild
