CONSTANTS
    q1 = q1
    q2 = q2
    Calls = {q1}
    Ids = {q1}
    IdOf <- OwnIds
    Kinds = {"run"}
    MaxLines = 3
    Other = Other
    None = None
    NoId = NoId
SPECIFICATION FairSpec
CHECK_DEADLOCK FALSE
PROPERTIES
    CancelEndsTheCall
