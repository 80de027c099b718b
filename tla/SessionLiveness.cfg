SPECIFICATION Spec
CONSTANTS
    NumSessions = 2
    NumTasks = 1
    Workers = {w1, w2}
    MaxPayload = 1
    Targets = {0}
    Pools = {0}
    PostQuestion = {TRUE}
    Phase <- MCOneTask
    OwnerStatuses = {"active"}
    Crashes = FALSE
PROPERTIES SessionsEnd
