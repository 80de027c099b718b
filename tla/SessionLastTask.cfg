SPECIFICATION Spec
CONSTANTS
    NumSessions = 2
    NumTasks = 1
    Workers = {w1, w2}
    MaxPayload = 1
    Targets = {1}
    Pools = {0}
    PostQuestion = {FALSE}
    Phase <- MCOneTask
    OwnerStatuses = {}
    Crashes = FALSE
INVARIANT AllDoneIsMarked
