SPECIFICATION Spec
CONSTANTS
    NumSessions = 2
    NumTasks = 2
    Workers = {w1, w2}
    MaxPayload = 2
    Targets = {1}
    Pools = {0, 2}
    PostQuestion = {TRUE}
    Phase <- MCGrid
    OwnerStatuses = {}
    Crashes = TRUE
SYMMETRY Symmetry
INVARIANTS TypeOK ProgressMatchesRows CompletedHasEverything
PROPERTIES ClosedStaysClosed CompletedOnlyWhenDue
