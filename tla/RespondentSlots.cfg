SPECIFICATION Spec
CONSTANTS
    Starts = {s1, s2, s3}
    Deletes = {d1, d2}
    Paths = {"by_session", "by_id", "reject"}
    MaxRetries = 1
    MaxNumber = 3
INVARIANTS TypeOK UniqueNumbers NoNumberLost TasksOfOwnNumber
PROPERTIES BusyIsExplained ReleaseOnlyVacated EveryRequestEnds
