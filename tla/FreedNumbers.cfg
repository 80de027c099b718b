SPECIFICATION Spec
CONSTANTS
    Starts = {s1, s2}
    Deletes = {d1}
    Paths = {"by_session"}
    MaxRetries = 3
    MaxNumber = 2
INVARIANT FreedNumbersAreVacant
