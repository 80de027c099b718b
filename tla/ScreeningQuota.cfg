SPECIFICATION Spec
CONSTANTS
    NumRespondents = 2
    Synthetic = {2}
    NumOptions = 3
    Question <- MCQuestion
    Limits <- MCLimits
    Answers <- MCAnswers
    Workers = {w1, w2}
    Operations = {"continue", "save", "absorb", "sync"}
    Leaving = {2}
SYMMETRY Symmetry
INVARIANTS TypeOK SeatsAreHeld ContinuesDoNotDeadlock
PROPERTIES NeverOverfull SeatKeepsAnswer
