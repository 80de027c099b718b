SPECIFICATION Spec
CONSTANTS
    a = a  b = b  first = first  second = second  None = None
    Jobs = {a, b}  Keys = {first, second}  FirstKey = first
    Designs <- AllDesigns  KindChoices <- KindPairs
    MaxDeliveries = 2  MaxFaults = 1
INVARIANTS TypeOK TasksOfOneGeneration
PROPERTIES CompletionIsFinal ImplementsRegister JobsEnd
CHECK_DEADLOCK FALSE
