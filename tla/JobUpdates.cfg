SPECIFICATION Spec
CONSTANTS
    Sockets = {s1}
    MaxProgress = 1
INVARIANTS TypeOK
PROPERTIES SubscribedStreamsClose DismissalIsPermanent ListCatchesUp
CHECK_DEADLOCK FALSE
