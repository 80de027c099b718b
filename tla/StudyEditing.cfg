SPECIFICATION Spec
CONSTANTS
    Workers = {w1, w2}
    Keys = {k1, k2}
    Constraints = {c1, c2}
    Created = {{}}
    MaxRequests = 4
    MaxVersion = 7
INVARIANTS TypeOK DeadlocksNeedAMember
PROPERTIES TakesWholeDesigns ReplacementsAreWhole OnlyMembersActOnStaleRows
CHECK_DEADLOCK FALSE
SYMMETRY Symmetry
