SPECIFICATION Spec
CONSTANTS
    Studies <- MCStudies
    MaxSelections = 2
CHECK_DEADLOCK FALSE
INVARIANTS TypeOK DesignsAreValid RankingIsExact
