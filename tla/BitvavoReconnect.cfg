SPECIFICATION Spec
CONSTANTS
    Prices = {1, 2, 3}
    Openings <- NarrowOpening
    MaxMoves = 3
    MaxLevel = 0
    MaxLevelPct = 0
    MaxReconnects = 1
PROPERTY ShowsNoGaps
CHECK_DEADLOCK FALSE
