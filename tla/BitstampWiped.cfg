SPECIFICATION Spec
CONSTANTS
    Prices = {1, 3}
    Openings <- NarrowOpening
    MaxMoves = 7
    MaxLevel = 0
    MaxLevelPct = 0
    SnapshotDelays = {1}
    MaxLag = 0
    MaxReconnects = 0
    MaxFailures = 0
PROPERTY WipedBookWaits
CHECK_DEADLOCK FALSE
