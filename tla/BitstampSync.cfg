SPECIFICATION Spec
CONSTANTS
    Prices = {1, 2, 3}
    Openings <- NarrowOpening
    MaxMoves = 4
    MaxLevel = 0
    MaxLevelPct = 40
    SnapshotDelays = {0, 1, 2}
    MaxLag = 4
    MaxReconnects = 1
    MaxFailures = 1
INVARIANTS InFlightRepairs ViewIsBook NoCrossedItem
PROPERTIES MergeIsExact
CHECK_DEADLOCK FALSE
