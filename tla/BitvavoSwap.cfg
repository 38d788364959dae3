SPECIFICATION FairSwapSpec
CONSTANTS
    Prices = {1, 2, 3}
    Openings <- NarrowOpening
    MaxMoves = 3
    MaxLevel = 0
    MaxLevelPct = 40
    MaxReconnects = 1
    MaxHeirReconnects = 1
    MaxSwapMoves = 1
INVARIANTS ExactWhenSynced
PROPERTIES ShowsTrueBooks StartsClean ChannelCatchesUp
CHECK_DEADLOCK FALSE
