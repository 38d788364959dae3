SPECIFICATION Spec
CONSTANTS
    Prices = {1, 2, 3}
    Openings <- NarrowOpening
    MaxMoves = 3
    MaxLevel = 1
    MaxLevelPct = 0
    Exchanges = {"okx", "kraken"}
    MaxReconnects = 1
    MaxResends = 1
    MaxFaults = 1
INVARIANTS NeverCrossed OnlyThrownMissing GapDropsBook ViewIsBook
CHECK_DEADLOCK FALSE
