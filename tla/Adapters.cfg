SPECIFICATION Spec
CONSTANTS
    Exchanges = {"okx", "kraken", "bitstamp", "bitvavo"}
    Prices = {5, 10, 15}
    Sizes = {1, 10}
    Filters <- SomeFilters
    Configured <- TwoFilters
    SnapshotDelays = {0, 1}
    ChecksumDepth = 1
    Padded = {10}
    Second = 2
    Millisecond = 2
    Opening <- OneLevelEach
    MaxMoves = 4
    MaxReconnects = 1
    MaxFaults = 1
INVARIANTS ItemIsFiltered ShowsBook
PROPERTIES ChecksumTells AgreesWithLevels
CHECK_DEADLOCK FALSE
