SPECIFICATION Spec
CONSTANTS
    Exchanges <- AllExchanges
    Quotes <- SomeQuotes
    MaxTrades = 3
    MaxBatch = 2
    MaxLosses = 2
    MaxRefusals = 1
INVARIANTS MissingIsExplained NumbersTellTrades RetiresForAccepted ItemsTellTrades
CHECK_DEADLOCK FALSE
