SPECIFICATION ClocksSpec
CONSTANTS
    Exchanges <- AllExchanges
    Interval = 2
    Silence = 3
    InitialBackoff = 2
    MaxBackoff = 5
    Multiplier = 2
    Jitter = 1
    MaxSocket = 2
    MaxLate = 3
    MaxAttempt = 3
INVARIANTS KeepsLiveConnection DeadIsNoticed SilenceIsReal DialsSpaced
