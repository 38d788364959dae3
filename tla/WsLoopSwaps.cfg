\* Two swaps of one channel at an exchange with neither authentication nor
\* subscription acks, merged into the consumer's stream at any moment.
SPECIFICATION Spec
CONSTANTS
    MaxTasks <- TwoSwaps
    MaxAttempts <- TwoAttempts
    AttemptCap = 2
    ChanCap = 1
    NeedsAuth = FALSE
    AcksSubscription = FALSE
    HookItems = FALSE
    SilenceTimeout = TRUE
    DrainTimeout = TRUE
    Merging = TRUE
INVARIANTS
    RetiresOnlyWhenConfirmed
    HandsOverWithData
PROPERTIES
    OneForkPerConnection
    DropIsClean
    ImplementsChannel
