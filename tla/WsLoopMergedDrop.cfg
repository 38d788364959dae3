\* A replacement forked after the merge escapes the consumer's drop.
SPECIFICATION Spec
CONSTANTS
    MaxTasks <- OneSwap
    MaxAttempts <- NoBudget
    AttemptCap = 2
    ChanCap = 1
    NeedsAuth = FALSE
    AcksSubscription = FALSE
    HookItems = FALSE
    SilenceTimeout = TRUE
    DrainTimeout = TRUE
    Merging = TRUE
INVARIANTS
    AbortCoversEveryTask
