\* One swap at an exchange that wants authentication, acks subscriptions and
\* serves snapshots; two attempts, a queue of one entry.
SPECIFICATION FairSpec
CONSTANTS
    MaxTasks <- OneSwap
    MaxAttempts <- TwoAttempts
    AttemptCap = 2
    ChanCap = 1
    NeedsAuth = TRUE
    AcksSubscription = TRUE
    HookItems = TRUE
    SilenceTimeout = TRUE
    DrainTimeout = TRUE
    Merging = FALSE
INVARIANTS
    BudgetIsExact
    NoUnauthenticatedSession
PROPERTIES
    OnlySubscribeRestoresBudget
    DrainEventuallyEnds
    OldConnectionGivenUp
    DiallingEnds
