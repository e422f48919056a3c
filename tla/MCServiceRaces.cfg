SPECIFICATION FairServiceSpec
CONSTANTS
    AttemptId = {a1, a2}
    Workers = {w1, w2}
    Ctx <- TwoVersions
    Answers = {"right"}
    MaxTime = 0
    Times <- MCTimes
    Checkpoint <- MCCheckpoint
    Operations <- AllOperations
    ReviewDays = 0
    RetryDays = 0
    NoAttempt = NoAttempt
    NoCheckpoint = NoCheckpoint
INVARIANTS
    ServiceTypeOK
    HistoryHasBundles
PROPERTIES
    OnlySeenWorkIsDiscarded
    RequestsFinish
CHECK_DEADLOCK FALSE
