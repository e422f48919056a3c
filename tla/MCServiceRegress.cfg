SPECIFICATION ServiceSpec
CONSTANTS
    AttemptId = {a1, a2, a3}
    Workers = {w1}
    Ctx <- OneVersion
    Answers = {"right"}
    MaxTime = 2
    Times <- MCTimes
    Checkpoint <- MCShortCheckpoint
    Operations <- ReviewOperations
    ReviewDays = 1
    RetryDays = 1
    NoAttempt = NoAttempt
    NoCheckpoint = NoCheckpoint
SYMMETRY Symmetry
INVARIANTS
    QualifyingReviewRetains
CHECK_DEADLOCK FALSE
