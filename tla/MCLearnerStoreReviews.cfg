SPECIFICATION StoreSpec
CONSTANTS
    AttemptId = {a1, a2, a3}
    Ctx = {c1, c2}
    Answers = {"right"}
    Times <- MCTimes
    Checkpoint <- MCCheckpoint
    NoAttempt = NoAttempt
    NoCheckpoint = NoCheckpoint
SYMMETRY Symmetry
INVARIANTS
    RestartLineage
    Replayable
    OneActiveReview
    ReviewsFollowDemonstration
PROPERTIES
    HistoryIsImmutable
CHECK_DEADLOCK FALSE
