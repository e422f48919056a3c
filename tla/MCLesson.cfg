SPECIFICATION LessonSpec
CONSTANTS
    AttemptId = {a1}
    Ctx = {1}
    Answers = {"right", "wrong"}
    Times <- MCTimes
    Checkpoint = {}
    NoAttempt = NoAttempt
    NoCheckpoint = NoCheckpoint
    Activities <- MCActivities
    Lengths <- MCLengths
    MaxActions = 5
INVARIANTS
    RenderMatchesReference
    LessonIsTrue
    FeedbackIsEarned
PROPERTIES
    ImplementsAttempt
CHECK_DEADLOCK FALSE
