SPECIFICATION CommandSpec
CONSTANTS
    AttemptId = {a1, a2}
    Ctx = {c1}
    Answers = {"right", "wrong"}
    Times <- MCTimes
    Checkpoint <- MCCheckpoint
    Keys = {k1}
    NoAttempt = NoAttempt
    NoCheckpoint = NoCheckpoint
SYMMETRY Symmetry
INVARIANTS
    TypeOK
    StepsNeverRecur
PROPERTIES
    PredictionIsCommitted
CHECK_DEADLOCK FALSE
