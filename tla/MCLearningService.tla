-------------------------- MODULE MCLearningService --------------------------
(***************************************************************************)
(* LearningService for TLC.  Attempt ids and workers are only compared for *)
(* equality; symmetry is used by the runs that check no liveness property. *)
(***************************************************************************)
EXTENDS LearningService, TLC

\* With a scenario that is run, reset and run again, and without resets.
MCCheckpoint ==
    CheckpointsWith({<<>>, <<RunAction>>, <<RunAction, ResetAction>>,
                     <<RunAction, ResetAction, RunAction>>})
MCShortCheckpoint == CheckpointsWith({<<>>, <<RunAction>>})

MCTimes == 0..MaxTime

OneVersion == {1}
TwoVersions == {1, 2}

ReviewOperations == {"start", "step", "review"}
AllOperations == {"start", "step", "review", "reset", "restart"}

Symmetry == Permutations(AttemptId) \cup Permutations(Workers)
=============================================================================
