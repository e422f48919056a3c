---------------------------- MODULE MCCommandLog ----------------------------
(***************************************************************************)
(* CommandLog for TLC: one key that callers may use for any of their       *)
(* calls, and a scenario that is run, reset and run again.                 *)
(***************************************************************************)
EXTENDS CommandLog, TLC

\* One day: the property at stake is that checkpoints differ even when the
\* clock does not tell them apart.
MCTimes == {0}

MCCheckpoint ==
    CheckpointsWith({<<>>, <<RunAction>>, <<RunAction, ResetAction>>,
                     <<RunAction, ResetAction, RunAction>>})

Symmetry == Permutations(AttemptId)
=============================================================================
