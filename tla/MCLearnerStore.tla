--------------------------- MODULE MCLearnerStore ---------------------------
(***************************************************************************)
(* LearnerStore for TLC.  Attempt ids and contexts are only compared for   *)
(* equality, and no property of the run is a liveness property, so         *)
(* permuting them is sound.                                                *)
(***************************************************************************)
EXTENDS LearnerStore, TLC

\* Two days suffice to tell "earlier" from "later".
MCTimes == {0, 1}

\* No scenario reset: the states are spent on more attempts.
MCCheckpoint == CheckpointsWith({<<>>, <<RunAction>>})

Symmetry == Permutations(AttemptId) \cup Permutations(Ctx)
=============================================================================
