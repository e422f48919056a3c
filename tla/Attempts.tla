------------------------------ MODULE Attempts ------------------------------
(***************************************************************************)
(* The Learner Attempt: the values of attempts.py (AttemptCheckpoint and   *)
(* the renderer history inside it) and the pure transition rules of        *)
(* learner_transitions.py, which both the append and the replay of the     *)
(* learner event store evaluate.                                           *)
(*                                                                         *)
(* A checkpoint is immutable and named by the SHA-256 of its content, so   *)
(* the record itself stands for its digest.  "ctx" stands for everything a *)
(* transition may never change: pack, bundle, lesson, outcome and          *)
(* scenario identity.  "completed" is (step = "complete"), the effective   *)
(* renderer actions are a function of the action history, and hints are    *)
(* always empty (require_start demands it, later steps keep it), so none   *)
(* of the three is a field here.                                           *)
(***************************************************************************)
EXTENDS Naturals, Sequences

CONSTANTS
    AttemptId,      \* names of Learner Attempts
    Ctx,            \* immutable learning contexts (one per bundle snapshot)
    Answers,        \* what a learner may answer: "right" qualifies
    Times,          \* wall-clock readings, in days
    Checkpoint      \* the checkpoints callers can build, all of them valid

CONSTANTS NoAttempt, NoCheckpoint

RunAction == "run-pipeline"
ResetAction == "reset-scenario"

ASSUME AnswersAssumption == Answers \subseteq {"right", "wrong"}
ASSUME TimesAssumption == Times \subseteq Nat
ASSUME NoAttemptAssumption == NoAttempt \notin AttemptId

(***************************************************************************)
(* The learning loop.                                                      *)
(***************************************************************************)
LoopSteps == {"map", "predict", "try", "prove", "explain", "complete"}

LoopIndex == [map |-> 0, predict |-> 1, try |-> 2, prove |-> 3,
              explain |-> 4, complete |-> 5]

MaybeAnswer == Answers \cup {"none"}

(***************************************************************************)
(* RendererCheckpoint: the last action decides whether a result is on      *)
(* display, and a run on top of a displayed result is refused.             *)
(***************************************************************************)
Ran(actions) == actions # <<>> /\ actions[Len(actions)] = RunAction

WellFormedActions(actions) ==
    \A i \in 1..(Len(actions) - 1) :
        ~(actions[i] = RunAction /\ actions[i + 1] = RunAction)

(***************************************************************************)
(* AttemptCheckpoint.__post_init__ and _validate_step: which responses a   *)
(* checkpoint at each step must and must not carry.                        *)
(***************************************************************************)
ValidStep(cp) ==
    LET index == LoopIndex[cp.step] IN
    /\ (cp.prediction # "none") <=> (index >= LoopIndex.try)
    /\ Ran(cp.actions) <=> (index >= LoopIndex.prove)
    /\ (cp.evidence # "none") <=> (index >= LoopIndex.explain)
    /\ (cp.explanation # "none") <=> (cp.step = "complete")

ValidCheckpoint(cp) ==
    /\ cp.started <= cp.updated
    /\ WellFormedActions(cp.actions)
    /\ ValidStep(cp)

CheckpointRecord ==
    [id : AttemptId, ctx : Ctx, started : Times, updated : Times,
     step : LoopSteps, prediction : MaybeAnswer, actions : Seq({RunAction, ResetAction}),
     evidence : MaybeAnswer, explanation : MaybeAnswer]

\* The constructor raises for any other, so no caller ever holds one.
ASSUME CheckpointAssumption ==
    \A cp \in Checkpoint : cp \in CheckpointRecord /\ ValidCheckpoint(cp)

\* Every valid checkpoint whose renderer history is one of "histories".
CheckpointsWith(histories) ==
    LET IfDone(done, given) == IF done THEN given ELSE {"none"}
        At(step) ==
            LET index == LoopIndex[step] IN
            [id : AttemptId, ctx : Ctx, started : Times, updated : Times,
             step : {step},
             prediction : IfDone(index >= LoopIndex.try, Answers),
             actions : {h \in histories :
                           WellFormedActions(h) /\ (Ran(h) <=> index >= LoopIndex.prove)},
             evidence : IfDone(index >= LoopIndex.explain, Answers),
             explanation : IfDone(step = "complete", Answers)]
    IN  {cp \in UNION {At(step) : step \in LoopSteps} : cp.started <= cp.updated}

Completed(cp) == cp.step = "complete"

(***************************************************************************)
(* LearningService._start_from_bundle and restart_attempt build this.      *)
(***************************************************************************)
InitialCheckpoint(a, ctx, now) ==
    [id |-> a, ctx |-> ctx, started |-> now, updated |-> now, step |-> "map",
     prediction |-> "none", actions |-> <<>>, evidence |-> "none",
     explanation |-> "none"]

(***************************************************************************)
(* learner_transitions.py.  Every caller in the program passes occurred_at *)
(* = updated_at (= started_at for a start), the equality these functions   *)
(* also demand, so the event time is cp.updated throughout.                *)
(***************************************************************************)
RequireStart(cp) == cp = InitialCheckpoint(cp.id, cp.ctx, cp.started)

SameIdentity(prev, cp) ==
    /\ cp.id = prev.id
    /\ cp.ctx = prev.ctx
    /\ cp.started = prev.started

TimeProgression(prev, cp) == prev.updated <= cp.updated

\* advance_map, predict, run_scenario, prove: one step forward
ForwardStep(prev, cp) ==
    \/ /\ prev.step = "map" /\ cp.step = "predict"
       /\ cp.prediction = "none"
       /\ cp.actions = prev.actions
       /\ cp.evidence = prev.evidence
    \/ /\ prev.step = "predict" /\ cp.step = "try"
       /\ cp.prediction # "none"
       /\ cp.actions = prev.actions
       /\ cp.evidence = prev.evidence
    \/ /\ prev.step = "try" /\ cp.step = "prove"
       /\ cp.prediction = prev.prediction
       /\ cp.actions = Append(prev.actions, RunAction)
       /\ cp.evidence = prev.evidence
    \/ /\ prev.step = "prove" /\ cp.step = "explain"
       /\ cp.prediction = prev.prediction
       /\ cp.actions = prev.actions
       /\ cp.evidence # "none"

\* Mutant: a scenario reset lets the learner predict again.
ResetRepredicting(prev, cp) ==
    /\ prev.step \in {"prove", "explain"} /\ cp.step = "try"
    /\ cp.actions = Append(prev.actions, ResetAction)
    /\ cp.evidence = "none"

\* Mutant: a scenario reset clears the action history.
ResetClearing(prev, cp) ==
    /\ prev.step \in {"prove", "explain"} /\ cp.step = "try"
    /\ cp.prediction = prev.prediction
    /\ cp.actions = <<>>
    /\ cp.evidence = "none"

\* reset_scenario: back to the Try step
ResetStep(prev, cp) ==
    /\ prev.step \in {"prove", "explain"} /\ cp.step = "try"
    /\ cp.prediction = prev.prediction
    /\ cp.actions = Append(prev.actions, ResetAction)
    /\ cp.evidence = "none"

CheckpointTransition(prev, cp) ==
    /\ SameIdentity(prev, cp)
    /\ TimeProgression(prev, cp)
    /\ ForwardStep(prev, cp) \/ ResetStep(prev, cp)

CompletionTransition(prev, cp) ==
    /\ SameIdentity(prev, cp)
    /\ TimeProgression(prev, cp)
    /\ prev.step = "explain" /\ cp.step = "complete"
    /\ cp.prediction = prev.prediction
    /\ cp.actions = prev.actions
    /\ cp.evidence = prev.evidence
    /\ cp.explanation # "none"

\* Mutant: the replacement may be of another bundle.
RestartElsewhere(prev, cp) ==
    /\ cp.id # prev.id
    /\ prev.updated <= cp.started
    /\ RequireStart(cp)

RestartTransition(prev, cp) ==
    /\ cp.id # prev.id
    /\ cp.ctx = prev.ctx
    /\ prev.updated <= cp.started
    /\ RequireStart(cp)

(***************************************************************************)
(* evaluate_attempt: a completed attempt qualifies when the prediction,    *)
(* every Evidence Card verdict and the explanation are the lesson's.  The  *)
(* evaluator is given the attempt's own bundle, and re-renders the         *)
(* activity deterministically, so identity and result always match.        *)
(***************************************************************************)
Qualifies(cp) ==
    /\ Completed(cp)
    /\ cp.prediction = "right"
    /\ cp.evidence = "right"
    /\ cp.explanation = "right"
=============================================================================
