------------------------------- MODULE Lesson -------------------------------
(***************************************************************************)
(* The one lesson of version one (lesson_content.py) and its synthetic     *)
(* activity (activity.py): what the renderer computes from a fixed list of *)
(* usage records, what the learner answers at each step of the loop, and   *)
(* how evaluate_attempt grades a finished attempt.  Module Attempts only   *)
(* knows answers as "right" or "wrong"; this module shows that the real    *)
(* handlers and the real grading are an instance of it.                    *)
(*                                                                         *)
(* An explanation is its length after strip(); its remaining uncertainty   *)
(* and the confidences must be present but are graded by nothing.          *)
(***************************************************************************)
EXTENDS Attempts, SequencesExt

CONSTANTS
    Activities,     \* inputs given to the renderer besides the lesson's own
    Lengths,        \* lengths of explanations a learner writes
    MaxActions      \* bound on the renderer's action history

ASSUME LengthsAssumption == Lengths \subseteq Nat
ASSUME MaxActionsAssumption == MaxActions \in Nat

VARIABLES
    activity,       \* the input the renderer is asked to render
    attempt         \* the learner's one attempt

lessonVars == <<activity, attempt>>

-----------------------------------------------------------------------------
(***************************************************************************)
(* Renderer inputs.  EtlActivityInput refuses records without a repeated   *)
(* key.                                                                    *)
(***************************************************************************)
EventIds(records) == {records[i].event : i \in DOMAIN records}

ActivityInput ==
    [records : Seq([event : Nat, credits : Nat]), cents : Nat, stops : BOOLEAN]

ValidInput(input) ==
    /\ input \in ActivityInput
    /\ input.records # <<>>
    /\ Cardinality(EventIds(input.records)) # Len(input.records)

CodexEtlActivity ==
    [records |-> << [event |-> 1, credits |-> 2], [event |-> 1, credits |-> 2],
                    [event |-> 2, credits |-> 3] >>,
     cents |-> 1, stops |-> FALSE]

ASSUME ActivitiesAssumption == \A input \in Activities : ValidInput(input)

(***************************************************************************)
(* render_activity: a Counter of the keys, the cost of all records, and    *)
(* the cost of a dict of the records read backwards, so that the first     *)
(* record of each key stays.                                               *)
(***************************************************************************)
\* What a dict filled in this order keeps for each key: its last record.
LastOfEach(records) ==
    [e \in EventIds(records) |->
        records[Max({i \in DOMAIN records : records[i].event = e})]]

\* Mutant: the records are read forwards.
LastRecords(records) == LastOfEach(records)

UniqueRecords(records) == LastOfEach(Reverse(records))

Counts(records) ==
    [e \in EventIds(records) |->
        Cardinality({i \in DOMAIN records : records[i].event = e})]

Ready(input) ==
    [status |-> "ready", rows |-> 0, excess |-> 0, passed |-> "unknown",
     completed |-> FALSE, downstream |-> 0, unique |-> 0]

\* what a list or a dict of records costs
Cost(input, records) ==
    SumFunction([k \in DOMAIN records |-> records[k].credits * input.cents])

Excess(records) ==
    LET counts == Counts(records)
    IN  SumFunction([e \in DOMAIN counts |-> counts[e] - 1])

Rendered(input) ==
    LET excess == Excess(input.records)
        stopped == excess # 0 /\ input.stops
    IN  [status |-> IF stopped THEN "blocked" ELSE "complete",
         rows |-> Len(input.records),
         excess |-> excess,
         passed |-> IF excess = 0 THEN "yes" ELSE "no",
         completed |-> ~stopped,
         downstream |-> IF stopped THEN 0 ELSE Cost(input, input.records),
         unique |-> Cost(input, UniqueRecords(input.records))]

Render(input, actions) == IF Ran(actions) THEN Rendered(input) ELSE Ready(input)

-----------------------------------------------------------------------------
(***************************************************************************)
(* The lesson's content.                                                   *)
(***************************************************************************)
PredictionChoices ==
    {"stops-before-write", "continues-with-duplicate", "deduplicates-before-write"}
ExpectedPrediction == "continues-with-duplicate"

RequiredSupport == {"validation-policy", "validation-result", "downstream-snapshot"}
RequiredReject == {"green-job-status"}
Cards == RequiredSupport \cup RequiredReject
Verdicts == {"supports", "rejects"}

Mechanisms == {"nonblocking-validation", "green-means-valid"}
ExpectedMechanism == "nonblocking-validation"
MinimumCharacters == 24

NoPrediction == "none"
NoEvidence == <<>>
NoExplanation == [mechanism |-> "none", length |-> 0]

NewAttempt ==
    [step |-> "map", prediction |-> NoPrediction, actions |-> <<>>,
     result |-> Ready(CodexEtlActivity), evidence |-> NoEvidence,
     explanation |-> NoExplanation]

LessonInit ==
    /\ activity \in Activities \cup {CodexEtlActivity}
    /\ attempt = NewAttempt

-----------------------------------------------------------------------------
(***************************************************************************)
(* The handlers.  render_scenario fails closed for any activity but the    *)
(* lesson's own, and RendererCheckpoint refuses a run that was blocked.    *)
(***************************************************************************)
AtStep(step) == activity = CodexEtlActivity /\ attempt.step = step

AdvanceMap ==
    /\ AtStep("map")
    /\ attempt' = [attempt EXCEPT !.step = "predict"]
    /\ UNCHANGED activity

Predict ==
    /\ AtStep("predict")
    /\ \E choice \in PredictionChoices :
           attempt' = [attempt EXCEPT !.step = "try", !.prediction = choice]
    /\ UNCHANGED activity

\* Mutant: the result of the first rendering is kept.
RunScenarioKeeping ==
    LET actions == Append(attempt.actions, RunAction) IN
    /\ AtStep("try")
    /\ Len(actions) <= MaxActions
    /\ attempt' = [attempt EXCEPT !.step = "prove", !.actions = actions]
    /\ UNCHANGED activity

RunScenario ==
    LET actions == Append(attempt.actions, RunAction) IN
    /\ AtStep("try")
    /\ Len(actions) <= MaxActions
    /\ WellFormedActions(actions)
    /\ Render(activity, actions).status = "complete"
    /\ attempt' = [attempt EXCEPT !.step = "prove", !.actions = actions,
                                  !.result = Render(activity, actions)]
    /\ UNCHANGED activity

\* Mutant: the verdicts given before the reset are kept.
ResetKeepingEvidence ==
    LET actions == Append(attempt.actions, ResetAction) IN
    /\ AtStep("prove") \/ AtStep("explain")
    /\ attempt' = [attempt EXCEPT !.step = "try", !.actions = actions,
                                  !.result = Render(activity, actions)]
    /\ UNCHANGED activity

ResetScenario ==
    LET actions == Append(attempt.actions, ResetAction) IN
    /\ AtStep("prove") \/ AtStep("explain")
    /\ attempt' = [attempt EXCEPT !.step = "try", !.actions = actions,
                                  !.result = Render(activity, actions),
                                  !.evidence = NoEvidence,
                                  !.explanation = NoExplanation]
    /\ UNCHANGED activity

\* The form has one verdict per card.
Prove ==
    /\ AtStep("prove")
    /\ \E verdicts \in [Cards -> Verdicts] :
           attempt' = [attempt EXCEPT !.step = "explain", !.evidence = verdicts]
    /\ UNCHANGED activity

\* An explanation that is blank is refused.
Explain ==
    /\ AtStep("explain")
    /\ \E mechanism \in Mechanisms, length \in Lengths \ {0} :
           attempt' = [attempt EXCEPT
               !.step = "complete",
               !.explanation = [mechanism |-> mechanism, length |-> length]]
    /\ UNCHANGED activity

LessonNext ==
    AdvanceMap \/ Predict \/ RunScenario \/ ResetScenario \/ Prove \/ Explain

LessonSpec == LessonInit /\ [][LessonNext]_lessonVars

-----------------------------------------------------------------------------
(***************************************************************************)
(* evaluate_attempt: the reasons a finished attempt does not qualify; its  *)
(* bundle is the attempt's own, so that the identity always matches.       *)
(***************************************************************************)
ExpectedVerdicts ==
    [c \in Cards |-> IF c \in RequiredReject THEN "rejects" ELSE "supports"]

\* Mutant: only the required support is compared.
EvidenceSupported(verdicts) ==
    \A c \in RequiredSupport : verdicts[c] = "supports"

EvidenceMatches(verdicts) == verdicts = ExpectedVerdicts

Feedback ==
    {reason \in {"prediction-incorrect", "renderer-result-mismatch",
                 "evidence-insufficient", "explanation-choice-incorrect",
                 "explanation-too-short"} :
        \/ /\ reason = "prediction-incorrect"
           /\ attempt.prediction # ExpectedPrediction
        \/ /\ reason = "renderer-result-mismatch"
           /\ attempt.result # Render(CodexEtlActivity, attempt.actions)
        \/ /\ reason = "evidence-insufficient"
           /\ ~EvidenceMatches(attempt.evidence)
        \/ /\ reason = "explanation-choice-incorrect"
           /\ attempt.explanation.mechanism # ExpectedMechanism
        \/ /\ reason = "explanation-too-short"
           /\ attempt.explanation.length < MinimumCharacters}

-----------------------------------------------------------------------------
(***************************************************************************)
(* The renderer, over every small input: the excess is how many records    *)
(* repeat an earlier key, the published total counts every record (or none *)
(* if a failed check stops the job), the unique total the first record of  *)
(* each key; and a run never reports that validation passed, since inputs  *)
(* without a repeated key are refused.                                     *)
(***************************************************************************)
RenderMatchesReference ==
    LET records == activity.records
        IsFirst(i) == \A j \in 1..(i - 1) : records[j].event # records[i].event
        repeats == {i \in DOMAIN records : ~IsFirst(i)}
        credits == [i \in DOMAIN records |-> records[i].credits]
        CostOf(positions) == activity.cents * SumFunctionOnSet(credits, positions)
        result == Rendered(activity)
    IN  /\ result.excess = Cardinality(repeats)
        /\ result.passed = "no"
        /\ result.completed <=> ~activity.stops
        /\ result.unique = CostOf(DOMAIN records \ repeats)
        /\ result.downstream = IF activity.stops THEN 0 ELSE CostOf(DOMAIN records)

(***************************************************************************)
(* What the cards and the expected prediction state is what the learner    *)
(* has on display while judging them: the job completed, validation found  *)
(* one excess row, and 7 cents were published instead of 5.                *)
(***************************************************************************)
LessonIsTrue ==
    attempt.step \in {"prove", "explain", "complete"} =>
        /\ attempt.result.completed
        /\ attempt.result.excess = 1
        /\ attempt.result.downstream = 7 /\ attempt.result.unique = 5

(***************************************************************************)
(* The lesson's attempt as module Attempts sees it.                        *)
(***************************************************************************)
Grade(given, right) ==
    IF ~given THEN "none" ELSE IF right THEN "right" ELSE "wrong"

Abstract ==
    [id |-> "the attempt", ctx |-> 1, started |-> 0, updated |-> 0,
     step |-> attempt.step,
     prediction |-> Grade(attempt.prediction # NoPrediction,
                         attempt.prediction = ExpectedPrediction),
     actions |-> attempt.actions,
     evidence |-> Grade(attempt.evidence # NoEvidence,
         \A c \in Cards : (attempt.evidence[c] = "supports") <=> (c \notin RequiredReject)),
     explanation |-> Grade(attempt.explanation # NoExplanation,
         /\ attempt.explanation.mechanism = ExpectedMechanism
         /\ attempt.explanation.length >= MinimumCharacters)]

(***************************************************************************)
(* Every step of a handler, seen through the grades, is a transition that  *)
(* the store's rules accept, and gives a checkpoint that is valid: no      *)
(* handler builds what the store would refuse.                             *)
(***************************************************************************)
ImplementsAttempt ==
    [][/\ CheckpointTransition(Abstract, Abstract') \/ CompletionTransition(Abstract, Abstract')
       /\ ValidCheckpoint(Abstract')]_lessonVars

(***************************************************************************)
(* A finished attempt gets no feedback exactly when it qualifies in module *)
(* Attempts, however often the scenario was reset; and it is never failed  *)
(* for the renderer's own doing ("renderer-result-mismatch").              *)
(***************************************************************************)
FeedbackIsEarned ==
    Completed(attempt) =>
        /\ (Feedback = {}) <=> Qualifies(Abstract)
        /\ "renderer-result-mismatch" \notin Feedback
=============================================================================
