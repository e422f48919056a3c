---------------------------- MODULE LessonProofs ----------------------------
(***************************************************************************)
(* What the lesson promises, proved for explanations of any length, any    *)
(* number of resets and any other activities.                              *)
(***************************************************************************)
EXTENDS Lesson, SequenceTheorems, FunctionTheorems, FiniteSetTheorems,
        WellFoundedInduction, TLAPS

(***************************************************************************)
(* The inductive invariant.  Answers are given exactly at the steps that   *)
(* follow them, the action history alternates runs and resets, and what is *)
(* on display is what the renderer makes of that history.                  *)
(***************************************************************************)
IsAttempt(v) ==
    /\ v = [step |-> v.step, prediction |-> v.prediction, actions |-> v.actions,
            result |-> v.result, evidence |-> v.evidence,
            explanation |-> v.explanation]
    /\ v.step \in LoopSteps
    /\ v.prediction \in PredictionChoices \cup {NoPrediction}
    /\ v.actions \in Seq({RunAction, ResetAction})
    /\ v.evidence \in [Cards -> Verdicts] \cup {NoEvidence}
    /\ v.explanation \in [mechanism : Mechanisms, length : Nat \ {0}] \cup {NoExplanation}

AnswersFit(v) ==
    LET index == LoopIndex[v.step] IN
    /\ (v.prediction # NoPrediction) <=> (index >= LoopIndex.try)
    /\ Ran(v.actions) <=> (index >= LoopIndex.prove)
    /\ (v.evidence # NoEvidence) <=> (index >= LoopIndex.explain)
    /\ (v.explanation # NoExplanation) <=> (v.step = "complete")

ShowsItsRun(v) == v.result = Render(CodexEtlActivity, v.actions)

LessonInv ==
    /\ IsAttempt(attempt)
    /\ AnswersFit(attempt)
    /\ WellFormedActions(attempt.actions)
    /\ ShowsItsRun(attempt)

-----------------------------------------------------------------------------
\* A run follows only what is not a run, a reset anything.
LEMMA OneMoreAction ==
    ASSUME NEW actions \in Seq({RunAction, ResetAction}), WellFormedActions(actions),
           NEW a \in {RunAction, ResetAction}, a = RunAction => ~Ran(actions)
    PROVE  LET longer == Append(actions, a) IN
           /\ longer \in Seq({RunAction, ResetAction})
           /\ WellFormedActions(longer)
           /\ Ran(longer) <=> a = RunAction
<1> DEFINE n == Len(actions)
           longer == Append(actions, a)
<1>1. n \in Nat /\ DOMAIN actions = 1..n
  OBVIOUS
<1>2. /\ longer \in Seq({RunAction, ResetAction}) /\ Len(longer) = n + 1
      /\ longer[n + 1] = a /\ \A i \in 1..n : longer[i] = actions[i]
      /\ longer # <<>>
  OBVIOUS
<1> HIDE DEF longer
<1>3. Ran(longer) <=> a = RunAction
  BY <1>1, <1>2 DEF Ran
<1>4. WellFormedActions(longer)
  <2> SUFFICES ASSUME NEW i \in 1..n
               PROVE  ~(longer[i] = RunAction /\ longer[i + 1] = RunAction)
    BY <1>1, <1>2 DEF WellFormedActions
  <2>1. CASE i = n
    <3>1. actions # <<>>
      BY <1>1, <2>1
    <3> QED
      BY <1>1, <1>2, <2>1, <3>1 DEF Ran
  <2>2. CASE i # n
    <3>1. n \in Nat => i \in 1..(n - 1) /\ i + 1 \in 1..n
      <4> HIDE DEF n
      <4> QED
        BY <2>2
    <3> QED
      BY <1>1, <1>2, <3>1 DEF WellFormedActions
  <2> QED
    BY <2>1, <2>2
<1> QED
  BY <1>2, <1>3, <1>4 DEF longer

\* The answers that stand for no answer are none a learner can give.
LEMMA NoAnswers ==
    /\ NoPrediction \notin PredictionChoices
    /\ NoEvidence \notin [Cards -> Verdicts]
    /\ \A m \in Mechanisms, n \in Nat \ {0} : [mechanism |-> m, length |-> n] # NoExplanation
<1>1. NoEvidence \notin [Cards -> Verdicts]
  <2>1. DOMAIN NoEvidence = {}
    BY DEF NoEvidence
  <2>2. "green-job-status" \in Cards
    BY DEF Cards, RequiredReject
  <2> QED
    BY <2>1, <2>2
<1>2. \A m \in Mechanisms, n \in Nat \ {0} : [mechanism |-> m, length |-> n] # NoExplanation
  BY DEF Mechanisms, NoExplanation
<1> QED
  BY <1>1, <1>2 DEF NoPrediction, PredictionChoices

LEMMA InitialLesson == LessonInit => LessonInv
<1> SUFFICES ASSUME LessonInit
             PROVE  LessonInv
  OBVIOUS
<1>1. attempt = NewAttempt
  BY DEF LessonInit
<1>2. /\ attempt.step = "map" /\ attempt.prediction = NoPrediction
      /\ attempt.actions = <<>> /\ attempt.result = Ready(CodexEtlActivity)
      /\ attempt.evidence = NoEvidence /\ attempt.explanation = NoExplanation
  BY <1>1 DEF NewAttempt
<1>3. ~Ran(<<>>) /\ WellFormedActions(<<>>)
  BY DEF Ran, WellFormedActions
<1>4. IsAttempt(attempt)
  <2>1. <<>> \in Seq({RunAction, ResetAction})
    BY EmptySeq
  <2>2. "map" \in LoopSteps
    BY DEF LoopSteps
  <2> QED
    BY <1>1, <1>2, <2>1, <2>2 DEF NewAttempt, IsAttempt
<1>5. AnswersFit(attempt)
  BY <1>2, <1>3 DEF AnswersFit, LoopIndex
<1>6. ShowsItsRun(attempt)
  BY <1>2, <1>3 DEF ShowsItsRun, Render
<1> QED
  BY <1>2, <1>3, <1>4, <1>5, <1>6 DEF LessonInv

LEMMA LessonStep == LessonInv /\ [LessonNext]_lessonVars => LessonInv'
<1> SUFFICES ASSUME LessonInv, [LessonNext]_lessonVars
             PROVE  LessonInv'
  OBVIOUS
<1> USE DEF LessonInv
<1>0. CASE UNCHANGED lessonVars
  BY <1>0 DEF lessonVars
<1>1. CASE AdvanceMap
  <2>1. /\ IsAttempt(attempt') /\ attempt'.step = "predict" /\ attempt.step = "map"
        /\ attempt'.prediction = attempt.prediction
        /\ attempt'.actions = attempt.actions
        /\ attempt'.result = attempt.result
        /\ attempt'.evidence = attempt.evidence
        /\ attempt'.explanation = attempt.explanation
    BY <1>1 DEF AdvanceMap, AtStep, IsAttempt, LoopSteps
  <2>2. AnswersFit(attempt')
    BY <2>1 DEF AnswersFit, LoopIndex
  <2>3. ShowsItsRun(attempt') /\ WellFormedActions(attempt'.actions)
    BY <2>1 DEF ShowsItsRun
  <2> QED
    BY <2>1, <2>2, <2>3
<1>2. CASE Predict
  <2>1. PICK choice \in PredictionChoices :
            attempt' = [attempt EXCEPT !.step = "try", !.prediction = choice]
    BY <1>2 DEF Predict
  <2>2. /\ IsAttempt(attempt') /\ attempt'.step = "try" /\ attempt.step = "predict"
        /\ attempt'.prediction = choice
        /\ attempt'.actions = attempt.actions
        /\ attempt'.result = attempt.result
        /\ attempt'.evidence = attempt.evidence
        /\ attempt'.explanation = attempt.explanation
    BY <1>2, <2>1 DEF Predict, AtStep, IsAttempt, LoopSteps
  <2>3. AnswersFit(attempt')
    BY <2>2, NoAnswers DEF AnswersFit, LoopIndex
  <2>4. ShowsItsRun(attempt') /\ WellFormedActions(attempt'.actions)
    BY <2>2 DEF ShowsItsRun
  <2> QED
    BY <2>2, <2>3, <2>4
<1>3. CASE RunScenario
  <2> DEFINE actions == Append(attempt.actions, RunAction)
  <2>1. /\ activity = CodexEtlActivity /\ attempt.step = "try"
        /\ attempt' = [attempt EXCEPT !.step = "prove", !.actions = actions,
                                      !.result = Render(activity, actions)]
    BY <1>3 DEF RunScenario, AtStep
  <2>2. ~Ran(attempt.actions)
    BY <2>1 DEF AnswersFit, LoopIndex
  <2>3. attempt.actions \in Seq({RunAction, ResetAction})
    BY DEF IsAttempt
  <2>4. /\ actions \in Seq({RunAction, ResetAction})
        /\ WellFormedActions(actions) /\ Ran(actions)
    BY <2>2, <2>3, OneMoreAction
  <2> HIDE DEF actions
  <2>5. /\ IsAttempt(attempt') /\ attempt'.step = "prove"
        /\ attempt'.prediction = attempt.prediction
        /\ attempt'.actions = actions
        /\ attempt'.result = Render(CodexEtlActivity, actions)
        /\ attempt'.evidence = attempt.evidence
        /\ attempt'.explanation = attempt.explanation
    BY <2>1, <2>4 DEF IsAttempt, LoopSteps
  <2>6. AnswersFit(attempt')
    BY <2>1, <2>4, <2>5 DEF AnswersFit, LoopIndex
  <2> QED
    BY <2>4, <2>5, <2>6 DEF ShowsItsRun
<1>4. CASE ResetScenario
  <2> DEFINE actions == Append(attempt.actions, ResetAction)
  <2>1. /\ activity = CodexEtlActivity /\ attempt.step \in {"prove", "explain"}
        /\ attempt' = [attempt EXCEPT !.step = "try", !.actions = actions,
                                      !.result = Render(activity, actions),
                                      !.evidence = NoEvidence,
                                      !.explanation = NoExplanation]
    BY <1>4 DEF ResetScenario, AtStep
  <2>2. attempt.actions \in Seq({RunAction, ResetAction})
    BY DEF IsAttempt
  <2>3. /\ actions \in Seq({RunAction, ResetAction})
        /\ WellFormedActions(actions) /\ ~Ran(actions)
    BY <2>2, OneMoreAction DEF RunAction, ResetAction
  <2> HIDE DEF actions
  <2>4. /\ IsAttempt(attempt') /\ attempt'.step = "try"
        /\ attempt'.prediction = attempt.prediction
        /\ attempt'.actions = actions
        /\ attempt'.result = Render(CodexEtlActivity, actions)
        /\ attempt'.evidence = NoEvidence
        /\ attempt'.explanation = NoExplanation
    BY <2>1, <2>3 DEF IsAttempt, LoopSteps
  <2>5. AnswersFit(attempt')
    BY <2>1, <2>3, <2>4 DEF AnswersFit, LoopIndex
  <2> QED
    BY <2>3, <2>4, <2>5 DEF ShowsItsRun
<1>5. CASE Prove
  <2>1. PICK verdicts \in [Cards -> Verdicts] :
            attempt' = [attempt EXCEPT !.step = "explain", !.evidence = verdicts]
    BY <1>5 DEF Prove
  <2>2. /\ IsAttempt(attempt') /\ attempt'.step = "explain" /\ attempt.step = "prove"
        /\ attempt'.prediction = attempt.prediction
        /\ attempt'.actions = attempt.actions
        /\ attempt'.result = attempt.result
        /\ attempt'.evidence = verdicts
        /\ attempt'.explanation = attempt.explanation
    BY <1>5, <2>1 DEF Prove, AtStep, IsAttempt, LoopSteps
  <2>3. AnswersFit(attempt')
    BY <2>2, NoAnswers DEF AnswersFit, LoopIndex
  <2>4. ShowsItsRun(attempt') /\ WellFormedActions(attempt'.actions)
    BY <2>2 DEF ShowsItsRun
  <2> QED
    BY <2>2, <2>3, <2>4
<1>6. CASE Explain
  <2>1. PICK mechanism \in Mechanisms, length \in Lengths \ {0} :
            attempt' = [attempt EXCEPT
                !.step = "complete",
                !.explanation = [mechanism |-> mechanism, length |-> length]]
    BY <1>6 DEF Explain
  <2> DEFINE explanation == [mechanism |-> mechanism, length |-> length]
  <2>2. /\ explanation \in [mechanism : Mechanisms, length : Nat \ {0}]
        /\ explanation # NoExplanation
    BY NoAnswers, LengthsAssumption
  <2> HIDE DEF explanation
  <2>3. /\ IsAttempt(attempt') /\ attempt'.step = "complete" /\ attempt.step = "explain"
        /\ attempt'.prediction = attempt.prediction
        /\ attempt'.actions = attempt.actions
        /\ attempt'.result = attempt.result
        /\ attempt'.evidence = attempt.evidence
        /\ attempt'.explanation = explanation
    BY <1>6, <2>1, <2>2 DEF Explain, AtStep, IsAttempt, LoopSteps, explanation
  <2>4. AnswersFit(attempt')
    BY <2>2, <2>3 DEF AnswersFit, LoopIndex
  <2>5. ShowsItsRun(attempt') /\ WellFormedActions(attempt'.actions)
    BY <2>3 DEF ShowsItsRun
  <2> QED
    BY <2>3, <2>4, <2>5
<1> QED
  BY <1>0, <1>1, <1>2, <1>3, <1>4, <1>5, <1>6 DEF LessonNext

(***************************************************************************)
(* The inductive invariant of the lesson, with the shape of its attempt.   *)
(***************************************************************************)
THEOREM LessonInvariant == LessonSpec => []LessonInv
BY InitialLesson, LessonStep, PTL DEF LessonSpec

-----------------------------------------------------------------------------
\* The fields of the attempt as module Attempts sees it.
LEMMA AbstractFields ==
    /\ Abstract.id = "the attempt" /\ Abstract.ctx = 1
    /\ Abstract.started = 0 /\ Abstract.updated = 0
    /\ Abstract.step = attempt.step /\ Abstract.actions = attempt.actions
    /\ Abstract.prediction = Grade(attempt.prediction # NoPrediction,
                                   attempt.prediction = ExpectedPrediction)
    /\ Abstract.evidence = Grade(attempt.evidence # NoEvidence,
           \A c \in Cards : (attempt.evidence[c] = "supports") <=> (c \notin RequiredReject))
    /\ Abstract.explanation = Grade(attempt.explanation # NoExplanation,
           /\ attempt.explanation.mechanism = ExpectedMechanism
           /\ attempt.explanation.length >= MinimumCharacters)
BY DEF Abstract

\* What is graded is what was given.
LEMMA GradeGiven ==
    ASSUME NEW given \in BOOLEAN, NEW right \in BOOLEAN
    PROVE  /\ (Grade(given, right) # "none") <=> given
           /\ (Grade(given, right) = "right") <=> (given /\ right)
BY DEF Grade

\* A grade is given exactly when the answer is.
GradesGiven ==
    /\ (Abstract.prediction # "none") <=> (attempt.prediction # NoPrediction)
    /\ (Abstract.evidence # "none") <=> (attempt.evidence # NoEvidence)
    /\ (Abstract.explanation # "none") <=> (attempt.explanation # NoExplanation)

LEMMA GradesFollowAnswers == GradesGiven
BY AbstractFields, GradeGiven DEF GradesGiven

\* A valid attempt makes a valid checkpoint.
LEMMA AbstractIsValid == LessonInv => ValidCheckpoint(Abstract)
<1> SUFFICES ASSUME LessonInv
             PROVE  ValidCheckpoint(Abstract)
  OBVIOUS
<1>1. Abstract.step = attempt.step /\ Abstract.actions = attempt.actions
  BY AbstractFields
<1>2. Abstract.started <= Abstract.updated
  <2>1. Abstract.started = 0 /\ Abstract.updated = 0
    BY DEF Abstract
  <2> QED
    BY <2>1
<1>3. ValidStep(Abstract)
  BY <1>1, GradesFollowAnswers DEF LessonInv, AnswersFit, ValidStep, GradesGiven
<1> QED
  BY <1>1, <1>2, <1>3 DEF LessonInv, ValidCheckpoint

\* An answer that stays keeps its grade.
LEMMA GradesStay ==
    /\ attempt'.prediction = attempt.prediction => Abstract'.prediction = Abstract.prediction
    /\ attempt'.evidence = attempt.evidence => Abstract'.evidence = Abstract.evidence
    /\ attempt'.explanation = attempt.explanation =>
           Abstract'.explanation = Abstract.explanation
BY DEF Abstract

\* Every handler is a transition of the rules the store evaluates.
LEMMA StepsAreTransitions ==
    LessonInv /\ LessonInv' /\ LessonNext =>
        CheckpointTransition(Abstract, Abstract') \/ CompletionTransition(Abstract, Abstract')
<1> SUFFICES ASSUME LessonInv, LessonInv', LessonNext
             PROVE  \/ CheckpointTransition(Abstract, Abstract')
                    \/ CompletionTransition(Abstract, Abstract')
  OBVIOUS
<1>1. SameIdentity(Abstract, Abstract') /\ TimeProgression(Abstract, Abstract')
  BY DEF Abstract, SameIdentity, TimeProgression
<1>2. /\ Abstract.step = attempt.step /\ Abstract'.step = attempt'.step
      /\ Abstract.actions = attempt.actions /\ Abstract'.actions = attempt'.actions
  BY DEF Abstract
<1>3. /\ (Abstract'.prediction # "none") <=> (attempt'.prediction # NoPrediction)
      /\ (Abstract'.evidence # "none") <=> (attempt'.evidence # NoEvidence)
      /\ (Abstract'.explanation # "none") <=> (attempt'.explanation # NoExplanation)
  <2>1. GradesGiven'
    BY GradesFollowAnswers, PTL
  <2> QED
    BY <2>1 DEF GradesGiven
<1>4. IsAttempt(attempt) /\ AnswersFit(attempt) /\ AnswersFit(attempt')
  BY DEF LessonInv
<1>5. CASE AdvanceMap
  <2>1. /\ attempt.step = "map" /\ attempt'.step = "predict"
        /\ attempt'.prediction = attempt.prediction
        /\ attempt'.actions = attempt.actions
        /\ attempt'.evidence = attempt.evidence
    BY <1>4, <1>5 DEF AdvanceMap, AtStep, IsAttempt
  <2>2. attempt'.prediction = NoPrediction
    BY <1>4, <2>1 DEF AnswersFit, LoopIndex
  <2> QED
    BY <1>1, <1>2, <1>3, <2>1, <2>2, GradesStay DEF CheckpointTransition, ForwardStep
<1>6. CASE Predict
  <2>1. /\ attempt.step = "predict" /\ attempt'.step = "try"
        /\ attempt'.actions = attempt.actions
        /\ attempt'.evidence = attempt.evidence
    BY <1>4, <1>6 DEF Predict, AtStep, IsAttempt
  <2>2. attempt'.prediction # NoPrediction
    BY <1>4, <2>1 DEF AnswersFit, LoopIndex
  <2> QED
    BY <1>1, <1>2, <1>3, <2>1, <2>2, GradesStay DEF CheckpointTransition, ForwardStep
<1>7. CASE RunScenario
  <2>1. /\ attempt.step = "try" /\ attempt'.step = "prove"
        /\ attempt'.prediction = attempt.prediction
        /\ attempt'.actions = Append(attempt.actions, RunAction)
        /\ attempt'.evidence = attempt.evidence
    BY <1>4, <1>7 DEF RunScenario, AtStep, IsAttempt
  <2> QED
    BY <1>1, <1>2, <2>1, GradesStay DEF CheckpointTransition, ForwardStep
<1>8. CASE ResetScenario
  <2>1. /\ attempt.step \in {"prove", "explain"} /\ attempt'.step = "try"
        /\ attempt'.prediction = attempt.prediction
        /\ attempt'.actions = Append(attempt.actions, ResetAction)
        /\ attempt'.evidence = NoEvidence
    BY <1>4, <1>8 DEF ResetScenario, AtStep, IsAttempt
  <2> QED
    BY <1>1, <1>2, <1>3, <2>1, GradesStay DEF CheckpointTransition, ResetStep
<1>9. CASE Prove
  <2>1. /\ attempt.step = "prove" /\ attempt'.step = "explain"
        /\ attempt'.prediction = attempt.prediction
        /\ attempt'.actions = attempt.actions
    BY <1>4, <1>9 DEF Prove, AtStep, IsAttempt
  <2>2. attempt'.evidence # NoEvidence
    BY <1>4, <2>1 DEF AnswersFit, LoopIndex
  <2> QED
    BY <1>1, <1>2, <1>3, <2>1, <2>2, GradesStay DEF CheckpointTransition, ForwardStep
<1>10. CASE Explain
  <2>1. /\ attempt.step = "explain" /\ attempt'.step = "complete"
        /\ attempt'.prediction = attempt.prediction
        /\ attempt'.actions = attempt.actions
        /\ attempt'.evidence = attempt.evidence
    BY <1>4, <1>10 DEF Explain, AtStep, IsAttempt
  <2>2. attempt'.explanation # NoExplanation
    BY <1>4, <2>1 DEF AnswersFit
  <2> QED
    BY <1>1, <1>2, <1>3, <2>1, <2>2, GradesStay DEF CompletionTransition
<1> QED
  BY <1>5, <1>6, <1>7, <1>8, <1>9, <1>10 DEF LessonNext

(***************************************************************************)
(* The handlers implement the transition rules of module Attempts, which   *)
(* the store evaluates before it appends and when it replays.              *)
(***************************************************************************)
THEOREM LessonImplementsAttempts == LessonSpec => ImplementsAttempt
<1>1. LessonInv /\ LessonInv' /\ [LessonNext]_lessonVars =>
          [/\ CheckpointTransition(Abstract, Abstract')
              \/ CompletionTransition(Abstract, Abstract')
           /\ ValidCheckpoint(Abstract')]_lessonVars
  <2>1. LessonInv' => ValidCheckpoint(Abstract)'
    BY AbstractIsValid, PTL
  <2>2. ValidCheckpoint(Abstract)' <=> ValidCheckpoint(Abstract')
    OBVIOUS
  <2> QED
    BY <2>1, <2>2, StepsAreTransitions
<1> QED
  BY <1>1, LessonInvariant, PTL DEF LessonSpec, ImplementsAttempt

(***************************************************************************)
(* No feedback is given exactly to an attempt that qualifies, and the      *)
(* result on display is never what an attempt is failed for.               *)
(***************************************************************************)
THEOREM FeedbackIsJust == LessonSpec => []FeedbackIsEarned
<1>1. LessonInv => FeedbackIsEarned
  <2> SUFFICES ASSUME LessonInv, Completed(attempt)
               PROVE  /\ (Feedback = {}) <=> Qualifies(Abstract)
                      /\ "renderer-result-mismatch" \notin Feedback
    BY DEF FeedbackIsEarned
  <2>1. /\ attempt.step = "complete" /\ Abstract.step = "complete"
        /\ IsAttempt(attempt) /\ AnswersFit(attempt)
    BY AbstractFields DEF Completed, LessonInv
  <2>2. /\ attempt.prediction # NoPrediction /\ attempt.evidence # NoEvidence
        /\ attempt.explanation # NoExplanation
    BY <2>1 DEF AnswersFit, LoopIndex
  <2>3. attempt.result = Render(CodexEtlActivity, attempt.actions)
    BY DEF LessonInv, ShowsItsRun
  <2>4. attempt.evidence \in [Cards -> Verdicts]
    BY <2>1, <2>2 DEF IsAttempt
  <2>5. EvidenceMatches(attempt.evidence) <=>
            \A c \in Cards : (attempt.evidence[c] = "supports") <=> (c \notin RequiredReject)
    <3>1. ExpectedVerdicts \in [Cards -> Verdicts]
      BY DEF ExpectedVerdicts, Verdicts
    <3>2. EvidenceMatches(attempt.evidence) <=>
              \A c \in Cards : attempt.evidence[c] = ExpectedVerdicts[c]
      BY <2>4, <3>1 DEF EvidenceMatches
    <3>3. ASSUME NEW c \in Cards
          PROVE  (attempt.evidence[c] = ExpectedVerdicts[c]) <=>
                     ((attempt.evidence[c] = "supports") <=> (c \notin RequiredReject))
      <4>1. attempt.evidence[c] \in {"supports", "rejects"}
        BY <2>4 DEF Verdicts
      <4> QED
        BY <4>1 DEF ExpectedVerdicts
    <3> QED
      BY <3>2, <3>3
  <2>6. attempt.explanation.length \in Nat
    BY <2>1, <2>2 DEF IsAttempt
  <2>7. (attempt.explanation.length < MinimumCharacters) <=>
            ~(attempt.explanation.length >= MinimumCharacters)
    BY <2>6 DEF MinimumCharacters
  <2>8. Qualifies(Abstract) <=>
            /\ attempt.prediction = ExpectedPrediction
            /\ EvidenceMatches(attempt.evidence)
            /\ attempt.explanation.mechanism = ExpectedMechanism
            /\ attempt.explanation.length >= MinimumCharacters
    <3>1. (Abstract.prediction = "right") <=> (attempt.prediction = ExpectedPrediction)
      BY <2>2, AbstractFields, GradeGiven
    <3>2. (Abstract.evidence = "right") <=> EvidenceMatches(attempt.evidence)
      BY <2>2, <2>5, AbstractFields, GradeGiven
    <3>3. (Abstract.explanation = "right") <=>
              /\ attempt.explanation.mechanism = ExpectedMechanism
              /\ attempt.explanation.length >= MinimumCharacters
      BY <2>2, AbstractFields, GradeGiven
    <3> QED
      BY <2>1, <3>1, <3>2, <3>3 DEF Qualifies, Completed
  <2>9. "renderer-result-mismatch" \notin Feedback
    BY <2>3 DEF Feedback
  <2>10. (Feedback = {}) <=>
             /\ attempt.prediction = ExpectedPrediction
             /\ EvidenceMatches(attempt.evidence)
             /\ attempt.explanation.mechanism = ExpectedMechanism
             /\ ~(attempt.explanation.length < MinimumCharacters)
    BY <2>3 DEF Feedback
  <2> QED
    BY <2>7, <2>8, <2>9, <2>10
<1> QED
  BY <1>1, LessonInvariant, PTL
-----------------------------------------------------------------------------
(***************************************************************************)
(* Induction: a nonempty set of numbers has a least one, and what passes   *)
(* from the sets with an element less to a finite set holds of all of its  *)
(* subsets.                                                                *)
(***************************************************************************)
LEMMA LeastNumber ==
    ASSUME NEW T, T \subseteq Nat, T # {}
    PROVE  \E n \in T : \A m \in T : n <= m
<1> DEFINE R == {ss \in Nat \X Nat : ss[1] < ss[2]}
<1>1. IsWellFoundedOn(R, Nat)
  BY NatLessThanWellFounded DEF OpToRel
<1>2. ASSUME NEW m \in Nat, NEW n \in Nat, m < n
      PROVE  <<m, n>> \in R
  <2> DEFINE p == <<m, n>>
  <2>1. p[1] = m /\ p[2] = n /\ p \in Nat \X Nat
    OBVIOUS
  <2> QED
    BY <1>2, <2>1
<1> HIDE DEF R
<1>3. PICK n \in T : \A m \in T : ~(<<m, n>> \in R)
  BY <1>1, WFMin
<1>4. ASSUME NEW m \in T
      PROVE  n <= m
  <2>1. n \in Nat /\ m \in Nat
    OBVIOUS
  <2>2. ~(m < n)
    BY <1>2, <1>3, <2>1
  <2> QED
    BY <2>1, <2>2
<1> QED
  BY <1>4

\* Induction over the subsets of a finite set, stated of the set of those it
\* holds for.
LEMMA SetInduction ==
    ASSUME NEW U, IsFiniteSet(U), NEW H,
           \A s \in SUBSET U : (\A x \in s : s \ {x} \in H) => s \in H
    PROVE  SUBSET U \subseteq H
<1> SUFFICES ASSUME (SUBSET U) \ H # {}
             PROVE  FALSE
  OBVIOUS
<1> DEFINE C == (SUBSET U) \ H
           T == {Cardinality(s) : s \in C}
<1>1. \A s \in SUBSET U : IsFiniteSet(s) /\ Cardinality(s) \in Nat
  BY FS_Subset, FS_CardinalityType
<1>2. T \subseteq Nat /\ T # {}
  BY <1>1
<1>3. PICK n \in T : \A m \in T : n <= m
  <2> HIDE DEF T
  <2> QED
    BY <1>2, LeastNumber
<1>4. PICK s \in C : Cardinality(s) = n
  OBVIOUS
<1>5. ASSUME NEW x \in s
      PROVE  s \ {x} \in H
  <2>1. s \ {x} \in SUBSET U
    OBVIOUS
  <2>2. Cardinality(s \ {x}) = n - 1 /\ n \in Nat
    BY <1>1, <1>4, FS_RemoveElement
  <2>3. n - 1 \notin T
    BY <1>3, <2>2
  <2> QED
    BY <2>1, <2>2, <2>3
<1> QED
  BY <1>4, <1>5

-----------------------------------------------------------------------------
(***************************************************************************)
(* Sums.  SumFunctionOnSet takes the summands in an order that is not      *)
(* known; the partial sums do not depend on it.                            *)
(***************************************************************************)
Additive(g, f, U) ==
    /\ g \in [SUBSET U -> Int]
    /\ g[{}] = 0
    /\ \A s \in SUBSET U : \A x \in s : g[s] = f[x] + g[s \ {x}]

AnyOf(s) == CHOOSE x \in s : TRUE

PartialSum(f, g, s) == IF s = {} THEN 0 ELSE f[AnyOf(s)] + g[s \ {AnyOf(s)}]

\* The recursion that defines the sum has a solution.
LEMMA SumsExist ==
    ASSUME NEW U, IsFiniteSet(U), NEW f
    PROVE  \E g : g = [s \in SUBSET U |-> PartialSum(f, g, s)]
<1> DEFINE N == Cardinality(U)
           Upto(k) == {s \in SUBSET U : Cardinality(s) <= k}
           Solved(k) == \E g : g = [s \in Upto(k) |-> PartialSum(f, g, s)]
           S == {k \in Nat : ~Solved(k)}
<1>1. /\ N \in Nat
      /\ \A s \in SUBSET U : IsFiniteSet(s) /\ Cardinality(s) \in Nat /\ Cardinality(s) <= N
  BY FS_Subset, FS_CardinalityType
<1>2. Solved(0)
  <2>1. \A s \in Upto(0) : s = {}
    BY <1>1, FS_EmptySet
  <2> DEFINE g == [s \in Upto(0) |-> 0]
  <2>2. g = [s \in Upto(0) |-> PartialSum(f, g, s)]
    BY <2>1 DEF PartialSum
  <2> QED
    BY <2>2
<1>3. ASSUME NEW k \in Nat \ {0}, Solved(k - 1)
      PROVE  Solved(k)
  <2>1. PICK g : g = [s \in Upto(k - 1) |-> PartialSum(f, g, s)]
    BY <1>3
  <2> DEFINE h == [s \in Upto(k) |-> IF Cardinality(s) = k THEN PartialSum(f, g, s)
                                     ELSE g[s]]
  <2>2. ASSUME NEW s \in Upto(k)
        PROVE  h[s] = PartialSum(f, h, s)
    <3>1. Cardinality(s) # k => s \in Upto(k - 1)
      BY <1>1
    <3>2. Cardinality(s) # k => g[s] = PartialSum(f, g, s)
      BY <2>1, <3>1
    <3>3. h[s] = PartialSum(f, g, s)
      BY <3>2
    <3>4. CASE s = {}
      BY <3>3, <3>4 DEF PartialSum
    <3>5. CASE s # {}
      <4> DEFINE x == AnyOf(s)
                 t == s \ {x}
      <4>1. x \in s
        BY <3>5 DEF AnyOf
      <4>2. t \in SUBSET U /\ Cardinality(t) = Cardinality(s) - 1
        BY <1>1, <4>1, FS_RemoveElement
      <4>3. t \in Upto(k) /\ Cardinality(t) # k
        BY <1>1, <4>2
      <4>4. h[t] = g[t]
        BY <4>3
      <4> QED
        BY <3>3, <4>4 DEF PartialSum
    <3> QED
      BY <3>4, <3>5
  <2>3. h = [s \in Upto(k) |-> PartialSum(f, h, s)]
    BY <2>2
  <2> HIDE DEF h
  <2> QED
    BY <2>3
<1>4. Upto(N) = SUBSET U
  BY <1>1
<1>5. N \notin S
  <2> SUFFICES ASSUME S # {}
               PROVE  FALSE
    OBVIOUS
  <2>1. PICK n \in S : \A m \in S : n <= m
    <3>1. S \subseteq Nat
      OBVIOUS
    <3> HIDE DEF S
    <3> QED
      BY <3>1, LeastNumber
  <2> HIDE DEF Solved
  <2>2. n \in Nat /\ ~Solved(n) /\ n # 0
    BY <1>2
  <2>3. n - 1 \in Nat /\ n - 1 \notin S
    BY <2>1, <2>2
  <2> QED
    BY <1>3, <2>2, <2>3
<1> QED
  BY <1>1, <1>4, <1>5

\* The sum is the last of partial sums that do not depend on the order.
LEMMA SumIsAdditive ==
    ASSUME NEW U, IsFiniteSet(U), NEW f, \A x \in U : f[x] \in Int
    PROVE  \E g : Additive(g, f, U) /\ SumFunctionOnSet(f, U) = g[U]
<1> DEFINE g == CHOOSE iter : iter = [s \in SUBSET U |-> PartialSum(f, iter, s)]
<1>1. SumFunctionOnSet(f, U) = g[U]
  BY DEF SumFunctionOnSet, FoldFunctionOnSet, MapThenFoldSet, PartialSum, AnyOf
<1>2. g = [s \in SUBSET U |-> PartialSum(f, g, s)]
  BY SumsExist
<1> HIDE DEF g
<1>3. g[{}] = 0
  BY <1>2 DEF PartialSum
<1>4. ASSUME NEW s \in SUBSET U, s # {}
      PROVE  AnyOf(s) \in s /\ g[s] = f[AnyOf(s)] + g[s \ {AnyOf(s)}]
  BY <1>2, <1>4 DEF PartialSum, AnyOf
<1>5. \A s \in SUBSET U : g[s] \in Int
  <2> DEFINE H == {s \in SUBSET U : g[s] \in Int}
  <2>1. ASSUME NEW s \in SUBSET U, \A x \in s : s \ {x} \in H
        PROVE  s \in H
    <3>1. CASE s = {}
      BY <1>3, <3>1
    <3>2. CASE s # {}
      <4>1. g[s \ {AnyOf(s)}] \in Int /\ f[AnyOf(s)] \in Int
        BY <1>4, <2>1, <3>2
      <4> QED
        BY <1>4, <3>2, <4>1
    <3> QED
      BY <3>1, <3>2
  <2> HIDE DEF H
  <2>2. SUBSET U \subseteq H
    BY <2>1, SetInduction
  <2> QED
    BY <2>2 DEF H
<1>6. \A s \in SUBSET U : \A x \in s : g[s] = f[x] + g[s \ {x}]
  <2> DEFINE H == {s \in SUBSET U : \A x \in s : g[s] = f[x] + g[s \ {x}]}
  <2>1. ASSUME NEW s \in SUBSET U, \A x \in s : s \ {x} \in H
        PROVE  s \in H
    <3> SUFFICES ASSUME NEW x \in s
                 PROVE  g[s] = f[x] + g[s \ {x}]
      OBVIOUS
    <3> DEFINE p == AnyOf(s)
               t == s \ {p, x}
    <3>1. p \in s /\ g[s] = f[p] + g[s \ {p}]
      BY <1>4
    <3> HIDE DEF p
    <3>2. CASE x = p
      BY <3>1, <3>2
    <3>3. CASE x # p
      <4>1. g[s \ {p}] = f[x] + g[(s \ {p}) \ {x}]
        BY <2>1, <3>1, <3>3
      <4>2. g[s \ {x}] = f[p] + g[(s \ {x}) \ {p}]
        BY <2>1, <3>1, <3>3
      <4>3. (s \ {p}) \ {x} = t /\ (s \ {x}) \ {p} = t
        OBVIOUS
      <4>4. f[x] \in Int /\ f[p] \in Int /\ g[t] \in Int
        BY <1>5, <3>1
      <4> HIDE DEF t
      <4>5. g[s] = f[p] + (f[x] + g[t]) /\ g[s \ {x}] = f[p] + g[t]
        BY <3>1, <4>1, <4>2, <4>3
      <4>6. \A a, b, c \in Int : a + (b + c) = b + (a + c)
        OBVIOUS
      <4>7. f[p] + (f[x] + g[t]) = f[x] + (f[p] + g[t])
        BY <4>4, <4>6
      <4> QED
        BY <4>5, <4>7
    <3> QED
      BY <3>2, <3>3
  <2> HIDE DEF H
  <2>2. SUBSET U \subseteq H
    BY <2>1, SetInduction
  <2> QED
    BY <2>2 DEF H
<1>7. g \in [SUBSET U -> Int]
  BY <1>2, <1>5
<1> QED
  BY <1>1, <1>3, <1>6, <1>7 DEF Additive

\* h pairs the indices U of f with the indices V of F, where F is c times f.
Carries(h, U, V, f, F, c) ==
    /\ h \in [U -> V] /\ {h[x] : x \in U} = V
    /\ \A x, y \in U : h[x] = h[y] => x = y
    /\ \A x \in U : f[x] \in Int /\ F[h[x]] = f[x] * c

LEMMA SumIsCarried ==
    ASSUME NEW U, IsFiniteSet(U), NEW V, NEW f, NEW g, NEW F, NEW G, NEW c \in Int,
           NEW h, Carries(h, U, V, f, F, c), Additive(g, f, U), Additive(G, F, V)
    PROVE  G[V] = c * g[U]
<1> USE DEF Carries
<1> DEFINE Image(s) == {h[x] : x \in s}
           H == {s \in SUBSET U : G[Image(s)] = c * g[s]}
<1>1. \A s \in SUBSET U : Image(s) \in SUBSET V
  OBVIOUS
<1>2. ASSUME NEW s \in SUBSET U, \A x \in s : s \ {x} \in H
      PROVE  G[Image(s)] = c * g[s]
  <2>1. CASE s = {}
    <3>1. Image(s) = {}
      BY <2>1
    <3>2. G[{}] = 0 /\ g[{}] = 0
      BY DEF Additive
    <3>3. c * 0 = 0
      OBVIOUS
    <3> QED
      BY <2>1, <3>1, <3>2, <3>3
  <2>2. CASE s # {}
    <3>1. PICK x \in s : TRUE
      BY <2>2
    <3> DEFINE t == s \ {x}
    <3>2. Image(t) = Image(s) \ {h[x]} /\ h[x] \in Image(s)
      <4>1. \A y \in t : y \in U /\ y # x /\ h[y] # h[x]
        OBVIOUS
      <4>2. Image(t) \subseteq Image(s) \ {h[x]}
        BY <4>1
      <4>3. Image(s) \ {h[x]} \subseteq Image(t)
        OBVIOUS
      <4> QED
        BY <4>2, <4>3
    <3>3. t \in SUBSET U /\ g[s] = f[x] + g[t] /\ g[t] \in Int
      BY DEF Additive
    <3>4. G[Image(s)] = F[h[x]] + G[Image(t)]
      <4>1. \A q \in SUBSET V : \A y \in q : G[q] = F[y] + G[q \ {y}]
        BY DEF Additive
      <4>2. Image(s) \in SUBSET V
        BY <1>1
      <4>3. G[Image(s)] = F[h[x]] + G[Image(s) \ {h[x]}]
        <5> HIDE DEF Image, t
        <5> QED
          BY <3>2, <4>1, <4>2
      <4> QED
        BY <3>2, <4>3
    <3>5. G[Image(t)] = c * g[t]
      BY <1>2
    <3>6. F[h[x]] = f[x] * c /\ f[x] \in Int
      OBVIOUS
    <3>7. \A a, b \in Int : a * c + c * b = c * (a + b)
      BY SMT
    <3> HIDE DEF t, Image
    <3>8. G[Image(s)] = f[x] * c + c * g[t]
      BY <3>4, <3>5, <3>6
    <3>9. f[x] * c + c * g[t] = c * (f[x] + g[t])
      BY <3>3, <3>6, <3>7
    <3> QED
      BY <3>3, <3>8, <3>9
  <2> QED
    BY <2>1, <2>2
<1>3. \A s \in SUBSET U : (\A x \in s : s \ {x} \in H) => s \in H
  BY <1>2
<1> HIDE DEF H
<1>4. SUBSET U \subseteq H
  BY <1>3, SetInduction
<1>5. Image(U) = V
  OBVIOUS
<1> QED
  BY <1>4, <1>5 DEF H

-----------------------------------------------------------------------------
(***************************************************************************)
(* The records of an input: the position where each key is first, and the  *)
(* positions that repeat a key.                                            *)
(***************************************************************************)
Firsts(rs) == {i \in DOMAIN rs : \A j \in 1..(i - 1) : rs[j].event # rs[i].event}

Repeats(rs) == {i \in DOMAIN rs : ~(\A j \in 1..(i - 1) : rs[j].event # rs[i].event)}

IsRecords(rs) == rs \in Seq([event : Nat, credits : Nat])

\* Every key has one first position, before all others of the key.
LEMMA FirstPosition ==
    ASSUME NEW rs, IsRecords(rs), NEW e \in EventIds(rs)
    PROVE  \E i \in Firsts(rs) :
               /\ rs[i].event = e
               /\ \A j \in DOMAIN rs : rs[j].event = e => i <= j
<1> DEFINE n == Len(rs)
           T == {i \in DOMAIN rs : rs[i].event = e}
<1>1. DOMAIN rs = 1..n /\ n \in Nat
  BY DEF IsRecords
<1>2. T \subseteq Nat /\ T # {} /\ T \subseteq 1..n
  BY <1>1 DEF EventIds
<1>3. PICK i \in T : \A m \in T : i <= m
  <2> HIDE DEF T
  <2> QED
    BY <1>2, LeastNumber
<1>4. ASSUME NEW j \in 1..(i - 1)
      PROVE  rs[j].event # e
  <2>1. i \in 1..n
    BY <1>2
  <2> HIDE DEF n
  <2>2. j \in 1..n /\ ~(i <= j)
    BY <1>1, <2>1
  <2> QED
    BY <1>1, <1>3, <2>2
<1> QED
  BY <1>3, <1>4 DEF Firsts

\* Two first positions of one key are one.
LEMMA FirstsDiffer ==
    ASSUME NEW rs, IsRecords(rs), NEW i \in Firsts(rs), NEW k \in Firsts(rs),
           rs[i].event = rs[k].event
    PROVE  i = k
<1> DEFINE n == Len(rs)
<1>1. i \in 1..n /\ k \in 1..n /\ n \in Nat
  BY DEF IsRecords, Firsts
<1>2. i \notin 1..(k - 1) /\ k \notin 1..(i - 1)
  BY DEF Firsts
<1> HIDE DEF n
<1> QED
  BY <1>1, <1>2

\* The greatest element is what Max chooses.
LEMMA MaxIs ==
    ASSUME NEW S, S \subseteq Int, NEW m \in S, \A x \in S : m >= x
    PROVE  Max(S) = m
<1>1. Max(S) \in S /\ \A y \in S : Max(S) >= y
  BY DEF Max
<1> HIDE DEF Max
<1>2. Max(S) >= m /\ m >= Max(S) /\ Max(S) \in Int /\ m \in Int
  BY <1>1
<1> QED
  BY <1>2

\* A dict that is filled backwards keeps the first record of each key.
LEMMA FirstsAreKept ==
    ASSUME NEW rs, IsRecords(rs)
    PROVE  /\ DOMAIN UniqueRecords(rs) = EventIds(rs)
           /\ \A i \in Firsts(rs) : UniqueRecords(rs)[rs[i].event] = rs[i]
<1> DEFINE n == Len(rs)
           back == Reverse(rs)
<1>1. DOMAIN rs = 1..n /\ n \in Nat
  BY DEF IsRecords
<1>2. DOMAIN back = 1..n /\ \A j \in 1..n : back[j] = rs[(n - j) + 1]
  BY DEF Reverse
<1> HIDE DEF n, back
<1>3. \A j \in 1..n : (n - j) + 1 \in 1..n /\ (n - ((n - j) + 1)) + 1 = j
  BY <1>1
<1>4. EventIds(back) = EventIds(rs)
  <2>1. ASSUME NEW j \in 1..n
        PROVE  \E i \in 1..n : back[j].event = rs[i].event
    BY <1>2, <1>3
  <2>2. ASSUME NEW i \in 1..n
        PROVE  \E j \in 1..n : back[j].event = rs[i].event
    <3> DEFINE j == (n - i) + 1
    <3>1. j \in 1..n /\ (n - j) + 1 = i
      BY <1>3
    <3>2. back[j] = rs[(n - j) + 1]
      BY <1>2, <3>1
    <3> QED
      BY <3>1, <3>2
  <2>3. EventIds(back) = {back[j].event : j \in 1..n}
    BY <1>2 DEF EventIds
  <2>4. EventIds(rs) = {rs[j].event : j \in 1..n}
    BY <1>1 DEF EventIds
  <2>5. EventIds(back) \subseteq EventIds(rs)
    BY <2>1, <2>3, <2>4
  <2>6. EventIds(rs) \subseteq EventIds(back)
    BY <2>2, <2>3, <2>4
  <2> QED
    BY <2>5, <2>6
<1>5. ASSUME NEW i \in Firsts(rs)
      PROVE  UniqueRecords(rs)[rs[i].event] = rs[i]
  <2> DEFINE e == rs[i].event
             S == {j \in DOMAIN back : back[j].event = e}
             m == (n - i) + 1
  <2>1. i \in 1..n /\ e \in EventIds(rs)
    BY <1>1 DEF Firsts, EventIds
  <2>2. m \in 1..n /\ (n - m) + 1 = i
    BY <1>3, <2>1
  <2>3. m \in S
    BY <1>2, <2>2
  <2>4. ASSUME NEW j \in S
        PROVE  m >= j
    <3>1. j \in 1..n /\ rs[(n - j) + 1].event = e
      BY <1>2
    <3>2. (n - j) + 1 \notin 1..(i - 1)
      BY <3>1 DEF Firsts
    <3> HIDE DEF e, S
    <3> QED
      BY <1>1, <2>1, <3>1, <3>2
  <2>5. S \subseteq Int
    BY <1>1, <1>2
  <2>6. Max(S) = m
    <3> HIDE DEF S, m
    <3> QED
      BY <2>3, <2>4, <2>5, MaxIs
  <2>7. back[m] = rs[i]
    BY <1>2, <2>2
  <2> QED
    BY <1>4, <2>1, <2>6, <2>7 DEF UniqueRecords, LastOfEach, back
<1>6. DOMAIN UniqueRecords(rs) = EventIds(rs)
  BY <1>4 DEF UniqueRecords, LastOfEach, back
<1> QED
  BY <1>5, <1>6

\* The keys are the keys of the first positions, and finitely many.
LEMMA KeysOfFirsts ==
    ASSUME NEW rs, IsRecords(rs)
    PROVE  LET h == [i \in Firsts(rs) |-> rs[i].event] IN
           /\ IsFiniteSet(DOMAIN rs) /\ IsFiniteSet(Firsts(rs))
           /\ Firsts(rs) \subseteq DOMAIN rs /\ Repeats(rs) = DOMAIN rs \ Firsts(rs)
           /\ h \in [Firsts(rs) -> EventIds(rs)]
           /\ {h[i] : i \in Firsts(rs)} = EventIds(rs)
           /\ h \in Surjection(Firsts(rs), EventIds(rs))
           /\ h \in Injection(Firsts(rs), EventIds(rs))
           /\ IsFiniteSet(EventIds(rs))
<1> DEFINE n == Len(rs)
           h == [i \in Firsts(rs) |-> rs[i].event]
<1>1. DOMAIN rs = 1..n /\ n \in Nat
  BY DEF IsRecords
<1>2. Firsts(rs) \subseteq DOMAIN rs /\ Repeats(rs) = DOMAIN rs \ Firsts(rs)
  BY DEF Firsts, Repeats
<1>3. IsFiniteSet(DOMAIN rs) /\ IsFiniteSet(Firsts(rs))
  <2>1. IsFiniteSet(1..n)
    <3> HIDE DEF n
    <3> QED
      BY <1>1, FS_Interval
  <2>2. IsFiniteSet(DOMAIN rs)
    BY <1>1, <2>1
  <2> QED
    BY <1>2, <2>2, FS_Subset
<1>4. h \in [Firsts(rs) -> EventIds(rs)]
  BY <1>2 DEF EventIds
<1>5. \A e \in EventIds(rs) : \E i \in Firsts(rs) : h[i] = e
  BY FirstPosition
<1>6. h \in Surjection(Firsts(rs), EventIds(rs))
  <2> HIDE DEF h
  <2> QED
    BY <1>4, <1>5, Fun_IsSurj
<1>7. \A i, k \in Firsts(rs) : h[i] = h[k] => i = k
  BY FirstsDiffer
<1>8. h \in Injection(Firsts(rs), EventIds(rs))
  <2> HIDE DEF h
  <2> QED
    BY <1>4, <1>7, Fun_IsInj
<1>9. IsFiniteSet(EventIds(rs))
  BY <1>3, <1>6, FS_Surjection
<1>10. {h[i] : i \in Firsts(rs)} = EventIds(rs)
  BY <1>4, <1>5
<1> QED
  BY <1>2, <1>3, <1>4, <1>6, <1>8, <1>9, <1>10

\* All but the first record of a key repeat it.
LEMMA OthersRepeat ==
    ASSUME NEW rs, IsRecords(rs), NEW e \in EventIds(rs)
    PROVE  /\ Counts(rs)[e] \in Nat
           /\ Counts(rs)[e] - 1 = Cardinality({j \in Repeats(rs) : rs[j].event = e})
<1> DEFINE T == {i \in DOMAIN rs : rs[i].event = e}
<1>1. PICK i \in Firsts(rs) : rs[i].event = e
  BY FirstPosition
<1>2. i \in DOMAIN rs /\ Repeats(rs) = DOMAIN rs \ Firsts(rs)
  BY KeysOfFirsts
<1>3. \A j \in T : j \in Firsts(rs) => j = i
  BY <1>1, FirstsDiffer
<1>4. {j \in Repeats(rs) : rs[j].event = e} = T \ {i} /\ i \in T
  BY <1>1, <1>2, <1>3
<1>5. IsFiniteSet(T)
  <2>1. IsFiniteSet(DOMAIN rs)
    BY KeysOfFirsts
  <2> QED
    BY <2>1, FS_Subset
<1>6. Counts(rs)[e] = Cardinality(T)
  BY DEF Counts
<1> HIDE DEF T
<1>7. Cardinality(T \ {i}) = Cardinality(T) - 1 /\ Cardinality(T) \in Nat
  BY <1>4, <1>5, FS_RemoveElement, FS_CardinalityType
<1> QED
  BY <1>4, <1>6, <1>7

\* The counter's excess is the number of repeating records.
LEMMA ExcessIsRepeats ==
    ASSUME NEW rs, IsRecords(rs)
    PROVE  Excess(rs) = Cardinality(Repeats(rs))
<1> DEFINE E == EventIds(rs)
           F == [e \in DOMAIN Counts(rs) |-> Counts(rs)[e] - 1]
           Of(s) == {j \in Repeats(rs) : rs[j].event \in s}
           R == Repeats(rs)
<1>1. /\ IsFiniteSet(E) /\ IsFiniteSet(R)
      /\ \A j \in R : rs[j].event \in E
  <2>1. /\ IsFiniteSet(DOMAIN rs) /\ Repeats(rs) = DOMAIN rs \ Firsts(rs)
        /\ IsFiniteSet(EventIds(rs))
    BY KeysOfFirsts
  <2>2. IsFiniteSet(R)
    BY <2>1, FS_Subset
  <2>3. \A j \in DOMAIN rs : rs[j].event \in E
    BY DEF EventIds
  <2> QED
    BY <2>1, <2>2, <2>3
<1>2. DOMAIN F = E /\ DOMAIN Counts(rs) = E /\ \A e \in E : F[e] = Counts(rs)[e] - 1
  BY DEF Counts
<1>3. \A e \in E : F[e] = Cardinality({j \in R : rs[j].event = e}) /\ F[e] \in Int
  BY <1>2, OthersRepeat
<1>4. Excess(rs) = SumFunctionOnSet(F, E)
  BY <1>2 DEF Excess, SumFunction
<1> HIDE DEF F
<1>5. PICK G : Additive(G, F, E) /\ SumFunctionOnSet(F, E) = G[E]
  <2> HIDE DEF E
  <2> QED
    BY <1>1, <1>3, SumIsAdditive
<1> DEFINE H == {s \in SUBSET E : G[s] = Cardinality(Of(s))}
<1>6. ASSUME NEW s \in SUBSET E, \A x \in s : s \ {x} \in H
      PROVE  G[s] = Cardinality(Of(s))
  <2>1. CASE s = {}
    <3>1. Of(s) = {}
      BY <2>1
    <3>2. G[{}] = 0
      BY <1>5 DEF Additive
    <3> QED
      BY <2>1, <3>1, <3>2, FS_EmptySet
  <2>2. CASE s # {}
    <3>1. PICK x \in s : TRUE
      BY <2>2
    <3> DEFINE t == s \ {x}
               A == {j \in R : rs[j].event = x}
               B == Of(t)
    <3>2. G[s] = F[x] + G[t]
      BY <1>5 DEF Additive
    <3>3. G[t] = Cardinality(B) /\ F[x] = Cardinality(A)
      BY <1>3, <1>6
    <3>4. Of(s) = A \cup B /\ A \cap B = {} /\ A \in SUBSET R /\ B \in SUBSET R
      OBVIOUS
    <3>5. IsFiniteSet(A) /\ IsFiniteSet(B)
      BY <1>1, <3>4, FS_Subset
    <3> HIDE DEF t, A, B, R, Of
    <3>6. /\ Cardinality(A \cup B) = Cardinality(A) + Cardinality(B) - Cardinality(A \cap B)
          /\ Cardinality(A) \in Nat /\ Cardinality(B) \in Nat
      BY <3>5, FS_Union, FS_CardinalityType
    <3>7. Cardinality(A \cap B) = 0
      BY <3>4, FS_EmptySet
    <3> QED
      BY <3>2, <3>3, <3>4, <3>6, <3>7
  <2> QED
    BY <2>1, <2>2
<1>7. \A s \in SUBSET E : (\A x \in s : s \ {x} \in H) => s \in H
  BY <1>6
<1>8. G[E] = Cardinality(Of(E))
  <2>1. SUBSET E \subseteq H
    <3> HIDE DEF H, E
    <3> QED
      BY <1>1, <1>7, SetInduction
  <2> QED
    BY <2>1
<1>9. Of(E) = R
  BY <1>1
<1> QED
  BY <1>4, <1>5, <1>8, <1>9

\* Fewer keys than records leave a record that repeats a key.
LEMMA SomeRepeat ==
    ASSUME NEW rs, IsRecords(rs), Cardinality(EventIds(rs)) # Len(rs)
    PROVE  Cardinality(Repeats(rs)) \in Nat \ {0}
<1> DEFINE h == [i \in Firsts(rs) |-> rs[i].event]
           n == Len(rs)
<1>1. /\ IsFiniteSet(DOMAIN rs) /\ IsFiniteSet(Firsts(rs))
      /\ Firsts(rs) \subseteq DOMAIN rs /\ Repeats(rs) = DOMAIN rs \ Firsts(rs)
      /\ h \in Surjection(Firsts(rs), EventIds(rs))
      /\ h \in Injection(Firsts(rs), EventIds(rs))
  BY KeysOfFirsts
<1>2. Cardinality(EventIds(rs)) = Cardinality(Firsts(rs))
  <2> HIDE DEF h
  <2> QED
    BY <1>1, FS_Surjection
<1>3. DOMAIN rs = 1..n /\ n \in Nat
  BY DEF IsRecords
<1>4. Cardinality(DOMAIN rs) = n
  <2> HIDE DEF n
  <2> QED
    BY <1>3, FS_Interval
<1>5. Repeats(rs) # {}
  BY <1>1, <1>2, <1>4
<1>6. IsFiniteSet(Repeats(rs))
  BY <1>1, FS_Subset
<1> QED
  BY <1>5, <1>6, FS_EmptySet, FS_CardinalityType

\* The credits of the records, by position.
Credits(rs) == [i \in DOMAIN rs |-> rs[i].credits]

LEMMA CreditsAreNumbers ==
    ASSUME NEW rs, IsRecords(rs)
    PROVE  \A i \in DOMAIN rs : rs[i].credits \in Int
<1> DEFINE R == [event : Nat, credits : Nat]
<1>1. \A r \in R : r.credits \in Int
  OBVIOUS
<1>2. rs \in Seq(R)
  BY DEF IsRecords
<1> HIDE DEF R
<1>3. \A i \in DOMAIN rs : rs[i] \in R
  BY <1>2
<1> QED
  BY <1>1, <1>3

\* A dict of the records costs what the first record of each key costs.
LEMMA FirstsCost ==
    ASSUME NEW input \in ActivityInput
    PROVE  Cost(input, UniqueRecords(input.records)) =
               input.cents * SumFunctionOnSet(Credits(input.records), Firsts(input.records))
<1> DEFINE rs == input.records
           c == input.cents
           kept == UniqueRecords(rs)
           F == [e \in DOMAIN kept |-> kept[e].credits * c]
           U == Firsts(rs)
           V == EventIds(rs)
           f == Credits(rs)
           h == [i \in U |-> rs[i].event]
<1>1. IsRecords(rs) /\ c \in Int
  BY DEF ActivityInput, IsRecords
<1>2. \A i \in DOMAIN rs : rs[i].credits \in Int /\ f[i] = rs[i].credits
  <2> HIDE DEF rs
  <2> QED
    BY <1>1, CreditsAreNumbers DEF Credits
<1> HIDE DEF rs, c, f
<1>3. /\ IsFiniteSet(U) /\ IsFiniteSet(V) /\ U \subseteq DOMAIN rs
      /\ h \in [U -> V] /\ {h[i] : i \in U} = V
  BY <1>1, KeysOfFirsts
<1>4. \A x, y \in U : h[x] = h[y] => x = y
  BY <1>1, FirstsDiffer
<1>5. DOMAIN kept = V /\ \A i \in U : kept[rs[i].event] = rs[i]
  BY <1>1, FirstsAreKept
<1>6. Cost(input, kept) = SumFunctionOnSet(F, V)
  BY <1>5 DEF Cost, SumFunction, c
<1>7. \A i \in U : f[i] \in Int /\ F[h[i]] = f[i] * c
  BY <1>2, <1>3, <1>5
<1>8. \A e \in V : F[e] \in Int
  <2> SUFFICES ASSUME NEW e \in V
               PROVE  F[e] \in Int
    OBVIOUS
  <2>1. PICK i \in U : h[i] = e
    BY <1>3
  <2>2. F[e] = f[i] * c /\ f[i] \in Int
    BY <1>7, <2>1
  <2> HIDE DEF F
  <2> QED
    BY <1>1, <2>2
<1>12. Carries(h, U, V, f, F, c)
  BY <1>3, <1>4, <1>7 DEF Carries
<1> HIDE DEF F, U, V, h
<1>9. PICK g : Additive(g, f, U) /\ SumFunctionOnSet(f, U) = g[U]
  BY <1>3, <1>7, SumIsAdditive
<1>10. PICK G : Additive(G, F, V) /\ SumFunctionOnSet(F, V) = G[V]
  BY <1>3, <1>8, SumIsAdditive
<1>11. G[V] = c * g[U]
  <2>1. c \in Int /\ IsFiniteSet(U)
    BY <1>1, <1>3
  <2> HIDE DEF kept
  <2> QED
    BY <1>9, <1>10, <1>12, <2>1, SumIsCarried
<1> QED
  BY <1>6, <1>9, <1>10, <1>11 DEF rs, c, U, f

\* A list of the records costs what all of them cost.
LEMMA AllCost ==
    ASSUME NEW input \in ActivityInput
    PROVE  Cost(input, input.records) =
               input.cents * SumFunctionOnSet(Credits(input.records), DOMAIN input.records)
<1> DEFINE rs == input.records
           c == input.cents
           F == [i \in DOMAIN rs |-> rs[i].credits * c]
           U == DOMAIN rs
           f == Credits(rs)
           h == [i \in U |-> i]
<1>1. IsRecords(rs) /\ c \in Int
  BY DEF ActivityInput, IsRecords
<1>2. \A i \in U : rs[i].credits \in Int /\ f[i] = rs[i].credits
  <2> HIDE DEF rs
  <2> QED
    BY <1>1, CreditsAreNumbers DEF Credits
<1>3. Cost(input, rs) = SumFunctionOnSet(F, U)
  BY DEF Cost, SumFunction
<1> HIDE DEF rs, c, f
<1>4. IsFiniteSet(U)
  BY <1>1, KeysOfFirsts
<1>5. h \in [U -> U] /\ {h[i] : i \in U} = U /\ \A x, y \in U : h[x] = h[y] => x = y
  OBVIOUS
<1>6. \A i \in U : f[i] \in Int /\ F[h[i]] = f[i] * c
  BY <1>2
<1>7. \A i \in U : F[i] \in Int
  <2>1. \A i \in U : F[i] = f[i] * c /\ f[i] \in Int
    BY <1>2
  <2> HIDE DEF F
  <2> QED
    BY <1>1, <2>1
<1>11. Carries(h, U, U, f, F, c)
  BY <1>5, <1>6 DEF Carries
<1> HIDE DEF F, U, h
<1>8. PICK g : Additive(g, f, U) /\ SumFunctionOnSet(f, U) = g[U]
  BY <1>4, <1>6, SumIsAdditive
<1>9. PICK G : Additive(G, F, U) /\ SumFunctionOnSet(F, U) = G[U]
  BY <1>4, <1>7, SumIsAdditive
<1>10. G[U] = c * g[U]
  BY <1>1, <1>4, <1>8, <1>9, <1>11, SumIsCarried
<1> QED
  BY <1>3, <1>8, <1>9, <1>10 DEF rs, c, U, f

\* What a valid input is rendered to, over its first and repeating records.
LEMMA RendererIsRight ==
    ASSUME NEW input, ValidInput(input)
    PROVE  LET rs == input.records
               result == Rendered(input)
               all == input.cents * SumFunctionOnSet(Credits(rs), DOMAIN rs)
           IN  /\ result.excess = Cardinality(Repeats(rs))
               /\ result.passed = "no"
               /\ result.completed <=> ~input.stops
               /\ result.unique = input.cents * SumFunctionOnSet(Credits(rs), Firsts(rs))
               /\ result.downstream = IF input.stops THEN 0 ELSE all
<1> DEFINE rs == input.records
           excess == Excess(rs)
           stopped == excess # 0 /\ input.stops
<1>1. /\ input \in ActivityInput /\ IsRecords(rs) /\ input.stops \in BOOLEAN
      /\ Cardinality(EventIds(rs)) # Len(rs)
  BY DEF ValidInput, ActivityInput, IsRecords
<1>2. excess = Cardinality(Repeats(rs)) /\ excess # 0
  <2> HIDE DEF rs
  <2> QED
    BY <1>1, ExcessIsRepeats, SomeRepeat
<1>3. stopped <=> input.stops
  BY <1>2
<1>4. /\ Cost(input, UniqueRecords(rs)) =
             input.cents * SumFunctionOnSet(Credits(rs), Firsts(rs))
      /\ Cost(input, rs) = input.cents * SumFunctionOnSet(Credits(rs), DOMAIN rs)
  BY <1>1, FirstsCost, AllCost
<1>5. /\ Rendered(input).excess = excess
      /\ Rendered(input).passed = IF excess = 0 THEN "yes" ELSE "no"
      /\ Rendered(input).completed = ~stopped
      /\ Rendered(input).downstream = IF stopped THEN 0 ELSE Cost(input, rs)
      /\ Rendered(input).unique = Cost(input, UniqueRecords(rs))
  BY DEF Rendered
<1> HIDE DEF rs, excess, stopped
<1> QED
  BY <1>1, <1>2, <1>3, <1>4, <1>5 DEF rs

\* The interval of the first n numbers has n elements.
LEMMA FirstNumbers == \A n \in Nat : IsFiniteSet(1..n) /\ Cardinality(1..n) = n
<1> SUFFICES ASSUME NEW n \in Nat
             PROVE  IsFiniteSet(1..n) /\ Cardinality(1..n) = n
  OBVIOUS
<1> QED
  BY FS_Interval

\* The lesson's own activity is one the renderer accepts.
LEMMA LessonActivityIsValid ==
    /\ ValidInput(CodexEtlActivity)
    /\ Repeats(CodexEtlActivity.records) = {2}
    /\ Firsts(CodexEtlActivity.records) = {1, 3}
    /\ DOMAIN CodexEtlActivity.records = {1, 2, 3}
    /\ Credits(CodexEtlActivity.records)[1] = 2
    /\ Credits(CodexEtlActivity.records)[2] = 2
    /\ Credits(CodexEtlActivity.records)[3] = 3
<1> DEFINE rs == CodexEtlActivity.records
           R == [event : Nat, credits : Nat]
           a == [event |-> 1, credits |-> 2]
           b == [event |-> 2, credits |-> 3]
<1>1. /\ CodexEtlActivity = [records |-> rs, cents |-> 1, stops |-> FALSE]
      /\ rs = <<a, a, b>> /\ CodexEtlActivity.cents = 1
  BY DEF CodexEtlActivity
<1>2. a \in R /\ b \in R
  OBVIOUS
<1> HIDE DEF rs
<1>3. rs \in Seq(R) /\ Len(rs) = 3 /\ rs # <<>> /\ DOMAIN rs = {1, 2, 3}
  <2> HIDE DEF R, a, b
  <2> QED
    BY <1>1, <1>2
<1>4. /\ rs[1].event = 1 /\ rs[2].event = 1 /\ rs[3].event = 2
      /\ rs[1].credits = 2 /\ rs[2].credits = 2 /\ rs[3].credits = 3
  BY <1>1
<1>5. EventIds(rs) = {1, 2}
  BY <1>3, <1>4 DEF EventIds
<1>6. Cardinality({1, 2}) = 2
  <2>1. IsFiniteSet(1..2) /\ Cardinality(1..2) = 2
    BY FirstNumbers
  <2>2. 1..2 = {1, 2}
    OBVIOUS
  <2> QED
    BY <2>1, <2>2
<1>7. CodexEtlActivity \in ActivityInput
  BY <1>1, <1>3 DEF ActivityInput
<1>8. ValidInput(CodexEtlActivity)
  BY <1>3, <1>5, <1>6, <1>7 DEF ValidInput, rs
<1>9. 1..(1 - 1) = {} /\ 1..(2 - 1) = {1} /\ 1..(3 - 1) = {1, 2}
  OBVIOUS
<1>10. Repeats(rs) = {2} /\ Firsts(rs) = {1, 3}
  BY <1>3, <1>4, <1>9 DEF Repeats, Firsts
<1>11. Credits(rs)[1] = 2 /\ Credits(rs)[2] = 2 /\ Credits(rs)[3] = 3
  BY <1>3, <1>4 DEF Credits
<1> QED
  BY <1>3, <1>8, <1>10, <1>11 DEF rs

(***************************************************************************)
(* The renderer computes, for every input that is not refused, the excess, *)
(* the total and the total without repeats of the reference definition.    *)
(***************************************************************************)
THEOREM RendererMatches == LessonSpec => []RenderMatchesReference
<1>1. ValidInput(activity) => RenderMatchesReference
  <2> DEFINE rs == activity.records
             repeats == {i \in DOMAIN rs :
                            ~(\A j \in 1..(i - 1) : rs[j].event # rs[i].event)}
  <2>1. repeats = Repeats(rs) /\ DOMAIN rs \ repeats = Firsts(rs)
    BY DEF Repeats, Firsts
  <2>2. [i \in DOMAIN rs |-> rs[i].credits] = Credits(rs)
    BY DEF Credits
  <2> QED
    BY <2>1, <2>2, RendererIsRight DEF RenderMatchesReference
<1>2. LessonInit => ValidInput(activity)
  BY LessonActivityIsValid, ActivitiesAssumption DEF LessonInit
<1>3. ValidInput(activity) /\ [LessonNext]_lessonVars => ValidInput(activity)'
  BY DEF lessonVars, LessonNext, AdvanceMap, Predict, RunScenario, ResetScenario,
         Prove, Explain
<1> QED
  BY <1>1, <1>2, <1>3, PTL DEF LessonSpec

(***************************************************************************)
(* From the run on, what the cards state is what is on display, however    *)
(* often the scenario was reset.                                           *)
(***************************************************************************)
THEOREM LessonTellsTheTruth == LessonSpec => []LessonIsTrue
<1> DEFINE result == Rendered(CodexEtlActivity)
           rs == CodexEtlActivity.records
           f == Credits(rs)
<1>1. /\ result.excess = Cardinality({2})
      /\ result.completed
      /\ result.downstream = 1 * SumFunctionOnSet(f, {1, 2, 3})
      /\ result.unique = 1 * SumFunctionOnSet(f, {1, 3})
  <2>1. CodexEtlActivity.cents = 1 /\ CodexEtlActivity.stops = FALSE
    BY DEF CodexEtlActivity
  <2> HIDE DEF result
  <2> QED
    BY <2>1, LessonActivityIsValid, RendererIsRight DEF result
<1>2. f[1] = 2 /\ f[2] = 2 /\ f[3] = 3
  BY LessonActivityIsValid
<1> HIDE DEF f
<1>3. SumFunctionOnSet(f, {1, 2, 3}) = 7
  <2> DEFINE U == {1, 2, 3}
  <2>1. IsFiniteSet(U)
    <3>1. U = 1..3
      OBVIOUS
    <3> QED
      BY <3>1, FirstNumbers
  <2>2. PICK g : Additive(g, f, U) /\ SumFunctionOnSet(f, U) = g[U]
    <3>1. \A x \in U : f[x] \in Int
      BY <1>2
    <3> HIDE DEF U
    <3> QED
      BY <2>1, <3>1, SumIsAdditive
  <2>3. g[{1, 2, 3}] = 2 + g[{2, 3}]
    <3>1. {1, 2, 3} \ {1} = {2, 3}
      OBVIOUS
    <3> QED
      BY <1>2, <2>2, <3>1 DEF Additive
  <2>4. g[{2, 3}] = 2 + g[{3}]
    <3>1. {2, 3} \ {2} = {3} /\ {2, 3} \in SUBSET U
      OBVIOUS
    <3> QED
      BY <1>2, <2>2, <3>1 DEF Additive
  <2>5. g[{3}] = 3
    <3>1. {3} \ {3} = {} /\ {3} \in SUBSET U
      OBVIOUS
    <3> QED
      BY <1>2, <2>2, <3>1 DEF Additive
  <2> QED
    BY <2>2, <2>3, <2>4, <2>5
<1>4. SumFunctionOnSet(f, {1, 3}) = 5
  <2> DEFINE U == {1, 3}
  <2>1. IsFiniteSet(U)
    <3>1. U \in SUBSET (1..3)
      OBVIOUS
    <3> QED
      BY <3>1, FirstNumbers, FS_Subset
  <2>2. PICK g : Additive(g, f, U) /\ SumFunctionOnSet(f, U) = g[U]
    <3>1. \A x \in U : f[x] \in Int
      BY <1>2
    <3> HIDE DEF U
    <3> QED
      BY <2>1, <3>1, SumIsAdditive
  <2>3. g[{1, 3}] = 2 + g[{3}]
    <3>1. {1, 3} \ {1} = {3}
      OBVIOUS
    <3> QED
      BY <1>2, <2>2, <3>1 DEF Additive
  <2>4. g[{3}] = 3
    <3>1. {3} \ {3} = {} /\ {3} \in SUBSET U
      OBVIOUS
    <3> QED
      BY <1>2, <2>2, <3>1 DEF Additive
  <2> QED
    BY <2>2, <2>3, <2>4
<1>5. Cardinality({2}) = 1
  BY FS_Singleton
<1> HIDE DEF result
<1>6. LessonInv => LessonIsTrue
  <2> SUFFICES ASSUME LessonInv, attempt.step \in {"prove", "explain", "complete"}
               PROVE  /\ attempt.result.completed /\ attempt.result.excess = 1
                      /\ attempt.result.downstream = 7 /\ attempt.result.unique = 5
    BY DEF LessonIsTrue
  <2>1. Ran(attempt.actions)
    BY DEF LessonInv, AnswersFit, LoopIndex
  <2>2. attempt.result = result
    BY <2>1 DEF LessonInv, ShowsItsRun, Render, result
  <2> QED
    BY <1>1, <1>3, <1>4, <1>5, <2>2
<1> QED
  BY <1>6, LessonInvariant, PTL
=============================================================================
