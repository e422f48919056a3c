-------------------------- MODULE ReviewProjection --------------------------
(***************************************************************************)
(* What the learner is told: Mastery State and review timing, derived from *)
(* the event history alone (review_projection.py, derive_mastery of        *)
(* learning.py).  Nothing here is stored; every view recomputes it with    *)
(* the clock's reading.                                                    *)
(***************************************************************************)
EXTENDS LearnerStore, FiniteSetsExt

CONSTANTS
    ReviewDays,     \* timedelta(days=7) after the demonstration
    RetryDays       \* timedelta(days=1) after a review that did not retain

ASSUME DaysAssumption == ReviewDays \in Nat /\ RetryDays \in Nat

\* _matches_bundle, _matches_lesson: the attempts of one bundle's lesson, by
\* their places in the order their histories began
Matching(ctx) == {i \in DOMAIN order : entries[order[i]].cp.ctx = ctx}

Demonstrations(ctx) == {i \in Matching(ctx) : IsDemonstration(order[i])}

IsReviewOf(a, ctx, demonstration) ==
    /\ entries[a].cp.ctx = ctx
    /\ entries[a].kind = "review"
    /\ entries[a].source = demonstration

\* Mutant: only the latest attempt counts.
MasteryOfLatest(ctx) ==
    LET latest == entries[order[Max(Matching(ctx))]].cp
    IN  IF Matching(ctx) = {} THEN "captured"
        ELSE IF Qualifies(latest) THEN "demonstrated"
        ELSE IF latest.step # "map" THEN "introduced" ELSE "captured"

(***************************************************************************)
(* derive_mastery looks at checkpoints only, reviews and reset attempts    *)
(* included.  Which attempt it names is left out.                          *)
(***************************************************************************)
DeriveMastery(ctx) ==
    IF \E i \in Matching(ctx) : Qualifies(entries[order[i]].cp)
    THEN "demonstrated"
    ELSE IF \E i \in Matching(ctx) : entries[order[i]].cp.step # "map"
         THEN "introduced" ELSE "captured"

NotScheduled(ctx) ==
    [mastery |-> DeriveMastery(ctx), status |-> "not-scheduled", due |-> 0,
     demonstration |-> NoAttempt, latest |-> NoAttempt]

\* Mutant: a review counts as in progress once the learner has begun.
BegunAfterMap(a) ==
    /\ entries[a].status = "active"
    /\ entries[a].cp.step # "map"

InProgress(a) == entries[a].status = "active"

Retains(a, due) ==
    /\ entries[a].status = "completed"
    /\ entries[a].qualifies
    /\ entries[a].cp.started >= due

\* Mutant: a review that did not retain leaves the due date as it was.
AfterReviewUndelayed(before, review) ==
    LET here == [before EXCEPT !.latest = review] IN
    IF before.verdict # "open" THEN before
    ELSE IF InProgress(review) THEN [here EXCEPT !.verdict = "in-progress"]
    ELSE IF Retains(review, before.due) THEN [here EXCEPT !.verdict = "retained"]
    ELSE [here EXCEPT !.retry = entries[review].status = "completed" \/ @]

(***************************************************************************)
(* The loop over the reviews of the demonstration.  An active review or    *)
(* one that retains ends it; any other completed review moves the due date *)
(* and makes the next one a retry; a reset review only becomes the latest. *)
(***************************************************************************)
AfterReview(before, review) ==
    LET here == [before EXCEPT !.latest = review] IN
    IF before.verdict # "open" THEN before
    ELSE IF InProgress(review) THEN [here EXCEPT !.verdict = "in-progress"]
    ELSE IF Retains(review, before.due) THEN [here EXCEPT !.verdict = "retained"]
    ELSE IF entries[review].status = "completed"
    THEN [here EXCEPT !.due = entries[review].cp.updated + RetryDays, !.retry = TRUE]
    ELSE here

\* The loop after each of the attempts, those that are no such review passed over
ReviewScan(ctx, demonstration) ==
    LET scan[n \in 0..Len(order)] ==
        IF n = 0
        THEN [verdict |-> "open", retry |-> FALSE, latest |-> NoAttempt,
              due |-> entries[demonstration].cp.updated + ReviewDays]
        ELSE IF IsReviewOf(order[n], ctx, demonstration)
             THEN AfterReview(scan[n - 1], order[n])
             ELSE scan[n - 1]
    IN  scan

\* project_learning_state: the demonstration is the first of those that
\* qualify, in the order the attempts STARTED
Project(ctx, now) ==
    LET demonstration == order[Min(Demonstrations(ctx))]
        scan == ReviewScan(ctx, demonstration)[Len(order)]
        status == IF scan.verdict # "open" THEN scan.verdict
                  ELSE IF now >= scan.due THEN "due"
                  ELSE IF scan.retry THEN "retry-scheduled" ELSE "scheduled"
    IN  IF Demonstrations(ctx) = {} THEN NotScheduled(ctx)
        ELSE [mastery |-> IF status = "retained" THEN "retained" ELSE "demonstrated",
              status |-> status,
              due |-> IF status = "retained" THEN 0 ELSE scan.due,
              demonstration |-> demonstration,
              latest |-> scan.latest]
=============================================================================
