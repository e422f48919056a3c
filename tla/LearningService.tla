-------------------------- MODULE LearningService --------------------------
(***************************************************************************)
(* LearningService of learning_service.py under the threaded shell: each   *)
(* worker is a request thread.  A request reads the history, the bundle    *)
(* and the clock, builds the next checkpoint from what it read, and only   *)
(* then asks the store, which decides again under its own lock.  Between   *)
(* the two another thread may commit, the pack may be promoted to a new    *)
(* version, the clock may move, or the process may die.                    *)
(***************************************************************************)
EXTENDS ReviewProjection, FiniteSets

CONSTANTS
    Workers,        \* request threads
    Operations,     \* the routes the learner uses in this instance
    MaxTime         \* bound on the clock

ASSUME CtxAssumption == Ctx \subseteq Nat \ {0} /\ 1 \in Ctx
ASSUME MaxTimeAssumption == MaxTime \in Nat /\ 0..MaxTime \subseteq Times

\* The checkpoint a new attempt starts with is one that can be built.
ASSUME InitialAssumption ==
    \A a \in AttemptId, ctx \in Ctx, t \in 0..MaxTime :
        InitialCheckpoint(a, ctx, t) \in Checkpoint

VARIABLES
    bundles,        \* contexts whose bundle snapshot BundleRepository holds
    current,        \* context of the accepted pack's current version
    now,            \* the wall clock
    request,        \* what each worker is about to ask the store
    reviewLock      \* the worker inside start_review, or NoWorker

serviceVars == <<bundles, current, now, request, reviewLock>>
vars == <<storeVars, serviceVars>>

NoWorker == "no worker"

ASSUME NoWorkerAssumption == NoWorker \notin Workers

Idle == [phase |-> "idle"]

Busy(w) == request[w] # Idle

\* attempt_id_factory: a fresh name, unknown to the history and to every
\* other request that has drawn one
Reserved == {request[w].attempt : w \in {v \in Workers : request[v].phase = "stamped"}}
Fresh(a) == ~Known(a) /\ a \notin Reserved

\* The request ends, and with it start_review's hold on the review lock.
Release(w) ==
    /\ request' = [request EXCEPT ![w] = Idle]
    /\ reviewLock' = IF reviewLock = w THEN NoWorker ELSE reviewLock

ServiceInit ==
    /\ StoreInit
    /\ bundles = {}
    /\ current = 1
    /\ now = 0
    /\ request = [w \in Workers |-> Idle]
    /\ reviewLock = NoWorker

-----------------------------------------------------------------------------
(***************************************************************************)
(* Starting.  _start_from_bundle saves the bundle snapshot before it reads *)
(* the clock and builds the attempt.                                       *)
(***************************************************************************)
StartRequest(a, ctx, kind, source) ==
    [phase |-> "stamped", op |-> "start", attempt |-> a,
     expected |-> NoCheckpoint, cp |-> InitialCheckpoint(a, ctx, now),
     kind |-> kind, source |-> source]

\* Mutant: the snapshot of the bundle is not saved.
BeginStartUnsaved(w) ==
    /\ "start" \in Operations
    /\ ~Busy(w)
    /\ \E a \in AttemptId :
           /\ Fresh(a)
           /\ request' = [request EXCEPT ![w] =
                              StartRequest(a, current, "learning", NoAttempt)]
    /\ UNCHANGED <<storeVars, bundles, current, now, reviewLock>>

BeginStart(w) ==
    /\ "start" \in Operations
    /\ ~Busy(w)
    /\ \E a \in AttemptId :
           /\ Fresh(a)
           /\ request' = [request EXCEPT ![w] =
                              StartRequest(a, current, "learning", NoAttempt)]
    /\ bundles' = bundles \cup {current}
    /\ UNCHANGED <<storeVars, current, now, reviewLock>>

(***************************************************************************)
(* start_review waits for the review lock, checks that the review is due   *)
(* by one reading of the clock, and stamps the attempt by a later one.     *)
(***************************************************************************)
BeginReview(w) ==
    /\ "review" \in Operations
    /\ ~Busy(w)
    /\ \E a \in AttemptId : Fresh(a)     \* bound: a name is left to start with
    /\ \E source \in AttemptId :
           /\ Known(source)
           /\ request' = [request EXCEPT ![w] =
                              [phase |-> "waiting", source |-> source]]
    /\ UNCHANGED <<storeVars, bundles, current, now, reviewLock>>

ReviewIsDue(source) ==
    LET projection == Project(entries[source].cp.ctx, now) IN
    /\ replayable
    /\ entries[source].cp.ctx \in bundles
    /\ projection.status = "due"
    /\ projection.demonstration = source

\* Mutant: the due check does not wait for the review lock.
CheckReviewUnlocked(w) ==
    /\ request[w].phase = "waiting"
    /\ IF ReviewIsDue(request[w].source)
       THEN /\ request' = [request EXCEPT ![w].phase = "checked"]
            /\ reviewLock' = w
       ELSE /\ request' = [request EXCEPT ![w] = Idle]
            /\ UNCHANGED reviewLock
    /\ UNCHANGED <<storeVars, bundles, current, now>>

CheckReview(w) ==
    /\ request[w].phase = "waiting"
    /\ reviewLock = NoWorker
    /\ IF ReviewIsDue(request[w].source)
       THEN /\ request' = [request EXCEPT ![w].phase = "checked"]
            /\ reviewLock' = w
       ELSE /\ request' = [request EXCEPT ![w] = Idle]
            /\ UNCHANGED reviewLock
    /\ UNCHANGED <<storeVars, bundles, current, now>>

StampReview(w) ==
    LET source == request[w].source
        ctx == entries[source].cp.ctx
    IN
    /\ request[w].phase = "checked"
    /\ \E a \in AttemptId :
           /\ Fresh(a)
           /\ request' = [request EXCEPT ![w] = StartRequest(a, ctx, "review", source)]
    /\ bundles' = bundles \cup {ctx}
    /\ UNCHANGED <<storeVars, current, now, reviewLock>>

\* The instance has no name left for the attempt: the request is given up
\* (AttemptId bounds what the real factory does not).
GiveUpReview(w) ==
    /\ request[w].phase = "checked"
    /\ ~\E a \in AttemptId : Fresh(a)
    /\ Release(w)
    /\ UNCHANGED <<storeVars, bundles, current, now>>

-----------------------------------------------------------------------------
(***************************************************************************)
(* Working on an attempt.  Each handler reads the attempt and refuses if   *)
(* it is not at the handler's step; whether the attempt is still active is *)
(* only decided by the store.                                              *)
(***************************************************************************)
Evolved(cp) ==
    LET at == [cp EXCEPT !.updated = now] IN
    CASE cp.step = "map" -> {[at EXCEPT !.step = "predict"]}
      [] cp.step = "predict" ->
             {[at EXCEPT !.step = "try", !.prediction = x] : x \in Answers}
      [] cp.step = "try" ->
             {[at EXCEPT !.step = "prove",
                         !.actions = Append(cp.actions, RunAction)]}
      [] cp.step = "prove" ->
             {[at EXCEPT !.step = "explain", !.evidence = x] : x \in Answers}
      [] cp.step = "explain" ->
             {[at EXCEPT !.step = "complete", !.explanation = x] : x \in Answers}
      [] OTHER -> {}

\* reset_scenario
ScenarioReset(cp) ==
    IF cp.step \in {"prove", "explain"}
    THEN {[cp EXCEPT !.updated = now, !.step = "try", !.evidence = "none",
                     !.actions = Append(cp.actions, ResetAction)]}
    ELSE {}

\* advance_map, predict, run_scenario, prove, explain, reset_scenario
BeginStep(w) ==
    /\ ~Busy(w)
    /\ replayable
    /\ \E a \in AttemptId :
           /\ Known(a)
           /\ entries[a].cp.ctx \in bundles
           /\ \E cp \in (IF "step" \in Operations THEN Evolved(entries[a].cp) ELSE {})
                   \cup (IF "reset" \in Operations THEN ScenarioReset(entries[a].cp) ELSE {}) :
                  /\ cp \in Checkpoint
                  /\ request' = [request EXCEPT ![w] =
                         [phase |-> "stamped", attempt |-> a, cp |-> cp,
                          op |-> IF Completed(cp) THEN "complete" ELSE "step",
                          expected |-> entries[a].cp]]
    /\ UNCHANGED <<storeVars, bundles, current, now, reviewLock>>

\* restart_attempt
BeginRestart(w) ==
    /\ "restart" \in Operations
    /\ ~Busy(w)
    /\ replayable
    /\ \E previous, a \in AttemptId :
           /\ Known(previous)
           /\ ~Completed(entries[previous].cp)
           /\ entries[previous].cp.ctx \in bundles
           /\ Fresh(a)
           /\ request' = [request EXCEPT ![w] =
                  [phase |-> "stamped", op |-> "restart", attempt |-> a,
                   previous |-> previous, expected |-> entries[previous].cp,
                   cp |-> InitialCheckpoint(a, entries[previous].cp.ctx, now)]]
    /\ UNCHANGED <<storeVars, bundles, current, now, reviewLock>>

-----------------------------------------------------------------------------
(***************************************************************************)
(* The store's decision.  _save evaluates a completed checkpoint against   *)
(* its bundle and hands the record to complete(), any other to save().     *)
(***************************************************************************)
Commit(w) ==
    LET r == request[w] IN
    \/ /\ r.op = "start"
       /\ SaveStart(r.cp, r.expected, r.kind, r.source)
    \/ /\ r.op = "step"
       /\ SaveStep(r.cp, r.expected)
    \/ /\ r.op = "complete"
       /\ Complete(r.cp, r.expected, Qualifies(r.cp))
    \/ /\ r.op = "restart"
       /\ Restart(r.previous, r.cp, r.expected)

Allowed(w) ==
    LET r == request[w] IN
    \/ r.op = "start" /\ MayStart(r.cp, r.expected, r.kind, r.source)
    \/ r.op = "step" /\ MayStep(r.cp, r.expected)
    \/ r.op = "complete" /\ MayComplete(r.cp, r.expected, Qualifies(r.cp))
    \/ r.op = "restart" /\ MayRestart(r.previous, r.cp, r.expected)

\* Mutant: a request the store refuses is never answered.
FinishAccepted(w) ==
    /\ request[w].phase = "stamped"
    /\ Commit(w)
    /\ Release(w)
    /\ UNCHANGED <<bundles, current, now>>

Finish(w) ==
    /\ request[w].phase = "stamped"
    /\ \/ Commit(w)
       \/ ~Allowed(w) /\ UNCHANGED storeVars
    /\ Release(w)
    /\ UNCHANGED <<bundles, current, now>>

-----------------------------------------------------------------------------
(***************************************************************************)
(* The environment.                                                        *)
(***************************************************************************)
Tick ==
    /\ now < MaxTime
    /\ now' = now + 1
    /\ UNCHANGED <<storeVars, bundles, current, request, reviewLock>>

\* A promotion gives the pack a new version, hence a new bundle.
Promote ==
    /\ current + 1 \in Ctx
    /\ current' = current + 1
    /\ UNCHANGED <<storeVars, bundles, now, request, reviewLock>>

\* The process dies; the snapshots and the event stream survive.
Crash ==
    /\ \E w \in Workers : Busy(w)
    /\ request' = [w \in Workers |-> Idle]
    /\ reviewLock' = NoWorker
    /\ UNCHANGED <<storeVars, bundles, current, now>>

Serve(w) == CheckReview(w) \/ StampReview(w) \/ GiveUpReview(w) \/ Finish(w)

Begin(w) == BeginStart(w) \/ BeginReview(w) \/ BeginStep(w) \/ BeginRestart(w)

ServiceNext ==
    \/ \E w \in Workers : Begin(w) \/ Serve(w)
    \/ Tick
    \/ Promote
    \/ Crash

ServiceSpec == ServiceInit /\ [][ServiceNext]_vars

(***************************************************************************)
(* Request threads are scheduled by the operating system: one that can     *)
(* take its next step eventually does.  Learners owe nothing.              *)
(***************************************************************************)
FairServiceSpec == ServiceSpec /\ \A w \in Workers : WF_vars(Serve(w))

-----------------------------------------------------------------------------
(***************************************************************************)
(* The type of what the service adds to the store's variables.             *)
(***************************************************************************)
Requests ==
    {Idle}
    \cup [phase : {"waiting", "checked"}, source : AttemptId]
    \cup [phase : {"stamped"}, op : {"start"}, attempt : AttemptId,
          expected : {NoCheckpoint}, cp : Checkpoint, kind : Kinds,
          source : MaybeAttempt]
    \cup [phase : {"stamped"}, op : {"step", "complete"}, attempt : AttemptId,
          expected : Checkpoint, cp : Checkpoint]
    \cup [phase : {"stamped"}, op : {"restart"}, attempt : AttemptId,
          previous : AttemptId, expected : Checkpoint, cp : Checkpoint]

ServiceTypeOK ==
    /\ TypeOK
    /\ bundles \subseteq Ctx
    /\ current \in Ctx
    /\ now \in 0..MaxTime
    /\ \A w \in Workers : request[w] \in Requests
    /\ reviewLock \in Workers \cup {NoWorker}

(***************************************************************************)
(* No interleaving of requests, promotion or crash leaves an attempt in    *)
(* the history whose bundle snapshot is missing: _view, start_review and   *)
(* _review_for_route would raise for it from then on.                      *)
(***************************************************************************)
HistoryHasBundles ==
    \A a \in AttemptId : Known(a) => entries[a].cp.ctx \in bundles

(***************************************************************************)
(* The projection and the store agree: whenever a view shows a due review, *)
(* the store would take an attempt that starts it now.  The due status is  *)
(* computed by project_learning_state, the acceptance by save().           *)
(***************************************************************************)
DueReviewIsAccepted ==
    \A ctx \in Ctx :
        LET projection == Project(ctx, now) IN
        projection.status = "due" =>
            \A a \in AttemptId : ~Known(a) =>
                MayStart(InitialCheckpoint(a, ctx, now), NoCheckpoint,
                         "review", projection.demonstration)

(***************************************************************************)
(* However requests interleave, a review starts at least ReviewDays after  *)
(* its demonstration completed and RetryDays after any earlier review of   *)
(* the same demonstration completed: the due check is made by one thread,  *)
(* at one clock reading, long before the attempt is appended.              *)
(***************************************************************************)
Earlier(a, b) ==
    \E i, j \in DOMAIN order : i < j /\ order[i] = a /\ order[j] = b

IsReview(a) == Known(a) /\ entries[a].kind = "review"

ReviewsAreSpaced ==
    \A b \in AttemptId : IsReview(b) =>
        /\ entries[b].cp.started >= entries[entries[b].source].cp.updated + ReviewDays
        /\ \A a \in AttemptId :
               /\ IsReview(a) /\ entries[a].status = "completed"
               /\ entries[a].source = entries[b].source
               /\ Earlier(a, b)
               => entries[b].cp.started >= entries[a].cp.updated + RetryDays

(***************************************************************************)
(* "Retained" is only ever shown for a demonstration and a review of it    *)
(* that both qualify, in the context on view; and the review was begun in  *)
(* its time: ReviewDays after the demonstration, and RetryDays after every *)
(* earlier review of it that was completed.  The code compares with one    *)
(* due date that its loop moves from review to review.                     *)
(***************************************************************************)
RetainedIsEarned ==
    \A ctx \in Ctx : Project(ctx, now).mastery = "retained" =>
        \E r \in AttemptId :
            /\ IsReview(r) /\ entries[r].cp.ctx = ctx
            /\ Qualifies(entries[r].cp)
            /\ Qualifies(entries[entries[r].source].cp)
            /\ entries[r].cp.started
                   >= entries[entries[r].source].cp.updated + ReviewDays
            /\ \A a \in AttemptId :
                   /\ IsReview(a) /\ entries[a].status = "completed"
                   /\ entries[a].source = entries[r].source
                   /\ Earlier(a, r)
                   => entries[r].cp.started >= entries[a].cp.updated + RetryDays

(***************************************************************************)
(* No step takes Demonstrated or Introduced away again: not a failed       *)
(* review, a reset, a restart, a promotion, the clock or a crash.          *)
(***************************************************************************)
MasteryFloor ==
    [][\A ctx \in Ctx :
          LET before == Project(ctx, now).mastery
              after == Project(ctx, now)'.mastery
          IN  /\ before \in {"demonstrated", "retained"} =>
                     after \in {"demonstrated", "retained"}
              /\ before = "introduced" => after # "captured"]_vars

(***************************************************************************)
(* Two tabs on one attempt.  An attempt goes back to the Try step, or is   *)
(* given up for a new one, only for a request that has read all that is    *)
(* thrown away with it: a reset or restart that comes late never takes     *)
(* evidence that another tab has saved in the meantime.                    *)
(***************************************************************************)
TakenBack(a) ==
    /\ IsActive(a)
    /\ \/ entries'[a].status = "reset"
       \/ LoopIndex[entries'[a].cp.step] < LoopIndex[entries[a].cp.step]

OnlySeenWorkIsDiscarded ==
    [][\A a \in AttemptId : TakenBack(a) =>
          \E w \in Workers :
              /\ request[w].phase = "stamped" /\ request'[w] = Idle
              /\ request[w].expected = entries[a].cp]_vars

(***************************************************************************)
(* "A qualifying due review advances it to Retained"                       *)
(* (docs/resume-and-review.md): once some review qualified, started when   *)
(* its demonstration was due for review, mastery of its context is and     *)
(* stays Retained.                                                         *)
(***************************************************************************)
QualifyingReviewRetains ==
    \A r \in AttemptId :
        /\ IsReview(r)
        /\ Qualifies(entries[r].cp)
        /\ entries[r].cp.started
               >= entries[entries[r].source].cp.updated + ReviewDays
        => Project(entries[r].cp.ctx, now).mastery = "retained"

(***************************************************************************)
(* Every request ends, those waiting for the review lock included.         *)
(***************************************************************************)
RequestsFinish == \A w \in Workers : Busy(w) ~> ~Busy(w)
=============================================================================
