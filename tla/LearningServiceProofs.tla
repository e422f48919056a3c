----------------------- MODULE LearningServiceProofs -----------------------
(***************************************************************************)
(* The learning service under any number of request threads uses the store *)
(* as any client may, so that all that is proved of the store holds of it, *)
(* and it never leaves an attempt without its bundle.  Its reviews follow  *)
(* one another in time, what it calls due the store takes, and Mastery is  *)
(* earned and never lost.                                                  *)
(***************************************************************************)
EXTENDS LearningService, LearnerStoreProofs, WellFoundedInduction

(***************************************************************************)
(* The inductive invariant: the store's, the types, and what a request     *)
(* read and still relies on: the attempt a review is asked for stays       *)
(* known, and the bundle saved before an attempt is stamped stays saved.   *)
(***************************************************************************)
RequestStands(r) ==
    /\ r.phase \in {"waiting", "checked"} => Known(r.source)
    /\ r.phase = "stamped" /\ r.op = "start" => r.cp.ctx \in bundles

ServiceInv ==
    /\ StoreInv
    /\ ServiceTypeOK
    /\ request = [w \in Workers |-> request[w]]
    /\ HistoryHasBundles
    /\ \A w \in Workers : RequestStands(request[w])

-----------------------------------------------------------------------------
\* The shapes of requests, by their phases and operations.
LEMMA RequestShape ==
    ASSUME NEW r \in Requests
    PROVE  /\ r.phase \in {"waiting", "checked"} => r.source \in AttemptId
           /\ r.phase \in {"idle", "waiting", "checked", "stamped"}
           /\ r.phase = "idle" => r = Idle
           /\ r.phase = "stamped" =>
                  /\ r.op \in {"start", "step", "complete", "restart"}
                  /\ r.cp \in Checkpoint
                  /\ r.op = "start" => /\ r.expected = NoCheckpoint
                                       /\ r.kind \in Kinds
                                       /\ r.source \in MaybeAttempt
                  /\ r.op = "restart" => r.previous \in AttemptId
BY DEF Requests, Idle

\* Bundles, checkpoints and known attempts, of a state and of the next.
LEMMA KnownContext ==
    ASSUME StoreInv, NEW a \in AttemptId, Known(a)
    PROVE  /\ entries[a].cp \in Checkpoint /\ entries[a].cp.ctx \in Ctx
           /\ entries[a].cp.id = a
<1>1. entries[a].cp \in Checkpoint
  BY KnownEntry DEF StoreInv, Entry
<1> QED
  BY <1>1, CheckpointAssumption DEF CheckpointRecord, StoreInv, EntryInv

(***************************************************************************)
(* What a commit does to the history, field by field: an attempt begins,   *)
(* one moves on (a step, or its completion), or one is reset and replaced. *)
(***************************************************************************)
OthersKept(changed) == \A a \in AttemptId \ changed : entries'[a] = entries[a]

Began(cp, kind, source) ==
    /\ cp \in Checkpoint /\ cp.id \in AttemptId /\ ~Known(cp.id)
    /\ RequireStart(cp) /\ cp.updated = cp.started
    /\ order' = Append(order, cp.id)
    /\ entries'[cp.id].cp = cp
    /\ entries'[cp.id].status = "active"
    /\ entries'[cp.id].kind = kind
    /\ entries'[cp.id].source = source

Moved(cp) ==
    /\ cp \in Checkpoint /\ cp.id \in AttemptId /\ IsActive(cp.id)
    /\ cp.started = entries[cp.id].cp.started
    /\ cp.ctx = entries[cp.id].cp.ctx
    /\ cp.step # "map"
    /\ order' = order
    /\ entries'[cp.id].cp = cp
    /\ entries'[cp.id].status \in {"active", "completed"}
    /\ entries'[cp.id].kind = entries[cp.id].kind
    /\ entries'[cp.id].source = entries[cp.id].source
    /\ entries'[cp.id].status = "completed" =>
           (entries'[cp.id].qualifies <=> Qualifies(cp))
    /\ OthersKept({cp.id})

Replaced(previous, cp) ==
    /\ previous \in AttemptId /\ IsActive(previous) /\ previous # cp.id
    /\ Began(cp, entries[previous].kind, entries[previous].source)
    /\ cp.ctx = entries[previous].cp.ctx
    /\ entries[previous].cp.updated <= cp.started
    /\ entries'[previous].cp = entries[previous].cp
    /\ entries'[previous].status = "reset"
    /\ entries'[previous].kind = entries[previous].kind
    /\ entries'[previous].source = entries[previous].source
    /\ OthersKept({previous, cp.id})

CommitEffect(r) ==
    /\ lastAt' = r.cp.updated /\ lastAt <= r.cp.updated
    /\ \/ /\ r.op = "start" /\ Began(r.cp, r.kind, r.source) /\ OthersKept({r.cp.id})
          /\ r.kind = "review" => IsReviewSource(r.source, r.cp) /\ ~HasActiveReview(r.source)
       \/ r.op \in {"step", "complete"} /\ Moved(r.cp)
       \/ r.op = "restart" /\ Replaced(r.previous, r.cp)

\* A start that save() records puts its checkpoint at its own name only.
LEMMA StartCommits ==
    ASSUME StoreInv, NEW cp \in Checkpoint, NEW kind \in Kinds,
           NEW source \in MaybeAttempt, SaveStart(cp, NoCheckpoint, kind, source)
    PROVE  Began(cp, kind, source) /\ OthersKept({cp.id})
<1> DEFINE new == [cp |-> cp, status |-> "active", kind |-> kind,
                   source |-> source, qualifies |-> FALSE,
                   resetBy |-> NoAttempt]
<1>1. /\ entries' = [a \in AttemptId |-> IF a = cp.id THEN new ELSE entries[a]]
      /\ order' = Append(order, cp.id) /\ ~Known(cp.id) /\ RequireStart(cp)
  BY StartEffect
<1>2. new.cp = cp /\ new.status = "active" /\ new.kind = kind /\ new.source = source
  OBVIOUS
<1> HIDE DEF new
<1>3. cp.id \in AttemptId /\ cp.updated = cp.started
  BY <1>1, CheckpointTypes DEF RequireStart, InitialCheckpoint
<1> QED
  BY <1>1, <1>2, <1>3 DEF Began, OthersKept

\* A step that save() records moves its attempt only.
LEMMA StepCommits ==
    ASSUME StoreInv, NEW cp \in Checkpoint, NEW expected, SaveStep(cp, expected)
    PROVE  Moved(cp)
<1> DEFINE moved == [entries[cp.id] EXCEPT !.cp = cp]
<1>1. /\ order' = order /\ IsActive(cp.id)
      /\ CheckpointTransition(entries[cp.id].cp, cp)
      /\ entries' = [a \in AttemptId |-> IF a = cp.id
                                         THEN [entries[a] EXCEPT !.cp = cp]
                                         ELSE entries[a]]
  BY StepEffect
<1>2. cp.id \in AttemptId /\ entries[cp.id] \in Entry
  BY <1>1, CheckpointTypes, KnownEntry DEF StoreInv, IsActive, Known
<1>3. /\ moved.cp = cp /\ moved.status = "active"
      /\ moved.kind = entries[cp.id].kind /\ moved.source = entries[cp.id].source
  BY <1>1, <1>2 DEF Entry, IsActive
<1>4. entries'[cp.id] = moved /\ OthersKept({cp.id})
  BY <1>1, <1>2 DEF OthersKept
<1>5. /\ cp.started = entries[cp.id].cp.started /\ cp.ctx = entries[cp.id].cp.ctx
      /\ cp.step # "map"
  BY <1>1 DEF CheckpointTransition, SameIdentity, ForwardStep, ResetStep
<1> HIDE DEF moved
<1> QED
  BY <1>1, <1>2, <1>3, <1>4, <1>5 DEF Moved

\* So does a completion, and the record it leaves is evaluate_attempt's.
LEMMA CompletionCommits ==
    ASSUME StoreInv, NEW cp \in Checkpoint, NEW expected,
           Complete(cp, expected, Qualifies(cp))
    PROVE  Moved(cp)
<1> DEFINE closed == [entries[cp.id] EXCEPT !.cp = cp, !.status = "completed",
                                            !.qualifies = Qualifies(cp)]
<1>1. Qualifies(cp) \in BOOLEAN
  BY DEF Qualifies
<1>2. /\ order' = order /\ IsActive(cp.id)
      /\ CompletionTransition(entries[cp.id].cp, cp)
      /\ entries' = [a \in AttemptId |->
                        IF a = cp.id
                        THEN [entries[a] EXCEPT !.cp = cp, !.status = "completed",
                                                !.qualifies = Qualifies(cp)]
                        ELSE entries[a]]
  BY <1>1, CompleteEffect
<1>3. cp.id \in AttemptId /\ entries[cp.id] \in Entry
  BY <1>2, CheckpointTypes, KnownEntry DEF StoreInv, IsActive, Known
<1>4. /\ closed.cp = cp /\ closed.status = "completed"
      /\ closed.kind = entries[cp.id].kind /\ closed.source = entries[cp.id].source
      /\ closed.qualifies = Qualifies(cp)
  BY <1>3 DEF Entry
<1>5. entries'[cp.id] = closed /\ OthersKept({cp.id})
  BY <1>2, <1>3 DEF OthersKept
<1>6. /\ cp.started = entries[cp.id].cp.started /\ cp.ctx = entries[cp.id].cp.ctx
      /\ cp.step # "map"
  BY <1>2 DEF CompletionTransition, SameIdentity
<1> HIDE DEF closed
<1> QED
  BY <1>2, <1>3, <1>4, <1>5, <1>6 DEF Moved

\* A restart resets one attempt and puts another at the end.
LEMMA RestartCommits ==
    ASSUME StoreInv, NEW cp \in Checkpoint, NEW previous \in AttemptId,
           NEW expected, Restart(previous, cp, expected)
    PROVE  Replaced(previous, cp)
<1> DEFINE new == [cp |-> cp, status |-> "active", kind |-> entries[previous].kind,
                   source |-> entries[previous].source,
                   qualifies |-> FALSE, resetBy |-> NoAttempt]
           reset == [entries[previous] EXCEPT !.status = "reset", !.resetBy = cp.id]
<1>1. /\ order' = Append(order, cp.id) /\ IsActive(previous)
      /\ ~Known(cp.id) /\ previous # cp.id
      /\ RestartTransition(entries[previous].cp, cp)
  BY RestartEffect
<1>2. entries' = [a \in AttemptId |->
                     IF a = cp.id THEN new
                     ELSE IF a = previous
                     THEN [entries[a] EXCEPT !.status = "reset", !.resetBy = cp.id]
                     ELSE entries[a]]
  BY RestartEffect
<1>3. cp.id \in AttemptId /\ entries[previous] \in Entry
  BY <1>1, CheckpointTypes, KnownEntry DEF StoreInv, IsActive, Known
<1>4. /\ reset.cp = entries[previous].cp /\ reset.status = "reset"
      /\ reset.kind = entries[previous].kind /\ reset.source = entries[previous].source
  BY <1>3 DEF Entry
<1>5. /\ new.cp = cp /\ new.status = "active" /\ new.kind = entries[previous].kind
      /\ new.source = entries[previous].source
  OBVIOUS
<1>6. /\ entries'[cp.id] = new /\ entries'[previous] = reset
      /\ OthersKept({previous, cp.id})
  BY <1>1, <1>2, <1>3 DEF OthersKept
<1>7. /\ cp.ctx = entries[previous].cp.ctx /\ entries[previous].cp.updated <= cp.started
      /\ RequireStart(cp) /\ cp.updated = cp.started
  BY <1>1 DEF RestartTransition, RequireStart, InitialCheckpoint
<1> HIDE DEF new, reset
<1> QED
  BY <1>1, <1>3, <1>4, <1>5, <1>6, <1>7 DEF Replaced, Began

(***************************************************************************)
(* A commit is a step of a client of the store, with these effects.        *)
(***************************************************************************)
LEMMA Commits ==
    ASSUME ServiceInv, NEW w \in Workers, request[w].phase = "stamped", Commit(w)
    PROVE  StoreNext /\ CommitEffect(request[w])
<1> DEFINE r == request[w]
<1>1. StoreInv /\ r \in Requests
  BY DEF ServiceInv, ServiceTypeOK
<1>2. /\ r.cp \in Checkpoint /\ r.cp.id \in AttemptId
      /\ r.op = "start" => /\ r.expected = NoCheckpoint
                           /\ r.kind \in Kinds
                           /\ r.source \in MaybeAttempt
      /\ r.op = "restart" => r.previous \in AttemptId
  BY <1>1, RequestShape, CheckpointTypes
<1>3. CASE r.op = "start" /\ SaveStart(r.cp, r.expected, r.kind, r.source)
  <2>1. SaveStart(r.cp, NoCheckpoint, r.kind, r.source)
    BY <1>2, <1>3
  <2>2. StoreNext
    BY <1>2, <1>3, <2>1 DEF StoreNext, ClientStart
  <2>3. Began(r.cp, r.kind, r.source) /\ OthersKept({r.cp.id})
    BY <1>1, <1>2, <1>3, <2>1, StartCommits
  <2>4. /\ lastAt' = r.cp.updated /\ lastAt <= r.cp.updated
        /\ r.kind = "review" => IsReviewSource(r.source, r.cp) /\ ~HasActiveReview(r.source)
    BY <1>1, <1>2, <1>3, <2>1, StartEffect
  <2> QED
    BY <1>3, <2>2, <2>3, <2>4 DEF CommitEffect
<1>4. CASE r.op = "step" /\ SaveStep(r.cp, r.expected)
  <2>1. IsActive(r.cp.id) /\ r.expected = entries[r.cp.id].cp
    BY <1>4 DEF SaveStep, MayStep, IsCurrent
  <2>2. StoreNext
    BY <1>2, <1>4, <2>1 DEF StoreNext, ClientStep, Held
  <2>3. Moved(r.cp)
    BY <1>1, <1>2, <1>4, StepCommits
  <2>4. lastAt' = r.cp.updated /\ lastAt <= r.cp.updated
    BY <1>1, <1>2, <1>4, StepEffect
  <2> QED
    BY <1>4, <2>2, <2>3, <2>4 DEF CommitEffect
<1>5. CASE r.op = "complete" /\ Complete(r.cp, r.expected, Qualifies(r.cp))
  <2>1. IsActive(r.cp.id) /\ r.expected = entries[r.cp.id].cp
    BY <1>5 DEF Complete, MayComplete, IsCurrent
  <2>2. Qualifies(r.cp) \in BOOLEAN
    BY DEF Qualifies
  <2>3. StoreNext
    BY <1>2, <1>5, <2>1, <2>2 DEF StoreNext, ClientComplete, Held
  <2>4. Moved(r.cp)
    BY <1>1, <1>2, <1>5, CompletionCommits
  <2>5. lastAt' = r.cp.updated /\ lastAt <= r.cp.updated
    BY <1>1, <1>2, <1>5, <2>2, CompleteEffect
  <2> QED
    BY <1>5, <2>3, <2>4, <2>5 DEF CommitEffect
<1>6. CASE r.op = "restart" /\ Restart(r.previous, r.cp, r.expected)
  <2>1. IsActive(r.previous) /\ r.expected = entries[r.previous].cp
    BY <1>6 DEF Restart, MayRestart, IsCurrent
  <2>2. r.expected \in Held /\ r.expected.id = r.previous
    BY <1>1, <1>2, <1>6, <2>1, KnownContext DEF Held, IsActive, Known
  <2>3. StoreNext
    BY <1>2, <1>6, <2>2 DEF StoreNext, ClientRestart
  <2>4. Replaced(r.previous, r.cp)
    BY <1>1, <1>2, <1>6, RestartCommits
  <2>5. lastAt' = r.cp.updated /\ lastAt <= r.cp.updated
    BY <1>1, <1>2, <1>6, RestartEffect
  <2> QED
    BY <1>6, <2>3, <2>4, <2>5 DEF CommitEffect
<1> QED
  BY <1>3, <1>4, <1>5, <1>6 DEF Commit

\* It forgets no attempt, and adds one only with a bundle.
LEMMA CommitStep ==
    ASSUME ServiceInv, NEW w \in Workers, request[w].phase = "stamped", Commit(w)
    PROVE  /\ StoreNext
           /\ \A a \in AttemptId : Known(a) => Known(a)'
           /\ \A a \in AttemptId : Known(a)' => entries'[a].cp.ctx \in bundles
<1> DEFINE r == request[w]
<1>1. /\ StoreNext /\ CommitEffect(r)
      /\ \A a \in AttemptId : Known(a) => entries[a].cp.ctx \in bundles
      /\ r.op = "start" => r.cp.ctx \in bundles
  BY Commits DEF ServiceInv, HistoryHasBundles, RequestStands
<1>2. CASE r.op = "start" /\ Began(r.cp, r.kind, r.source) /\ OthersKept({r.cp.id})
  BY <1>1, <1>2 DEF Began, OthersKept, Known
<1>3. CASE Moved(r.cp)
  BY <1>1, <1>3 DEF Moved, OthersKept, Known, IsActive
<1>4. CASE Replaced(r.previous, r.cp)
  BY <1>1, <1>4 DEF Replaced, Began, OthersKept, Known, IsActive
<1> QED
  BY <1>1, <1>2, <1>3, <1>4 DEF CommitEffect

-----------------------------------------------------------------------------
(***************************************************************************)
(* A step of the service, by what it does to the store, the bundles and    *)
(* the requests.                                                           *)
(***************************************************************************)
LEMMA StoreKept ==
    ASSUME StoreInv, UNCHANGED storeVars
    PROVE  /\ StoreInv' /\ entries' = entries
           /\ \A a \in AttemptId : Known(a)' <=> Known(a)
BY DEF StoreInv, storeVars, TypeOK, Replayable, EntryInv, OneActiveReview,
       ReviewsFollowDemonstration, RestartLineage, Known, WellFormedEntry,
       IsReviewSource, IsDemonstration, Replaces

\* From the parts a step may change, the whole invariant.
LEMMA ServiceStep ==
    ASSUME ServiceInv, StoreInv',
           \A a \in AttemptId : Known(a) => Known(a)',
           \A a \in AttemptId : Known(a)' => entries'[a].cp.ctx \in bundles',
           bundles \subseteq bundles', bundles' \subseteq Ctx,
           current' \in Ctx, now' \in 0..MaxTime,
           reviewLock' \in Workers \cup {NoWorker},
           request' = [w \in Workers |-> request'[w]],
           \A w \in Workers :
               \/ request'[w] \in {Idle, request[w]}
               \/ request'[w] \in Requests /\ RequestStands(request[w])'
    PROVE  ServiceInv'
<1>1. HistoryHasBundles'
  BY DEF HistoryHasBundles
<1>2. Idle \in Requests /\ Idle.phase = "idle"
  BY DEF Requests, Idle
<1>3. ASSUME NEW w \in Workers
      PROVE  request'[w] \in Requests /\ RequestStands(request[w])'
  <2>1. CASE request'[w] = Idle
    BY <1>2, <2>1 DEF RequestStands
  <2>2. CASE request'[w] = request[w]
    <3>1. request[w] \in Requests /\ RequestStands(request[w])
      BY DEF ServiceInv, ServiceTypeOK
    <3>2. request[w].phase \in {"waiting", "checked"} => request[w].source \in AttemptId
      BY <3>1, RequestShape
    <3> QED
      BY <2>2, <3>1, <3>2 DEF RequestStands
  <2> QED
    BY <2>1, <2>2
<1>4. ServiceTypeOK'
  BY <1>3 DEF ServiceTypeOK, StoreInv
<1> QED
  BY <1>1, <1>3, <1>4 DEF ServiceInv

\* A request that goes on, or begins, while the store is left alone.
LEMMA RequestStep ==
    ASSUME ServiceInv, UNCHANGED storeVars, NEW w \in Workers, NEW r \in Requests,
           request' = [request EXCEPT ![w] = r],
           r.phase \in {"waiting", "checked"} => Known(r.source),
           r.phase = "stamped" /\ r.op = "start" => r.cp.ctx \in bundles',
           bundles \subseteq bundles', bundles' \subseteq Ctx, UNCHANGED <<current, now>>,
           reviewLock' \in Workers \cup {NoWorker}
    PROVE  ServiceInv'
<1>1. /\ StoreInv' /\ entries' = entries
      /\ \A a \in AttemptId : Known(a)' <=> Known(a)
  BY StoreKept DEF ServiceInv
<1>2. \A a \in AttemptId : Known(a)' => entries'[a].cp.ctx \in bundles'
  BY <1>1 DEF ServiceInv, HistoryHasBundles
<1>3. /\ request' = [v \in Workers |-> request'[v]]
      /\ request'[w] = r
      /\ \A v \in Workers \ {w} : request'[v] = request[v]
  BY DEF ServiceInv
<1>4. r.phase \in {"waiting", "checked"} => r.source \in AttemptId
  BY RequestShape
<1>5. RequestStands(request[w])'
  BY <1>1, <1>3, <1>4 DEF RequestStands
<1>6. current' \in Ctx /\ now' \in 0..MaxTime
  BY DEF ServiceInv, ServiceTypeOK
<1>7. \A v \in Workers :
          \/ request'[v] \in {Idle, request[v]}
          \/ request'[v] \in Requests /\ RequestStands(request[v])'
  BY <1>3, <1>5
<1> QED
  BY <1>1, <1>2, <1>3, <1>6, <1>7, ServiceStep

\* A request that ends, while the store is left alone.
LEMMA EndStep ==
    ASSUME ServiceInv, UNCHANGED storeVars, NEW w \in Workers,
           request' = [request EXCEPT ![w] = Idle],
           UNCHANGED <<bundles, current, now>>,
           reviewLock' \in Workers \cup {NoWorker}
    PROVE  ServiceInv'
<1>1. Idle \in Requests /\ Idle.phase = "idle"
  BY DEF Requests, Idle
<1>2. bundles' \subseteq Ctx
  BY DEF ServiceInv, ServiceTypeOK
<1> QED
  BY <1>1, <1>2, RequestStep

-----------------------------------------------------------------------------
\* What a started attempt's request is.
LEMMA StartShape ==
    ASSUME ServiceInv, NEW a \in AttemptId, NEW ctx \in Ctx, NEW kind \in Kinds,
           NEW source \in MaybeAttempt
    PROVE  /\ StartRequest(a, ctx, kind, source) \in Requests
           /\ StartRequest(a, ctx, kind, source).phase = "stamped"
           /\ StartRequest(a, ctx, kind, source).cp.ctx = ctx
<1>1. InitialCheckpoint(a, ctx, now) \in Checkpoint
  BY InitialAssumption DEF ServiceInv, ServiceTypeOK
<1>2. InitialCheckpoint(a, ctx, now).ctx = ctx
  BY DEF InitialCheckpoint
<1> QED
  BY <1>1, <1>2 DEF StartRequest, Requests

\* Requests that begin.
LEMMA BeginPreserves ==
    ASSUME ServiceInv, NEW w \in Workers, Begin(w)
    PROVE  ServiceInv'
<1>1. /\ bundles \subseteq Ctx /\ current \in Ctx
      /\ reviewLock \in Workers \cup {NoWorker} /\ StoreInv
  BY DEF ServiceInv, ServiceTypeOK
<1>2. CASE BeginStart(w)
  <2>1. PICK a \in AttemptId :
            request' = [request EXCEPT ![w] =
                           StartRequest(a, current, "learning", NoAttempt)]
    BY <1>2 DEF BeginStart
  <2>2. "learning" \in Kinds /\ NoAttempt \in MaybeAttempt
    BY DEF Kinds, MaybeAttempt
  <2> DEFINE r == StartRequest(a, current, "learning", NoAttempt)
  <2>3. r \in Requests /\ r.phase = "stamped" /\ r.cp.ctx = current
    BY <1>1, <2>2, StartShape
  <2> HIDE DEF r
  <2>4. /\ UNCHANGED storeVars /\ UNCHANGED <<current, now>> /\ UNCHANGED reviewLock
        /\ bundles' = bundles \cup {current}
    BY <1>2 DEF BeginStart
  <2>5. request' = [request EXCEPT ![w] = r]
    BY <2>1 DEF r
  <2>6. r.cp.ctx \in bundles' /\ bundles \subseteq bundles' /\ bundles' \subseteq Ctx
    BY <1>1, <2>3, <2>4
  <2> QED
    BY <1>1, <2>3, <2>4, <2>5, <2>6, RequestStep
<1>3. CASE BeginReview(w)
  <2>1. PICK source \in AttemptId :
            /\ Known(source)
            /\ request' = [request EXCEPT ![w] =
                              [phase |-> "waiting", source |-> source]]
    BY <1>3 DEF BeginReview
  <2> DEFINE r == [phase |-> "waiting", source |-> source]
  <2>2. r \in Requests
    BY DEF Requests
  <2>3. r.phase = "waiting" /\ r.source = source
    OBVIOUS
  <2> HIDE DEF r
  <2>4. UNCHANGED storeVars /\ UNCHANGED <<current, now>> /\ UNCHANGED <<bundles, reviewLock>>
    BY <1>3 DEF BeginReview
  <2> QED
    BY <1>1, <2>1, <2>2, <2>3, <2>4, RequestStep DEF r
<1>4. CASE BeginStep(w)
  <2>1. PICK a \in AttemptId, cp \in Checkpoint :
            /\ Known(a)
            /\ request' = [request EXCEPT ![w] =
                   [phase |-> "stamped", attempt |-> a, cp |-> cp,
                    op |-> IF Completed(cp) THEN "complete" ELSE "step",
                    expected |-> entries[a].cp]]
    BY <1>4 DEF BeginStep
  <2> DEFINE r == [phase |-> "stamped", attempt |-> a, cp |-> cp,
                   op |-> IF Completed(cp) THEN "complete" ELSE "step",
                   expected |-> entries[a].cp]
  <2>2. entries[a].cp \in Checkpoint
    BY <1>1, <2>1, KnownContext
  <2>3. r \in Requests
    BY <2>2 DEF Requests
  <2>4. r.phase = "stamped" /\ r.op # "start"
    OBVIOUS
  <2>5. UNCHANGED storeVars /\ UNCHANGED <<current, now>> /\ UNCHANGED <<bundles, reviewLock>>
    BY <1>4 DEF BeginStep
  <2>6. request' = [request EXCEPT ![w] = r]
    BY <2>1
  <2> HIDE DEF r
  <2> QED
    BY <1>1, <2>3, <2>4, <2>5, <2>6, RequestStep
<1>5. CASE BeginRestart(w)
  <2>1. PICK previous \in AttemptId, a \in AttemptId :
            /\ Known(previous)
            /\ request' = [request EXCEPT ![w] =
                   [phase |-> "stamped", op |-> "restart", attempt |-> a,
                    previous |-> previous, expected |-> entries[previous].cp,
                    cp |-> InitialCheckpoint(a, entries[previous].cp.ctx, now)]]
    BY <1>5 DEF BeginRestart
  <2> DEFINE r == [phase |-> "stamped", op |-> "restart", attempt |-> a,
                   previous |-> previous, expected |-> entries[previous].cp,
                   cp |-> InitialCheckpoint(a, entries[previous].cp.ctx, now)]
  <2>2. entries[previous].cp \in Checkpoint /\ entries[previous].cp.ctx \in Ctx
    BY <1>1, <2>1, KnownContext
  <2>3. InitialCheckpoint(a, entries[previous].cp.ctx, now) \in Checkpoint
    BY <2>2, InitialAssumption DEF ServiceInv, ServiceTypeOK
  <2>4. r \in Requests
    BY <2>2, <2>3 DEF Requests
  <2>5. r.phase = "stamped" /\ r.op # "start"
    OBVIOUS
  <2>6. UNCHANGED storeVars /\ UNCHANGED <<current, now>> /\ UNCHANGED <<bundles, reviewLock>>
    BY <1>5 DEF BeginRestart
  <2>7. request' = [request EXCEPT ![w] = r]
    BY <2>1
  <2> HIDE DEF r
  <2> QED
    BY <1>1, <2>4, <2>5, <2>6, <2>7, RequestStep
<1> QED
  BY <1>2, <1>3, <1>4, <1>5 DEF Begin

\* The steps of start_review before the store is asked.
LEMMA ReviewPreserves ==
    ASSUME ServiceInv, NEW w \in Workers,
           CheckReview(w) \/ StampReview(w) \/ GiveUpReview(w)
    PROVE  ServiceInv'
<1>1. /\ bundles \subseteq Ctx /\ reviewLock \in Workers \cup {NoWorker} /\ StoreInv
      /\ request[w] \in Requests /\ RequestStands(request[w])
      /\ \A v \in Workers : request'[v] = request'[v]
  BY DEF ServiceInv, ServiceTypeOK
<1>2. CASE CheckReview(w)
  <2>1. request[w] \in [phase : {"waiting", "checked"}, source : AttemptId]
    BY <1>1, <1>2 DEF CheckReview, Requests, Idle
  <2>2. UNCHANGED storeVars /\ UNCHANGED <<bundles, current, now>>
    BY <1>2 DEF CheckReview
  <2>3. CASE ReviewIsDue(request[w].source)
    <3> DEFINE r == [request[w] EXCEPT !.phase = "checked"]
    <3>1. r \in Requests /\ r.phase = "checked" /\ r.source = request[w].source
      BY <2>1 DEF Requests
    <3>2. request' = [request EXCEPT ![w] = r] /\ reviewLock' = w
      BY <1>2, <2>3 DEF CheckReview
    <3>3. Known(request[w].source)
      BY <1>1, <1>2 DEF CheckReview, RequestStands
    <3> HIDE DEF r
    <3> QED
      BY <1>1, <2>2, <3>1, <3>2, <3>3, RequestStep
  <2>4. CASE ~ReviewIsDue(request[w].source)
    BY <1>1, <1>2, <2>2, <2>4, EndStep DEF CheckReview
  <2> QED
    BY <2>3, <2>4
<1>3. CASE StampReview(w)
  <2> DEFINE source == request[w].source
             ctx == entries[source].cp.ctx
  <2>1. source \in AttemptId /\ Known(source)
    BY <1>1, <1>3, RequestShape DEF StampReview, RequestStands
  <2>2. ctx \in Ctx
    BY <1>1, <2>1, KnownContext
  <2>3. PICK a \in AttemptId :
            request' = [request EXCEPT ![w] = StartRequest(a, ctx, "review", source)]
    BY <1>3 DEF StampReview
  <2>4. /\ UNCHANGED storeVars /\ UNCHANGED <<current, now>> /\ UNCHANGED reviewLock
        /\ bundles' = bundles \cup {ctx}
    BY <1>3 DEF StampReview
  <2>5. "review" \in Kinds /\ source \in MaybeAttempt
    BY <2>1 DEF Kinds, MaybeAttempt
  <2> DEFINE r == StartRequest(a, ctx, "review", source)
  <2>6. r \in Requests /\ r.phase = "stamped" /\ r.cp.ctx = ctx
    BY <2>1, <2>2, <2>5, StartShape
  <2>7. request' = [request EXCEPT ![w] = r]
    BY <2>3
  <2> HIDE DEF r
  <2>8. r.cp.ctx \in bundles' /\ bundles \subseteq bundles' /\ bundles' \subseteq Ctx
    BY <1>1, <2>2, <2>4, <2>6
  <2> QED
    BY <1>1, <2>4, <2>6, <2>7, <2>8, RequestStep
<1>4. CASE GiveUpReview(w)
  BY <1>1, <1>4, EndStep DEF GiveUpReview, Release
<1> QED
  BY <1>2, <1>3, <1>4

\* The store's decision ends the request, one way or the other.
LEMMA FinishPreserves ==
    ASSUME ServiceInv, NEW w \in Workers, Finish(w)
    PROVE  ServiceInv' /\ [StoreNext]_storeVars
<1>1. /\ bundles \subseteq Ctx /\ current \in Ctx /\ now \in 0..MaxTime
      /\ reviewLock \in Workers \cup {NoWorker} /\ StoreInv
  BY DEF ServiceInv, ServiceTypeOK
<1>2. /\ request[w].phase = "stamped"
      /\ request' = [request EXCEPT ![w] = Idle]
      /\ reviewLock' \in Workers \cup {NoWorker}
      /\ UNCHANGED <<bundles, current, now>>
      /\ Commit(w) \/ UNCHANGED storeVars
  BY <1>1 DEF Finish, Release
<1>3. CASE Commit(w)
  <2>1. /\ StoreNext
        /\ \A a \in AttemptId : Known(a) => Known(a)'
        /\ \A a \in AttemptId : Known(a)' => entries'[a].cp.ctx \in bundles
    BY <1>2, <1>3, CommitStep
  <2>2. StoreInv'
    BY <1>1, <2>1, NextPreserves
  <2>3. /\ request' = [v \in Workers |-> request'[v]]
        /\ \A v \in Workers : request'[v] \in {Idle, request[v]}
    BY <1>2 DEF ServiceInv
  <2>4. ServiceInv'
    BY <1>1, <1>2, <2>1, <2>2, <2>3, ServiceStep
  <2> QED
    BY <2>1, <2>4
<1>4. CASE UNCHANGED storeVars
  <2>1. ServiceInv'
    BY <1>2, <1>4, EndStep
  <2> QED
    BY <1>4, <2>1
<1> QED
  BY <1>2, <1>3, <1>4

\* Every step of the service keeps the invariant, and is one of the store.
LEMMA NextServes ==
    ASSUME ServiceInv, [ServiceNext]_vars
    PROVE  ServiceInv' /\ [StoreNext]_storeVars
<1>1. ASSUME NEW w \in Workers, Begin(w)
      PROVE  ServiceInv' /\ UNCHANGED storeVars
  BY <1>1, BeginPreserves DEF Begin, BeginStart, BeginReview, BeginStep, BeginRestart
<1>2. ASSUME NEW w \in Workers, CheckReview(w) \/ StampReview(w) \/ GiveUpReview(w)
      PROVE  ServiceInv' /\ UNCHANGED storeVars
  BY <1>2, ReviewPreserves DEF CheckReview, StampReview, GiveUpReview
<1>3. ASSUME NEW w \in Workers, Finish(w)
      PROVE  ServiceInv' /\ [StoreNext]_storeVars
  BY <1>3, FinishPreserves
<1>4. ASSUME UNCHANGED storeVars, UNCHANGED bundles,
             request' = [w \in Workers |-> request'[w]],
             \A w \in Workers : request'[w] \in {Idle, request[w]},
             current' \in Ctx, now' \in 0..MaxTime,
             reviewLock' \in Workers \cup {NoWorker}
      PROVE  ServiceInv' /\ UNCHANGED storeVars
  <2>1. /\ StoreInv' /\ entries' = entries
        /\ \A a \in AttemptId : Known(a)' <=> Known(a)
    BY <1>4, StoreKept DEF ServiceInv
  <2>2. bundles' \subseteq Ctx /\ bundles \subseteq bundles'
    BY <1>4 DEF ServiceInv, ServiceTypeOK
  <2>3. \A a \in AttemptId : Known(a)' => entries'[a].cp.ctx \in bundles'
    BY <1>4, <2>1 DEF ServiceInv, HistoryHasBundles
  <2> QED
    BY <1>4, <2>1, <2>2, <2>3, ServiceStep
<1>5. /\ request = [w \in Workers |-> request[w]] /\ current \in Ctx
      /\ now \in 0..MaxTime
      /\ reviewLock \in Workers \cup {NoWorker}
  BY MaxTimeAssumption DEF ServiceInv, ServiceTypeOK
<1>6. CASE Tick
  <2>1. now' \in 0..MaxTime
    BY <1>5, <1>6, MaxTimeAssumption DEF Tick
  <2> QED
    BY <1>4, <1>5, <1>6, <2>1 DEF Tick
<1>7. CASE Promote
  BY <1>4, <1>5, <1>7 DEF Promote
<1>8. CASE Crash
  BY <1>4, <1>5, <1>8 DEF Crash
<1>9. CASE UNCHANGED vars
  BY <1>4, <1>5, <1>9 DEF vars, serviceVars
<1> QED
  BY <1>1, <1>2, <1>3, <1>6, <1>7, <1>8, <1>9 DEF ServiceNext, Serve

-----------------------------------------------------------------------------
(***************************************************************************)
(* Every reachable state of the service satisfies the invariant, whatever  *)
(* requests, promotions and crashes interleave.                            *)
(***************************************************************************)
THEOREM ServiceInvariant == ServiceSpec => []ServiceInv
<1>1. ServiceInit => ServiceInv
  <2> SUFFICES ASSUME ServiceInit PROVE ServiceInv
    OBVIOUS
  <2>1. StoreInv /\ \A a \in AttemptId : ~Known(a)
    BY DEF ServiceInit, StoreInit, StoreInv, TypeOK, Replayable, EntryInv,
           OneActiveReview, ReviewsFollowDemonstration, RestartLineage, Known, NoEntry
  <2>2. Idle \in Requests /\ Idle.phase = "idle"
    BY DEF Requests, Idle
  <2>3. 0 \in 0..MaxTime /\ 1 \in Ctx
    BY MaxTimeAssumption, CtxAssumption
  <2> QED
    BY <2>1, <2>2, <2>3 DEF ServiceInit, ServiceInv, ServiceTypeOK, StoreInv,
                            HistoryHasBundles, RequestStands
<1>2. ServiceInv /\ [ServiceNext]_vars => ServiceInv'
  BY NextServes
<1> QED
  BY <1>1, <1>2, PTL DEF ServiceSpec

(***************************************************************************)
(* The service's types hold in every reachable state.                      *)
(***************************************************************************)
THEOREM ServiceTypes == ServiceSpec => []ServiceTypeOK
<1>1. ServiceInv => ServiceTypeOK
  BY DEF ServiceInv
<1> QED
  BY <1>1, ServiceInvariant, PTL

(***************************************************************************)
(* No attempt of the history lacks its bundle snapshot.                    *)
(***************************************************************************)
THEOREM BundlesAreThere == ServiceSpec => []HistoryHasBundles
<1>1. ServiceInv => HistoryHasBundles
  BY DEF ServiceInv
<1> QED
  BY <1>1, ServiceInvariant, PTL

(***************************************************************************)
(* The service is one of the store's clients: every behaviour of it is one *)
(* of the store, of which LearnerStoreProofs tells.                        *)
(***************************************************************************)
THEOREM ServiceIsClient == ServiceSpec => StoreSpec
<1>1. ServiceInit => StoreInit
  BY DEF ServiceInit
<1>2. ServiceInv /\ [ServiceNext]_vars => [StoreNext]_storeVars
  BY NextServes
<1> QED
  BY <1>1, <1>2, ServiceInvariant, PTL DEF ServiceSpec, StoreSpec

(***************************************************************************)
(* Two tabs on one attempt: no request overwrites a finished attempt or a  *)
(* committed prediction, however late it asks the store.                   *)
(***************************************************************************)
THEOREM ServiceKeepsHistory ==
    ServiceSpec => []OneActiveReview /\ HistoryIsImmutable /\ PredictionIsCommitted
BY ServiceIsClient, AtMostOneActiveReview, HistoryNeverChanges, PredictionNeverChanges, PTL

-----------------------------------------------------------------------------
\* The commit that takes an attempt back was asked for by who had read it all.
LEMMA CommitHasSeen ==
    ASSUME ServiceInv, NEW w \in Workers, request[w].phase = "stamped", Commit(w),
           NEW a \in AttemptId, TakenBack(a)
    PROVE  request[w].expected = entries[a].cp
<1> DEFINE r == request[w]
<1>1. StoreInv /\ CommitEffect(r)
  BY Commits DEF ServiceInv
<1>2. IsActive(a) /\ Known(a)
  BY DEF TakenBack, IsActive, Known
<1>3. LoopIndex[entries[a].cp.step] \in Nat
  BY <1>1, <1>2, KnownContext, CheckpointAssumption
     DEF CheckpointRecord, LoopSteps, LoopIndex
<1>4. entries'[a] # entries[a]
  BY <1>2, <1>3 DEF TakenBack, IsActive
<1>5. /\ r.op \in {"step", "complete"} => r.expected = entries[r.cp.id].cp
      /\ r.op = "restart" => r.expected = entries[r.previous].cp
  BY DEF Commit, SaveStep, MayStep, Complete, MayComplete, Restart, MayRestart, IsCurrent
<1> HIDE DEF r
<1>6. CASE r.op = "start" /\ Began(r.cp, r.kind, r.source) /\ OthersKept({r.cp.id})
  BY <1>2, <1>4, <1>6 DEF Began, OthersKept
<1>7. CASE r.op \in {"step", "complete"} /\ Moved(r.cp)
  BY <1>4, <1>5, <1>7 DEF Moved, OthersKept, r
<1>8. CASE r.op = "restart" /\ Replaced(r.previous, r.cp)
  BY <1>2, <1>4, <1>5, <1>8 DEF Replaced, Began, OthersKept, r
<1> QED
  BY <1>1, <1>6, <1>7, <1>8 DEF CommitEffect

(***************************************************************************)
(* However requests of several tabs interleave, a reset or a restart       *)
(* throws away only what its request had read.                             *)
(***************************************************************************)
THEOREM DiscardedIsSeen == ServiceSpec => OnlySeenWorkIsDiscarded
<1>1. ASSUME ServiceInv, [ServiceNext]_vars
      PROVE  [\A a \in AttemptId : TakenBack(a) =>
                 \E w \in Workers :
                     /\ request[w].phase = "stamped" /\ request'[w] = Idle
                     /\ request[w].expected = entries[a].cp]_vars
  <2> SUFFICES ASSUME NEW a \in AttemptId, TakenBack(a)
               PROVE  \E w \in Workers :
                          /\ request[w].phase = "stamped" /\ request'[w] = Idle
                          /\ request[w].expected = entries[a].cp
    OBVIOUS
  <2>1. entries' # entries
    <3>1. IsActive(a) /\ Known(a)
      BY DEF TakenBack, IsActive, Known
    <3>2. LoopIndex[entries[a].cp.step] \in Nat
      BY <1>1, <3>1, KnownContext, CheckpointAssumption
         DEF ServiceInv, CheckpointRecord, LoopSteps, LoopIndex
    <3> QED
      BY <3>1, <3>2 DEF TakenBack, IsActive
  <2>2. \E w \in Workers : Finish(w) /\ Commit(w)
    BY <1>1, <2>1 DEF ServiceNext, Begin, Serve, BeginStart, BeginReview, BeginStep,
       BeginRestart, CheckReview, StampReview, GiveUpReview, Finish, Tick, Promote,
       Crash, vars, storeVars
  <2>3. PICK w \in Workers : Finish(w) /\ Commit(w)
    BY <2>2
  <2>4. request[w].phase = "stamped" /\ request'[w] = Idle
    BY <1>1, <2>3 DEF Finish, Release, ServiceInv
  <2> QED
    BY <1>1, <2>3, <2>4, CommitHasSeen
<1> QED
  BY <1>1, ServiceInvariant, PTL DEF ServiceSpec, OnlySeenWorkIsDiscarded

-----------------------------------------------------------------------------
(***************************************************************************)
(* The second invariant: what the history tells of reviews in time.  The   *)
(* order lists the known attempts and no other; the clock is never behind  *)
(* the history or a stamped request; a completed record says what          *)
(* evaluate_attempt says; of the reviews of one demonstration each began   *)
(* after all before it ended; and a request past the due check holds the   *)
(* review lock and still finds the review due.                             *)
(***************************************************************************)
OrderLists ==
    /\ \A i \in DOMAIN order : Known(order[i])
    /\ \A a \in AttemptId : Known(a) => \E i \in DOMAIN order : order[i] = a

ClockLeads ==
    /\ lastAt <= now
    /\ \A w \in Workers : request[w].phase = "stamped" => request[w].cp.updated <= now

RecordsEvaluate ==
    \A a \in AttemptId :
        entries[a].status = "completed" => (entries[a].qualifies <=> Qualifies(entries[a].cp))

EndedBefore(a, b) ==
    IsReview(a) /\ IsReview(b) /\ entries[a].source = entries[b].source =>
        /\ entries[a].status # "active"
        /\ entries[a].cp.updated <= entries[b].cp.started

SerialReviews ==
    \A i, j \in DOMAIN order : i < j => EndedBefore(order[i], order[j])

\* A review of the demonstration may be stamped with time t.
ReviewReady(demonstration, t) ==
    /\ IsDemonstration(demonstration)
    /\ t >= entries[demonstration].cp.updated + ReviewDays
    /\ \A a \in AttemptId :
           IsReview(a) /\ entries[a].source = demonstration =>
               /\ entries[a].status # "active"
               /\ entries[a].status = "completed" => t >= entries[a].cp.updated + RetryDays

Admitted(w) ==
    /\ request[w].phase = "checked" =>
           reviewLock = w /\ ReviewReady(request[w].source, now)
    /\ request[w].phase = "stamped" /\ request[w].op = "start"
       /\ request[w].kind = "review" =>
           reviewLock = w /\ ReviewReady(request[w].source, request[w].cp.started)

HistoryInv == OrderLists /\ RecordsEvaluate /\ SerialReviews /\ ReviewsAreSpaced

ReviewInv ==
    /\ HistoryInv
    /\ ClockLeads
    /\ \A w \in Workers : Admitted(w)

-----------------------------------------------------------------------------
(***************************************************************************)
(* Induction over the order, from the least number of those it fails for.  *)
(***************************************************************************)

\* A nonempty set of numbers has a least one.
LEMMA LeastNumber ==
    ASSUME NEW T, T \subseteq Nat, T # {}
    PROVE  \E n \in T : \A m \in T : n <= m
<1> DEFINE R == {ss \in Nat \X Nat : ss[1] < ss[2]}
<1>1. IsWellFoundedOn(R, Nat)
  BY NatLessThanWellFounded DEF OpToRel
<1>2. ASSUME NEW m \in Nat, NEW n \in Nat, m < n
      PROVE  <<m, n>> \in R
  <2> DEFINE p == <<m, n>>
  <2>1. p[1] = m /\ p[2] = n /\ p \in Nat \X Nat
    OBVIOUS
  <2> QED
    BY <1>2, <2>1
<1> HIDE DEF R
<1>3. PICK n \in T : \A m \in T : ~(<<m, n>> \in R)
  BY <1>1, WFMin
<1>4. ASSUME NEW m \in T
      PROVE  n <= m
  <2>1. n \in Nat /\ m \in Nat
    OBVIOUS
  <2>2. ~(m < n)
    BY <1>2, <1>3, <2>1
  <2> QED
    BY <2>1, <2>2
<1> QED
  BY <1>4

\* Induction on the numbers up to N, stated of the set of those it holds for.
LEMMA Induction ==
    ASSUME NEW N \in Nat, NEW S, 0 \in S,
           \A n \in 1..N : n - 1 \in S => n \in S
    PROVE  0..N \subseteq S
<1> SUFFICES ASSUME (0..N) \ S # {} PROVE FALSE
  OBVIOUS
<1> DEFINE T == (0..N) \ S
<1>0. T \subseteq Nat /\ T # {}
  OBVIOUS
<1>1. PICK n \in T : \A m \in T : n <= m
  <2> HIDE DEF T
  <2> QED
    BY <1>0, LeastNumber
<1>2. n \in 1..N /\ n - 1 \in 0..N
  BY <1>1
<1>3. n - 1 \in S
  BY <1>1, <1>2
<1> QED
  BY <1>1, <1>2, <1>3

\* The loop before its first attempt, and one turn of it
ScanStart(demonstration) ==
    [verdict |-> "open", retry |-> FALSE, latest |-> NoAttempt,
     due |-> entries[demonstration].cp.updated + ReviewDays]

ScanStep(ctx, demonstration, before, n) ==
    IF IsReviewOf(order[n], ctx, demonstration)
    THEN AfterReview(before, order[n]) ELSE before

\* The loop of the projection, one attempt at a time: the recursive function
\* has the values its equation gives it.
LEMMA ScanUnfolds ==
    ASSUME NEW ctx, NEW demonstration, order \in Seq(AttemptId)
    PROVE  /\ ReviewScan(ctx, demonstration)[0] = ScanStart(demonstration)
           /\ \A n \in 1..Len(order) :
                  ReviewScan(ctx, demonstration)[n]
                      = ScanStep(ctx, demonstration,
                                 ReviewScan(ctx, demonstration)[n - 1], n)
<1> DEFINE Value(g, n) == IF n = 0 THEN ScanStart(demonstration)
                          ELSE ScanStep(ctx, demonstration, g[n - 1], n)
           S == {k \in Nat : \E g : g = [n \in 0..k |-> Value(g, n)]}
<1>1. 0 \in S
  <2> DEFINE g == [n \in 0..0 |-> ScanStart(demonstration)]
  <2>1. g = [n \in 0..0 |-> Value(g, n)]
    OBVIOUS
  <2> QED
    BY <2>1
<1>2. ASSUME NEW k \in 1..Len(order), k - 1 \in S
      PROVE  k \in S
  <2>1. PICK g : g = [n \in 0..(k - 1) |-> Value(g, n)]
    BY <1>2
  <2> DEFINE h == [n \in 0..k |-> IF n = k THEN Value(g, k) ELSE g[n]]
  <2>2. ASSUME NEW n \in 0..k
        PROVE  h[n] = Value(h, n)
    <3>1. CASE n = 0
      BY <2>1, <3>1
    <3>2. CASE n # 0
      <4>1. n - 1 \in 0..(k - 1) /\ h[n - 1] = g[n - 1]
        BY <3>2
      <4>2. Value(h, n) = Value(g, n)
        BY <4>1
      <4>3. n # k => g[n] = Value(g, n)
        BY <2>1
      <4> QED
        BY <4>2, <4>3
    <3> QED
      BY <3>1, <3>2
  <2>3. h = [n \in 0..k |-> Value(h, n)]
    BY <2>2
  <2> HIDE DEF h
  <2> QED
    BY <2>3
<1> HIDE DEF S
<1>3. Len(order) \in S
  <2>1. Len(order) \in Nat
    OBVIOUS
  <2>2. 0..Len(order) \subseteq S
    BY <1>1, <1>2, <2>1, Induction
  <2> QED
    BY <2>1, <2>2
<1>4. \E g : g = [n \in 0..Len(order) |-> Value(g, n)]
  BY <1>3 DEF S
<1> DEFINE f == ReviewScan(ctx, demonstration)
<1>5. f = [n \in 0..Len(order) |-> Value(f, n)]
  BY <1>4 DEF ReviewScan, ScanStart, ScanStep
<1> HIDE DEF f
<1> QED
  BY <1>5 DEF f

ScanStates == [verdict : {"open", "in-progress", "retained"}, retry : BOOLEAN,
               latest : MaybeAttempt, due : Nat]

\* The review a of the demonstration lets another one start at the due date.
Past(a, demonstration, due) ==
    IsReview(a) /\ entries[a].source = demonstration =>
        /\ entries[a].status # "active"
        /\ entries[a].status = "completed" => due >= entries[a].cp.updated + RetryDays

Retained(a, demonstration) ==
    /\ IsReview(a) /\ entries[a].source = demonstration
    /\ entries[a].status = "completed" /\ entries[a].qualifies
    /\ entries[a].cp.started >= entries[demonstration].cp.updated + ReviewDays

\* What the scan has established once it has passed the first n attempts.
Scanned(s, demonstration, n) ==
    /\ s \in ScanStates
    /\ s.due >= entries[demonstration].cp.updated + ReviewDays
    /\ s.verdict = "open" => \A i \in 1..n : Past(order[i], demonstration, s.due)
    /\ s.verdict = "retained" => \E a \in AttemptId : Retained(a, demonstration)

\* The times of a known attempt.
LEMMA KnownTimes ==
    ASSUME StoreInv, NEW a \in AttemptId, Known(a)
    PROVE  /\ entries[a] \in Entry
           /\ entries[a].cp.started \in Nat /\ entries[a].cp.updated \in Nat
           /\ entries[a].cp.started <= entries[a].cp.updated
           /\ entries[a].cp.updated <= lastAt /\ lastAt \in Nat
<1>1. entries[a] \in Entry /\ entries[a].cp \in Checkpoint
  BY KnownEntry DEF StoreInv, Entry
<1>2. lastAt \in Nat
  BY TimesAssumption DEF StoreInv, TypeOK
<1> QED
  BY <1>1, <1>2, CheckpointTypes DEF StoreInv, EntryInv

\* The loop passes one more attempt.
LEMMA ScanStepKeeps ==
    ASSUME StoreInv, OrderLists, SerialReviews, ReviewsAreSpaced,
           NEW demonstration \in AttemptId, IsDemonstration(demonstration),
           NEW n \in 1..Len(order), NEW s, Scanned(s, demonstration, n - 1)
    PROVE  Scanned(ScanStep(entries[demonstration].cp.ctx, demonstration, s, n),
                   demonstration, n)
<1> DEFINE ctx == entries[demonstration].cp.ctx
           b == order[n]
           t == ScanStep(ctx, demonstration, s, n)
           firstDue == entries[demonstration].cp.updated + ReviewDays
<1> SUFFICES Scanned(t, demonstration, n)
  OBVIOUS
<1>1. order \in Seq(AttemptId) /\ b \in AttemptId /\ Known(b) /\ n \in DOMAIN order
  BY DEF StoreInv, TypeOK, OrderLists
<1>2. /\ entries[b] \in Entry
      /\ entries[b].cp.started \in Nat /\ entries[b].cp.updated \in Nat
      /\ entries[b].cp.started <= entries[b].cp.updated
  BY <1>1, KnownTimes
<1>3. /\ firstDue \in Nat /\ RetryDays \in Nat /\ s \in ScanStates /\ s.due \in Nat
      /\ s.due >= firstDue
  BY KnownTimes, DaysAssumption DEF IsDemonstration, Known, Scanned, ScanStates
<1>4. CASE ~IsReviewOf(b, ctx, demonstration)
  <2>1. t = s
    BY <1>4 DEF ScanStep
  <2>2. ~(IsReview(b) /\ entries[b].source = demonstration)
    BY <1>1, <1>4 DEF StoreInv, ReviewsFollowDemonstration, IsReview, IsReviewOf
  <2>3. \A i \in 1..n : i \in 1..(n - 1) \/ i = n
    OBVIOUS
  <2>4. Past(b, demonstration, s.due)
    BY <2>2 DEF Past
  <2> QED
    BY <2>1, <2>3, <2>4 DEF Scanned
<1>5. CASE IsReviewOf(b, ctx, demonstration)
  <2>1. /\ IsReview(b) /\ entries[b].source = demonstration
        /\ t = AfterReview(s, b)
    BY <1>1, <1>5 DEF IsReview, IsReviewOf, ScanStep
  <2>2. entries[b].cp.started >= firstDue
    BY <1>1, <2>1 DEF ReviewsAreSpaced
  <2>3. CASE s.verdict # "open"
    <3>1. t = s
      BY <2>1, <2>3 DEF AfterReview
    <3> QED
      BY <2>3, <3>1 DEF Scanned
  <2>4. CASE s.verdict = "open" /\ InProgress(b)
    <3>1. t = [s EXCEPT !.latest = b, !.verdict = "in-progress"]
      BY <2>1, <2>4, <1>3 DEF AfterReview, ScanStates
    <3>2. t \in ScanStates /\ t.verdict = "in-progress" /\ t.due = s.due
      BY <1>1, <1>3, <3>1 DEF ScanStates, MaybeAttempt
    <3> HIDE DEF t
    <3> QED
      BY <1>3, <3>2 DEF Scanned
  <2>5. CASE s.verdict = "open" /\ ~InProgress(b) /\ Retains(b, s.due)
    <3>1. t = [s EXCEPT !.latest = b, !.verdict = "retained"]
      BY <2>1, <2>5, <1>3 DEF AfterReview, ScanStates
    <3>2. t \in ScanStates /\ t.verdict = "retained" /\ t.due = s.due
      BY <1>1, <1>3, <3>1 DEF ScanStates, MaybeAttempt
    <3>3. Retained(b, demonstration)
      BY <1>2, <1>3, <2>1, <2>2, <2>5 DEF Retained, Retains
    <3> HIDE DEF t
    <3> QED
      BY <1>1, <1>3, <3>2, <3>3 DEF Scanned
  <2>6. CASE s.verdict = "open" /\ ~InProgress(b) /\ ~Retains(b, s.due)
             /\ entries[b].status = "completed"
    <3> DEFINE due == entries[b].cp.updated + RetryDays
    <3>1. t = [s EXCEPT !.latest = b, !.due = due, !.retry = TRUE]
      BY <2>1, <2>6, <1>3 DEF AfterReview, ScanStates
    <3>2. due \in Nat /\ due >= firstDue
      BY <1>2, <1>3, <2>2
    <3>3. t \in ScanStates /\ t.verdict = "open" /\ t.due = due
      BY <1>1, <1>3, <2>6, <3>1, <3>2 DEF ScanStates, MaybeAttempt
    <3>4. ASSUME NEW i \in 1..n
          PROVE  Past(order[i], demonstration, due)
      <4>1. CASE i = n
        BY <1>2, <1>3, <2>6, <4>1 DEF Past, InProgress
      <4>2. CASE i # n
        <5>1. i \in DOMAIN order /\ i < n /\ i \in 1..(n - 1)
          BY <1>1, <4>2
        <5>2. order[i] \in AttemptId
          BY <1>1, <5>1
        <5>3. EndedBefore(order[i], b)
          BY <1>1, <5>1 DEF SerialReviews
        <5>4. ASSUME IsReview(order[i]), entries[order[i]].source = demonstration
              PROVE  /\ entries[order[i]].status # "active"
                     /\ due >= entries[order[i]].cp.updated + RetryDays
          <6>1. entries[order[i]].cp.updated \in Nat
            BY <5>2, <5>4, KnownTimes DEF IsReview
          <6>2. /\ entries[order[i]].status # "active"
                /\ entries[order[i]].cp.updated <= entries[b].cp.started
            BY <2>1, <5>3, <5>4 DEF EndedBefore
          <6>3. ASSUME NEW x \in Nat, NEW y \in Nat, NEW z \in Nat, NEW d \in Nat,
                       x <= y, y <= z
                PROVE  z + d >= x + d
            BY <6>3
          <6> QED
            BY <1>2, <1>3, <6>1, <6>2, <6>3
        <5> QED
          BY <5>4 DEF Past
      <4> QED
        BY <4>1, <4>2
    <3> HIDE DEF t, due
    <3> QED
      BY <3>2, <3>3, <3>4 DEF Scanned
  <2>7. CASE s.verdict = "open" /\ ~InProgress(b) /\ ~Retains(b, s.due)
             /\ entries[b].status # "completed"
    <3>1. t = [s EXCEPT !.latest = b]
      BY <2>1, <2>7, <1>3 DEF AfterReview, ScanStates
    <3>2. t \in ScanStates /\ t.verdict = "open" /\ t.due = s.due
      BY <1>1, <1>3, <2>7, <3>1 DEF ScanStates, MaybeAttempt
    <3>3. Past(b, demonstration, s.due)
      BY <2>7 DEF Past, InProgress
    <3>4. \A i \in 1..n : i \in 1..(n - 1) \/ i = n
      OBVIOUS
    <3>5. \A i \in 1..n : Past(order[i], demonstration, s.due)
      BY <2>7, <3>3, <3>4 DEF Scanned
    <3> HIDE DEF t
    <3> QED
      BY <1>3, <3>2, <3>5 DEF Scanned
  <2> QED
    BY <2>3, <2>4, <2>5, <2>6, <2>7
<1> QED
  BY <1>4, <1>5

\* What the whole scan has established.
LEMMA ScanKeeps ==
    ASSUME StoreInv, OrderLists, SerialReviews, ReviewsAreSpaced,
           NEW demonstration \in AttemptId, IsDemonstration(demonstration)
    PROVE  Scanned(ReviewScan(entries[demonstration].cp.ctx, demonstration)[Len(order)],
                   demonstration, Len(order))
<1> DEFINE scan == ReviewScan(entries[demonstration].cp.ctx, demonstration)
           S == {n \in 0..Len(order) : Scanned(scan[n], demonstration, n)}
<1>1. order \in Seq(AttemptId) /\ Len(order) \in Nat
  BY DEF StoreInv, TypeOK
<1>2. 0 \in S
  <2>1. scan[0] = ScanStart(demonstration)
    BY <1>1, ScanUnfolds
  <2>2. entries[demonstration].cp.updated \in Nat
    BY KnownTimes DEF IsDemonstration, Known
  <2>3. Scanned(ScanStart(demonstration), demonstration, 0)
    BY <2>2, DaysAssumption DEF Scanned, ScanStart, ScanStates, MaybeAttempt
  <2> QED
    BY <1>1, <2>1, <2>3
<1>3. ASSUME NEW n \in 1..Len(order), n - 1 \in S
      PROVE  n \in S
  <2>1. scan[n] = ScanStep(entries[demonstration].cp.ctx, demonstration, scan[n - 1], n)
    BY <1>1, ScanUnfolds
  <2>2. Scanned(scan[n - 1], demonstration, n - 1)
    BY <1>3
  <2> HIDE DEF scan
  <2> QED
    BY <2>1, <2>2, ScanStepKeeps
<1> HIDE DEF S
<1>4. 0..Len(order) \subseteq S
  BY <1>1, <1>2, <1>3, Induction
<1>5. Len(order) \in S
  BY <1>1, <1>4
<1> QED
  BY <1>5 DEF S

\* What a projection that shows a due review, or Retained, rests on.
LEMMA ProjectionRests ==
    ASSUME StoreInv, OrderLists, SerialReviews, ReviewsAreSpaced,
           NEW ctx, NEW t \in Nat
    PROVE  /\ Project(ctx, t).status = "due" =>
                  /\ Project(ctx, t).demonstration \in AttemptId
                  /\ entries[Project(ctx, t).demonstration].cp.ctx = ctx
                  /\ ReviewReady(Project(ctx, t).demonstration, t)
           /\ Project(ctx, t).mastery = "retained" =>
                  \E d, a \in AttemptId :
                      IsDemonstration(d) /\ entries[d].cp.ctx = ctx /\ Retained(a, d)
<1> DEFINE demonstration == order[Min(Demonstrations(ctx))]
           scan == ReviewScan(ctx, demonstration)[Len(order)]
           status == IF scan.verdict # "open" THEN scan.verdict
                     ELSE IF t >= scan.due THEN "due"
                     ELSE IF scan.retry THEN "retry-scheduled" ELSE "scheduled"
           p == Project(ctx, t)
<1>1. CASE Demonstrations(ctx) = {}
  <2>1. p = NotScheduled(ctx)
    BY <1>1 DEF Project
  <2>2. p.status = "not-scheduled"
        /\ p.mastery \in {"demonstrated", "introduced", "captured"}
    BY <2>1 DEF NotScheduled, DeriveMastery
  <2> QED
    BY <2>2
<1>2. CASE Demonstrations(ctx) # {}
  <2>1. Demonstrations(ctx) \subseteq DOMAIN order /\ DOMAIN order \subseteq Nat
    BY DEF Demonstrations, Matching, StoreInv, TypeOK
  <2>2. \E i \in Demonstrations(ctx) : \A j \in Demonstrations(ctx) : i <= j
    BY <1>2, <2>1, LeastNumber
  <2>3. Min(Demonstrations(ctx)) \in Demonstrations(ctx)
    BY <2>2 DEF Min
  <2>4. /\ demonstration \in AttemptId /\ IsDemonstration(demonstration)
        /\ entries[demonstration].cp.ctx = ctx
    BY <2>1, <2>3 DEF Demonstrations, Matching, StoreInv, TypeOK
  <2>5. p = [mastery |-> IF status = "retained" THEN "retained" ELSE "demonstrated",
             status |-> status,
             due |-> IF status = "retained" THEN 0 ELSE scan.due,
             demonstration |-> demonstration,
             latest |-> scan.latest]
    BY <1>2 DEF Project
  <2> HIDE DEF p, demonstration
  <2>6. Scanned(scan, demonstration, Len(order))
    BY <2>4, ScanKeeps
  <2>7. /\ p.status = status /\ p.demonstration = demonstration
        /\ p.mastery = "retained" => status = "retained"
    BY <2>5
  <2>8. scan \in ScanStates /\ scan.due \in Nat
    BY <2>6 DEF Scanned, ScanStates
  <2>9. /\ status = "due" => scan.verdict = "open" /\ t >= scan.due
        /\ status = "retained" => scan.verdict = "retained"
    BY <2>8 DEF ScanStates
  <2> HIDE DEF status, scan
  <2>10. ASSUME status = "due"
         PROVE  ReviewReady(demonstration, t)
    <3>1. /\ scan.verdict = "open" /\ t >= scan.due
          /\ scan.due >= entries[demonstration].cp.updated + ReviewDays
          /\ \A i \in 1..Len(order) : Past(order[i], demonstration, scan.due)
      BY <2>6, <2>9, <2>10 DEF Scanned
    <3>2. entries[demonstration].cp.updated \in Nat /\ ReviewDays \in Nat
      BY <2>4, KnownTimes, DaysAssumption DEF IsDemonstration, Known
    <3>3. t >= entries[demonstration].cp.updated + ReviewDays
      BY <2>8, <3>1, <3>2
    <3>4. ASSUME NEW a \in AttemptId, IsReview(a), entries[a].source = demonstration
          PROVE  /\ entries[a].status # "active"
                 /\ entries[a].status = "completed" => t >= entries[a].cp.updated + RetryDays
      <4>1. PICK i \in 1..Len(order) : order[i] = a
        BY <3>4 DEF IsReview, OrderLists, StoreInv, TypeOK
      <4>2. Past(a, demonstration, scan.due)
        BY <3>1, <4>1
      <4>3. entries[a].cp.updated \in Nat /\ RetryDays \in Nat
        BY <3>4, KnownTimes, DaysAssumption DEF IsReview
      <4>4. ASSUME NEW x \in Nat, NEW y \in Nat, NEW z \in Nat, NEW d \in Nat,
                   z >= y, y >= x + d
            PROVE  z >= x + d
        BY <4>4
      <4> QED
        BY <2>8, <3>1, <3>4, <4>2, <4>3, <4>4 DEF Past
    <3> QED
      BY <2>4, <3>3, <3>4 DEF ReviewReady
  <2>11. ASSUME status = "retained"
         PROVE  \E a \in AttemptId : Retained(a, demonstration)
    BY <2>6, <2>9, <2>11 DEF Scanned
  <2> QED
    BY <2>4, <2>7, <2>10, <2>11 DEF p
<1> QED
  BY <1>1, <1>2

\* A due review may be started: what the store asks of it holds already.
LEMMA DueMeansAccepted ==
    ASSUME ServiceInv, ReviewInv
    PROVE  DueReviewIsAccepted
<1> SUFFICES ASSUME NEW ctx \in Ctx, Project(ctx, now).status = "due",
                    NEW a \in AttemptId, ~Known(a)
             PROVE  MayStart(InitialCheckpoint(a, ctx, now), NoCheckpoint,
                             "review", Project(ctx, now).demonstration)
  BY DEF DueReviewIsAccepted
<1> DEFINE d == Project(ctx, now).demonstration
           cp == InitialCheckpoint(a, ctx, now)
<1>1. /\ StoreInv /\ OrderLists /\ SerialReviews /\ ReviewsAreSpaced
      /\ now \in Nat /\ lastAt <= now
  BY MaxTimeAssumption DEF ServiceInv, ServiceTypeOK, ReviewInv, HistoryInv, ClockLeads
<1>2. /\ d \in AttemptId /\ entries[d].cp.ctx = ctx /\ ReviewReady(d, now)
  BY <1>1, ProjectionRests
<1>3. cp.id = a /\ cp.ctx = ctx /\ cp.updated = now /\ cp.started = now /\ cp.step = "map"
  BY DEF InitialCheckpoint
<1>4. RequireStart(cp)
  BY <1>3 DEF RequireStart
<1> HIDE DEF d, cp
<1>5. IsReviewSource(d, cp)
  BY <1>2, <1>3 DEF IsReviewSource, ReviewReady
<1>6. ~HasActiveReview(d)
  <2> SUFFICES ASSUME NEW b \in AttemptId, entries[b].status = "active",
                      entries[b].kind = "review", entries[b].source = d
               PROVE  FALSE
    BY DEF HasActiveReview
  <2>1. IsReview(b)
    BY DEF IsReview, Known
  <2> QED
    BY <1>2, <2>1 DEF ReviewReady
<1>7. Appendable(StartedEvent(cp, "review", d))
  BY <1>1, <1>2, <1>3, NoAttemptAssumption
     DEF Appendable, StartedEvent, ValidPayload, Completed
<1> QED
  BY <1>1, <1>3, <1>4, <1>5, <1>6, <1>7 DEF MayStart, StoreInv, Replayable, d, cp

\* Retained is shown for a review that qualifies and that began in its time,
\* and its demonstration qualifies.
LEMMA RetainedMeansEarned ==
    ASSUME ServiceInv, ReviewInv
    PROVE  RetainedIsEarned
<1> SUFFICES ASSUME NEW ctx \in Ctx, Project(ctx, now).mastery = "retained"
             PROVE  \E r \in AttemptId :
                        /\ IsReview(r) /\ entries[r].cp.ctx = ctx
                        /\ Qualifies(entries[r].cp)
                        /\ Qualifies(entries[entries[r].source].cp)
                        /\ entries[r].cp.started
                               >= entries[entries[r].source].cp.updated + ReviewDays
                        /\ \A a \in AttemptId :
                               /\ IsReview(a) /\ entries[a].status = "completed"
                               /\ entries[a].source = entries[r].source
                               /\ Earlier(a, r)
                               => entries[r].cp.started >= entries[a].cp.updated + RetryDays
  BY DEF RetainedIsEarned
<1>1. /\ StoreInv /\ OrderLists /\ SerialReviews /\ ReviewsAreSpaced
      /\ now \in Nat /\ RecordsEvaluate
  BY MaxTimeAssumption DEF ServiceInv, ServiceTypeOK, ReviewInv, HistoryInv
<1>2. PICK d \in AttemptId, r \in AttemptId :
          IsDemonstration(d) /\ entries[d].cp.ctx = ctx /\ Retained(r, d)
  BY <1>1, ProjectionRests
<1>3. IsReview(r) /\ entries[r].source = d /\ Qualifies(entries[r].cp)
  BY <1>1, <1>2 DEF Retained, RecordsEvaluate
<1>4. Qualifies(entries[d].cp)
  BY <1>1, <1>2 DEF IsDemonstration, RecordsEvaluate
<1>5. entries[r].cp.ctx = ctx
  BY <1>1, <1>2, <1>3 DEF IsReview, StoreInv, ReviewsFollowDemonstration
<1>6. entries[r].cp.started >= entries[d].cp.updated + ReviewDays
  BY <1>2 DEF Retained
<1>7. \A a \in AttemptId :
          /\ IsReview(a) /\ entries[a].status = "completed"
          /\ entries[a].source = entries[r].source
          /\ Earlier(a, r)
          => entries[r].cp.started >= entries[a].cp.updated + RetryDays
  BY <1>1, <1>3 DEF ReviewsAreSpaced
<1> QED
  BY <1>3, <1>4, <1>5, <1>6, <1>7

-----------------------------------------------------------------------------
(***************************************************************************)
(* What a commit keeps of the history's order in time.                     *)
(***************************************************************************)

\* Places of the order when an attempt is added at its end.
LEMMA AppendedOrder ==
    ASSUME StoreInv, OrderLists, NEW new \in AttemptId, ~Known(new),
           order' = Append(order, new)
    PROVE  /\ DOMAIN order' = DOMAIN order \cup {Len(order) + 1}
           /\ \A i \in DOMAIN order : /\ order'[i] = order[i]
                                      /\ order[i] \in AttemptId /\ order[i] # new
                                      /\ i \in Nat /\ i < Len(order) + 1
           /\ order'[Len(order) + 1] = new
           /\ Len(order) + 1 \in Nat
BY DEF StoreInv, TypeOK, OrderLists

\* An attempt begins: a review only when it is ready.
LEMMA BeganKeeps ==
    ASSUME StoreInv, HistoryInv, NEW cp, NEW kind, NEW source,
           Began(cp, kind, source), OthersKept({cp.id}), lastAt <= cp.updated,
           kind = "review" => ReviewReady(source, cp.started) /\ source \in AttemptId
    PROVE  HistoryInv'
<1> DEFINE new == cp.id
           n == Len(order) + 1
<1>1. /\ new \in AttemptId /\ ~Known(new) /\ cp.updated = cp.started
      /\ order' = Append(order, new)
      /\ entries'[new].cp = cp /\ entries'[new].status = "active"
      /\ entries'[new].kind = kind /\ entries'[new].source = source
      /\ \A a \in AttemptId : a # new => entries'[a] = entries[a]
  BY DEF Began, OthersKept
<1>2. /\ DOMAIN order' = DOMAIN order \cup {n}
      /\ \A i \in DOMAIN order : /\ order'[i] = order[i]
                                 /\ order[i] \in AttemptId /\ order[i] # new
                                 /\ i \in Nat /\ i < n
      /\ order'[n] = new /\ n \in Nat
  BY <1>1, AppendedOrder DEF HistoryInv
<1>3. cp.started \in Nat /\ lastAt <= cp.started
  BY <1>1, CheckpointTypes DEF Began
<1> HIDE DEF new, n
<1>4. OrderLists'
  BY <1>1, <1>2 DEF HistoryInv, OrderLists, Known
<1>5. RecordsEvaluate'
  BY <1>1 DEF HistoryInv, RecordsEvaluate
<1>6. SerialReviews'
  <2> SUFFICES ASSUME NEW i \in DOMAIN order', NEW j \in DOMAIN order', i < j
               PROVE  EndedBefore(order[i], order[j])'
    BY DEF SerialReviews
  <2>1. i \in DOMAIN order /\ order'[i] = order[i] /\ order[i] \in AttemptId
        /\ entries'[order[i]] = entries[order[i]]
    BY <1>1, <1>2
  <2>2. CASE j \in DOMAIN order
    <3>1. order'[j] = order[j] /\ entries'[order[j]] = entries[order[j]]
      BY <1>1, <1>2, <2>2
    <3>2. EndedBefore(order[i], order[j])
      BY <2>1, <2>2 DEF HistoryInv, SerialReviews
    <3> QED
      BY <2>1, <3>1, <3>2 DEF EndedBefore, IsReview, Known
  <2>3. CASE j = n
    <3>1. order'[j] = new
      BY <1>2, <2>3
    <3> SUFFICES ASSUME IsReview(order[i]), kind = "review", entries[order[i]].source = source
                 PROVE  /\ entries[order[i]].status # "active"
                        /\ entries[order[i]].cp.updated <= cp.started
      BY <1>1, <2>1, <3>1 DEF EndedBefore, IsReview, Known
    <3>2. entries[order[i]].cp.updated \in Nat /\ entries[order[i]].cp.updated <= lastAt
          /\ lastAt \in Nat
      BY <2>1, KnownTimes DEF IsReview
    <3> QED
      BY <1>3, <2>1, <3>2 DEF ReviewReady
  <2> QED
    BY <1>2, <2>2, <2>3
<1>7. ReviewsAreSpaced'
  <2> SUFFICES ASSUME NEW b \in AttemptId, IsReview(b)'
               PROVE  /\ entries'[b].cp.started
                             >= entries'[entries'[b].source].cp.updated + ReviewDays
                      /\ \A a \in AttemptId :
                            /\ IsReview(a)' /\ entries'[a].status = "completed"
                            /\ entries'[a].source = entries'[b].source
                            /\ Earlier(a, b)'
                            => entries'[b].cp.started >= entries'[a].cp.updated + RetryDays
    BY DEF ReviewsAreSpaced
  <2>1. CASE b = new
    <3>1. kind = "review" /\ entries'[b].source = source /\ entries'[b].cp = cp
      BY <1>1, <2>1 DEF IsReview
    <3>2. ReviewReady(source, cp.started) /\ source \in AttemptId
      BY <3>1
    <3>3. source # new /\ entries'[source] = entries[source]
      BY <1>1, <3>2 DEF ReviewReady, IsDemonstration, Known
    <3>4. \A a \in AttemptId : IsReview(a)' /\ entries'[a].status = "completed" =>
              IsReview(a) /\ entries'[a] = entries[a]
      BY <1>1 DEF IsReview, Known
    <3> QED
      BY <3>1, <3>2, <3>3, <3>4 DEF ReviewReady
  <2>2. CASE b # new
    <3>1. entries'[b] = entries[b] /\ IsReview(b)
      BY <1>1, <2>2 DEF IsReview, Known
    <3>2. /\ entries[b].source \in AttemptId
          /\ entries'[entries[b].source] = entries[entries[b].source]
      BY <1>1, <3>1 DEF StoreInv, ReviewsFollowDemonstration, IsReview, IsDemonstration, Known
    <3>3. ASSUME NEW a \in AttemptId, IsReview(a)', entries'[a].status = "completed",
                 Earlier(a, b)'
          PROVE  IsReview(a) /\ entries'[a] = entries[a] /\ Earlier(a, b)
      <4>1. IsReview(a) /\ entries'[a] = entries[a]
        BY <1>1, <3>3 DEF IsReview, Known
      <4>2. PICK i \in DOMAIN order', j \in DOMAIN order' :
                i < j /\ order'[i] = a /\ order'[j] = b
        BY <3>3 DEF Earlier
      <4>3. i \in DOMAIN order /\ j \in DOMAIN order
        BY <1>2, <2>2, <4>2
      <4> QED
        BY <1>2, <4>1, <4>2, <4>3 DEF Earlier
    <3> QED
      BY <3>1, <3>2, <3>3 DEF HistoryInv, ReviewsAreSpaced
  <2> QED
    BY <2>1, <2>2
<1> QED
  BY <1>4, <1>5, <1>6, <1>7 DEF HistoryInv

\* An attempt moves on: no review after it waits for it to end.
LEMMA MovedKeeps ==
    ASSUME StoreInv, HistoryInv, NEW cp, Moved(cp)
    PROVE  HistoryInv'
<1> DEFINE moved == cp.id
<1>1. /\ moved \in AttemptId /\ entries[moved].status = "active" /\ order' = order
      /\ entries'[moved].cp = cp /\ cp.started = entries[moved].cp.started
      /\ entries'[moved].status \in {"active", "completed"}
      /\ entries'[moved].kind = entries[moved].kind
      /\ entries'[moved].source = entries[moved].source
      /\ entries'[moved].status = "completed" =>
             (entries'[moved].qualifies <=> Qualifies(cp))
      /\ \A a \in AttemptId : a # moved => entries'[a] = entries[a]
  BY DEF Moved, OthersKept, IsActive
<1> HIDE DEF moved
<1>2. \A a \in AttemptId : /\ Known(a)' <=> Known(a)
                           /\ IsReview(a)' <=> IsReview(a)
                           /\ entries'[a].source = entries[a].source
                           /\ entries'[a].cp.started = entries[a].cp.started
  BY <1>1 DEF Known, IsReview
<1>3. \A i \in DOMAIN order : order[i] \in AttemptId
  BY DEF StoreInv, TypeOK
<1>4. OrderLists'
  BY <1>1, <1>2, <1>3 DEF HistoryInv, OrderLists
<1>5. RecordsEvaluate'
  BY <1>1 DEF HistoryInv, RecordsEvaluate
<1>6. SerialReviews'
  <2> SUFFICES ASSUME NEW i \in DOMAIN order', NEW j \in DOMAIN order', i < j
               PROVE  EndedBefore(order[i], order[j])'
    BY DEF SerialReviews
  <2>1. EndedBefore(order[i], order[j]) /\ order[i] \in AttemptId /\ order[j] \in AttemptId
    BY <1>1, <1>3 DEF HistoryInv, SerialReviews
  <2> QED
    BY <1>1, <1>2, <2>1 DEF EndedBefore
<1>7. ReviewsAreSpaced'
  <2> SUFFICES ASSUME NEW b \in AttemptId, IsReview(b)
               PROVE  /\ entries[b].cp.started
                             >= entries'[entries[b].source].cp.updated + ReviewDays
                      /\ \A a \in AttemptId :
                            /\ IsReview(a) /\ entries'[a].status = "completed"
                            /\ entries[a].source = entries[b].source
                            /\ Earlier(a, b)
                            => entries[b].cp.started >= entries'[a].cp.updated + RetryDays
    BY <1>1, <1>2 DEF ReviewsAreSpaced, Earlier
  <2>1. entries[b].source \in AttemptId /\ entries'[entries[b].source] = entries[entries[b].source]
    BY <1>1 DEF StoreInv, ReviewsFollowDemonstration, IsReview, IsDemonstration
  <2>2. ASSUME NEW a \in AttemptId, IsReview(a), entries[a].source = entries[b].source,
               Earlier(a, b)
        PROVE  entries'[a] = entries[a]
    <3>1. EndedBefore(a, b)
      BY <2>2 DEF HistoryInv, SerialReviews, Earlier
    <3> QED
      BY <1>1, <2>2, <3>1 DEF EndedBefore
  <2> QED
    BY <2>1, <2>2 DEF HistoryInv, ReviewsAreSpaced
<1> QED
  BY <1>4, <1>5, <1>6, <1>7 DEF HistoryInv

\* An attempt is replaced: the new one takes its place in time.
LEMMA ReplacedKeeps ==
    ASSUME StoreInv, HistoryInv, NEW cp, NEW previous, Replaced(previous, cp),
           lastAt <= cp.updated
    PROVE  HistoryInv'
<1> DEFINE new == cp.id
           n == Len(order) + 1
<1>1. /\ previous \in AttemptId /\ entries[previous].status = "active" /\ previous # new
      /\ new \in AttemptId /\ ~Known(new) /\ cp.updated = cp.started
      /\ order' = Append(order, new)
      /\ entries'[new].cp = cp /\ entries'[new].status = "active"
      /\ entries'[new].kind = entries[previous].kind
      /\ entries'[new].source = entries[previous].source
      /\ entries[previous].cp.updated <= cp.started
      /\ entries'[previous].cp = entries[previous].cp
      /\ entries'[previous].status = "reset"
      /\ entries'[previous].kind = entries[previous].kind
      /\ entries'[previous].source = entries[previous].source
      /\ \A a \in AttemptId \ {new, previous} : entries'[a] = entries[a]
  BY DEF Replaced, Began, OthersKept, IsActive
<1>2. /\ DOMAIN order' = DOMAIN order \cup {n}
      /\ \A i \in DOMAIN order : /\ order'[i] = order[i]
                                 /\ order[i] \in AttemptId /\ order[i] # new
                                 /\ i \in Nat /\ i < n
      /\ order'[n] = new /\ n \in Nat
  BY <1>1, AppendedOrder DEF HistoryInv
<1>3. cp.started \in Nat /\ lastAt <= cp.started
  BY <1>1, CheckpointTypes DEF Replaced, Began
<1> HIDE DEF new, n
<1>4. \A a \in AttemptId \ {new} :
          /\ Known(a)' <=> Known(a)
          /\ IsReview(a)' <=> IsReview(a)
          /\ entries'[a].cp = entries[a].cp /\ entries'[a].source = entries[a].source
          /\ entries'[a].status = "completed" => entries'[a] = entries[a]
          /\ entries'[a].status = "active" => entries[a].status = "active"
  BY <1>1 DEF Known, IsReview
<1>5. OrderLists'
  BY <1>1, <1>2, <1>4 DEF HistoryInv, OrderLists, Known
<1>6. RecordsEvaluate'
  BY <1>1, <1>4 DEF HistoryInv, RecordsEvaluate
<1>7. SerialReviews'
  <2> SUFFICES ASSUME NEW i \in DOMAIN order', NEW j \in DOMAIN order', i < j
               PROVE  EndedBefore(order[i], order[j])'
    BY DEF SerialReviews
  <2>1. i \in DOMAIN order /\ order'[i] = order[i] /\ order[i] \in AttemptId \ {new}
    BY <1>2
  <2>2. CASE j \in DOMAIN order
    <3>1. order'[j] = order[j] /\ order[j] \in AttemptId \ {new}
      BY <1>2, <2>2
    <3>2. EndedBefore(order[i], order[j])
      BY <2>1, <2>2 DEF HistoryInv, SerialReviews
    <3> QED
      BY <1>4, <2>1, <3>1, <3>2 DEF EndedBefore
  <2>3. CASE j = n
    <3>1. order'[j] = new
      BY <1>2, <2>3
    <3> SUFFICES ASSUME IsReview(order[i]), entries[previous].kind = "review",
                        entries[order[i]].source = entries[previous].source
                 PROVE  /\ entries'[order[i]].status # "active"
                        /\ entries[order[i]].cp.updated <= cp.started
      BY <1>1, <1>4, <2>1, <3>1 DEF EndedBefore, IsReview, Known
    <3>2. entries[order[i]].cp.updated \in Nat /\ entries[order[i]].cp.updated <= lastAt
          /\ lastAt \in Nat
      BY <2>1, KnownTimes DEF IsReview
    <3>3. entries[order[i]].status = "active" => order[i] = previous
      BY <1>1, <2>1 DEF StoreInv, OneActiveReview, IsReview
    <3> QED
      BY <1>1, <1>3, <1>4, <2>1, <3>2, <3>3
  <2> QED
    BY <1>2, <2>2, <2>3
<1>8. ASSUME NEW a \in AttemptId, NEW b \in AttemptId, b # new, IsReview(a)',
             Earlier(a, b)', entries'[a].status = "completed"
      PROVE  IsReview(a) /\ entries'[a] = entries[a] /\ Earlier(a, b)
  <2>1. a # new
    BY <1>1, <1>8
  <2>2. PICK i \in DOMAIN order', j \in DOMAIN order' :
            i < j /\ order'[i] = a /\ order'[j] = b
    BY <1>8 DEF Earlier
  <2>3. i \in DOMAIN order /\ j \in DOMAIN order
    BY <1>2, <1>8, <2>1, <2>2
  <2> QED
    BY <1>2, <1>4, <1>8, <2>1, <2>2, <2>3 DEF Earlier
<1>9. ReviewsAreSpaced'
  <2> SUFFICES ASSUME NEW b \in AttemptId, IsReview(b)'
               PROVE  /\ entries'[b].cp.started
                             >= entries'[entries'[b].source].cp.updated + ReviewDays
                      /\ \A a \in AttemptId :
                            /\ IsReview(a)' /\ entries'[a].status = "completed"
                            /\ entries'[a].source = entries'[b].source
                            /\ Earlier(a, b)'
                            => entries'[b].cp.started >= entries'[a].cp.updated + RetryDays
    BY DEF ReviewsAreSpaced
  <2> DEFINE old == IF b = new THEN previous ELSE b
             source == entries[old].source
  <2>1. /\ old \in AttemptId /\ old # new /\ IsReview(old)
        /\ entries'[b].source = source
    BY <1>1, <1>4 DEF IsReview, Known
  <2>2. /\ source \in AttemptId /\ source # new /\ Known(source)
        /\ entries'[source].cp = entries[source].cp
    BY <1>1, <1>4, <2>1 DEF StoreInv, ReviewsFollowDemonstration, IsReview,
                            IsDemonstration, Known
  <2>3. entries[old].cp.started >= entries[source].cp.updated + ReviewDays
    BY <2>1 DEF HistoryInv, ReviewsAreSpaced
  <2>4. /\ entries[old].cp.started \in Nat /\ entries[old].cp.updated \in Nat
        /\ entries[old].cp.started <= entries[old].cp.updated
        /\ entries[source].cp.updated \in Nat
    BY <2>1, <2>2, KnownTimes DEF IsReview
  <2>5. entries'[b].cp.started \in Nat /\ entries'[b].cp.started >= entries[old].cp.started
    BY <1>1, <1>3, <1>4, <2>4
  <2>6. ASSUME NEW x \in Nat, NEW y \in Nat, NEW z \in Nat, NEW d \in Nat,
               z >= y, y >= x + d
        PROVE  z >= x + d
    BY <2>6
  <2>7. entries'[b].cp.started >= entries'[entries'[b].source].cp.updated + ReviewDays
    BY <2>1, <2>2, <2>3, <2>4, <2>5, <2>6, DaysAssumption
  <2>8. ASSUME NEW a \in AttemptId, IsReview(a)', entries'[a].status = "completed",
               entries'[a].source = entries'[b].source, Earlier(a, b)'
        PROVE  entries'[b].cp.started >= entries'[a].cp.updated + RetryDays
    <3>1. a # new /\ IsReview(a) /\ entries'[a] = entries[a] /\ a # previous
      BY <1>1, <1>4, <2>8
    <3>2. Earlier(a, old)
      <4>1. CASE b # new
        BY <1>8, <2>8, <4>1
      <4>2. CASE b = new
        <5>1. PICK i \in DOMAIN order : order[i] = a
          BY <3>1 DEF HistoryInv, OrderLists, IsReview
        <5>2. PICK k \in DOMAIN order : order[k] = previous
          BY <1>1 DEF HistoryInv, OrderLists, Known
        <5>3. ~(k < i)
          <6>1. ASSUME k < i
                PROVE  EndedBefore(previous, a)
            BY <5>1, <5>2, <6>1 DEF HistoryInv, SerialReviews
          <6> QED
            BY <1>1, <2>1, <2>8, <3>1, <4>2, <6>1 DEF EndedBefore
        <5>4. i < k
          BY <1>2, <3>1, <5>1, <5>2, <5>3
        <5> QED
          BY <4>2, <5>1, <5>2, <5>4 DEF Earlier
      <4> QED
        BY <4>1, <4>2
    <3>3. entries[old].cp.started >= entries[a].cp.updated + RetryDays
      BY <2>1, <2>8, <3>1, <3>2 DEF HistoryInv, ReviewsAreSpaced
    <3>4. entries[a].cp.updated \in Nat
      BY <3>1, KnownTimes DEF IsReview
    <3> QED
      BY <2>4, <2>5, <2>6, <3>1, <3>3, <3>4, DaysAssumption
  <2> QED
    BY <2>7, <2>8
<1> QED
  BY <1>5, <1>6, <1>7, <1>9 DEF HistoryInv

\* A review found due stays due while no other review of it is started.
LEMMA ReadyKept ==
    ASSUME StoreInv, NEW r, CommitEffect(r), ~(r.op = "start" /\ r.kind = "review"),
           NEW d \in AttemptId, NEW t, ReviewReady(d, t)
    PROVE  ReviewReady(d, t)'
<1>1. CASE r.op = "start" /\ Began(r.cp, r.kind, r.source) /\ OthersKept({r.cp.id})
  <2>1. /\ \A a \in AttemptId : IsReview(a)' =>
               IsReview(a) /\ entries'[a] = entries[a]
        /\ \A a \in AttemptId : Known(a) => entries'[a] = entries[a]
    BY <1>1 DEF Began, OthersKept, IsReview, Known
  <2> QED
    BY <2>1 DEF ReviewReady, IsDemonstration, Known
<1>2. CASE Moved(r.cp)
  <2>1. /\ entries[r.cp.id].status = "active"
        /\ \A a \in AttemptId : /\ IsReview(a)' => IsReview(a)
                                /\ entries'[a].source = entries[a].source
                                /\ a # r.cp.id => entries'[a] = entries[a]
    BY <1>2 DEF Moved, OthersKept, IsReview, Known, IsActive
  <2> QED
    BY <2>1 DEF ReviewReady, IsDemonstration
<1>3. CASE Replaced(r.previous, r.cp)
  <2> DEFINE previous == r.previous
             new == r.cp.id
  <2>1. /\ previous \in AttemptId /\ entries[previous].status = "active" /\ previous # new
        /\ ~Known(new)
        /\ entries'[new].kind = entries[previous].kind
        /\ entries'[new].source = entries[previous].source
        /\ entries'[previous].status = "reset"
        /\ entries'[previous].kind = entries[previous].kind
        /\ entries'[previous].source = entries[previous].source
        /\ \A a \in AttemptId \ {new, previous} : entries'[a] = entries[a]
    BY <1>3 DEF Replaced, Began, OthersKept, IsActive
  <2> HIDE DEF previous, new
  <2>2. IsDemonstration(d)'
    BY <2>1 DEF ReviewReady, IsDemonstration, Known
  <2>3. entries'[d].cp = entries[d].cp
    BY <2>1 DEF ReviewReady, IsDemonstration, Known
  <2>4. ASSUME NEW a \in AttemptId, IsReview(a)', entries'[a].source = d
        PROVE  /\ IsReview(a) /\ entries[a].source = d /\ entries'[a] = entries[a]
    <3>1. ~(IsReview(previous) /\ entries[previous].source = d)
      BY <2>1 DEF ReviewReady
    <3> QED
      BY <2>1, <2>4, <3>1 DEF IsReview, Known
  <2> QED
    BY <2>2, <2>3, <2>4 DEF ReviewReady
<1> QED
  BY <1>1, <1>2, <1>3 DEF CommitEffect

-----------------------------------------------------------------------------
(***************************************************************************)
(* The steps of the service.                                               *)
(***************************************************************************)
\* A history left alone tells the same.
LEMMA HistoryStands ==
    ASSUME UNCHANGED storeVars, HistoryInv
    PROVE  /\ HistoryInv' /\ lastAt' = lastAt
           /\ \A d, t : ReviewReady(d, t) => ReviewReady(d, t)'
<1>1. entries' = entries /\ order' = order /\ lastAt' = lastAt
  BY DEF storeVars
<1>2. OrderLists' /\ RecordsEvaluate'
  BY <1>1 DEF HistoryInv, OrderLists, RecordsEvaluate, Known
<1>3. SerialReviews'
  BY <1>1 DEF HistoryInv, SerialReviews, EndedBefore, IsReview, Known
<1>4. ReviewsAreSpaced'
  BY <1>1 DEF HistoryInv, ReviewsAreSpaced, Earlier, IsReview, Known
<1>5. \A d, t : ReviewReady(d, t) => ReviewReady(d, t)'
  BY <1>1 DEF ReviewReady, IsDemonstration, IsReview, Known
<1> QED
  BY <1>1, <1>2, <1>3, <1>4, <1>5 DEF HistoryInv

\* The times of requests and of attempts are numbers.
LEMMA RequestTimes ==
    ASSUME ServiceInv, NEW w \in Workers, request[w].phase = "stamped"
    PROVE  request[w].cp.updated \in Nat /\ request[w].cp.started \in Nat
<1>1. request[w].cp \in Checkpoint
  BY RequestShape DEF ServiceInv, ServiceTypeOK
<1> QED
  BY <1>1, CheckpointTypes

\* The claims of a request that stands while time and history move on.
LEMMA ClaimStands ==
    ASSUME ServiceInv, ReviewInv, NEW w \in Workers, request'[w] = request[w],
           reviewLock = w => reviewLock' = w, now' \in Nat, now <= now',
           \A t : /\ ReviewReady(request[w].source, t)
                  /\ reviewLock = w
                  => ReviewReady(request[w].source, t)'
    PROVE  /\ request'[w].phase = "stamped" => request'[w].cp.updated <= now'
           /\ Admitted(w)'
<1> DEFINE source == request[w].source
<1>1. now \in Nat /\ Admitted(w)
  BY MaxTimeAssumption DEF ServiceInv, ServiceTypeOK, ReviewInv
<1>2. request[w].phase = "stamped" =>
          /\ request[w].cp.updated <= now
          /\ request[w].cp.updated \in Nat
  BY RequestTimes DEF ReviewInv, ClockLeads
<1>3. CASE request[w].phase = "checked"
  <2>1. reviewLock = w /\ ReviewReady(source, now) /\ Known(source) /\ source \in AttemptId
    BY <1>1, <1>3, RequestShape
       DEF Admitted, ServiceInv, RequestStands, ServiceTypeOK
  <2>2. ReviewReady(source, now)'
    <3>1. PICK t \in Nat : t = now
      BY <1>1
    <3>2. PICK u \in Nat : u = now'
      OBVIOUS
    <3>3. ReviewReady(source, u)
      <4>1. entries[source].cp.updated \in Nat /\ t <= u
        BY <2>1, <3>1, <3>2, KnownTimes DEF ServiceInv
      <4>2. \A a \in AttemptId : IsReview(a) => entries[a].cp.updated \in Nat
        BY KnownTimes DEF ServiceInv, IsReview
      <4>3. ASSUME NEW x \in Nat, NEW d \in Nat, t >= x + d
            PROVE  u >= x + d
        BY <4>1, <4>3
      <4> QED
        BY <2>1, <3>1, <4>1, <4>2, <4>3, DaysAssumption DEF ReviewReady
    <3>4. ReviewReady(source, u)'
      BY <2>1, <3>3
    <3> QED
      BY <3>2, <3>4 DEF ReviewReady, IsDemonstration, IsReview, Known
  <2> QED
    BY <1>3, <2>1, <2>2 DEF Admitted, ReviewReady, IsDemonstration, IsReview, Known
<1>4. CASE request[w].phase = "stamped"
  <2>1. request[w].cp.updated <= now'
    BY <1>1, <1>2, <1>4
  <2>2. CASE request[w].op = "start" /\ request[w].kind = "review"
    <3>1. PICK t : t = request[w].cp.started
      OBVIOUS
    <3>2. reviewLock = w /\ ReviewReady(source, t)
      BY <1>1, <1>4, <2>2, <3>1 DEF Admitted
    <3>3. ReviewReady(source, t)'
      BY <3>2
    <3> QED
      BY <1>4, <2>1, <3>1, <3>2, <3>3
         DEF Admitted, ReviewReady, IsDemonstration, IsReview, Known
  <2> QED
    BY <1>4, <2>1, <2>2 DEF Admitted
<1> QED
  BY <1>3, <1>4 DEF Admitted

\* A step that leaves the history alone.
LEMMA QuietStep ==
    ASSUME ServiceInv, ReviewInv, UNCHANGED storeVars, now' \in Nat, now <= now',
           \A w \in Workers :
               \/ request'[w] = Idle
               \/ request'[w] = request[w] /\ (reviewLock = w => reviewLock' = w)
               \/ /\ request'[w].phase = "stamped" => request'[w].cp.updated <= now'
                  /\ Admitted(w)'
    PROVE  ReviewInv'
<1>1. /\ HistoryInv' /\ lastAt' = lastAt
      /\ \A d, t : ReviewReady(d, t) => ReviewReady(d, t)'
  BY HistoryStands DEF ReviewInv
<1>2. lastAt' <= now'
  <2>1. lastAt \in Nat /\ now \in Nat /\ lastAt <= now
    BY MaxTimeAssumption, TimesAssumption
       DEF ServiceInv, ServiceTypeOK, StoreInv, TypeOK, ReviewInv, ClockLeads
  <2> QED
    BY <1>1, <2>1
<1>3. ASSUME NEW w \in Workers
      PROVE  /\ request'[w].phase = "stamped" => request'[w].cp.updated <= now'
             /\ Admitted(w)'
  <2>1. CASE request'[w] = Idle
    BY <2>1 DEF Admitted, Idle
  <2>2. CASE request'[w] = request[w] /\ (reviewLock = w => reviewLock' = w)
    <3>1. PICK source : source = request[w].source
      OBVIOUS
    <3>2. \A t : ReviewReady(source, t) => ReviewReady(source, t)'
      BY <1>1
    <3>3. \A t : ReviewReady(request[w].source, t) => ReviewReady(request[w].source, t)'
      BY <2>2, <3>1, <3>2 DEF ReviewReady, IsDemonstration, IsReview, Known
    <3> QED
      BY <2>2, <3>3, ClaimStands
  <2> QED
    BY <2>1, <2>2
<1> QED
  BY <1>1, <1>2, <1>3 DEF ReviewInv, ClockLeads

\* A request that begins, by its record.
LEMMA BeginsQuietly ==
    ASSUME ServiceInv, ReviewInv, UNCHANGED storeVars, UNCHANGED <<now, reviewLock>>,
           NEW w \in Workers, NEW r, request' = [request EXCEPT ![w] = r],
           r.phase # "checked",
           r.phase = "stamped" => /\ r.cp.updated <= now
                                  /\ ~(r.op = "start" /\ r.kind = "review")
    PROVE  ReviewInv'
<1>1. now' = now /\ now \in Nat /\ request = [v \in Workers |-> request[v]]
  BY MaxTimeAssumption DEF ServiceInv, ServiceTypeOK
<1>2. request'[w] = r /\ \A v \in Workers \ {w} : request'[v] = request[v]
  BY <1>1
<1>3. Admitted(w)'
  BY <1>2 DEF Admitted
<1> QED
  BY <1>1, <1>2, <1>3, QuietStep

\* Requests that begin claim nothing yet.
LEMMA BeginReviews ==
    ASSUME ServiceInv, ReviewInv, NEW w \in Workers, Begin(w)
    PROVE  ReviewInv'
<1>1. UNCHANGED storeVars /\ UNCHANGED <<now, reviewLock>>
  BY DEF Begin, BeginStart, BeginReview, BeginStep, BeginRestart
<1>2. now \in Nat /\ now <= now
  BY MaxTimeAssumption DEF ServiceInv, ServiceTypeOK
<1>3. CASE BeginStart(w)
  <2>1. PICK a \in AttemptId :
            request' = [request EXCEPT ![w] =
                           StartRequest(a, current, "learning", NoAttempt)]
    BY <1>3 DEF BeginStart
  <2> DEFINE r == StartRequest(a, current, "learning", NoAttempt)
  <2>2. r.phase = "stamped" /\ r.kind = "learning" /\ r.cp.updated = now
    BY DEF StartRequest, InitialCheckpoint
  <2> HIDE DEF r
  <2> QED
    BY <1>1, <1>2, <2>1, <2>2, BeginsQuietly DEF r
<1>4. CASE BeginReview(w)
  <2>1. PICK source \in AttemptId :
            request' = [request EXCEPT ![w] = [phase |-> "waiting", source |-> source]]
    BY <1>4 DEF BeginReview
  <2> DEFINE r == [phase |-> "waiting", source |-> source]
  <2>2. r.phase = "waiting"
    OBVIOUS
  <2> HIDE DEF r
  <2> QED
    BY <1>1, <2>1, <2>2, BeginsQuietly DEF r
<1>5. CASE BeginStep(w)
  <2>1. PICK a \in AttemptId, cp \in Checkpoint :
            /\ Known(a)
            /\ cp \in Evolved(entries[a].cp) \cup ScenarioReset(entries[a].cp)
            /\ request' = [request EXCEPT ![w] =
                   [phase |-> "stamped", attempt |-> a, cp |-> cp,
                    op |-> IF Completed(cp) THEN "complete" ELSE "step",
                    expected |-> entries[a].cp]]
    BY <1>5 DEF BeginStep
  <2> DEFINE r == [phase |-> "stamped", attempt |-> a, cp |-> cp,
                   op |-> IF Completed(cp) THEN "complete" ELSE "step",
                   expected |-> entries[a].cp]
  <2>2. entries[a].cp \in CheckpointRecord
    BY <2>1, KnownContext, CheckpointAssumption DEF ServiceInv
  <2>3. cp.updated = now
    BY <2>1, <2>2 DEF Evolved, ScenarioReset, CheckpointRecord
  <2>4. r.phase = "stamped" /\ r.op # "start" /\ r.cp.updated = now
    BY <2>3
  <2> HIDE DEF r
  <2> QED
    BY <1>1, <1>2, <2>1, <2>4, BeginsQuietly DEF r
<1>6. CASE BeginRestart(w)
  <2>1. PICK previous \in AttemptId, a \in AttemptId :
            request' = [request EXCEPT ![w] =
                   [phase |-> "stamped", op |-> "restart", attempt |-> a,
                    previous |-> previous, expected |-> entries[previous].cp,
                    cp |-> InitialCheckpoint(a, entries[previous].cp.ctx, now)]]
    BY <1>6 DEF BeginRestart
  <2> DEFINE r == [phase |-> "stamped", op |-> "restart", attempt |-> a,
                   previous |-> previous, expected |-> entries[previous].cp,
                   cp |-> InitialCheckpoint(a, entries[previous].cp.ctx, now)]
  <2>2. r.phase = "stamped" /\ r.op # "start" /\ r.cp.updated = now
    BY DEF InitialCheckpoint
  <2> HIDE DEF r
  <2> QED
    BY <1>1, <1>2, <2>1, <2>2, BeginsQuietly DEF r
<1> QED
  BY <1>3, <1>4, <1>5, <1>6 DEF Begin

\* start_review: the due check takes the lock, and the stamp keeps it.
LEMMA ReviewReviews ==
    ASSUME ServiceInv, ReviewInv, NEW w \in Workers,
           CheckReview(w) \/ StampReview(w) \/ GiveUpReview(w)
    PROVE  ReviewInv'
<1>1. /\ UNCHANGED storeVars /\ entries' = entries /\ now' = now /\ now \in Nat /\ now <= now
      /\ request = [v \in Workers |-> request[v]] /\ request[w] \in Requests
      /\ StoreInv /\ OrderLists /\ SerialReviews /\ ReviewsAreSpaced
      /\ RequestStands(request[w])
  BY MaxTimeAssumption DEF CheckReview, StampReview, GiveUpReview, ServiceInv, ServiceTypeOK,
                           ReviewInv, HistoryInv, storeVars
<1>2. CASE CheckReview(w) /\ ReviewIsDue(request[w].source)
  <2> DEFINE source == request[w].source
  <2>1. /\ request[w].phase = "waiting" /\ reviewLock = NoWorker /\ reviewLock' = w
        /\ request' = [request EXCEPT ![w].phase = "checked"]
    BY <1>2 DEF CheckReview
  <2>2. request[w] \in [phase : {"waiting", "checked"}, source : AttemptId]
    BY <1>1, <2>1 DEF Requests, Idle
  <2>3. /\ request'[w].phase = "checked" /\ request'[w].source = source
        /\ \A v \in Workers \ {w} : request'[v] = request[v]
    BY <1>1, <2>1, <2>2
  <2>4. /\ Project(entries[source].cp.ctx, now).status = "due"
        /\ Project(entries[source].cp.ctx, now).demonstration = source
    BY <1>2 DEF ReviewIsDue
  <2>5. ReviewReady(source, now)
    BY <1>1, <2>4, ProjectionRests
  <2>6. Admitted(w)'
    BY <1>1, <2>1, <2>3, <2>5 DEF Admitted, ReviewReady, IsDemonstration, IsReview, Known
  <2>7. \A v \in Workers : reviewLock # v
    BY <2>1, NoWorkerAssumption
  <2> QED
    BY <1>1, <2>3, <2>6, <2>7, QuietStep
<1>3. CASE CheckReview(w) /\ ~ReviewIsDue(request[w].source)
  <2>1. /\ UNCHANGED reviewLock
        /\ request' = [request EXCEPT ![w] = Idle]
    BY <1>3 DEF CheckReview
  <2>2. request'[w] = Idle /\ \A v \in Workers \ {w} : request'[v] = request[v]
    BY <1>1, <2>1
  <2> QED
    BY <1>1, <2>1, <2>2, QuietStep
<1>4. CASE StampReview(w)
  <2> DEFINE source == request[w].source
             ctx == entries[source].cp.ctx
  <2>1. PICK a \in AttemptId :
            request' = [request EXCEPT ![w] = StartRequest(a, ctx, "review", source)]
    BY <1>4 DEF StampReview
  <2>2. /\ request'[w].phase = "stamped" /\ request'[w].op = "start"
        /\ request'[w].source = source
        /\ request'[w].cp.started = now /\ request'[w].cp.updated = now
        /\ \A v \in Workers \ {w} : request'[v] = request[v]
    <3> DEFINE r == StartRequest(a, ctx, "review", source)
    <3>1. /\ r.phase = "stamped" /\ r.op = "start" /\ r.source = source
          /\ r.cp.started = now /\ r.cp.updated = now
      BY DEF StartRequest, InitialCheckpoint
    <3> HIDE DEF r
    <3>2. request'[w] = r /\ \A v \in Workers \ {w} : request'[v] = request[v]
      BY <1>1, <2>1 DEF r
    <3> QED
      BY <3>1, <3>2
  <2>3. request[w].phase = "checked" /\ UNCHANGED reviewLock
    BY <1>4 DEF StampReview
  <2>4. reviewLock = w /\ ReviewReady(source, now)
    BY <2>3 DEF ReviewInv, Admitted
  <2>5. Admitted(w)'
    BY <1>1, <2>2, <2>3, <2>4 DEF Admitted, ReviewReady, IsDemonstration, IsReview, Known
  <2> QED
    BY <1>1, <2>2, <2>3, <2>5, QuietStep
<1>5. CASE GiveUpReview(w)
  <2>1. request'[w] = Idle /\ \A v \in Workers \ {w} : request'[v] = request[v]
    BY <1>1, <1>5 DEF GiveUpReview, Release
  <2>2. \A v \in Workers \ {w} : reviewLock = v => reviewLock' = v
    BY <1>5 DEF GiveUpReview, Release
  <2> QED
    BY <1>1, <2>1, <2>2, QuietStep
<1> QED
  BY <1>2, <1>3, <1>4, <1>5

\* The store's decision: the claim of the request becomes the history's.
LEMMA FinishReviews ==
    ASSUME ServiceInv, ReviewInv, NEW w \in Workers, Finish(w)
    PROVE  ReviewInv'
<1> DEFINE r == request[w]
<1>1. /\ r.phase = "stamped" /\ now' = now /\ now \in Nat /\ now <= now
      /\ request = [v \in Workers |-> request[v]] /\ request[w] \in Requests
      /\ request' = [request EXCEPT ![w] = Idle]
      /\ Commit(w) \/ UNCHANGED storeVars
      /\ \A v \in Workers \ {w} : reviewLock = v => reviewLock' = v
  BY MaxTimeAssumption DEF Finish, Release, ServiceInv, ServiceTypeOK
<1>2. request'[w] = Idle /\ \A v \in Workers \ {w} : request'[v] = request[v]
  BY <1>1
<1>3. CASE UNCHANGED storeVars
  BY <1>1, <1>2, <1>3, QuietStep
<1>4. CASE Commit(w)
  <2>1. /\ StoreInv /\ HistoryInv /\ CommitEffect(r) /\ Admitted(w)
        /\ r.cp.updated <= now
    BY <1>1, <1>4, Commits DEF ServiceInv, ReviewInv, ClockLeads
  <2>2. HistoryInv'
    <3>1. ASSUME r.op = "start", Began(r.cp, r.kind, r.source), OthersKept({r.cp.id})
          PROVE  HistoryInv'
      <4>1. lastAt <= r.cp.updated
        BY <2>1 DEF CommitEffect
      <4>2. r.kind = "review" => ReviewReady(r.source, r.cp.started) /\ r.source \in AttemptId
        BY <1>1, <2>1, <3>1 DEF Admitted, ReviewReady, IsDemonstration
      <4> HIDE DEF r
      <4> QED
        BY <2>1, <3>1, <4>1, <4>2, BeganKeeps
    <3> HIDE DEF r
    <3> QED
      BY <2>1, <3>1, MovedKeeps, ReplacedKeeps DEF CommitEffect
  <2>3. lastAt' <= now'
    BY <1>1, <2>1 DEF CommitEffect
  <2>4. ASSUME NEW v \in Workers
        PROVE  /\ request'[v].phase = "stamped" => request'[v].cp.updated <= now'
               /\ Admitted(v)'
    <3>1. CASE v = w
      BY <1>2, <3>1 DEF Admitted, Idle
    <3>2. CASE v # w
      <4>1. request'[v] = request[v] /\ (reviewLock = v => reviewLock' = v)
        BY <1>1, <1>2, <3>2
      <4>2. ASSUME reviewLock = v, NEW t, ReviewReady(request[v].source, t)
            PROVE  ReviewReady(request[v].source, t)'
        <5>1. ~(r.op = "start" /\ r.kind = "review")
          BY <1>1, <2>1, <3>2, <4>2 DEF Admitted
        <5>2. PICK d \in AttemptId : d = request[v].source
          BY <4>2 DEF ReviewReady, IsDemonstration
        <5>3. ReviewReady(d, t)
          BY <4>2, <5>2
        <5> HIDE DEF r
        <5>4. ReviewReady(d, t)'
          BY <2>1, <5>1, <5>3, ReadyKept
        <5> QED
          BY <4>1, <5>2, <5>4 DEF ReviewReady, IsDemonstration, IsReview, Known
      <4> QED
        BY <1>1, <4>1, <4>2, ClaimStands
    <3> QED
      BY <3>1, <3>2
  <2> QED
    BY <2>2, <2>3, <2>4 DEF ReviewInv, ClockLeads
<1> QED
  BY <1>1, <1>3, <1>4

\* Every step of the service keeps the invariant.
LEMMA NextReviews ==
    ASSUME ServiceInv, ReviewInv, [ServiceNext]_vars
    PROVE  ReviewInv'
<1>1. /\ request = [w \in Workers |-> request[w]] /\ now \in Nat /\ MaxTime \in Nat
      /\ now <= now /\ now + 1 \in Nat /\ now <= now + 1
  BY MaxTimeAssumption DEF ServiceInv, ServiceTypeOK
<1>2. ASSUME UNCHANGED storeVars, now' \in Nat, now <= now',
             \A w \in Workers :
                 \/ request'[w] = Idle
                 \/ request'[w] = request[w] /\ reviewLock' = reviewLock
      PROVE  ReviewInv'
  BY <1>2, QuietStep
<1>3. CASE Tick
  BY <1>1, <1>2, <1>3 DEF Tick
<1>4. CASE Promote
  BY <1>1, <1>2, <1>4 DEF Promote
<1>5. CASE Crash
  BY <1>1, <1>2, <1>5 DEF Crash
<1>6. CASE UNCHANGED vars
  BY <1>1, <1>2, <1>6 DEF vars, serviceVars
<1> QED
  BY <1>3, <1>4, <1>5, <1>6, BeginReviews, ReviewReviews, FinishReviews
     DEF ServiceNext, Serve

(***************************************************************************)
(* In every reachable state reviews follow one another in time, and who    *)
(* has passed the due check holds the review lock and is still right.      *)
(***************************************************************************)
THEOREM ReviewInvariant == ServiceSpec => []ReviewInv
<1>1. ServiceInit => ReviewInv
  <2> SUFFICES ASSUME ServiceInit PROVE ReviewInv
    OBVIOUS
  <2>1. /\ order = <<>> /\ lastAt = 0 /\ now = 0
        /\ \A a \in AttemptId : entries[a].status = "absent"
        /\ \A w \in Workers : request[w] = Idle
    BY DEF ServiceInit, StoreInit, NoEntry
  <2>2. DOMAIN order = {} /\ \A a \in AttemptId : ~Known(a) /\ ~IsReview(a)
    BY <2>1 DEF Known, IsReview
  <2>3. Idle.phase = "idle"
    BY DEF Idle
  <2>4. HistoryInv
    BY <2>1, <2>2 DEF HistoryInv, OrderLists, RecordsEvaluate, SerialReviews, ReviewsAreSpaced
  <2> QED
    BY <2>1, <2>3, <2>4 DEF ReviewInv, ClockLeads, Admitted
<1>2. ServiceInv /\ ReviewInv /\ [ServiceNext]_vars => ReviewInv'
  BY NextReviews
<1> QED
  BY <1>1, <1>2, ServiceInvariant, PTL DEF ServiceSpec

(***************************************************************************)
(* A review starts ReviewDays after its demonstration and RetryDays after  *)
(* every earlier completed review of it, however the requests interleave.  *)
(***************************************************************************)
THEOREM ReviewsKeepDistance == ServiceSpec => []ReviewsAreSpaced
<1>1. ReviewInv => ReviewsAreSpaced
  BY DEF ReviewInv, HistoryInv
<1> QED
  BY <1>1, ReviewInvariant, PTL

(***************************************************************************)
(* What a view calls due, the store takes.                                 *)
(***************************************************************************)
THEOREM DueIsAccepted == ServiceSpec => []DueReviewIsAccepted
<1>1. ServiceInv /\ ReviewInv => DueReviewIsAccepted
  BY DueMeansAccepted
<1> QED
  BY <1>1, ServiceInvariant, ReviewInvariant, PTL

(***************************************************************************)
(* Retained is shown only for a demonstration and a review of it that both *)
(* qualify, the review begun when that was due, earlier reviews included.  *)
(***************************************************************************)
THEOREM RetentionIsEarned == ServiceSpec => []RetainedIsEarned
<1>1. ServiceInv /\ ReviewInv => RetainedIsEarned
  BY RetainedMeansEarned
<1> QED
  BY <1>1, ServiceInvariant, ReviewInvariant, PTL

-----------------------------------------------------------------------------
(***************************************************************************)
(* The mastery floor.  An attempt that has left the map, has qualified or  *)
(* is a demonstration stays one.                                           *)
(***************************************************************************)
Shown(ctx) ==
    \E i \in Matching(ctx) : IsDemonstration(order[i]) \/ Qualifies(entries[order[i]].cp)

Begun(ctx) == \E i \in Matching(ctx) : entries[order[i]].cp.step # "map"

MasteryMeans(ctx) ==
    LET mastery == Project(ctx, now).mastery IN
    /\ mastery \in {"captured", "introduced", "demonstrated", "retained"}
    /\ mastery \in {"demonstrated", "retained"} <=> Shown(ctx)
    /\ mastery = "introduced" => Begun(ctx)
    /\ mastery = "captured" => ~Begun(ctx)

\* What each Mastery State means of the history.
LEMMA MasteryIs == \A ctx : MasteryMeans(ctx)
<1> SUFFICES ASSUME NEW ctx PROVE MasteryMeans(ctx)
  OBVIOUS
<1>1. CASE Demonstrations(ctx) = {}
  <2>1. Project(ctx, now).mastery = DeriveMastery(ctx)
    BY <1>1 DEF Project, NotScheduled
  <2>2. \A i \in Matching(ctx) : ~IsDemonstration(order[i])
    BY <1>1 DEF Demonstrations
  <2> QED
    BY <2>1, <2>2 DEF MasteryMeans, DeriveMastery, Shown, Begun
<1>2. CASE Demonstrations(ctx) # {}
  <2>1. Project(ctx, now).mastery \in {"retained", "demonstrated"}
    BY <1>2 DEF Project
  <2>2. Shown(ctx)
    BY <1>2 DEF Demonstrations, Shown
  <2> QED
    BY <2>1, <2>2 DEF MasteryMeans
<1> QED
  BY <1>1, <1>2

\* What the attempt a has shown, it goes on showing.
Lasting(a) ==
    /\ Known(a)'
    /\ entries'[a].cp.ctx = entries[a].cp.ctx
    /\ IsDemonstration(a) => IsDemonstration(a)'
    /\ Qualifies(entries[a].cp) => Qualifies(entries'[a].cp)
    /\ entries[a].cp.step # "map" => entries'[a].cp.step # "map"

\* A commit keeps what was shown, and the places of the order.
LEMMA CommitLasts ==
    ASSUME StoreInv, NEW r, CommitEffect(r)
    PROVE  /\ \A a \in AttemptId : Known(a) => Lasting(a)
           /\ \A i \in DOMAIN order : i \in DOMAIN order' /\ order'[i] = order[i]
<1>1. \A a \in AttemptId : Qualifies(entries[a].cp) /\ Known(a) => entries[a].status = "completed"
  BY DEF StoreInv, EntryInv, WellFormedEntry, Qualifies
<1>2. order \in Seq(AttemptId)
  BY DEF StoreInv, TypeOK
<1>3. CASE r.op = "start" /\ Began(r.cp, r.kind, r.source) /\ OthersKept({r.cp.id})
  <2>1. \A a \in AttemptId : Known(a) => entries'[a] = entries[a]
    BY <1>3 DEF Began, OthersKept
  <2>2. \A a \in AttemptId : Known(a) => Lasting(a)
    BY <2>1 DEF Lasting, Known, IsDemonstration
  <2> QED
    BY <1>2, <1>3, <2>2 DEF Began
<1>4. CASE Moved(r.cp)
  <2>1. ASSUME NEW a \in AttemptId, Known(a)
        PROVE  Lasting(a)
    <3>1. CASE a = r.cp.id
      <4>1. /\ entries[a].status = "active" /\ entries'[a].cp = r.cp
            /\ r.cp.step # "map" /\ r.cp.ctx = entries[a].cp.ctx
            /\ entries'[a].status \in {"active", "completed"}
        BY <1>4, <3>1 DEF Moved, IsActive
      <4>2. ~Qualifies(entries[a].cp)
        BY <1>1, <2>1, <4>1
      <4> QED
        BY <4>1, <4>2 DEF Lasting, Known, IsDemonstration
    <3>2. CASE a # r.cp.id
      <4>1. entries'[a] = entries[a]
        BY <1>4, <3>2 DEF Moved, OthersKept
      <4> QED
        BY <2>1, <4>1 DEF Lasting, Known, IsDemonstration
    <3> QED
      BY <3>1, <3>2
  <2> QED
    BY <1>4, <2>1 DEF Moved
<1>5. CASE Replaced(r.previous, r.cp)
  <2>1. ASSUME NEW a \in AttemptId, Known(a)
        PROVE  Lasting(a)
    <3>1. CASE a = r.previous
      <4>1. /\ entries[a].status = "active" /\ entries'[a].cp = entries[a].cp
            /\ entries'[a].status = "reset"
        BY <1>5, <3>1 DEF Replaced, IsActive
      <4> QED
        BY <4>1 DEF Lasting, Known, IsDemonstration
    <3>2. CASE a # r.previous
      <4>1. entries'[a] = entries[a]
        BY <1>5, <2>1, <3>2 DEF Replaced, Began, OthersKept
      <4> QED
        BY <2>1, <4>1 DEF Lasting, Known, IsDemonstration
    <3> QED
      BY <3>1, <3>2
  <2> QED
    BY <1>2, <1>5, <2>1 DEF Replaced, Began
<1> QED
  BY <1>3, <1>4, <1>5 DEF CommitEffect

\* So does every step of the service.
LEMMA FloorHolds ==
    ASSUME ServiceInv, ReviewInv, [ServiceNext]_vars, NEW ctx \in Ctx
    PROVE  /\ Shown(ctx) => Shown(ctx)'
           /\ Begun(ctx) => Begun(ctx)'
<1>1. ASSUME \A a \in AttemptId : Known(a) => Lasting(a),
             \A i \in DOMAIN order : i \in DOMAIN order' /\ order'[i] = order[i]
      PROVE  /\ Shown(ctx) => Shown(ctx)'
             /\ Begun(ctx) => Begun(ctx)'
  <2>1. \A i \in Matching(ctx) :
            /\ i \in Matching(ctx)' /\ order'[i] = order[i]
            /\ order[i] \in AttemptId /\ Lasting(order[i])
    BY <1>1 DEF Matching, Lasting, ServiceInv, StoreInv, TypeOK, ReviewInv, HistoryInv, OrderLists
  <2>2. ASSUME NEW i \in Matching(ctx), IsDemonstration(order[i])
        PROVE  IsDemonstration(order[i])'
    BY <2>1, <2>2 DEF Lasting, IsDemonstration
  <2> QED
    BY <2>1, <2>2 DEF Shown, Begun, Lasting
<1>2. ASSUME UNCHANGED storeVars
      PROVE  /\ Shown(ctx) => Shown(ctx)'
             /\ Begun(ctx) => Begun(ctx)'
  BY <1>2 DEF storeVars, Shown, Begun, Matching, IsDemonstration
<1>3. ASSUME NEW w \in Workers, Finish(w)
      PROVE  /\ Shown(ctx) => Shown(ctx)'
             /\ Begun(ctx) => Begun(ctx)'
  <2>1. CASE Commit(w)
    <3>1. StoreInv /\ CommitEffect(request[w])
      BY <1>3, <2>1, Commits DEF Finish, ServiceInv
    <3> QED
      BY <1>1, <3>1, CommitLasts
  <2> QED
    BY <1>2, <1>3, <2>1 DEF Finish
<1>4. ASSUME NEW w \in Workers, Begin(w) \/ CheckReview(w) \/ StampReview(w) \/ GiveUpReview(w)
      PROVE  UNCHANGED storeVars
  BY <1>4 DEF Begin, BeginStart, BeginReview, BeginStep, BeginRestart,
              CheckReview, StampReview, GiveUpReview
<1>5. Tick \/ Promote \/ Crash \/ UNCHANGED vars => UNCHANGED storeVars
  BY DEF Tick, Promote, Crash, vars
<1> QED
  BY <1>2, <1>3, <1>4, <1>5 DEF ServiceNext, Serve

(***************************************************************************)
(* Nothing the service does takes Demonstrated or Introduced away.         *)
(***************************************************************************)
THEOREM MasteryNeverFalls == ServiceSpec => MasteryFloor
<1>1. ASSUME ServiceInv, ReviewInv, [ServiceNext]_vars,
             \A ctx : MasteryMeans(ctx), (\A ctx : MasteryMeans(ctx))'
      PROVE  [\A ctx \in Ctx :
                 LET before == Project(ctx, now).mastery
                     after == Project(ctx, now)'.mastery
                 IN  /\ before \in {"demonstrated", "retained"} =>
                            after \in {"demonstrated", "retained"}
                     /\ before = "introduced" => after # "captured"]_vars
  <2> SUFFICES ASSUME NEW ctx \in Ctx
               PROVE  /\ Project(ctx, now).mastery \in {"demonstrated", "retained"} =>
                             Project(ctx, now)'.mastery \in {"demonstrated", "retained"}
                      /\ Project(ctx, now).mastery = "introduced" =>
                             Project(ctx, now)'.mastery # "captured"
    OBVIOUS
  <2>1. MasteryMeans(ctx) /\ MasteryMeans(ctx)'
    BY <1>1
  <2>2. /\ Shown(ctx) => Shown(ctx)'
        /\ Begun(ctx) => Begun(ctx)'
    BY <1>1, FloorHolds
  <2> QED
    BY <2>1, <2>2 DEF MasteryMeans
<1> QED
  BY <1>1, MasteryIs, ServiceInvariant, ReviewInvariant, PTL DEF ServiceSpec, MasteryFloor
=============================================================================
