------------------------- MODULE LearnerStoreProofs -------------------------
(***************************************************************************)
(* Theorems about the learner event store, for any sets of attempts,       *)
(* contexts and checkpoints.                                               *)
(*                                                                         *)
(* The argument: (1) four lemmas, one per operation, show that the guards  *)
(* of the append imply the guards of the replay, and say what the replay   *)
(* then makes of the event; (2) from these effects the inductive invariant *)
(* StoreInv is preserved; (3) the properties follow from it.               *)
(***************************************************************************)
EXTENDS LearnerStore, TLAPS

(***************************************************************************)
(* What a known entry must satisfy beyond its type: it is filed under its  *)
(* own attempt, passes the validation of AttemptHistoryEntry, and was last *)
(* touched no later than the last event.                                   *)
(***************************************************************************)
EntryInv(a) ==
    Known(a) => /\ entries[a].cp.id = a
                /\ WellFormedEntry(entries[a])
                /\ entries[a].cp.updated <= lastAt

StoreInv ==
    /\ TypeOK
    /\ Replayable
    /\ \A a \in AttemptId : EntryInv(a)
    /\ OneActiveReview
    /\ ReviewsFollowDemonstration
    /\ RestartLineage

-----------------------------------------------------------------------------
(***************************************************************************)
(* Types.                                                                  *)
(***************************************************************************)

\* A checkpoint's times are numbers, its id an attempt.
LEMMA CheckpointTypes ==
    ASSUME NEW cp \in Checkpoint
    PROVE  /\ cp.id \in AttemptId
           /\ cp.started \in Nat
           /\ cp.updated \in Times
           /\ cp.updated \in Nat
           /\ cp.started <= cp.updated
BY CheckpointAssumption, TimesAssumption DEF CheckpointRecord, ValidCheckpoint

\* A known attempt's entry has the type of an entry.
LEMMA KnownEntry ==
    ASSUME TypeOK, NEW a \in AttemptId, Known(a)
    PROVE  entries[a] \in Entry
BY DEF TypeOK, Known, NoEntry

\* An active attempt is known, and so is a completed one and a reset one.
LEMMA StatusKnown ==
    ASSUME NEW a \in AttemptId,
           entries[a].status \in {"active", "completed", "reset"}
    PROVE  Known(a)
BY DEF Known

-----------------------------------------------------------------------------
(***************************************************************************)
(* Effects: an operation the append admits is accepted by the replay.      *)
(***************************************************************************)

\* An attempt that save() starts is readable, and becomes an active entry.
LEMMA StartEffect ==
    ASSUME StoreInv, NEW cp \in Checkpoint, NEW kind \in Kinds,
           NEW source \in MaybeAttempt,
           SaveStart(cp, NoCheckpoint, kind, source)
    PROVE  /\ replayable' = TRUE
           /\ lastAt' = cp.updated
           /\ lastAt <= cp.updated
           /\ order' = Append(order, cp.id)
           /\ ~Known(cp.id)
           /\ RequireStart(cp)
           /\ (kind = "review") <=> (source # NoAttempt)
           /\ kind = "review" => IsReviewSource(source, cp) /\ ~HasActiveReview(source)
           /\ entries' = [a \in AttemptId |->
                             IF a = cp.id
                             THEN [cp |-> cp, status |-> "active", kind |-> kind,
                                   source |-> source, qualifies |-> FALSE,
                                   resetBy |-> NoAttempt]
                             ELSE entries[a]]
<1> DEFINE e == StartedEvent(cp, kind, source)
<1>1. MayStart(cp, NoCheckpoint, kind, source) /\ AppendEvent(e)
  BY DEF SaveStart
<1>2. /\ e.type = "attempt_started" /\ e.cp = cp /\ e.kind = kind
      /\ e.source = source
  BY DEF StartedEvent
<1>3. ValidPayload(e) /\ lastAt <= cp.updated
  BY <1>1, <1>2 DEF MayStart, Appendable
<1>4. ((kind = "review") <=> (source # NoAttempt)) /\ ~Completed(cp)
  BY <1>2, <1>3 DEF ValidPayload
<1>5. ReplayedEntry(e) = ActiveEntry(e)
  BY <1>2 DEF ReplayedEntry
<1>6. WellFormedEntry(ReplayedEntry(e))
  BY <1>2, <1>4, <1>5 DEF WellFormedEntry, ActiveEntry
<1>7. ReplayAccepts(e)
  BY <1>1, <1>2, <1>3, <1>6 DEF ReplayAccepts, MayStart
<1>8. ReplayedEntries(e) = [a \in AttemptId |-> IF a = cp.id THEN ActiveEntry(e)
                                                ELSE entries[a]]
  BY <1>2, <1>5 DEF ReplayedEntries
<1>9. ReplayedOrder(e) = Append(order, cp.id)
  BY <1>2 DEF ReplayedOrder
<1> QED
  BY <1>1, <1>2, <1>3, <1>4, <1>7, <1>8, <1>9 DEF AppendEvent, MayStart, ActiveEntry

\* A step that save() records is readable, and replaces the checkpoint.
LEMMA StepEffect ==
    ASSUME StoreInv, NEW cp \in Checkpoint, NEW expected,
           SaveStep(cp, expected)
    PROVE  /\ replayable' = TRUE
           /\ lastAt' = cp.updated
           /\ lastAt <= cp.updated
           /\ order' = order
           /\ IsActive(cp.id)
           /\ ~Completed(cp)
           /\ CheckpointTransition(entries[cp.id].cp, cp)
           /\ entries' = [a \in AttemptId |->
                             IF a = cp.id
                             THEN [entries[a] EXCEPT !.cp = cp]
                             ELSE entries[a]]
<1> DEFINE e == SavedEvent(cp, entries[cp.id].cp)
<1>1. MayStep(cp, expected) /\ AppendEvent(e)
  BY DEF SaveStep
<1>2. /\ e.type = "checkpoint_saved" /\ e.cp = cp /\ e.previous = cp.id
      /\ e.chain = entries[cp.id].cp
  BY DEF SavedEvent
<1>3. cp.id \in AttemptId
  BY CheckpointTypes
<1>4. IsActive(cp.id) /\ Known(cp.id) /\ entries[cp.id] \in Entry
  BY <1>1, <1>3, StatusKnown, KnownEntry DEF MayStep, IsCurrent, IsActive, StoreInv
<1>5. ReplayedEntry(e) = [entries[cp.id] EXCEPT !.cp = cp]
  BY <1>2 DEF ReplayedEntry
<1>6. WellFormedEntry(entries[cp.id])
  BY <1>3, <1>4 DEF StoreInv, EntryInv
<1>7. WellFormedEntry(ReplayedEntry(e))
  BY <1>1, <1>4, <1>5, <1>6 DEF WellFormedEntry, MayStep, IsActive, Entry
<1>8. ReplayAccepts(e)
  BY <1>1, <1>2, <1>3, <1>4, <1>7 DEF ReplayAccepts, FollowsActive, MayStep, Appendable
<1>9. ReplayedEntries(e) = [a \in AttemptId |->
                               IF a = cp.id THEN [entries[cp.id] EXCEPT !.cp = cp]
                               ELSE entries[a]]
  BY <1>2, <1>5 DEF ReplayedEntries
<1>10. ReplayedOrder(e) = order
  BY <1>2 DEF ReplayedOrder
<1> QED
  BY <1>1, <1>2, <1>4, <1>8, <1>9, <1>10 DEF AppendEvent, MayStep, Appendable

\* A completion is readable, and closes the entry.
LEMMA CompleteEffect ==
    ASSUME StoreInv, NEW cp \in Checkpoint, NEW expected,
           NEW qualifies \in BOOLEAN, Complete(cp, expected, qualifies)
    PROVE  /\ replayable' = TRUE
           /\ lastAt' = cp.updated
           /\ lastAt <= cp.updated
           /\ order' = order
           /\ IsActive(cp.id)
           /\ CompletionTransition(entries[cp.id].cp, cp)
           /\ entries' = [a \in AttemptId |->
                             IF a = cp.id
                             THEN [entries[a] EXCEPT !.cp = cp,
                                                     !.status = "completed",
                                                     !.qualifies = qualifies]
                             ELSE entries[a]]
<1> DEFINE e == CompletionEvent(cp, expected, qualifies)
           closed == [entries[cp.id] EXCEPT !.cp = cp, !.status = "completed",
                                            !.qualifies = qualifies]
<1>1. MayComplete(cp, expected, qualifies) /\ AppendEvent(e)
  BY DEF Complete
<1>2. /\ e.type = "attempt_completed" /\ e.cp = cp /\ e.previous = cp.id
      /\ e.chain = expected /\ e.qualifies = qualifies
      /\ e.kind = entries[cp.id].kind /\ e.source = entries[cp.id].source
  BY DEF CompletionEvent, CompletedEvent
<1>3. cp.id \in AttemptId
  BY CheckpointTypes
<1>4. /\ IsActive(cp.id) /\ Known(cp.id) /\ entries[cp.id] \in Entry
      /\ expected = entries[cp.id].cp
  BY <1>1, <1>3, StatusKnown, KnownEntry
     DEF MayComplete, IsCurrent, IsActive, StoreInv
<1>5. ReplayedEntry(e) = closed
  BY <1>2 DEF ReplayedEntry
<1>6. WellFormedEntry(entries[cp.id]) /\ Completed(cp)
  BY <1>1, <1>3, <1>4 DEF StoreInv, EntryInv, MayComplete, CompletionTransition, Completed
<1>7. /\ closed.kind = entries[cp.id].kind /\ closed.source = entries[cp.id].source
      /\ closed.resetBy = entries[cp.id].resetBy /\ closed.cp = cp
      /\ closed.status = "completed"
  BY <1>4 DEF Entry
<1>8. WellFormedEntry(ReplayedEntry(e))
  <2> HIDE DEF closed
  <2> QED
    BY <1>4, <1>5, <1>6, <1>7 DEF WellFormedEntry, IsActive
<1>9. ReplayAccepts(e)
  BY <1>1, <1>2, <1>3, <1>4, <1>8
     DEF ReplayAccepts, FollowsActive, SameContext, MayComplete, Appendable
<1>10. ReplayedEntries(e) = [a \in AttemptId |-> IF a = cp.id THEN closed
                                                 ELSE entries[a]]
  BY <1>2, <1>5 DEF ReplayedEntries
<1>11. ReplayedOrder(e) = order
  BY <1>2 DEF ReplayedOrder
<1> QED
  BY <1>1, <1>2, <1>4, <1>9, <1>10, <1>11 DEF AppendEvent, MayComplete, Appendable

\* A restart is readable: the replaced entry is reset, a new one is active.
LEMMA RestartEffect ==
    ASSUME StoreInv, NEW cp \in Checkpoint, NEW previous \in AttemptId,
           NEW expected, Restart(previous, cp, expected)
    PROVE  /\ replayable' = TRUE
           /\ lastAt' = cp.updated
           /\ lastAt <= cp.updated
           /\ order' = Append(order, cp.id)
           /\ IsActive(previous)
           /\ ~Known(cp.id)
           /\ previous # cp.id
           /\ RestartTransition(entries[previous].cp, cp)
           /\ entries' = [a \in AttemptId |->
                             IF a = cp.id
                             THEN [cp |-> cp, status |-> "active",
                                   kind |-> entries[previous].kind,
                                   source |-> entries[previous].source,
                                   qualifies |-> FALSE, resetBy |-> NoAttempt]
                             ELSE IF a = previous
                             THEN [entries[a] EXCEPT !.status = "reset",
                                                     !.resetBy = cp.id]
                             ELSE entries[a]]
<1> DEFINE e == RestartEvent(previous, cp, expected)
<1>1. MayRestart(previous, cp, expected) /\ AppendEvent(e)
  BY DEF Restart
<1>2. /\ e.type = "attempt_reset_and_restarted" /\ e.cp = cp
      /\ e.previous = previous /\ e.chain = expected
      /\ e.kind = entries[previous].kind /\ e.source = entries[previous].source
  BY DEF RestartEvent, RestartedEvent
<1>3. /\ IsActive(previous) /\ Known(previous)
      /\ expected = entries[previous].cp
      /\ ~Known(cp.id) /\ previous # cp.id
  BY <1>1, StatusKnown DEF MayRestart, IsCurrent, IsActive
<1>4. WellFormedEntry(entries[previous])
  BY <1>3 DEF StoreInv, EntryInv
<1>5. RequireStart(cp) /\ ~Completed(cp)
  BY <1>1 DEF MayRestart, RestartTransition, RequireStart, InitialCheckpoint, Completed
<1>6. ReplayedEntry(e) = ActiveEntry(e)
  BY <1>2 DEF ReplayedEntry
<1>7. WellFormedEntry(ReplayedEntry(e))
  BY <1>2, <1>4, <1>5, <1>6 DEF WellFormedEntry, ActiveEntry
<1>8. ReplayAccepts(e)
  BY <1>1, <1>2, <1>3, <1>7
     DEF ReplayAccepts, FollowsActive, SameContext, MayRestart, Appendable
<1>9. ReplayedEntries(e) = [a \in AttemptId |->
                               IF a = cp.id THEN ActiveEntry(e)
                               ELSE IF a = previous
                               THEN [entries[a] EXCEPT !.status = "reset",
                                                       !.resetBy = cp.id]
                               ELSE entries[a]]
  BY <1>2, <1>6 DEF ReplayedEntries
<1>10. ReplayedOrder(e) = Append(order, cp.id)
  BY <1>2 DEF ReplayedOrder
<1> QED
  BY <1>1, <1>2, <1>3, <1>8, <1>9, <1>10
     DEF AppendEvent, MayRestart, Appendable, ActiveEntry

-----------------------------------------------------------------------------
(***************************************************************************)
(* The invariant is inductive: one lemma per operation.                    *)
(***************************************************************************)
LEMMA StartPreserves ==
    ASSUME StoreInv, NEW cp \in Checkpoint, NEW kind \in Kinds,
           NEW source \in MaybeAttempt,
           SaveStart(cp, NoCheckpoint, kind, source)
    PROVE  StoreInv'
<1> DEFINE new == [cp |-> cp, status |-> "active", kind |-> kind,
                   source |-> source, qualifies |-> FALSE,
                   resetBy |-> NoAttempt]
<1>1. /\ replayable' = TRUE
      /\ lastAt' = cp.updated
      /\ lastAt <= cp.updated
      /\ order' = Append(order, cp.id)
      /\ ~Known(cp.id)
      /\ RequireStart(cp)
      /\ (kind = "review") <=> (source # NoAttempt)
      /\ kind = "review" => IsReviewSource(source, cp) /\ ~HasActiveReview(source)
      /\ entries' = [a \in AttemptId |-> IF a = cp.id THEN new ELSE entries[a]]
  BY StartEffect
<1>2. /\ cp.id \in AttemptId /\ cp.updated \in Times /\ cp.updated \in Nat
      /\ cp.started = cp.updated /\ ~Completed(cp)
  BY <1>1, CheckpointTypes DEF RequireStart, InitialCheckpoint, Completed
<1>3. \A a \in AttemptId : a # cp.id => entries'[a] = entries[a]
  BY <1>1
<1>4. /\ entries'[cp.id].cp = cp
      /\ entries'[cp.id].status = "active"
      /\ entries'[cp.id].kind = kind
      /\ entries'[cp.id].source = source
      /\ entries'[cp.id].resetBy = NoAttempt
  BY <1>1, <1>2
<1>5. lastAt \in Nat
  BY TimesAssumption DEF StoreInv, TypeOK
<1>6. TypeOK'
  <2>1. new \in Entry
    BY DEF Entry, MaybeAttempt
  <2>2. entries' \in [AttemptId -> Entry \cup {NoEntry}]
    BY <1>1, <2>1 DEF StoreInv, TypeOK
  <2>3. order' \in Seq(AttemptId)
    BY <1>1, <1>2 DEF StoreInv, TypeOK
  <2> QED
    BY <1>1, <1>2, <2>2, <2>3 DEF TypeOK
<1>7. Replayable'
  BY <1>1 DEF Replayable
<1>8. ASSUME NEW a \in AttemptId PROVE EntryInv(a)'
  <2>1. CASE a = cp.id
    BY <1>1, <1>2, <1>4, <2>1 DEF EntryInv, WellFormedEntry
  <2>2. CASE a # cp.id /\ Known(a)
    <3>1. entries[a].cp.updated \in Nat
      BY <2>2, KnownEntry, CheckpointTypes DEF StoreInv, Entry
    <3> QED
      BY <1>1, <1>2, <1>3, <1>5, <2>2, <3>1 DEF StoreInv, EntryInv, WellFormedEntry, Known
  <2>3. CASE a # cp.id /\ ~Known(a)
    BY <1>3, <2>3 DEF EntryInv, Known
  <2> QED
    BY <2>1, <2>2, <2>3
<1>9. OneActiveReview'
  BY <1>1, <1>3, <1>4 DEF StoreInv, OneActiveReview, HasActiveReview
<1>10. ReviewsFollowDemonstration'
  <2> SUFFICES ASSUME NEW a \in AttemptId, Known(a)', entries'[a].kind = "review"
               PROVE  /\ IsReviewSource(entries[a].source, entries[a].cp)'
                      /\ (entries[entries[a].source].cp.updated <= entries[a].cp.started)'
    BY DEF ReviewsFollowDemonstration, IsReviewSource
  <2>1. CASE a = cp.id
    <3>1. IsReviewSource(source, cp)
      BY <1>1, <1>4, <2>1
    <3>2. source \in AttemptId /\ Known(source) /\ source # cp.id
      BY <1>1, <3>1 DEF IsReviewSource, IsDemonstration, Known
    <3>3. entries[source].cp.updated <= lastAt /\ entries[source].cp.updated \in Nat
      BY <3>2, KnownEntry, CheckpointTypes DEF StoreInv, EntryInv, Entry
    <3>4. entries[source].cp.updated <= cp.started
      BY <1>1, <1>2, <1>5, <3>3
    <3> QED
      BY <1>3, <1>4, <2>1, <3>1, <3>2, <3>4 DEF IsReviewSource, IsDemonstration
  <2>2. CASE a # cp.id
    <3>1. Known(a) /\ entries'[a] = entries[a] /\ entries[a].kind = "review"
      BY <1>3, <2>2 DEF Known
    <3>2. /\ IsReviewSource(entries[a].source, entries[a].cp)
          /\ entries[entries[a].source].cp.updated <= entries[a].cp.started
      BY <3>1 DEF StoreInv, ReviewsFollowDemonstration, IsReviewSource
    <3>3. entries[a].source \in AttemptId /\ entries[a].source # cp.id
      BY <1>1, <3>2 DEF IsReviewSource, IsDemonstration, Known
    <3> QED
      BY <1>3, <3>1, <3>2, <3>3 DEF IsReviewSource, IsDemonstration
  <2> QED
    BY <2>1, <2>2
<1>11. RestartLineage'
  <2> SUFFICES ASSUME NEW a \in AttemptId, entries'[a].status = "reset"
               PROVE  /\ Replaces(entries[a].resetBy, a)'
                      /\ \A c \in AttemptId :
                             /\ entries'[c].status = "reset"
                             /\ entries'[c].resetBy = entries'[a].resetBy
                             => c = a
    BY DEF RestartLineage
  <2>1. a # cp.id /\ entries'[a] = entries[a] /\ entries[a].status = "reset"
    BY <1>3, <1>4
  <2>2. Replaces(entries[a].resetBy, a) /\ entries[a].resetBy # cp.id
    BY <1>1, <2>1 DEF StoreInv, RestartLineage, Replaces
  <2>3. Replaces(entries[a].resetBy, a)'
    BY <1>3, <2>1, <2>2 DEF Replaces, Known
  <2>4. ASSUME NEW c \in AttemptId, entries'[c].status = "reset",
               entries'[c].resetBy = entries'[a].resetBy
        PROVE  c = a
    <3>1. c # cp.id /\ entries'[c] = entries[c]
      BY <1>3, <1>4, <2>4
    <3> QED
      BY <2>1, <2>4, <3>1 DEF StoreInv, RestartLineage
  <2> QED
    BY <2>3, <2>4
<1> QED
  BY <1>6, <1>7, <1>8, <1>9, <1>10, <1>11 DEF StoreInv

\* What SaveStep and Complete have in common: one active attempt moves on.
LEMMA AdvancePreserves ==
    ASSUME StoreInv, NEW cp \in Checkpoint,
           IsActive(cp.id),
           SameIdentity(entries[cp.id].cp, cp),
           lastAt <= cp.updated,
           replayable' = TRUE,
           lastAt' = cp.updated,
           order' = order,
           entries' \in [AttemptId -> Entry \cup {NoEntry}],
           \A a \in AttemptId : a # cp.id => entries'[a] = entries[a],
           entries'[cp.id].cp = cp,
           entries'[cp.id].status \in {"active", "completed"},
           (entries'[cp.id].status = "completed") <=> Completed(cp),
           entries'[cp.id].kind = entries[cp.id].kind,
           entries'[cp.id].source = entries[cp.id].source,
           entries'[cp.id].resetBy = entries[cp.id].resetBy
    PROVE  StoreInv'
<1>1. /\ cp.id \in AttemptId /\ cp.updated \in Times /\ cp.updated \in Nat
      /\ lastAt \in Nat
  BY CheckpointTypes, TimesAssumption DEF StoreInv, TypeOK
<1>2. Known(cp.id) /\ WellFormedEntry(entries[cp.id])
  BY <1>1 DEF StoreInv, EntryInv, Known, IsActive
<1>3. /\ cp.ctx = entries[cp.id].cp.ctx
      /\ cp.started = entries[cp.id].cp.started
  BY DEF SameIdentity
<1>4. \A a \in AttemptId : Known(a)' <=> Known(a)
  BY <1>1, <1>2 DEF Known
<1>5. \A a \in AttemptId : /\ entries'[a].kind = entries[a].kind
                           /\ entries'[a].source = entries[a].source
                           /\ entries'[a].resetBy = entries[a].resetBy
  BY <1>1
<1>6. \A a \in AttemptId : Known(a) =>
          /\ entries'[a].cp.ctx = entries[a].cp.ctx
          /\ entries'[a].cp.started = entries[a].cp.started
  BY <1>1, <1>3
<1>7. \A a \in AttemptId :
          entries[a].status # "active" => entries'[a] = entries[a]
  BY <1>1 DEF IsActive
<1>8. TypeOK'
  BY <1>1 DEF StoreInv, TypeOK
<1>9. Replayable'
  BY DEF Replayable
<1>10. ASSUME NEW a \in AttemptId PROVE EntryInv(a)'
  <2>1. CASE a = cp.id
    BY <1>1, <1>2, <2>1 DEF EntryInv, WellFormedEntry, IsActive
  <2>2. CASE a # cp.id /\ Known(a)
    <3>1. entries[a].cp.updated \in Nat
      BY <2>2, KnownEntry, CheckpointTypes DEF StoreInv, Entry
    <3> QED
      BY <1>1, <2>2, <3>1 DEF StoreInv, EntryInv, WellFormedEntry, Known
  <2>3. CASE a # cp.id /\ ~Known(a)
    BY <2>3 DEF EntryInv, Known
  <2> QED
    BY <2>1, <2>2, <2>3
<1>11. OneActiveReview'
  <2>1. \A a \in AttemptId : entries'[a].status = "active" => entries[a].status = "active"
    BY <1>1 DEF IsActive
  <2> QED
    BY <1>5, <2>1 DEF StoreInv, OneActiveReview
<1>12. ReviewsFollowDemonstration'
  <2> SUFFICES ASSUME NEW a \in AttemptId, Known(a)', entries'[a].kind = "review"
               PROVE  /\ IsReviewSource(entries[a].source, entries[a].cp)'
                      /\ (entries[entries[a].source].cp.updated <= entries[a].cp.started)'
    BY DEF ReviewsFollowDemonstration, IsReviewSource
  <2>1. /\ IsReviewSource(entries[a].source, entries[a].cp)
        /\ entries[entries[a].source].cp.updated <= entries[a].cp.started
    BY <1>4, <1>5 DEF StoreInv, ReviewsFollowDemonstration, IsReviewSource
  <2>2. /\ entries[a].source \in AttemptId
        /\ entries'[entries[a].source] = entries[entries[a].source]
    BY <1>7, <2>1 DEF IsReviewSource, IsDemonstration
  <2>3. Known(a)
    BY <1>4
  <2> QED
    BY <1>5, <1>6, <2>1, <2>2, <2>3 DEF IsReviewSource, IsDemonstration
<1>13. RestartLineage'
  <2> SUFFICES ASSUME NEW a \in AttemptId, entries'[a].status = "reset"
               PROVE  /\ Replaces(entries[a].resetBy, a)'
                      /\ \A c \in AttemptId :
                             /\ entries'[c].status = "reset"
                             /\ entries'[c].resetBy = entries'[a].resetBy
                             => c = a
    BY DEF RestartLineage
  <2>1. \A c \in AttemptId : entries'[c].status = "reset" =>
            entries[c].status = "reset" /\ entries'[c] = entries[c]
    BY <1>1
  <2>2. Replaces(entries[a].resetBy, a)
    BY <2>1 DEF StoreInv, RestartLineage
  <2>3. Replaces(entries[a].resetBy, a)'
    BY <1>4, <1>5, <1>6, <2>1, <2>2 DEF Replaces
  <2> QED
    BY <2>1, <2>3 DEF StoreInv, RestartLineage
<1> QED
  BY <1>8, <1>9, <1>10, <1>11, <1>12, <1>13 DEF StoreInv

LEMMA StepPreserves ==
    ASSUME StoreInv, NEW cp \in Checkpoint, NEW expected, SaveStep(cp, expected)
    PROVE  StoreInv'
<1> DEFINE new == [entries[cp.id] EXCEPT !.cp = cp]
<1>1. /\ replayable' = TRUE /\ lastAt' = cp.updated /\ lastAt <= cp.updated
      /\ order' = order /\ IsActive(cp.id) /\ ~Completed(cp)
      /\ SameIdentity(entries[cp.id].cp, cp)
      /\ entries' = [a \in AttemptId |-> IF a = cp.id
                                         THEN [entries[a] EXCEPT !.cp = cp]
                                         ELSE entries[a]]
  BY StepEffect DEF CheckpointTransition
<1>2. cp.id \in AttemptId /\ entries[cp.id] \in Entry
  BY <1>1, CheckpointTypes, KnownEntry DEF StoreInv, Known, IsActive
<1>3. /\ new \in Entry /\ new.cp = cp /\ new.status = "active"
      /\ new.kind = entries[cp.id].kind /\ new.source = entries[cp.id].source
      /\ new.resetBy = entries[cp.id].resetBy
  BY <1>1, <1>2 DEF Entry, IsActive
<1>4. entries'[cp.id] = new /\ \A a \in AttemptId : a # cp.id => entries'[a] = entries[a]
  BY <1>1, <1>2
<1>5. entries' \in [AttemptId -> Entry \cup {NoEntry}]
  BY <1>1, <1>2, <1>3 DEF StoreInv, TypeOK
<1> QED
  <2> HIDE DEF new
  <2> QED
    BY <1>1, <1>3, <1>4, <1>5, AdvancePreserves

LEMMA CompletePreserves ==
    ASSUME StoreInv, NEW cp \in Checkpoint, NEW expected,
           NEW qualifies \in BOOLEAN, Complete(cp, expected, qualifies)
    PROVE  StoreInv'
<1> DEFINE new == [entries[cp.id] EXCEPT !.cp = cp, !.status = "completed",
                                         !.qualifies = qualifies]
<1>0. /\ replayable' = TRUE /\ lastAt' = cp.updated /\ lastAt <= cp.updated
      /\ order' = order /\ IsActive(cp.id)
      /\ CompletionTransition(entries[cp.id].cp, cp)
      /\ entries' = [a \in AttemptId |-> IF a = cp.id
                                         THEN [entries[a] EXCEPT !.cp = cp,
                                                                 !.status = "completed",
                                                                 !.qualifies = qualifies]
                                         ELSE entries[a]]
  BY CompleteEffect
<1>1. Completed(cp) /\ SameIdentity(entries[cp.id].cp, cp)
  BY <1>0 DEF CompletionTransition, Completed
<1>2. cp.id \in AttemptId /\ entries[cp.id] \in Entry
  BY <1>0, CheckpointTypes, KnownEntry DEF StoreInv, Known, IsActive
<1>3. /\ new \in Entry /\ new.cp = cp /\ new.status = "completed"
      /\ new.kind = entries[cp.id].kind /\ new.source = entries[cp.id].source
      /\ new.resetBy = entries[cp.id].resetBy
  BY <1>2 DEF Entry
<1>4. entries'[cp.id] = new /\ \A a \in AttemptId : a # cp.id => entries'[a] = entries[a]
  BY <1>0, <1>2
<1>5. entries' \in [AttemptId -> Entry \cup {NoEntry}]
  BY <1>0, <1>2, <1>3 DEF StoreInv, TypeOK
<1> QED
  <2> HIDE DEF new
  <2> QED
    BY <1>0, <1>1, <1>3, <1>4, <1>5, AdvancePreserves

LEMMA RestartPreserves ==
    ASSUME StoreInv, NEW cp \in Checkpoint, NEW previous \in AttemptId,
           NEW expected, Restart(previous, cp, expected)
    PROVE  StoreInv'
<1> DEFINE new == [cp |-> cp, status |-> "active",
                   kind |-> entries[previous].kind,
                   source |-> entries[previous].source,
                   qualifies |-> FALSE, resetBy |-> NoAttempt]
           old == [entries[previous] EXCEPT !.status = "reset", !.resetBy = cp.id]
<1>0. entries' = [a \in AttemptId |->
                     IF a = cp.id THEN new
                     ELSE IF a = previous
                     THEN [entries[a] EXCEPT !.status = "reset", !.resetBy = cp.id]
                     ELSE entries[a]]
  BY RestartEffect
<1>1. /\ replayable' = TRUE /\ lastAt' = cp.updated /\ lastAt <= cp.updated
      /\ order' = Append(order, cp.id)
      /\ IsActive(previous) /\ ~Known(cp.id) /\ previous # cp.id
      /\ RestartTransition(entries[previous].cp, cp)
  BY RestartEffect
<1>2. /\ cp.id \in AttemptId /\ cp.updated \in Times /\ cp.updated \in Nat
      /\ lastAt \in Nat
  BY CheckpointTypes, TimesAssumption DEF StoreInv, TypeOK
<1>3. /\ cp.started = cp.updated /\ ~Completed(cp)
      /\ cp.ctx = entries[previous].cp.ctx
      /\ entries[previous].cp.updated <= cp.started
  BY <1>1 DEF RestartTransition, RequireStart, InitialCheckpoint, Completed
<1>4. /\ Known(previous) /\ entries[previous] \in Entry
      /\ WellFormedEntry(entries[previous])
      /\ entries[previous].status = "active"
      /\ entries[previous].cp.id = previous
      /\ entries[previous].cp.updated <= lastAt
      /\ entries[previous].cp.updated \in Nat
  BY <1>1, KnownEntry, CheckpointTypes DEF StoreInv, EntryInv, Known, IsActive, Entry
<1>5. /\ old \in Entry /\ old.cp = entries[previous].cp /\ old.status = "reset"
      /\ old.kind = entries[previous].kind /\ old.source = entries[previous].source
      /\ old.resetBy = cp.id
  BY <1>2, <1>4 DEF Entry, MaybeAttempt
<1>6. new \in Entry
  BY <1>4 DEF Entry, MaybeAttempt
<1>7. entries'[cp.id] = new /\ entries'[previous] = old
  BY <1>0, <1>1, <1>2
<1>8. \A a \in AttemptId : a # cp.id /\ a # previous => entries'[a] = entries[a]
  BY <1>0
<1>9. entries' \in [AttemptId -> Entry \cup {NoEntry}]
  BY <1>0, <1>5, <1>6 DEF StoreInv, TypeOK
<1>10. /\ new.cp = cp /\ new.status = "active" /\ new.resetBy = NoAttempt
       /\ new.kind = entries[previous].kind /\ new.source = entries[previous].source
  OBVIOUS
<1> HIDE DEF new, old
<1>11. \A a \in AttemptId : a # cp.id =>
           /\ Known(a)' <=> Known(a)
           /\ entries'[a].kind = entries[a].kind \/ ~Known(a)
           /\ entries'[a].source = entries[a].source \/ ~Known(a)
           /\ entries'[a].cp = entries[a].cp \/ ~Known(a)
  BY <1>4, <1>5, <1>7, <1>8 DEF Known
<1>12. TypeOK'
  <2>1. order' \in Seq(AttemptId)
    BY <1>1, <1>2 DEF StoreInv, TypeOK
  <2> QED
    BY <1>1, <1>2, <1>9, <2>1 DEF TypeOK
<1>13. Replayable'
  BY <1>1 DEF Replayable
<1>14. ASSUME NEW a \in AttemptId PROVE EntryInv(a)'
  <2>1. CASE a = cp.id
    BY <1>1, <1>2, <1>3, <1>4, <1>7, <1>10, <2>1 DEF EntryInv, WellFormedEntry
  <2>2. CASE a = previous
    <3>1. cp.id # NoAttempt
      BY <1>2, NoAttemptAssumption
    <3> QED
      BY <1>1, <1>2, <1>4, <1>5, <1>7, <2>2, <3>1 DEF EntryInv, WellFormedEntry
  <2>3. CASE a # cp.id /\ a # previous /\ Known(a)
    <3>1. entries[a].cp.updated \in Nat
      BY <2>3, KnownEntry, CheckpointTypes DEF StoreInv, Entry
    <3> QED
      BY <1>1, <1>2, <1>8, <2>3, <3>1 DEF StoreInv, EntryInv, WellFormedEntry, Known
  <2>4. CASE a # cp.id /\ a # previous /\ ~Known(a)
    BY <1>8, <2>4 DEF EntryInv, Known
  <2> QED
    BY <2>1, <2>2, <2>3, <2>4
<1>15. OneActiveReview'
  <2> SUFFICES ASSUME NEW a \in AttemptId, NEW b \in AttemptId,
                      entries'[a].status = "active", entries'[a].kind = "review",
                      entries'[b].status = "active", entries'[b].kind = "review",
                      entries'[a].source = entries'[b].source
               PROVE  a = b
    BY DEF OneActiveReview
  <2>1. a # previous /\ b # previous
    BY <1>5, <1>7
  <2>2. CASE a # cp.id /\ b # cp.id
    BY <1>8, <2>1, <2>2 DEF StoreInv, OneActiveReview
  <2>3. CASE a = cp.id /\ b # cp.id
    BY <1>4, <1>7, <1>8, <1>10, <2>1, <2>3 DEF StoreInv, OneActiveReview
  <2>4. CASE a # cp.id /\ b = cp.id
    BY <1>4, <1>7, <1>8, <1>10, <2>1, <2>4 DEF StoreInv, OneActiveReview
  <2> QED
    BY <2>2, <2>3, <2>4
<1>16. ReviewsFollowDemonstration'
  <2> SUFFICES ASSUME NEW a \in AttemptId, Known(a)', entries'[a].kind = "review"
               PROVE  /\ IsReviewSource(entries[a].source, entries[a].cp)'
                      /\ (entries[entries[a].source].cp.updated <= entries[a].cp.started)'
    BY DEF ReviewsFollowDemonstration, IsReviewSource
  \* the attempt whose review this is or continues
  <2> DEFINE c == IF a = cp.id THEN previous ELSE a
  <2>1. /\ c \in AttemptId /\ Known(c) /\ entries[c].kind = "review"
        /\ entries'[a].source = entries[c].source
        /\ entries'[a].cp.ctx = entries[c].cp.ctx
    BY <1>3, <1>4, <1>7, <1>10, <1>11
  <2>2. /\ IsReviewSource(entries[c].source, entries[c].cp)
        /\ entries[entries[c].source].cp.updated <= entries[c].cp.started
    BY <2>1 DEF StoreInv, ReviewsFollowDemonstration, IsReviewSource
  <2>3. /\ entries[c].source \in AttemptId
        /\ entries'[entries[c].source] = entries[entries[c].source]
    BY <1>1, <1>4, <1>8, <2>2 DEF IsReviewSource, IsDemonstration, Known
  <2>4. IsReviewSource(entries[a].source, entries[a].cp)'
    BY <2>1, <2>2, <2>3 DEF IsReviewSource, IsDemonstration
  <2>5. /\ entries[entries[c].source].cp.updated \in Nat
        /\ entries[c].cp.started \in Nat /\ entries[c].cp.updated \in Nat
        /\ entries[c].cp.started <= entries[c].cp.updated
    <3>1. Known(entries[c].source)
      BY <2>2 DEF IsReviewSource, IsDemonstration, Known
    <3>2. entries[entries[c].source].cp \in Checkpoint /\ entries[c].cp \in Checkpoint
      BY <2>1, <2>3, <3>1, KnownEntry DEF StoreInv, Entry
    <3> QED
      BY <3>2, CheckpointTypes
  <2>6. entries[entries[c].source].cp.updated <= entries'[a].cp.started
    <3>1. CASE a = cp.id
      <4>1. entries'[a].cp.started = cp.started /\ cp.started \in Nat
        BY <1>2, <1>3, <1>7, <1>10, <3>1
      <4> QED
        BY <1>3, <2>2, <2>5, <3>1, <4>1
    <3>2. CASE a # cp.id
      BY <1>11, <2>1, <2>2, <3>2
    <3> QED
      BY <3>1, <3>2
  <2> QED
    BY <2>1, <2>3, <2>4, <2>6
<1>17. RestartLineage'
  <2>1. ~\E a \in AttemptId : entries[a].status = "reset" /\ entries[a].resetBy = cp.id
    BY <1>1 DEF StoreInv, RestartLineage, Replaces
  <2>2. \A a \in AttemptId : entries'[a].status = "reset" =>
            \/ a = previous
            \/ a # cp.id /\ entries[a].status = "reset" /\ entries'[a] = entries[a]
    BY <1>7, <1>8, <1>10
  <2>3. Replaces(cp.id, previous)'
    BY <1>1, <1>2, <1>3, <1>5, <1>7, <1>10 DEF Replaces, Known
  <2> SUFFICES ASSUME NEW a \in AttemptId, entries'[a].status = "reset"
               PROVE  /\ Replaces(entries[a].resetBy, a)'
                      /\ \A c \in AttemptId :
                             /\ entries'[c].status = "reset"
                             /\ entries'[c].resetBy = entries'[a].resetBy
                             => c = a
    BY DEF RestartLineage
  <2>4. CASE a = previous
    <3>1. \A c \in AttemptId : entries'[c].status = "reset" /\ entries'[c].resetBy = cp.id
                                => c = previous
      BY <2>1, <2>2
    <3> QED
      BY <1>5, <1>7, <2>3, <2>4, <3>1
  <2>5. CASE a # previous
    <3>1. a # cp.id /\ entries[a].status = "reset" /\ entries'[a] = entries[a]
      BY <2>2, <2>5
    <3>2. Replaces(entries[a].resetBy, a) /\ entries[a].resetBy # cp.id
      BY <2>1, <3>1 DEF StoreInv, RestartLineage
    <3>3. Replaces(entries[a].resetBy, a)'
      BY <1>11, <3>1, <3>2 DEF Replaces
    <3>4. ASSUME NEW c \in AttemptId, entries'[c].status = "reset",
                 entries'[c].resetBy = entries'[a].resetBy
          PROVE  c = a
      <4>1. c # previous
        BY <1>5, <1>7, <3>1, <3>2, <3>4
      <4> QED
        BY <2>2, <3>1, <3>4, <4>1 DEF StoreInv, RestartLineage
    <3> QED
      BY <3>3, <3>4
  <2> QED
    BY <2>4, <2>5
<1> QED
  BY <1>12, <1>13, <1>14, <1>15, <1>16, <1>17 DEF StoreInv

-----------------------------------------------------------------------------
(***************************************************************************)
(* The theorems.                                                           *)
(***************************************************************************)

\* Every client step preserves the invariant.
LEMMA NextPreserves ==
    ASSUME StoreInv, StoreNext
    PROVE  StoreInv'
<1>1. CASE ClientStart
  BY <1>1, StartPreserves DEF ClientStart
<1>2. CASE ClientStep
  BY <1>2, StepPreserves DEF ClientStep
<1>3. CASE ClientComplete
  BY <1>3, CompletePreserves DEF ClientComplete
<1>4. CASE ClientRestart
  <2>1. PICK expected \in Held, cp \in Checkpoint : Restart(expected.id, cp, expected)
    BY <1>4 DEF ClientRestart
  <2>2. expected.id \in AttemptId
    BY KnownEntry, CheckpointTypes DEF Held, IsActive, Known, StoreInv, Entry
  <2> QED
    BY <2>1, <2>2, RestartPreserves
<1> QED
  BY <1>1, <1>2, <1>3, <1>4 DEF StoreNext

(***************************************************************************)
(* The inductive invariant holds: whatever calls clients make in whatever  *)
(* order, over any sets of attempts, contexts and checkpoints.             *)
(***************************************************************************)
THEOREM StoreInvariant == StoreSpec => []StoreInv
<1>1. StoreInit => StoreInv
  BY DEF StoreInit, StoreInv, TypeOK, Replayable, EntryInv, OneActiveReview,
         ReviewsFollowDemonstration, RestartLineage, Known, NoEntry
<1>2. StoreInv /\ [StoreNext]_storeVars => StoreInv'
  <2> SUFFICES ASSUME StoreInv, [StoreNext]_storeVars PROVE StoreInv'
    OBVIOUS
  <2>1. CASE StoreNext
    BY <2>1, NextPreserves
  <2>2. CASE UNCHANGED storeVars
    BY <2>2 DEF StoreInv, storeVars, TypeOK, Replayable, EntryInv, OneActiveReview,
                ReviewsFollowDemonstration, RestartLineage, Known, WellFormedEntry,
                IsReviewSource, IsDemonstration, Replaces
  <2> QED
    BY <2>1, <2>2
<1> QED
  BY <1>1, <1>2, PTL DEF StoreSpec

(***************************************************************************)
(* The variables of the store keep their types.                            *)
(***************************************************************************)
THEOREM TypeCorrectness == StoreSpec => []TypeOK
<1>1. StoreInv => TypeOK
  BY DEF StoreInv
<1> QED
  BY <1>1, StoreInvariant, PTL

(***************************************************************************)
(* The append never writes an event that the replay refuses: no sequence   *)
(* of accepted calls makes the learner's history unreadable.               *)
(***************************************************************************)
THEOREM AlwaysReplayable == StoreSpec => []Replayable
<1>1. StoreInv => Replayable
  BY DEF StoreInv
<1> QED
  BY <1>1, StoreInvariant, PTL

(***************************************************************************)
(* A demonstration never has two active reviews.                           *)
(***************************************************************************)
THEOREM AtMostOneActiveReview == StoreSpec => []OneActiveReview
<1>1. StoreInv => OneActiveReview
  BY DEF StoreInv
<1> QED
  BY <1>1, StoreInvariant, PTL

(***************************************************************************)
(* Every review stands on an earlier qualifying demonstration of the same  *)
(* context.                                                                *)
(***************************************************************************)
THEOREM ReviewsAreGrounded == StoreSpec => []ReviewsFollowDemonstration
<1>1. StoreInv => ReviewsFollowDemonstration
  BY DEF StoreInv
<1> QED
  BY <1>1, StoreInvariant, PTL

(***************************************************************************)
(* Every reset attempt has exactly one replacement, in its own context,    *)
(* and is the only attempt that replacement replaces.                      *)
(***************************************************************************)
THEOREM ReplacementIsUnique == StoreSpec => []RestartLineage
<1>1. StoreInv => RestartLineage
  BY DEF StoreInv
<1> QED
  BY <1>1, StoreInvariant, PTL

-----------------------------------------------------------------------------
(***************************************************************************)
(* What a step may never do.                                               *)
(***************************************************************************)

\* What an operation leaves of the attempt a.
Unaltered(a) ==
    /\ entries[a].status # "active" => entries'[a] = entries[a]
    /\ entries'[a].cp.ctx = entries[a].cp.ctx
    /\ entries'[a].kind = entries[a].kind
    /\ entries'[a].source = entries[a].source

Predicted(a) ==
    entries[a].cp.prediction # "none" =>
        /\ entries'[a].cp.prediction = entries[a].cp.prediction
        /\ entries'[a].cp.actions \in
               {entries[a].cp.actions,
                Append(entries[a].cp.actions, RunAction),
                Append(entries[a].cp.actions, ResetAction)}

\* Before the Try step no prediction is committed.
LEMMA PredictionFollowsStep ==
    ASSUME NEW cp \in Checkpoint, cp.step \in {"map", "predict"}
    PROVE  cp.prediction = "none"
BY CheckpointAssumption DEF ValidCheckpoint, ValidStep, LoopIndex

LEMMA NextAlters ==
    ASSUME StoreInv, StoreNext, NEW a \in AttemptId, Known(a)
    PROVE  Unaltered(a) /\ Predicted(a)
<1>1. ASSUME NEW cp \in Checkpoint, NEW kind \in Kinds,
             NEW source \in MaybeAttempt,
             SaveStart(cp, NoCheckpoint, kind, source)
      PROVE  Unaltered(a) /\ Predicted(a)
  <2>1. entries'[a] = entries[a]
    BY <1>1, StartEffect
  <2> QED
    BY <2>1 DEF Unaltered, Predicted
<1>2. ASSUME NEW cp \in Checkpoint, NEW expected, SaveStep(cp, expected)
      PROVE  Unaltered(a) /\ Predicted(a)
  <2>1. /\ IsActive(cp.id)
        /\ CheckpointTransition(entries[cp.id].cp, cp)
        /\ entries' = [b \in AttemptId |-> IF b = cp.id
                                           THEN [entries[b] EXCEPT !.cp = cp]
                                           ELSE entries[b]]
    BY <1>2, StepEffect
  <2>2. CASE a = cp.id
    <3>1. entries[a] \in Entry /\ entries[a].cp \in Checkpoint
      BY KnownEntry DEF StoreInv, Entry
    <3>2. /\ entries'[a].cp = cp /\ entries'[a].kind = entries[a].kind
          /\ entries'[a].source = entries[a].source
      BY <2>1, <2>2, <3>1 DEF Entry
    <3>3. Unaltered(a)
      BY <2>1, <2>2, <3>2 DEF Unaltered, IsActive, CheckpointTransition, SameIdentity
    <3>4. Predicted(a)
      BY <2>1, <2>2, <3>1, <3>2, PredictionFollowsStep
         DEF Predicted, CheckpointTransition, ForwardStep, ResetStep
    <3> QED
      BY <3>3, <3>4
  <2>3. CASE a # cp.id
    BY <2>1, <2>3 DEF Unaltered, Predicted
  <2> QED
    BY <2>2, <2>3
<1>3. ASSUME NEW cp \in Checkpoint, NEW expected, NEW qualifies \in BOOLEAN,
             Complete(cp, expected, qualifies)
      PROVE  Unaltered(a) /\ Predicted(a)
  <2> DEFINE closed == [entries[cp.id] EXCEPT !.cp = cp, !.status = "completed",
                                              !.qualifies = qualifies]
  <2>1. /\ IsActive(cp.id)
        /\ CompletionTransition(entries[cp.id].cp, cp)
    BY <1>3, CompleteEffect
  <2>2. entries' = [b \in AttemptId |->
                       IF b = cp.id
                       THEN [entries[b] EXCEPT !.cp = cp, !.status = "completed",
                                               !.qualifies = qualifies]
                       ELSE entries[b]]
    BY <1>3, CompleteEffect
  <2>3. entries'[a] = IF a = cp.id THEN closed ELSE entries[a]
    BY <2>2
  <2>4. CASE a = cp.id
    <3>1. entries[a] \in Entry
      BY KnownEntry DEF StoreInv
    <3>2. /\ closed.cp = cp /\ closed.kind = entries[a].kind
          /\ closed.source = entries[a].source
      BY <2>4, <3>1 DEF Entry
    <3> HIDE DEF closed
    <3> QED
      BY <2>1, <2>3, <2>4, <3>2
         DEF Unaltered, Predicted, IsActive, CompletionTransition, SameIdentity
  <2>5. CASE a # cp.id
    <3>1. entries'[a] = entries[a]
      BY <2>3, <2>5
    <3> QED
      BY <3>1 DEF Unaltered, Predicted
  <2> QED
    BY <2>4, <2>5
<1>4. ASSUME NEW cp \in Checkpoint, NEW previous \in AttemptId, NEW expected,
             Restart(previous, cp, expected)
      PROVE  Unaltered(a) /\ Predicted(a)
  <2> DEFINE reset == [entries[previous] EXCEPT !.status = "reset", !.resetBy = cp.id]
  <2>1. IsActive(previous) /\ ~Known(cp.id)
    BY <1>4, RestartEffect
  <2>2. entries' = [b \in AttemptId |->
                       IF b = cp.id
                       THEN [cp |-> cp, status |-> "active",
                             kind |-> entries[previous].kind,
                             source |-> entries[previous].source,
                             qualifies |-> FALSE, resetBy |-> NoAttempt]
                       ELSE IF b = previous
                       THEN [entries[b] EXCEPT !.status = "reset", !.resetBy = cp.id]
                       ELSE entries[b]]
    BY <1>4, RestartEffect
  <2>3. entries'[a] = IF a = previous THEN reset ELSE entries[a]
    BY <2>1, <2>2
  <2>4. CASE a = previous
    <3>1. entries[a] \in Entry
      BY KnownEntry DEF StoreInv
    <3>2. /\ reset.cp = entries[a].cp /\ reset.kind = entries[a].kind
          /\ reset.source = entries[a].source
      BY <2>4, <3>1 DEF Entry
    <3> HIDE DEF reset
    <3> QED
      BY <2>1, <2>3, <2>4, <3>2 DEF Unaltered, Predicted, IsActive
  <2>5. CASE a # previous
    <3>1. entries'[a] = entries[a]
      BY <2>3, <2>5
    <3> QED
      BY <3>1 DEF Unaltered, Predicted
  <2> QED
    BY <2>4, <2>5
<1>5. CASE ClientStart
  BY <1>1, <1>5 DEF ClientStart
<1>6. CASE ClientStep
  BY <1>2, <1>6 DEF ClientStep
<1>7. CASE ClientComplete
  BY <1>3, <1>7 DEF ClientComplete
<1>8. CASE ClientRestart
  <2>1. PICK expected \in Held, cp \in Checkpoint : Restart(expected.id, cp, expected)
    BY <1>8 DEF ClientRestart
  <2>2. expected.id \in AttemptId
    BY KnownEntry, CheckpointTypes DEF Held, IsActive, Known, StoreInv, Entry
  <2> QED
    BY <1>4, <2>1, <2>2
<1> QED
  BY <1>5, <1>6, <1>7, <1>8 DEF StoreNext

(***************************************************************************)
(* A completed or reset attempt is immutable, and no attempt changes its   *)
(* context, kind or review source.                                         *)
(***************************************************************************)
THEOREM HistoryNeverChanges == StoreSpec => HistoryIsImmutable
<1>1. StoreInv /\ [StoreNext]_storeVars =>
         [\A a \in AttemptId : Known(a) =>
            /\ entries[a].status # "active" => entries'[a] = entries[a]
            /\ entries'[a].cp.ctx = entries[a].cp.ctx
            /\ entries'[a].kind = entries[a].kind
            /\ entries'[a].source = entries[a].source]_storeVars
  BY NextAlters DEF Unaltered
<1> QED
  BY <1>1, StoreInvariant, PTL DEF StoreSpec, HistoryIsImmutable

(***************************************************************************)
(* A committed prediction and the renderer history before it stay.         *)
(***************************************************************************)
THEOREM PredictionNeverChanges == StoreSpec => PredictionIsCommitted
<1>1. StoreInv /\ [StoreNext]_storeVars =>
         [\A a \in AttemptId : Known(a) /\ entries[a].cp.prediction # "none" =>
            /\ entries'[a].cp.prediction = entries[a].cp.prediction
            /\ entries'[a].cp.actions \in
                   {entries[a].cp.actions,
                    Append(entries[a].cp.actions, RunAction),
                    Append(entries[a].cp.actions, ResetAction)}]_storeVars
  BY NextAlters DEF Predicted
<1> QED
  BY <1>1, StoreInvariant, PTL DEF StoreSpec, PredictionIsCommitted
=============================================================================
