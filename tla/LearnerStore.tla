---------------------------- MODULE LearnerStore ----------------------------
(***************************************************************************)
(* EventAttemptStore of learner_state.py: one append-only event stream,    *)
(* and the history its replay projects.  Each operation first replays the  *)
(* stream, decides from that history, and appends one event; the calls are *)
(* serialised by the store's lock, so each is one action.                  *)
(*                                                                         *)
(* The replay is a left fold over the events, so its result is kept in     *)
(* "entries" and "order" and extended by the event just appended, under    *)
(* the replay's OWN guards (ReplayAccepts).  They are written separately   *)
(* from the guards of the append, in the code as here: an event that the   *)
(* append admits and the replay rejects leaves a stream no call can ever   *)
(* read again, which is "replayable = FALSE".                              *)
(*                                                                         *)
(* Command ids (idempotency keys) are the subject of CommandLog, which     *)
(* wraps these operations.                                                 *)
(***************************************************************************)
EXTENDS Attempts

VARIABLES
    entries,        \* AttemptHistoryEntry of each attempt, or NoEntry
    order,          \* attempt ids in the order of their first event
    lastAt,         \* occurred_at of the last event (0 when there is none)
    replayable      \* FALSE: _read_event_snapshot or _replay raises

storeVars == <<entries, order, lastAt, replayable>>

Kinds == {"learning", "review"}

MaybeAttempt == AttemptId \cup {NoAttempt}

NoEntry == [status |-> "absent"]

(***************************************************************************)
(* A completed entry's completed_at is its checkpoint's updated_at, and    *)
(* "qualifies" is its completed record's evaluation.qualifies.             *)
(***************************************************************************)
Entry == [cp : Checkpoint, status : {"active", "completed", "reset"},
          kind : Kinds, source : MaybeAttempt, qualifies : BOOLEAN,
          resetBy : MaybeAttempt]

Known(a) == entries[a].status # "absent"

\* Mutant: anything not completed may still be worked on.
IsUnfinished(a) == entries[a].status \in {"active", "reset"}

IsActive(a) == entries[a].status = "active"

\* Mutant: whoever finds the attempt active may change it.
IsStillActive(a, expected) == IsActive(a)

\* The compare-and-set every operation on a known attempt makes.
IsCurrent(a, expected) == IsActive(a) /\ entries[a].cp = expected

StoreInit ==
    /\ entries = [a \in AttemptId |-> NoEntry]
    /\ order = <<>>
    /\ lastAt = 0
    /\ replayable = TRUE

-----------------------------------------------------------------------------
(***************************************************************************)
(* Guards shared by the append and the replay.                             *)
(***************************************************************************)
\* _require_demonstration_source
IsDemonstration(a) ==
    /\ a \in AttemptId
    /\ entries[a].status = "completed"
    /\ entries[a].kind = "learning"
    /\ entries[a].qualifies

\* Mutant: the review's context is not compared with the demonstration's.
IsAnyDemonstration(a, cp) == IsDemonstration(a)

\* _require_review_source
IsReviewSource(a, cp) ==
    /\ IsDemonstration(a)
    /\ entries[a].cp.ctx = cp.ctx

\* Mutant: a review counts only once the learner has done something.
HasReviewBegun(source) ==
    \E a \in AttemptId :
        /\ entries[a].status = "active"
        /\ entries[a].kind = "review"
        /\ entries[a].source = source
        /\ entries[a].cp.step # "map"

HasActiveReview(source) ==
    \E a \in AttemptId :
        /\ entries[a].status = "active"
        /\ entries[a].kind = "review"
        /\ entries[a].source = source

\* AttemptHistoryEntry.__post_init__
WellFormedEntry(entry) ==
    /\ (entry.kind = "review") <=> (entry.source # NoAttempt)
    /\ (entry.status = "completed") <=> Completed(entry.cp)
    /\ (entry.status = "reset") <=> (entry.resetBy # NoAttempt)

-----------------------------------------------------------------------------
(***************************************************************************)
(* Events (LearnerStateEvent).  A field the event type does not have holds *)
(* its neutral value.                                                      *)
(***************************************************************************)
StartedEvent(cp, kind, source) ==
    [type |-> "attempt_started", cp |-> cp, kind |-> kind,
     source |-> source, previous |-> NoAttempt, chain |-> NoCheckpoint,
     qualifies |-> FALSE]

SavedEvent(cp, chain) ==
    [type |-> "checkpoint_saved", cp |-> cp,
     kind |-> "learning", source |-> NoAttempt, previous |-> cp.id,
     chain |-> chain, qualifies |-> FALSE]

CompletedEvent(cp, kind, source, chain, qualifies) ==
    [type |-> "attempt_completed", cp |-> cp, kind |-> kind,
     source |-> source, previous |-> cp.id, chain |-> chain,
     qualifies |-> qualifies]

RestartedEvent(cp, kind, source, previous, chain) ==
    [type |-> "attempt_reset_and_restarted", cp |-> cp,
     kind |-> kind, source |-> source, previous |-> previous,
     chain |-> chain, qualifies |-> FALSE]

\* LearnerStateEvent._validate_payload, evaluated before anything is written
ValidPayload(e) ==
    /\ e.type # "checkpoint_saved" =>
           ((e.kind = "review") <=> (e.source # NoAttempt))
    /\ (e.type = "attempt_completed") <=> Completed(e.cp)

-----------------------------------------------------------------------------
(***************************************************************************)
(* The replay of one more event: _read_event_snapshot (chronology) and     *)
(* then _replay.                                                           *)
(***************************************************************************)
ActiveEntry(e) ==
    [cp |-> e.cp, status |-> "active", kind |-> e.kind, source |-> e.source,
     qualifies |-> FALSE, resetBy |-> NoAttempt]

ReplayedEntry(e) ==
    LET prev == entries[e.previous] IN
    CASE e.type = "checkpoint_saved"  -> [prev EXCEPT !.cp = e.cp]
      [] e.type = "attempt_completed" ->
             [prev EXCEPT !.cp = e.cp, !.status = "completed",
                          !.qualifies = e.qualifies]
      [] OTHER -> ActiveEntry(e)

\* _require_active_previous
FollowsActive(e) ==
    /\ e.previous \in AttemptId
    /\ IsActive(e.previous)
    /\ e.chain = entries[e.previous].cp

SameContext(e) ==
    /\ e.kind = entries[e.previous].kind
    /\ e.source = entries[e.previous].source

ReplayAccepts(e) ==
    /\ lastAt <= e.cp.updated
    /\ \/ /\ e.type = "attempt_started"
          /\ RequireStart(e.cp)
          /\ ~Known(e.cp.id)
          /\ e.kind = "review" => /\ IsReviewSource(e.source, e.cp)
                                  /\ ~HasActiveReview(e.source)
       \/ /\ e.type = "checkpoint_saved"
          /\ FollowsActive(e)
          /\ CheckpointTransition(e.chain, e.cp)
       \/ /\ e.type = "attempt_completed"
          /\ FollowsActive(e)
          /\ CompletionTransition(e.chain, e.cp)
          /\ SameContext(e)
       \/ /\ e.type = "attempt_reset_and_restarted"
          /\ FollowsActive(e)
          /\ ~Known(e.cp.id)
          /\ RestartTransition(e.chain, e.cp)
          /\ SameContext(e)
    /\ WellFormedEntry(ReplayedEntry(e))

(***************************************************************************)
(* What the replay makes of the event: the replaced attempt of a restart   *)
(* is marked reset, the event's own attempt gets its new entry.            *)
(***************************************************************************)
ReplayedEntries(e) ==
    [a \in AttemptId |->
        IF a = e.cp.id THEN ReplayedEntry(e)
        ELSE IF e.type = "attempt_reset_and_restarted" /\ a = e.previous
             THEN [entries[a] EXCEPT !.status = "reset", !.resetBy = e.cp.id]
             ELSE entries[a]]

\* Mutant: the order gets the attempt an event follows, not its own.
OrderOfPrevious(e) ==
    IF e.type \in {"attempt_started", "attempt_reset_and_restarted"}
    THEN Append(order, e.previous)
    ELSE order

ReplayedOrder(e) ==
    IF e.type \in {"attempt_started", "attempt_reset_and_restarted"}
    THEN Append(order, e.cp.id)
    ELSE order

(***************************************************************************)
(* _append, and the next replay that will read the event.                  *)
(***************************************************************************)
Appendable(e) ==
    /\ ValidPayload(e)
    /\ lastAt <= e.cp.updated

AppendEvent(e) ==
    /\ lastAt' = e.cp.updated
    /\ entries' = IF ReplayAccepts(e) THEN ReplayedEntries(e) ELSE entries
    /\ order' = IF ReplayAccepts(e) THEN ReplayedOrder(e) ELSE order
    /\ replayable' = ReplayAccepts(e)

-----------------------------------------------------------------------------
(***************************************************************************)
(* The operations.  Each has its guard apart (May...): a call whose    *)
(* guard is false raises and changes nothing.                              *)
(***************************************************************************)

\* Mutant: save() checks the source of a review but not for an active one.
MayStartTwice(cp, expected, kind, source) ==
    /\ replayable
    /\ RequireStart(cp)
    /\ ~Known(cp.id)
    /\ expected = NoCheckpoint
    /\ kind = "review" => IsReviewSource(source, cp)
    /\ Appendable(StartedEvent(cp, kind, source))

\* save() of an attempt the history does not know
MayStart(cp, expected, kind, source) ==
    /\ replayable
    /\ RequireStart(cp)
    /\ ~Known(cp.id)
    /\ expected = NoCheckpoint
    /\ kind = "review" => /\ IsReviewSource(source, cp)
                          /\ ~HasActiveReview(source)
    /\ Appendable(StartedEvent(cp, kind, source))

SaveStart(cp, expected, kind, source) ==
    /\ MayStart(cp, expected, kind, source)
    /\ AppendEvent(StartedEvent(cp, kind, source))

\* save() of an attempt the history knows
MayStep(cp, expected) ==
    /\ replayable
    /\ IsCurrent(cp.id, expected)
    /\ ~Completed(cp)
    /\ CheckpointTransition(entries[cp.id].cp, cp)
    /\ Appendable(SavedEvent(cp, entries[cp.id].cp))

SaveStep(cp, expected) ==
    /\ MayStep(cp, expected)
    /\ AppendEvent(SavedEvent(cp, entries[cp.id].cp))

CompletionEvent(cp, expected, qualifies) ==
    CompletedEvent(cp, entries[cp.id].kind, entries[cp.id].source,
                   expected, qualifies)

MayComplete(cp, expected, qualifies) ==
    /\ replayable
    /\ IsCurrent(cp.id, expected)
    /\ CompletionTransition(entries[cp.id].cp, cp)
    /\ Appendable(CompletionEvent(cp, expected, qualifies))

Complete(cp, expected, qualifies) ==
    /\ MayComplete(cp, expected, qualifies)
    /\ AppendEvent(CompletionEvent(cp, expected, qualifies))

RestartEvent(previous, cp, expected) ==
    RestartedEvent(cp, entries[previous].kind, entries[previous].source,
                   previous, expected)

MayRestart(previous, cp, expected) ==
    /\ replayable
    /\ IsCurrent(previous, expected)
    /\ ~Known(cp.id)
    /\ RestartTransition(entries[previous].cp, cp)
    /\ Appendable(RestartEvent(previous, cp, expected))

Restart(previous, cp, expected) ==
    /\ MayRestart(previous, cp, expected)
    /\ AppendEvent(RestartEvent(previous, cp, expected))

(***************************************************************************)
(* Any client.  A call with an expected checkpoint that is not current is  *)
(* refused whatever else it asks, so those calls are left out.             *)
(***************************************************************************)
Held == {entries[a].cp : a \in {b \in AttemptId : IsActive(b)}}

ClientStart ==
    \E cp \in Checkpoint, kind \in Kinds, source \in MaybeAttempt :
        SaveStart(cp, NoCheckpoint, kind, source)

ClientStep ==
    \E expected \in Held :
        \E cp \in Checkpoint : SaveStep(cp, expected)

ClientComplete ==
    \E expected \in Held, qualifies \in BOOLEAN :
        \E cp \in Checkpoint : Complete(cp, expected, qualifies)

ClientRestart ==
    \E expected \in Held, cp \in Checkpoint : Restart(expected.id, cp, expected)

StoreNext == ClientStart \/ ClientStep \/ ClientComplete \/ ClientRestart

StoreSpec == StoreInit /\ [][StoreNext]_storeVars

-----------------------------------------------------------------------------
(***************************************************************************)
(* The type invariant: what each variable of the store holds.              *)
(***************************************************************************)
TypeOK ==
    /\ entries \in [AttemptId -> Entry \cup {NoEntry}]
    /\ order \in Seq(AttemptId)
    /\ lastAt \in Times \cup {0}
    /\ replayable \in BOOLEAN

(***************************************************************************)
(* Whatever sequence of calls the append admits, the stream stays          *)
(* readable: its guards (save, complete, restart, _append) imply those of  *)
(* _read_event_snapshot and _replay, which are written a second time.      *)
(***************************************************************************)
Replayable == replayable

(***************************************************************************)
(* A demonstration never has two active reviews, though a review can be    *)
(* restarted under a new id and its replacement inherits the source.       *)
(***************************************************************************)
OneActiveReview ==
    \A a, b \in AttemptId :
        /\ entries[a].status = "active" /\ entries[a].kind = "review"
        /\ entries[b].status = "active" /\ entries[b].kind = "review"
        /\ entries[a].source = entries[b].source
        => a = b

(***************************************************************************)
(* Every review, restarted or not, was started for a qualifying completed  *)
(* learning attempt of the very same context, and after its completion.    *)
(***************************************************************************)
ReviewsFollowDemonstration ==
    \A a \in AttemptId :
        Known(a) /\ entries[a].kind = "review" =>
            /\ IsDemonstration(entries[a].source)
            /\ entries[entries[a].source].cp.ctx = entries[a].cp.ctx
            /\ entries[entries[a].source].cp.updated <= entries[a].cp.started

Replaces(b, a) ==
    /\ b \in AttemptId \ {a}
    /\ Known(b)
    /\ entries[b].kind = entries[a].kind
    /\ entries[b].source = entries[a].source
    /\ entries[b].cp.ctx = entries[a].cp.ctx
    /\ entries[a].cp.updated <= entries[b].cp.started

(***************************************************************************)
(* restart() replaces an attempt once: the replacement is known, differs,  *)
(* keeps context, kind and source, starts no earlier than the last thing   *)
(* the replaced attempt did, and replaces nothing else.                    *)
(***************************************************************************)
RestartLineage ==
    \A a \in AttemptId : entries[a].status = "reset" =>
        /\ Replaces(entries[a].resetBy, a)
        /\ \A c \in AttemptId :
               /\ entries[c].status = "reset"
               /\ entries[c].resetBy = entries[a].resetBy
               => c = a

(***************************************************************************)
(* A step of any client never alters a completed or reset attempt, never   *)
(* forgets one, and never moves an attempt to another context, kind or     *)
(* review source ("completed or reset Learner Attempt is immutable").      *)
(***************************************************************************)
HistoryIsImmutable ==
    [][\A a \in AttemptId : Known(a) =>
          /\ entries[a].status # "active" => entries'[a] = entries[a]
          /\ entries'[a].cp.ctx = entries[a].cp.ctx
          /\ entries'[a].kind = entries[a].kind
          /\ entries'[a].source = entries[a].source]_storeVars

(***************************************************************************)
(* A prediction once committed survives scenario resets unchanged until    *)
(* the attempt ends, and the renderer history only ever grows at its end:  *)
(* the learner cannot predict again after having seen a result.            *)
(***************************************************************************)
PredictionIsCommitted ==
    [][\A a \in AttemptId :
          Known(a) /\ entries[a].cp.prediction # "none" =>
              /\ entries'[a].cp.prediction = entries[a].cp.prediction
              /\ entries'[a].cp.actions \in
                     {entries[a].cp.actions,
                      Append(entries[a].cp.actions, RunAction),
                      Append(entries[a].cp.actions, ResetAction)}]_storeVars
=============================================================================
