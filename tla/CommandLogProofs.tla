-------------------------- MODULE CommandLogProofs --------------------------
(***************************************************************************)
(* Theorems about command ids, for any attempts, checkpoints and ids that  *)
(* callers choose: no new step of an attempt has the digest of an old one, *)
(* and commands are calls of the store.                                    *)
(***************************************************************************)
EXTENDS CommandLog, LearnerStoreProofs

(***************************************************************************)
(* Checkpoints of one attempt in the order they can follow each other: a   *)
(* step forward goes on in the loop, and both a run and a reset lengthen   *)
(* the action history.                                                     *)
(***************************************************************************)
Before(cp, next) ==
    \/ Len(cp.actions) < Len(next.actions)
    \/ /\ Len(cp.actions) = Len(next.actions)
       /\ LoopIndex[cp.step] < LoopIndex[next.step]

NotAfter(cp, next) ==
    \/ Len(cp.actions) < Len(next.actions)
    \/ /\ Len(cp.actions) = Len(next.actions)
       /\ LoopIndex[cp.step] <= LoopIndex[next.step]

(***************************************************************************)
(* The inductive invariant: on top of the store's own, every recorded      *)
(* checkpoint is of a known attempt, and at or before where that attempt   *)
(* now is, while it is active.                                             *)
(***************************************************************************)
RecordStands(cp) ==
    /\ cp \in Checkpoint
    /\ Known(cp.id)
    /\ IsActive(cp.id) => NotAfter(cp, entries[cp.id].cp)

CommandInv ==
    /\ StoreInv
    /\ \A event \in recorded : RecordStands(event.cp)

-----------------------------------------------------------------------------
\* What the order compares.
LEMMA Ranks ==
    ASSUME NEW cp \in Checkpoint
    PROVE  /\ Len(cp.actions) \in Nat
           /\ LoopIndex[cp.step] \in Nat
           /\ cp.actions \in Seq({RunAction, ResetAction})
<1>1. cp \in CheckpointRecord
  BY CheckpointAssumption
<1>2. cp.actions \in Seq({RunAction, ResetAction}) /\ cp.step \in LoopSteps
  BY <1>1 DEF CheckpointRecord
<1>3. Len(cp.actions) \in Nat
  BY <1>2
<1>4. LoopIndex[cp.step] \in Nat
  BY <1>2 DEF LoopSteps, LoopIndex
<1> QED
  BY <1>2, <1>3, <1>4

\* Nothing before a checkpoint is at it or after it.
LEMMA NoReturn ==
    ASSUME NEW prev \in Checkpoint, NEW cp \in Checkpoint, Before(prev, cp)
    PROVE  ~NotAfter(cp, prev)
BY Ranks DEF Before, NotAfter

\* A transition leads strictly onwards in that order.
LEMMA TransitionsProgress ==
    ASSUME NEW prev \in Checkpoint, NEW cp \in Checkpoint,
           CheckpointTransition(prev, cp)
    PROVE  Before(prev, cp)
<1>1. \A action \in {RunAction, ResetAction} :
          Len(Append(prev.actions, action)) = Len(prev.actions) + 1
  BY Ranks
<1>2. Len(prev.actions) \in Nat
  BY Ranks
<1>3. /\ LoopIndex["map"] < LoopIndex["predict"]
      /\ LoopIndex["predict"] < LoopIndex["try"]
      /\ LoopIndex["prove"] < LoopIndex["explain"]
  BY DEF LoopIndex
<1>4. CASE ForwardStep(prev, cp)
  BY <1>1, <1>2, <1>3, <1>4 DEF ForwardStep, Before
<1>5. CASE ResetStep(prev, cp)
  BY <1>1, <1>2, <1>5 DEF ResetStep, Before
<1> QED
  BY <1>4, <1>5 DEF CheckpointTransition

\* The checkpoint of an active attempt.
LEMMA ActiveCheckpoint ==
    ASSUME StoreInv, NEW a \in AttemptId, IsActive(a)
    PROVE  entries[a].cp \in Checkpoint
BY KnownEntry DEF StoreInv, IsActive, Known, Entry

-----------------------------------------------------------------------------
\* An event of an attempt that was not known or is at its checkpoint, while
\* the others keep their entries or are no longer active.
LEMMA RecordStep ==
    ASSUME CommandInv, StoreInv', NEW cmd, NEW cp \in Checkpoint, Record(cmd, cp),
           IsActive(cp.id)' => entries'[cp.id].cp = cp,
           Known(cp.id) /\ IsActive(cp.id)' =>
               IsActive(cp.id) /\ Before(entries[cp.id].cp, cp),
           \A a \in AttemptId : Known(a) \/ a = cp.id => Known(a)',
           \A a \in AttemptId \ {cp.id} :
               IsActive(a)' => IsActive(a) /\ entries'[a] = entries[a]
    PROVE  CommandInv'
<1>2. cp.id \in AttemptId
  BY CheckpointTypes
<1>3. RecordStands(cp)'
  <2>1. NotAfter(cp, cp)
    BY Ranks DEF NotAfter
  <2> QED
    BY <1>2, <2>1 DEF RecordStands, NotAfter
<1>4. ASSUME NEW old \in Checkpoint, RecordStands(old) PROVE RecordStands(old)'
  <2>1. /\ old \in Checkpoint /\ old.id \in AttemptId /\ Known(old.id)
        /\ IsActive(old.id) => NotAfter(old, entries[old.id].cp)
    BY <1>4, CheckpointTypes DEF RecordStands
  <2>2. CASE old.id # cp.id
    BY <2>1, <2>2 DEF RecordStands, NotAfter
  <2>3. CASE old.id = cp.id
    <3>1. Known(old.id)'
      BY <2>1
    <3>2. ASSUME IsActive(old.id)' PROVE NotAfter(old, entries'[old.id].cp)
      <4>1. entries'[old.id].cp = cp /\ IsActive(old.id) /\ Before(entries[cp.id].cp, cp)
        BY <2>1, <2>3, <3>2
      <4>2. entries[cp.id].cp \in Checkpoint
        BY <1>2, <2>3, <4>1, ActiveCheckpoint DEF CommandInv
      <4>3. NotAfter(old, entries[cp.id].cp)
        BY <2>1, <2>3, <4>1
      <4>4. NotAfter(old, cp)
        BY <2>1, <4>1, <4>2, <4>3, Ranks DEF Before, NotAfter
      <4> QED
        BY <4>1, <4>4
    <3> QED
      BY <2>1, <3>1, <3>2 DEF RecordStands, NotAfter
  <2> QED
    BY <2>2, <2>3
<1>5. ASSUME NEW event \in recorded' PROVE RecordStands(event.cp)'
  <2>1. recorded' = recorded \cup {[id |-> cmd, cp |-> cp]}
    BY DEF Record
  <2>2. CASE event \in recorded
    <3>1. event.cp \in Checkpoint /\ RecordStands(event.cp)
      BY <2>2 DEF CommandInv, RecordStands
    <3> QED
      BY <1>4, <3>1
  <2>3. CASE event = [id |-> cmd, cp |-> cp]
    <3>1. event.cp = cp
      BY <2>3
    <3> QED
      BY <1>3, <3>1 DEF RecordStands
  <2> QED
    BY <2>1, <2>2, <2>3
<1> QED
  BY <1>5 DEF CommandInv

-----------------------------------------------------------------------------
LEMMA StartCommand ==
    ASSUME CommandInv, CommandStart PROVE CommandInv'
<1>1. PICK cp \in Checkpoint, kind \in Kinds, source \in MaybeAttempt :
          /\ SaveStart(cp, NoCheckpoint, kind, source)
          /\ \E cmd \in Keys \cup {SaveCommand(cp)} : Record(cmd, cp)
  BY DEF CommandStart
<1>2. StoreInv /\ cp.id \in AttemptId
  BY CheckpointTypes DEF CommandInv
<1>3. StoreInv'
  BY <1>1, <1>2, StartPreserves
<1>4. /\ ~Known(cp.id)
      /\ entries' = [a \in AttemptId |->
                        IF a = cp.id
                        THEN [cp |-> cp, status |-> "active", kind |-> kind,
                              source |-> source, qualifies |-> FALSE,
                              resetBy |-> NoAttempt]
                        ELSE entries[a]]
  BY <1>1, <1>2, StartEffect
<1>5. /\ entries'[cp.id].cp = cp /\ entries'[cp.id].status = "active"
      /\ \A a \in AttemptId \ {cp.id} : entries'[a] = entries[a]
  BY <1>2, <1>4
<1>6. \A a \in AttemptId : Known(a) \/ a = cp.id => Known(a)'
  BY <1>5 DEF Known
<1>7. \A a \in AttemptId \ {cp.id} :
          IsActive(a)' => IsActive(a) /\ entries'[a] = entries[a]
  BY <1>5 DEF IsActive
<1> QED
  BY <1>1, <1>3, <1>4, <1>5, <1>6, <1>7, RecordStep

LEMMA StepCommand ==
    ASSUME CommandInv, CommandStep PROVE CommandInv'
<1>1. PICK expected \in Held, cp \in Checkpoint :
          /\ SaveStep(cp, expected)
          /\ \E cmd \in Keys \cup {SaveCommand(cp)} : Record(cmd, cp)
  BY DEF CommandStep
<1>2. StoreInv /\ cp.id \in AttemptId
  BY CheckpointTypes DEF CommandInv
<1>3. StoreInv'
  BY <1>1, <1>2, StepPreserves
<1>4. /\ IsActive(cp.id)
      /\ CheckpointTransition(entries[cp.id].cp, cp)
      /\ entries' = [b \in AttemptId |-> IF b = cp.id
                                         THEN [entries[b] EXCEPT !.cp = cp]
                                         ELSE entries[b]]
  BY <1>1, <1>2, StepEffect
<1>5. entries[cp.id] \in Entry
  BY <1>2, <1>4, KnownEntry DEF StoreInv, IsActive, Known
<1>6. /\ entries'[cp.id].cp = cp /\ entries'[cp.id].status = "active"
      /\ \A a \in AttemptId \ {cp.id} : entries'[a] = entries[a]
  BY <1>2, <1>4, <1>5 DEF Entry, IsActive
<1>7. Before(entries[cp.id].cp, cp)
  BY <1>2, <1>4, ActiveCheckpoint, TransitionsProgress
<1>8. \A a \in AttemptId : Known(a) \/ a = cp.id => Known(a)'
  BY <1>6 DEF Known
<1>9. \A a \in AttemptId \ {cp.id} :
          IsActive(a)' => IsActive(a) /\ entries'[a] = entries[a]
  BY <1>6 DEF IsActive
<1> QED
  BY <1>1, <1>3, <1>4, <1>6, <1>7, <1>8, <1>9, RecordStep

LEMMA CompleteCommands ==
    ASSUME CommandInv, CommandComplete PROVE CommandInv'
<1>1. PICK expected \in Held, qualifies \in BOOLEAN, cp \in Checkpoint :
          /\ Complete(cp, expected, qualifies)
          /\ \E cmd \in Keys \cup {CompleteCommand(cp, qualifies)} : Record(cmd, cp)
  BY DEF CommandComplete
<1>2. StoreInv /\ cp.id \in AttemptId
  BY CheckpointTypes DEF CommandInv
<1>3. StoreInv'
  BY <1>1, <1>2, CompletePreserves
<1>4. /\ IsActive(cp.id)
      /\ entries' = [b \in AttemptId |->
                        IF b = cp.id
                        THEN [entries[b] EXCEPT !.cp = cp, !.status = "completed",
                                                !.qualifies = qualifies]
                        ELSE entries[b]]
  BY <1>1, <1>2, CompleteEffect
<1>5. entries[cp.id] \in Entry
  BY <1>2, <1>4, KnownEntry DEF StoreInv, IsActive, Known
<1>6. /\ entries'[cp.id].status = "completed"
      /\ \A a \in AttemptId \ {cp.id} : entries'[a] = entries[a]
  BY <1>2, <1>4, <1>5 DEF Entry
<1>7. ~IsActive(cp.id)'
  BY <1>6 DEF IsActive
<1>8. \A a \in AttemptId : Known(a) \/ a = cp.id => Known(a)'
  BY <1>6 DEF Known
<1>9. \A a \in AttemptId \ {cp.id} :
          IsActive(a)' => IsActive(a) /\ entries'[a] = entries[a]
  BY <1>6 DEF IsActive
<1> QED
  BY <1>1, <1>3, <1>7, <1>8, <1>9, RecordStep

LEMMA RestartCommands ==
    ASSUME CommandInv, CommandRestart PROVE CommandInv'
<1>1. PICK expected \in Held, cp \in Checkpoint :
          /\ Restart(expected.id, cp, expected)
          /\ \E cmd \in Keys \cup {RestartCommand(expected, cp)} : Record(cmd, cp)
  BY DEF CommandRestart
<1>2. StoreInv /\ cp.id \in AttemptId
  BY CheckpointTypes DEF CommandInv
<1> DEFINE previous == expected.id
<1>3. previous \in AttemptId
  BY <1>2, KnownEntry, CheckpointTypes DEF Held, IsActive, Known, StoreInv, Entry
<1>4. StoreInv'
  BY <1>1, <1>2, <1>3, RestartPreserves
<1>5. /\ IsActive(previous) /\ ~Known(cp.id)
      /\ entries' = [b \in AttemptId |->
                       IF b = cp.id
                       THEN [cp |-> cp, status |-> "active",
                             kind |-> entries[previous].kind,
                             source |-> entries[previous].source,
                             qualifies |-> FALSE, resetBy |-> NoAttempt]
                       ELSE IF b = previous
                       THEN [entries[b] EXCEPT !.status = "reset", !.resetBy = cp.id]
                       ELSE entries[b]]
  BY <1>1, <1>2, <1>3, RestartEffect
<1>6. entries[previous] \in Entry /\ previous # cp.id
  BY <1>2, <1>3, <1>5, KnownEntry DEF StoreInv, IsActive, Known
<1> HIDE DEF previous
<1>7. /\ entries'[cp.id].cp = cp /\ entries'[cp.id].status = "active"
      /\ entries'[previous].status = "reset"
      /\ \A a \in AttemptId \ {cp.id, previous} : entries'[a] = entries[a]
  BY <1>2, <1>3, <1>5, <1>6 DEF Entry
<1>8. \A a \in AttemptId : Known(a) \/ a = cp.id => Known(a)'
  BY <1>7 DEF Known
<1>9. \A a \in AttemptId \ {cp.id} :
          IsActive(a)' => IsActive(a) /\ entries'[a] = entries[a]
  BY <1>7 DEF IsActive
<1> QED
  BY <1>1, <1>4, <1>5, <1>7, <1>8, <1>9, RecordStep

(***************************************************************************)
(* The inductive invariant of the command log holds, whatever ids callers  *)
(* choose.                                                                 *)
(***************************************************************************)
THEOREM CommandInvariant == CommandSpec => []CommandInv
<1>1. CommandInit => CommandInv
  BY DEF CommandInit, StoreInit, CommandInv, StoreInv, TypeOK, Replayable, EntryInv,
         OneActiveReview, ReviewsFollowDemonstration, RestartLineage, Known, NoEntry
<1>2. CommandInv /\ [CommandNext]_commandVars => CommandInv'
  <2> SUFFICES ASSUME CommandInv, [CommandNext]_commandVars PROVE CommandInv'
    OBVIOUS
  <2>1. CASE CommandNext
    BY <2>1, StartCommand, StepCommand, CompleteCommands, RestartCommands DEF CommandNext
  <2>2. CASE UNCHANGED commandVars
    <3>1. UNCHANGED <<storeVars, entries, order, lastAt, replayable, recorded>>
      BY <2>2 DEF commandVars, storeVars
    <3>2. StoreInv'
      BY <3>1 DEF CommandInv, StoreInv, TypeOK, Replayable, EntryInv, OneActiveReview,
                  ReviewsFollowDemonstration, RestartLineage, Known, WellFormedEntry,
                  IsReviewSource, IsDemonstration, Replaces
    <3> QED
      BY <3>1, <3>2 DEF CommandInv, RecordStands, Known, IsActive
  <2> QED
    BY <2>1, <2>2
<1> QED
  BY <1>1, <1>2, PTL DEF CommandSpec

(***************************************************************************)
(* A legal new step never has the checkpoint of an earlier event, so its   *)
(* default command id is never answered as a repeat.                       *)
(***************************************************************************)
THEOREM NewStepsAreNew == CommandSpec => []StepsNeverRecur
<1>1. CommandInv => StepsNeverRecur
  <2> SUFFICES ASSUME CommandInv, NEW event \in recorded, IsActive(event.cp.id),
                      MayStep(event.cp, entries[event.cp.id].cp)
               PROVE  FALSE
    BY DEF StepsNeverRecur
  <2>1. /\ event.cp \in Checkpoint /\ event.cp.id \in AttemptId
        /\ NotAfter(event.cp, entries[event.cp.id].cp)
    BY CheckpointTypes DEF CommandInv, RecordStands
  <2>2. entries[event.cp.id].cp \in Checkpoint
    BY <2>1, ActiveCheckpoint DEF CommandInv
  <2>3. Before(entries[event.cp.id].cp, event.cp)
    BY <2>1, <2>2, TransitionsProgress DEF MayStep
  <2> QED
    BY <2>1, <2>2, <2>3, NoReturn
<1> QED
  BY <1>1, CommandInvariant, PTL

-----------------------------------------------------------------------------
(***************************************************************************)
(* Command ids add look-ups and take nothing away: every command is a call *)
(* that the store allows, so what is proved of the store holds with them.  *)
(***************************************************************************)
THEOREM CommandsAreCalls == CommandSpec => StoreSpec
<1>1. CommandInit => StoreInit
  BY DEF CommandInit
<1>2. [CommandNext]_commandVars => [StoreNext]_storeVars
  <2>1. CommandStart => ClientStart
    BY DEF CommandStart, ClientStart
  <2>2. CommandStep => ClientStep
    BY DEF CommandStep, ClientStep
  <2>3. CommandComplete => ClientComplete
    BY DEF CommandComplete, ClientComplete
  <2>4. CommandRestart => ClientRestart
    BY DEF CommandRestart, ClientRestart
  <2>5. UNCHANGED commandVars => UNCHANGED storeVars
    BY DEF commandVars
  <2> QED
    BY <2>1, <2>2, <2>3, <2>4, <2>5 DEF CommandNext, StoreNext
<1> QED
  BY <1>1, <1>2, PTL DEF CommandSpec, StoreSpec

\* With command ids, too, the stream stays readable and the history permanent.
THEOREM CommandsKeepHistory ==
    CommandSpec => []Replayable /\ []OneActiveReview /\ HistoryIsImmutable
BY CommandsAreCalls, AlwaysReplayable, AtMostOneActiveReview, HistoryNeverChanges, PTL
=============================================================================
