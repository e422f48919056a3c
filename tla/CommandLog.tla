----------------------------- MODULE CommandLog -----------------------------
(***************************************************************************)
(* Command ids of EventAttemptStore: save, complete and restart look the   *)
(* command up among the recorded events before they look at anything else. *)
(* A command found there is a repeat: it returns its checkpoint if that is *)
(* the recorded one, raises if not, and appends nothing either way.        *)
(*                                                                         *)
(* A caller may choose the command id; every caller in the program leaves  *)
(* it to _command_id, a digest of the operation and its checkpoint.  Of    *)
(* every event, "recorded" keeps the command id and the checkpoint.        *)
(***************************************************************************)
EXTENDS LearnerStore

CONSTANT Keys       \* command ids that callers choose themselves

VARIABLE recorded   \* [id, cp] of every event

commandVars == <<storeVars, recorded>>

SaveCommand(cp) == <<"save", cp>>
CompleteCommand(cp, qualifies) == <<"complete", cp, qualifies>>
RestartCommand(expected, cp) == <<"restart", expected, cp>>

\* _command_event finds none
Unused(cmd) == \A event \in recorded : event.id # cmd

Record(cmd, cp) ==
    /\ Unused(cmd)
    /\ recorded' = recorded \cup {[id |-> cmd, cp |-> cp]}

CommandStart ==
    \E cp \in Checkpoint, kind \in Kinds, source \in MaybeAttempt :
        /\ SaveStart(cp, NoCheckpoint, kind, source)
        /\ \E cmd \in Keys \cup {SaveCommand(cp)} : Record(cmd, cp)

CommandStep ==
    \E expected \in Held :
        \E cp \in Checkpoint :
            /\ SaveStep(cp, expected)
            /\ \E cmd \in Keys \cup {SaveCommand(cp)} : Record(cmd, cp)

CommandComplete ==
    \E expected \in Held, qualifies \in BOOLEAN :
        \E cp \in Checkpoint :
            /\ Complete(cp, expected, qualifies)
            /\ \E cmd \in Keys \cup {CompleteCommand(cp, qualifies)} :
                   Record(cmd, cp)

CommandRestart ==
    \E expected \in Held, cp \in Checkpoint :
        /\ Restart(expected.id, cp, expected)
        /\ \E cmd \in Keys \cup {RestartCommand(expected, cp)} : Record(cmd, cp)

CommandInit == StoreInit /\ recorded = {}

CommandNext ==
    CommandStart \/ CommandStep \/ CommandComplete \/ CommandRestart

CommandSpec == CommandInit /\ [][CommandNext]_commandVars

-----------------------------------------------------------------------------
(***************************************************************************)
(* A new step is never mistaken for the repeat of an old one.  The default *)
(* command of a step is a digest of the checkpoint it saves, so a step     *)
(* that led back to an earlier checkpoint of its attempt would be answered *)
(* with success and dropped.  Scenario resets lead back to the Try step;   *)
(* the growing action history keeps each return distinct.                  *)
(***************************************************************************)
StepsNeverRecur ==
    \A event \in recorded :
        LET cp == event.cp IN
        IsActive(cp.id) => ~MayStep(cp, entries[cp.id].cp)
=============================================================================
