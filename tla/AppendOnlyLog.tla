---------------------------- MODULE AppendOnlyLog ----------------------------
(***************************************************************************)
(* What the learner event directory promises its users (docs/              *)
(* resume-and-review.md): a history that only grows, in which a command is *)
(* recorded at most once however often it is retried; of which a caller    *)
(* who was told "saved" finds the event again; and from which only a host  *)
(* power loss takes anything, and then only a suffix none of whose events  *)
(* was confirmed synced to its caller.                                     *)
(***************************************************************************)
EXTENDS Sequences, Naturals

CONSTANT Commands

VARIABLES
    log,        \* the commands recorded, in order
    told,       \* the commands some caller was told are saved
    lasting     \* those of them confirmed to survive a power loss

logVars == <<log, told, lasting>>

Recorded(chain) == {chain[i] : i \in 1..Len(chain)}

LogInit ==
    /\ log = <<>>
    /\ told = {}
    /\ lasting = {}

Extend(c) ==
    /\ c \notin Recorded(log)
    /\ log' = Append(log, c)
    /\ UNCHANGED <<told, lasting>>

Tell(c) ==
    /\ c \in Recorded(log)
    /\ told' = told \cup {c}
    /\ lasting' \in {lasting, lasting \cup {c}}
    /\ UNCHANGED log

LoseSuffix ==
    /\ \E n \in 0..Len(log) : log' = SubSeq(log, 1, n)
    /\ lasting \subseteq Recorded(log')
    /\ told' = told \cap Recorded(log')
    /\ UNCHANGED lasting

LogNext == (\E c \in Commands : Extend(c) \/ Tell(c)) \/ LoseSuffix

LogSpec == LogInit /\ [][LogNext]_logVars

-----------------------------------------------------------------------------
(***************************************************************************)
(* Whoever was told that a command is saved finds it in the log, and what  *)
(* is confirmed to last is among what was told.                            *)
(***************************************************************************)
ToldIsRecorded ==
    /\ lasting \subseteq told
    /\ told \subseteq Recorded(log)
=============================================================================
