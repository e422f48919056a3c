----------------------------- MODULE EventFiles -----------------------------
(***************************************************************************)
(* The directory private/learner-state/events/: how EventAttemptStore puts *)
(* one event on disk (_append, _BoundDirectory.atomic_create) under the    *)
(* exclusive advisory lock on the directory, and how a reader without the  *)
(* lock (EventAttemptHistoryReader) lists it meanwhile.  Processes may be  *)
(* killed and the host may lose power between any two steps.               *)
(*                                                                         *)
(* An event's digest covers its predecessor's digest, and its file name    *)
(* its sequence number and its digest: so an event, its file and its name  *)
(* are here the chain of all commands up to and including its own.         *)
(* Temporary files have random names and every reader skips them; they are *)
(* left out.                                                               *)
(***************************************************************************)
EXTENDS Sequences, Naturals, FiniteSets

CONSTANTS
    Processes,      \* processes that open the store (opslearn serve)
    Threads,        \* request threads of each of them
    Readers,        \* read-only projections (opslearn capture and learn)
    Commands        \* commands callers issue, each as often as they like

VARIABLES
    files,          \* events visible in the directory
    durable,        \* those whose directory entry has reached the disk
    opened,         \* processes holding the advisory lock
    call,           \* what each thread of each process is doing
    reader,         \* what each reader is doing
    told,           \* commands a caller was told are saved ...
    lasting         \* ... after a directory sync

fileVars == <<files, durable, opened, call, reader, told, lasting>>

Idle == [phase |-> "idle"]
NotReading == [phase |-> "idle"]

FilesInit ==
    /\ files = {}
    /\ durable = {}
    /\ opened = {}
    /\ call = [p \in Processes |-> [t \in Threads |-> Idle]]
    /\ reader = [r \in Readers |-> NotReading]
    /\ told = {}
    /\ lasting = {}

-----------------------------------------------------------------------------
(***************************************************************************)
(* _read_event_snapshot.  Sorted, the names must number 1, 2, 3 ..., each  *)
(* event must name its predecessor's digest, and no command recur.         *)
(***************************************************************************)
CommandsOf(chain) == {chain[i] : i \in 1..Len(chain)}

\* Mutant: the reader takes an event wherever it stands in the list, whatever
\* its number and its predecessor.
LinkedPairwise(names) ==
    /\ \A e, f \in names : Len(e) = Len(f) => e = f
    /\ \A e \in names : Cardinality(CommandsOf(e)) = Len(e)

Valid(names) ==
    /\ {Len(e) : e \in names} = 1..Cardinality(names)
    /\ \A e, f \in names :
           Len(f) = Len(e) + 1 => e = SubSeq(f, 1, Len(e))
    /\ \A e \in names : Cardinality(CommandsOf(e)) = Len(e)

\* the chain a valid directory holds
History(names) ==
    IF names = {} THEN <<>>
    ELSE CHOOSE e \in names : \A f \in names : Len(f) <= Len(e)

-----------------------------------------------------------------------------
(***************************************************************************)
(* The writers.  Open takes the lock without waiting and raises if it is   *)
(* held; the operating system releases it with the process.                *)
(***************************************************************************)

\* Mutant: each process locks a file of its own.
OpenAnyway(p) ==
    /\ p \notin opened
    /\ opened' = opened \cup {p}
    /\ UNCHANGED <<files, durable, call, reader, told, lasting>>

Open(p) ==
    /\ opened = {}
    /\ opened' = {p}
    /\ UNCHANGED <<files, durable, call, reader, told, lasting>>

Quiet(p) == \A t \in Threads : call[p][t] = Idle

Close(p) ==
    /\ p \in opened
    /\ Quiet(p)
    /\ opened' = opened \ {p}
    /\ UNCHANGED <<files, durable, call, reader, told, lasting>>

\* The store's RLock admits one call of a process at a time.
MayCall(p) == p \in opened /\ Quiet(p) /\ Valid(files)

\* A command found in the history is answered from it.
Repeat(p, c) ==
    /\ MayCall(p)
    /\ c \in CommandsOf(History(files))
    /\ told' = told \cup {c}
    /\ UNCHANGED <<files, durable, opened, call, reader, lasting>>

\* Any other is given the next sequence number and written to a temporary file.
Prepare(p, t, c) ==
    /\ MayCall(p)
    /\ c \notin CommandsOf(History(files))
    /\ call' = [call EXCEPT ![p][t] =
                   [phase |-> "prepared", event |-> Append(History(files), c)]]
    /\ UNCHANGED <<files, durable, opened, reader, told, lasting>>

\* os.link makes the event visible; an existing name is an error.
Link(p, t) ==
    /\ call[p][t].phase = "prepared"
    /\ IF call[p][t].event \in files
       THEN /\ call' = [call EXCEPT ![p][t] = Idle]
            /\ UNCHANGED files
       ELSE /\ call' = [call EXCEPT ![p][t].phase = "linked"]
            /\ files' = files \cup {call[p][t].event}
    /\ UNCHANGED <<durable, opened, reader, told, lasting>>

\* Mutant: the sync of the directory is taken for granted.
SyncAssumed(p, t) ==
    /\ call[p][t].phase = "linked"
    /\ call' = [call EXCEPT ![p][t] = [phase |-> "synced", event |-> call[p][t].event,
                                       confirmed |-> TRUE]]
    /\ UNCHANGED <<files, durable, opened, reader, told, lasting>>

\* _sync_directory: fsync of the directory, which the host may not support.
Sync(p, t) ==
    /\ call[p][t].phase = "linked"
    /\ \E works \in BOOLEAN :
           /\ call' = [call EXCEPT ![p][t] =
                          [phase |-> "synced", event |-> call[p][t].event,
                           confirmed |-> works]]
           /\ durable' = IF works THEN files ELSE durable
    /\ UNCHANGED <<files, opened, reader, told, lasting>>

\* The exact bytes are read back, and the caller is told.
Answer(p, t) ==
    LET c == call[p][t].event[Len(call[p][t].event)] IN
    /\ call[p][t].phase = "synced"
    /\ call[p][t].event \in files
    /\ told' = told \cup {c}
    /\ lasting' = IF call[p][t].confirmed THEN lasting \cup {c} ELSE lasting
    /\ call' = [call EXCEPT ![p][t] = Idle]
    /\ UNCHANGED <<files, durable, opened, reader>>

\* Writing, syncing or unlinking the temporary file, or reading back, fails.
Fail(p, t) ==
    /\ call[p][t].phase \in {"prepared", "synced"}
    /\ call' = [call EXCEPT ![p][t] = Idle]
    /\ UNCHANGED <<files, durable, opened, reader, told, lasting>>

-----------------------------------------------------------------------------
(***************************************************************************)
(* A reader.  os.listdir is not atomic: a name that appears while it runs  *)
(* may be listed or not, whatever becomes of other names (POSIX readdir).  *)
(***************************************************************************)
StartListing(r) ==
    /\ reader[r].phase # "listing"
    /\ reader' = [reader EXCEPT ![r] = [phase |-> "listing", present |-> files]]
    /\ UNCHANGED <<files, durable, opened, call, told, lasting>>

FinishListing(r) ==
    /\ reader[r].phase = "listing"
    /\ \E late \in SUBSET (files \ reader[r].present) :
           LET names == reader[r].present \cup late IN
           reader' = [reader EXCEPT ![r] =
                         IF Valid(names)
                         THEN [phase |-> "read", events |-> names]
                         ELSE [phase |-> "refused"]]
    /\ UNCHANGED <<files, durable, opened, call, told, lasting>>

-----------------------------------------------------------------------------
(***************************************************************************)
(* Failures.  A killed process leaves what is on disk.  A power loss keeps *)
(* what was synced, and of the later directory entries those the file      *)
(* system happened to write, in the order they were made.                  *)
(***************************************************************************)
Kill(p) ==
    /\ p \in opened
    /\ opened' = opened \ {p}
    /\ call' = [call EXCEPT ![p] = [t \in Threads |-> Idle]]
    /\ UNCHANGED <<files, durable, reader, told, lasting>>

PowerLoss ==
    \E length \in 0..Cardinality(files) :
        LET left == durable \cup {e \in files : Len(e) <= length} IN
        /\ files' = left
        /\ durable' = left
        /\ opened' = {}
        /\ call' = [p \in Processes |-> [t \in Threads |-> Idle]]
        /\ reader' = [r \in Readers |-> NotReading]
        /\ told' = told \cap CommandsOf(History(left))
        /\ UNCHANGED lasting

FilesNext ==
    \/ \E p \in Processes :
          \/ Open(p) \/ Close(p) \/ Kill(p)
          \/ \E c \in Commands : Repeat(p, c)
          \/ \E t \in Threads :
                \/ \E c \in Commands : Prepare(p, t, c)
                \/ Link(p, t) \/ Sync(p, t) \/ Answer(p, t) \/ Fail(p, t)
    \/ \E r \in Readers : StartListing(r) \/ FinishListing(r)
    \/ PowerLoss

FilesSpec == FilesInit /\ [][FilesNext]_fileVars

-----------------------------------------------------------------------------
(***************************************************************************)
(* However processes, threads, kills and power losses interleave, what is  *)
(* in the directory is one gap-free chain: _read_event_snapshot never      *)
(* fails closed on what the program itself wrote.                          *)
(***************************************************************************)
DirectoryIsValid == Valid(files)

(***************************************************************************)
(* A reader that accepts a listing has the beginning of the history, with  *)
(* no event missing before its end.                                        *)
(***************************************************************************)
ReadersSeePrefixes ==
    \A r \in Readers : reader[r].phase = "read" =>
        reader[r].events = {SubSeq(History(files), 1, n) :
                               n \in 1..Cardinality(reader[r].events)}

(***************************************************************************)
(* "a concurrent event is either fully present in that snapshot or         *)
(* considered on the next read" (docs/resume-and-review.md): a reader      *)
(* beside a writer never refuses the history.                              *)
(***************************************************************************)
ReadersNeverRefuse == \A r \in Readers : reader[r].phase # "refused"

(***************************************************************************)
(* The directory implements the append-only log: retried commands are      *)
(* recorded once, what a caller was told stays, and a power loss takes at  *)
(* most a suffix that was never confirmed synced.                          *)
(***************************************************************************)
Log == INSTANCE AppendOnlyLog WITH log <- History(files)

ImplementsLog == Log!LogSpec
=============================================================================
