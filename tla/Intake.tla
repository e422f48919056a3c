------------------------------- MODULE Intake -------------------------------
(***************************************************************************)
(* Capture of source material and staging of what it proposes              *)
(* (storage.py, staging.py, compiler.py, codex_import.py, the capture      *)
(* command): commands run side by side in processes that share one home    *)
(* and no lock; each may fail or be killed at any point and be run again.  *)
(*                                                                         *)
(* A source stands for its type, id and retrieval scope.  Intakes and      *)
(* updates are named by digests: an intake's name is its key, an update is *)
(* its content, so two files of one name cannot differ and the collision   *)
(* errors of capture() and stage() never arise.  The claims are a function *)
(* of the content and the intake's name and are left out.  Directories     *)
(* under construction have names of their own that nobody reads.           *)
(***************************************************************************)
EXTENDS Naturals, FiniteSets

CONSTANTS
    Processes,      \* running commands
    Sources,        \* what can be captured
    Scoped,         \* the sources with a retrieval scope: codex-import's
    Contents,       \* texts
    Malformed,      \* the texts with a claim of an unknown status
    Times,          \* observation times
    Packs,          \* pack ids of the matching profiles
    Materials       \* what commands are run on, as the manifest of each

CONSTANTS
    Matched,        \* the packs that share two terms or more with a text
    NoTime, NoPack, NoManifest

ASSUME SourcesAssumption == Scoped \subseteq Sources
ASSUME ContentsAssumption == Malformed \subseteq Contents
ASSUME MatchedAssumption == Matched \in [Contents -> SUBSET Packs]
ASSUME MaterialsAssumption ==
    Materials \subseteq [source : Sources, content : Contents, observed : Times]
ASSUME NamesAssumption ==
    NoPack \notin Packs /\ NoTime \notin Times /\ NoManifest \notin Materials

VARIABLES
    inbox,          \* the manifest of each intake directory, if it exists
    staged,         \* the staged Pack Updates
    job             \* what each process is doing

intakeVars == <<inbox, staged, job>>

-----------------------------------------------------------------------------
IntakeKey == [source : Sources, content : Contents, observed : Times \cup {NoTime}]

\* the observation time is part of the name only under a retrieval scope
Key(m) ==
    [source |-> m.source, content |-> m.content,
     observed |-> IF m.source \in Scoped THEN m.observed ELSE NoTime]

\* capture has no mode, no selection and no scope; codex-import has them all
Request ==
    [material : {m \in Materials : m.source \notin Scoped},
     mode : {"capture"}, selected : {NoPack}]
    \cup [material : {m \in Materials : m.source \in Scoped},
          mode : {"capture", "learn"}, selected : Packs \cup {NoPack}]

-----------------------------------------------------------------------------
(***************************************************************************)
(* propose_pack_match, select_pack_match and compile_update                *)
(***************************************************************************)
ProposedMatch(content) ==
    [candidates |-> Matched[content],
     kind |-> CASE Cardinality(Matched[content]) = 0 -> "new_pack"
                [] Cardinality(Matched[content]) = 1 -> "strong"
                [] OTHER -> "ambiguous"]

Match(r) ==
    IF r.selected = NoPack THEN ProposedMatch(r.material.content)
    ELSE [candidates |-> {r.selected}, kind |-> "selected"]

\* Mutant: the update is compiled from what was asked, not what is stored.
CompiledAsAsked(r, manifest) ==
    [intake |-> Key(manifest), observed |-> r.material.observed, match |-> Match(r)]

Compiled(r, manifest) ==
    [intake |-> Key(manifest), observed |-> manifest.observed, match |-> Match(r)]

\* Mutant: the first candidate is as good as any.
AnyPack(r) ==
    IF r.selected # NoPack THEN r.selected
    ELSE IF Matched[r.material.content] = {} THEN NoPack
    ELSE CHOOSE p \in Packs : p \in Matched[r.material.content]

\* _selected_pack: the learner's choice, or the only candidate
SelectedPack(r) ==
    IF r.selected # NoPack THEN r.selected
    ELSE IF \E p \in Packs : Matched[r.material.content] = {p}
    THEN CHOOSE p \in Packs : Matched[r.material.content] = {p}
    ELSE NoPack

-----------------------------------------------------------------------------
IntakeInit ==
    /\ inbox = [k \in IntakeKey |-> NoManifest]
    /\ staged = {}
    /\ job = [p \in Processes |-> [phase |-> "ended"]]

Ended(p) == job[p].phase \in {"ended", "refused", "answered"}

\* Everything that can be refused is refused before anything is written.
Acceptable(r) ==
    /\ r.material.content \notin Malformed
    /\ r.selected # NoPack => r.selected \in Matched[r.material.content]

Submit(p) ==
    /\ Ended(p)
    /\ \E r \in Request :
           job' = [job EXCEPT ![p] =
               IF Acceptable(r) THEN [phase |-> "accepted", request |-> r]
                                ELSE [phase |-> "refused"]]
    /\ UNCHANGED <<inbox, staged>>

\* the rest of the command works with the manifest capture() returns
Captured(p, manifest) ==
    job' = [job EXCEPT ![p] =
        [phase |-> "captured", request |-> job[p].request, manifest |-> manifest]]

Material(p) == job[p].request.material

\* Mutant: the manifest is read whether or not the directory exists.
FindIntakeBlindly(p) ==
    /\ job[p].phase = "accepted"
    /\ Captured(p, inbox[Key(Material(p))])
    /\ UNCHANGED <<inbox, staged>>

\* the directory exists: capture() answers with the manifest in it
FindIntake(p) ==
    /\ job[p].phase = "accepted"
    /\ inbox[Key(Material(p))] # NoManifest
    /\ Captured(p, inbox[Key(Material(p))])
    /\ UNCHANGED <<inbox, staged>>

\* raw.bin and manifest.json are written into a directory of its own
Prepare(p) ==
    /\ job[p].phase = "accepted"
    /\ inbox[Key(Material(p))] = NoManifest
    /\ job' = [job EXCEPT ![p].phase = "prepared"]
    /\ UNCHANGED <<inbox, staged>>

\* Mutant: the directory replaces one of the same name.
RenameOver(p) ==
    /\ job[p].phase = "prepared"
    /\ inbox' = [inbox EXCEPT ![Key(Material(p))] = Material(p)]
    /\ Captured(p, Material(p))
    /\ UNCHANGED staged

\* staging.rename(destination): fails on a directory that is not empty
RenameWins(p) ==
    /\ job[p].phase = "prepared"
    /\ inbox[Key(Material(p))] = NoManifest
    /\ inbox' = [inbox EXCEPT ![Key(Material(p))] = Material(p)]
    /\ Captured(p, Material(p))
    /\ UNCHANGED staged

\* the winner's manifest is read; the loser's own directory stays behind
RenameLoses(p) ==
    /\ job[p].phase = "prepared"
    /\ inbox[Key(Material(p))] # NoManifest
    /\ Captured(p, inbox[Key(Material(p))])
    /\ UNCHANGED <<inbox, staged>>

\* stage(): an update that exists is answered, otherwise the file is written
\* later, without a lock, over whatever has appeared meanwhile.
Update(p) == Compiled(job[p].request, job[p].manifest)

FindUpdate(p) ==
    /\ job[p].phase = "captured"
    /\ job' = [job EXCEPT ![p].phase = IF Update(p) \in staged THEN "staged"
                                                               ELSE "staging"]
    /\ UNCHANGED <<inbox, staged>>

WriteUpdate(p) ==
    /\ job[p].phase = "staging"
    /\ staged' = staged \cup {Update(p)}
    /\ job' = [job EXCEPT ![p].phase = "staged"]
    /\ UNCHANGED inbox

\* The capture command always says "staged".  run(): open_or_resume may find no
\* single lesson, several active attempts, or a history it cannot read.
Outcomes(r) ==
    IF r.mode = "learn" /\ SelectedPack(r) # NoPack
    THEN {"learning_ready", "learning_incomplete"}
    ELSE IF Match(r).kind = "ambiguous" /\ r.material.source \in Scoped
    THEN {"learner_choice_required"}
    ELSE IF r.mode = "learn" THEN {"learning_incomplete"}
    ELSE {"staged"}

Answer(p) ==
    /\ job[p].phase = "staged"
    /\ \E status \in Outcomes(job[p].request) :
           job' = [job EXCEPT ![p] =
               [phase |-> "answered", request |-> job[p].request,
                status |-> status, update |-> Update(p),
                pack |-> IF status = "learning_ready"
                         THEN SelectedPack(job[p].request) ELSE NoPack]]
    /\ UNCHANGED <<inbox, staged>>

\* Mutant: the failure removes the destination, not the directory in work.
EndRemoving(p) ==
    /\ ~Ended(p)
    /\ job' = [job EXCEPT ![p] = [phase |-> "ended"]]
    /\ inbox' = IF job[p].phase = "prepared"
                THEN [inbox EXCEPT ![Key(Material(p))] = NoManifest]
                ELSE inbox
    /\ UNCHANGED staged

\* The process is killed, a write fails, or the answer is lost.  What is left
\* in a directory in work, removed or not, is never read.
End(p) ==
    /\ ~Ended(p)
    /\ job' = [job EXCEPT ![p] = [phase |-> "ended"]]
    /\ UNCHANGED <<inbox, staged>>

IntakeNext ==
    \E p \in Processes :
        \/ Submit(p) \/ FindIntake(p) \/ Prepare(p) \/ RenameWins(p)
        \/ RenameLoses(p) \/ FindUpdate(p) \/ WriteUpdate(p) \/ Answer(p)
        \/ End(p)

IntakeSpec == IntakeInit /\ [][IntakeNext]_intakeVars

-----------------------------------------------------------------------------
Matches == [candidates : SUBSET Packs,
            kind : {"new_pack", "strong", "ambiguous", "selected"}]

PackUpdate == [intake : IntakeKey, observed : Times, match : Matches]

Job ==
    [phase : {"ended", "refused"}]
    \cup [phase : {"accepted", "prepared"}, request : Request]
    \cup [phase : {"captured", "staging", "staged"}, request : Request,
          manifest : Materials]
    \cup [phase : {"answered"}, request : Request, update : PackUpdate,
          status : {"staged", "learner_choice_required", "learning_incomplete",
                    "learning_ready"},
          pack : Packs \cup {NoPack}]

(***************************************************************************)
(* The types of the variables: no command ever works with a manifest that  *)
(* is not there.                                                           *)
(***************************************************************************)
IntakeTypeOK ==
    /\ inbox \in [IntakeKey -> Materials \cup {NoManifest}]
    /\ staged \subseteq PackUpdate
    /\ job \in [Processes -> Job]

(***************************************************************************)
(* "Running the same command again returns the same result and creates no  *)
(* duplicate intake or proposal" (docs/capture-mode.md): an intake has one *)
(* proposal for each match, whenever its commands ran, whichever of them   *)
(* raced or died, and although the capture command stamps every run with   *)
(* another time.                                                           *)
(***************************************************************************)
NoDuplicateProposals ==
    \A u, v \in staged : u.intake = v.intake /\ u.match = v.match => u = v

(***************************************************************************)
(* Provenance: every staged update names an intake that is in the inbox,   *)
(* and says of it what its manifest says; its destinations are packs the   *)
(* text matches.                                                           *)
(***************************************************************************)
ProposalsHaveIntakes ==
    \A u \in staged :
        /\ inbox[u.intake] # NoManifest
        /\ inbox[u.intake].observed = u.observed
        /\ u.match.candidates \subseteq Matched[inbox[u.intake].content]

(***************************************************************************)
(* "The Intake Bundle and staged Pack Update remain available": no step    *)
(* changes or removes an intake or a proposal, those of failing commands   *)
(* included.                                                               *)
(***************************************************************************)
ArtifactsRemain ==
    [][/\ \A k \in IntakeKey : inbox[k] # NoManifest => inbox'[k] = inbox[k]
       /\ staged \subseteq staged']_intakeVars

(***************************************************************************)
(* "It never chooses silently" (docs/codex-import.md): a command that      *)
(* sends the learner to a pack has staged a proposal whose one candidate   *)
(* is that pack, and a text that matches several packs went there only     *)
(* because the learner named it.                                           *)
(***************************************************************************)
NeverChoosesSilently ==
    \A p \in Processes :
        job[p].phase = "answered" /\ job[p].pack # NoPack =>
            /\ job[p].update \in staged
            /\ job[p].update.match.candidates = {job[p].pack}
            /\ Cardinality(Matched[job[p].update.intake.content]) > 1 =>
                   job[p].request.selected = job[p].pack
=============================================================================
