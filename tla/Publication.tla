----------------------------- MODULE Publication -----------------------------
(***************************************************************************)
(* From the accepted Codex ETL pack to a standalone export: a learning     *)
(* session saves the bundle it teaches from, `export-approve` binds one    *)
(* stored bundle to the pack as it is, `export` commits an approved bundle *)
(* as one HTML file.  Each is a command of its own process; promotions     *)
(* happen in between, commands are killed, and the host may lose power.    *)
(*                                                                         *)
(* A pack's content is its list of promotions (module AcceptedPacks), from *)
(* which version, claims and digest follow; each promotion accepts at most *)
(* one claim here.  A bundle, its approval and its artifact are functions  *)
(* of the content they are made from and are named by it.                  *)
(***************************************************************************)
EXTENDS Naturals, Sequences, FiniteSets

CONSTANTS
    Updates,        \* staged Pack Updates of the pack
    Claims,         \* statuses of the claim a promotion accepts, "none" to reject
    Commands,       \* command line processes and request threads
    MaxBundles,     \* bound on the bundles stored at a time
    MaxLosses       \* bound on power losses

ASSUME ClaimsAssumption == Claims \subseteq {"current", "unverified", "none"}
ASSUME MaxLossesAssumption == MaxLosses \in Nat

VARIABLES
    accepted,       \* content of the accepted pack, or NoPack
    mayReturn,      \* contents that may be on disk: those since the last sync
    made,           \* directories that exist
    stored,         \* per store, the files that are visible
    synced,         \* per store, the files whose directory entry is on disk
    command,        \* what each command is doing
    approved,       \* approvals on disk that a command has answered
    losses          \* power losses so far

vars == <<accepted, mayReturn, made, stored, synced, command, approved, losses>>

Stores == {"bundles", "approvals", "exports"}
Directories == Stores \cup {"pack"}

NoPack == <<>>
Idle == [step |-> "idle"]

\* initialize() makes exports/ before the marker's write syncs the home; the
\* other directories are made later and their own entries never synced.
Rooted == {"exports"}

PublicationInit ==
    /\ accepted = NoPack
    /\ mayReturn = {NoPack}
    /\ made = Rooted
    /\ stored = [s \in Stores |-> {}]
    /\ synced = [s \in Stores |-> {}]
    /\ command = [c \in Commands |-> Idle]
    /\ approved = {}
    /\ losses = 0

-----------------------------------------------------------------------------
(***************************************************************************)
(* Contents.  Position i holds the i-th promotion; a claim is current      *)
(* until a later one supersedes or contradicts it.                         *)
(***************************************************************************)
Promotions(content) ==
    [update : Updates, claim : Claims, target : 0..Len(content)]

IsCurrent(content, i) ==
    /\ content[i].claim = "current"
    /\ \A j \in DOMAIN content : content[j].target # i

\* build_codex_etl_bundle needs a current claim to teach.
Teachable(content) == \E i \in DOMAIN content : IsCurrent(content, i)

Used(content) == {content[i].update : i \in DOMAIN content}

\* A promotion; it is visible even if the directory could not be synced.
Promote ==
    \E p \in Promotions(accepted) :
        /\ p.update \notin Used(accepted)
        /\ p.claim = "none" => p.target = 0
        /\ p.target # 0 => accepted[p.target].claim # "none"
        /\ accepted' = Append(accepted, p)
        /\ \E syncs \in BOOLEAN :
               mayReturn' = {accepted'} \cup IF syncs THEN {} ELSE mayReturn
        /\ made' = made \cup {"pack"}
        /\ command' = [c \in Commands |->
               IF command[c].step = "check"
               THEN [command[c] EXCEPT !.wasCurrent = @ \/ command[c].content = accepted']
               ELSE command[c]]
        /\ UNCHANGED <<stored, synced, approved, losses>>

-----------------------------------------------------------------------------
Step(c, step) == command' = [command EXCEPT ![c].step = step]
End(c) == command' = [command EXCEPT ![c] = Idle]
Start(c, r) == command[c] = Idle /\ command' = [command EXCEPT ![c] = r]

\* Visible, and on disk with all else the directory shows if it is synced; a
\* command that dies between the two leaves the file visible and unsynced.
Put(s, content, syncs) ==
    /\ stored' = [stored EXCEPT ![s] = @ \cup {content}]
    /\ synced' = IF syncs THEN [synced EXCEPT ![s] = stored'[s]] ELSE synced
    /\ made' = made \cup {s}

(***************************************************************************)
(* BundleRepository.save, and ExportRepository.commit: a file that is      *)
(* there already is returned as it is; a new one is renamed into place     *)
(* and the directory synced.  If that sync fails the file is re-read, and  *)
(* it is there.                                                            *)
(***************************************************************************)
Replace(s, content) ==
    \/ content \in stored[s] /\ UNCHANGED <<made, stored, synced>>
    \/ content \notin stored[s] /\ \E syncs \in BOOLEAN : Put(s, content, syncs)

\* Mutant: a bundle is built of any pack that has a promotion.
BeginTeachingAnyway(c) ==
    /\ accepted # NoPack
    /\ Cardinality(stored["bundles"] \cup {accepted}) <= MaxBundles
    /\ Start(c, [op |-> "start", step |-> "save", content |-> accepted])
    /\ UNCHANGED <<accepted, mayReturn, made, stored, synced, approved, losses>>

\* LearningService._start_from_bundle: the pack is read and its bundle built
BeginTeaching(c) ==
    /\ Teachable(accepted)
    /\ Cardinality(stored["bundles"] \cup {accepted}) <= MaxBundles
    /\ Start(c, [op |-> "start", step |-> "save", content |-> accepted])
    /\ UNCHANGED <<accepted, mayReturn, made, stored, synced, approved, losses>>

SaveBundle(c) ==
    /\ command[c].step = "save"
    /\ Replace("bundles", command[c].content)
    /\ End(c)
    /\ UNCHANGED <<accepted, mayReturn, approved, losses>>

-----------------------------------------------------------------------------
(***************************************************************************)
(* export-approve reads the bundle, then the pack, and creates the         *)
(* approval; a file that is there already is the same one.  Both ways the  *)
(* directory is synced before the answer.                                  *)
(***************************************************************************)
BeginApprove(c) ==
    /\ \E content \in stored["bundles"] :
           Start(c, [op |-> "approve", step |-> "check", content |-> content,
                     wasCurrent |-> content = accepted])
    /\ UNCHANGED <<accepted, mayReturn, made, stored, synced, approved, losses>>

\* Mutant: require_snapshot compares only the pack and its version.
MatchesVersion(content) == accepted # NoPack /\ Len(content) = Len(accepted)

\* accepted_snapshot needs a pack; require_snapshot the very same content.
RequireSnapshot(content) == accepted # NoPack /\ content = accepted

CheckApproval(c) ==
    /\ command[c].step = "check"
    /\ IF RequireSnapshot(command[c].content) THEN Step(c, "create") ELSE End(c)
    /\ UNCHANGED <<accepted, mayReturn, made, stored, synced, approved, losses>>

\* Mutant: an approval that is there already is answered at once, as a
\* bundle is.
CreateApprovalOnce(c) ==
    /\ command[c].step = "create"
    /\ Replace("approvals", command[c].content)
    /\ approved' = IF command[c].content \in stored["approvals"] \cup synced'["approvals"]
                   THEN approved \cup {command[c].content} ELSE approved
    /\ End(c)
    /\ UNCHANGED <<accepted, mayReturn, losses>>

CreateApproval(c) ==
    /\ command[c].step = "create"
    /\ \E syncs \in BOOLEAN :
           /\ Put("approvals", command[c].content, syncs)
           /\ approved' = IF syncs THEN approved \cup {command[c].content} ELSE approved
    /\ End(c)
    /\ UNCHANGED <<accepted, mayReturn, losses>>

-----------------------------------------------------------------------------
(***************************************************************************)
(* export reads the bundle, then its approval, then scans and renders and  *)
(* commits; a canary or the size limit ends it before the commit.          *)
(***************************************************************************)
BeginExport(c) ==
    /\ \E content \in stored["bundles"] :
           Start(c, [op |-> "export", step |-> "require", content |-> content])
    /\ UNCHANGED <<accepted, mayReturn, made, stored, synced, approved, losses>>

\* Mutant: any bundle of a version that was approved may be exported.
RequireVersionApproval(c) ==
    /\ command[c].step = "require"
    /\ IF \E content \in stored["approvals"] : Len(content) = Len(command[c].content)
       THEN Step(c, "commit") ELSE End(c)
    /\ UNCHANGED <<accepted, mayReturn, made, stored, synced, approved, losses>>

RequireApproval(c) ==
    /\ command[c].step = "require"
    /\ IF command[c].content \in stored["approvals"]
       THEN Step(c, "commit") ELSE End(c)
    /\ UNCHANGED <<accepted, mayReturn, made, stored, synced, approved, losses>>

CommitExport(c) ==
    /\ command[c].step = "commit"
    /\ Replace("exports", command[c].content)
    /\ End(c)
    /\ UNCHANGED <<accepted, mayReturn, approved, losses>>

RefuseExport(c) ==
    /\ command[c].step = "commit"
    /\ End(c)
    /\ UNCHANGED <<accepted, mayReturn, made, stored, synced, approved, losses>>

-----------------------------------------------------------------------------
\* The command is killed between two of its steps.
Kill(c) ==
    /\ command[c] # Idle
    /\ End(c)
    /\ UNCHANGED <<accepted, mayReturn, made, stored, synced, approved, losses>>

(***************************************************************************)
(* A power loss ends every command and may take each directory that is not *)
(* rooted, each entry that is not synced, and unsynced replacements of the *)
(* pack.  The files that come back are on disk.                            *)
(***************************************************************************)
PowerLoss ==
    /\ losses < MaxLosses
    /\ losses' = losses + 1
    /\ \E kept \in SUBSET made :
           /\ Rooted \subseteq kept
           /\ \E survive \in [Stores -> SUBSET UNION {stored[s] : s \in Stores}] :
                  /\ \A s \in Stores :
                         IF s \in kept
                         THEN synced[s] \subseteq survive[s] /\ survive[s] \subseteq stored[s]
                         ELSE survive[s] = {}
                  /\ stored' = survive
                  /\ synced' = survive
           /\ made' = kept
           /\ accepted' \in IF "pack" \in kept THEN mayReturn ELSE {NoPack}
    /\ mayReturn' = {accepted'}
    /\ command' = [c \in Commands |-> Idle]
    /\ approved' = approved \cap stored'["approvals"]

PublicationNext ==
    \/ Promote
    \/ \E c \in Commands :
           \/ BeginTeaching(c) \/ SaveBundle(c)
           \/ BeginApprove(c) \/ CheckApproval(c) \/ CreateApproval(c)
           \/ BeginExport(c) \/ RequireApproval(c) \/ CommitExport(c)
           \/ RefuseExport(c)
           \/ Kill(c)
    \/ PowerLoss

PublicationSpec == PublicationInit /\ [][PublicationNext]_vars

-----------------------------------------------------------------------------
(***************************************************************************)
(* Types; a stored bundle teaches a claim that its own content shows as    *)
(* current, and nothing is on disk that is not visible.                    *)
(***************************************************************************)
Contents ==
    {content \in Seq([update : Updates, claim : Claims, target : Nat]) :
        \A i, j \in DOMAIN content :
            content[i].update = content[j].update => i = j}

TeachableContents == {content \in Contents : Teachable(content)}

Command ==
    {Idle}
    \cup [op : {"start"}, step : {"save"}, content : TeachableContents]
    \cup [op : {"approve"}, step : {"check", "create"}, content : TeachableContents,
          wasCurrent : BOOLEAN]
    \cup [op : {"export"}, step : {"require", "commit"}, content : TeachableContents]

PublicationTypeOK ==
    /\ accepted \in Contents
    /\ mayReturn \subseteq Contents
    /\ made \subseteq Directories
    /\ stored \in [Stores -> SUBSET TeachableContents]
    /\ synced \in [Stores -> SUBSET TeachableContents]
    /\ \A s \in Stores : synced[s] \subseteq stored[s]
    /\ command \in [Commands -> Command]
    /\ approved \subseteq synced["approvals"]
    /\ losses \in 0..MaxLosses

(***************************************************************************)
(* "The command checks the bundle against the current accepted Pack ID,    *)
(* title, version, digest, and Claims" (docs/standalone-export.md): every  *)
(* approval that appears is of a bundle that was the current content of    *)
(* the pack at some moment after its command began.  A promotion may still *)
(* fall between the check and the record; a version number may even be     *)
(* given twice, when a power loss took a new pack and another is promoted. *)
(***************************************************************************)
ApprovalsWereCurrent ==
    [][\A content \in stored'["approvals"] \ stored["approvals"] :
          \E c \in Commands :
              /\ command[c].step = "create"
              /\ command[c].content = content
              /\ command[c].wasCurrent]_vars

(***************************************************************************)
(* "Export stops before the final write when the complete bundle has no    *)
(* exact immutable export approval": an artifact appears only while its    *)
(* own bundle and its own approval are stored, whatever was promoted,      *)
(* killed or lost since the command read them.                             *)
(***************************************************************************)
ExportsAreApproved ==
    [][\A content \in stored'["exports"] \ stored["exports"] :
          content \in stored["approvals"] /\ content \in stored["bundles"]]_vars

(***************************************************************************)
(* An approval that was answered with its directory synced is only ever    *)
(* lost together with the whole directory: also when it had been created   *)
(* by an earlier command that was killed before it synced.                 *)
(***************************************************************************)
AnsweredApprovalsSurvive ==
    [][\A content \in approved :
          content \in stored'["approvals"] \/ "approvals" \notin made']_vars
=============================================================================
