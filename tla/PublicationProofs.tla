------------------------- MODULE PublicationProofs -------------------------
(***************************************************************************)
(* What approvals and exports promise, proved for any updates, commands    *)
(* and number of power losses, and without the bound on stored bundles     *)
(* playing a part.                                                         *)
(***************************************************************************)
EXTENDS Publication, SequenceTheorems, TLAPS

(***************************************************************************)
(* The inductive invariant: what a command has read still holds.  A check  *)
(* about to succeed is of a content that was the pack's while the command  *)
(* ran; bundles and approvals a command found are still stored, because a  *)
(* power loss, the only thing that removes files, ends every command.      *)
(***************************************************************************)
CommandStands(r) ==
    /\ r.step = "check" /\ r.content = accepted => r.wasCurrent
    /\ r.step = "create" => r.wasCurrent
    /\ r.step \in {"require", "commit"} => r.content \in stored["bundles"]
    /\ r.step = "commit" => r.content \in stored["approvals"]

PublicationInv ==
    /\ PublicationTypeOK
    /\ \A c \in Commands : CommandStands(command[c])

-----------------------------------------------------------------------------
\* The shapes of commands, by their steps.
LEMMA CommandShape ==
    ASSUME NEW r \in Command
    PROVE  /\ r.step = "idle" => r = Idle
           /\ r.step = "save" =>
                  r \in [op : {"start"}, step : {"save"}, content : TeachableContents]
           /\ r.step \in {"check", "create"} =>
                  r \in [op : {"approve"}, step : {"check", "create"},
                         content : TeachableContents, wasCurrent : BOOLEAN]
           /\ r.step \in {"require", "commit"} =>
                  r \in [op : {"export"}, step : {"require", "commit"},
                         content : TeachableContents]
           /\ r.step # "idle" => r.content \in TeachableContents
           /\ r.step \in {"idle", "save", "check", "create", "require", "commit"}
BY DEF Command, Idle

\* A content with one promotion of an unused update more is a content.
LEMMA PromotedContent ==
    ASSUME NEW content \in Contents, NEW p \in Promotions(content),
           p.update \notin Used(content)
    PROVE  Append(content, p) \in Contents
<1> DEFINE R == [update : Updates, claim : Claims, target : Nat]
           longer == Append(content, p)
<1>1. content \in Seq(R) /\ Len(content) \in Nat /\ DOMAIN content = 1..Len(content)
  BY DEF Contents
<1>2. p \in R
  BY <1>1 DEF Promotions
<1>3. longer \in Seq(R) /\ DOMAIN longer = 1..(Len(content) + 1)
  BY <1>1, <1>2
<1>4. /\ \A i \in 1..Len(content) : longer[i] = content[i]
      /\ longer[Len(content) + 1] = p
  BY <1>1, <1>2
<1>5. \A i, j \in DOMAIN longer : longer[i].update = longer[j].update => i = j
  <2> SUFFICES ASSUME NEW i \in DOMAIN longer, NEW j \in DOMAIN longer,
                      longer[i].update = longer[j].update
               PROVE  i = j
    OBVIOUS
  <2>1. \A k \in DOMAIN longer : k \in DOMAIN content \/ k = Len(content) + 1
    BY <1>1, <1>3
  <2>2. \A k \in DOMAIN content : longer[k] = content[k] /\ content[k].update # p.update
    BY <1>1, <1>4 DEF Used
  <2>3. \A k, l \in DOMAIN content : content[k].update = content[l].update => k = l
    BY DEF Contents
  <2> QED
    BY <1>4, <2>1, <2>2, <2>3
<1> QED
  BY <1>3, <1>5 DEF Contents

-----------------------------------------------------------------------------
\* A step of one command that leaves the files and the pack alone.
LEMMA CommandStep ==
    ASSUME PublicationInv, NEW c \in Commands, NEW r \in Command, CommandStands(r),
           command' = [command EXCEPT ![c] = r],
           UNCHANGED <<accepted, mayReturn, made, stored, synced, approved, losses>>
    PROVE  PublicationInv'
<1>1. PublicationTypeOK'
  BY DEF PublicationInv, PublicationTypeOK
<1>2. \A d \in Commands : command'[d] = IF d = c THEN r ELSE command[d]
  BY DEF PublicationInv, PublicationTypeOK
<1>3. \A d \in Commands : CommandStands(command[d])'
  BY <1>2 DEF PublicationInv, CommandStands
<1> QED
  BY <1>1, <1>3 DEF PublicationInv

\* The end of a command.
LEMMA EndStep ==
    ASSUME PublicationInv, NEW c \in Commands, End(c),
           UNCHANGED <<accepted, mayReturn, made, stored, synced, approved, losses>>
    PROVE  PublicationInv'
<1>1. Idle \in Command /\ CommandStands(Idle)
  BY DEF Command, CommandStands, Idle
<1> QED
  BY <1>1, CommandStep DEF End

\* A command that ends with files added: what others found is still there.
LEMMA FileStep ==
    ASSUME PublicationInv, NEW c \in Commands, End(c),
           UNCHANGED <<accepted, mayReturn, losses>>,
           made' \subseteq Directories,
           stored' \in [Stores -> SUBSET TeachableContents],
           synced' \in [Stores -> SUBSET TeachableContents],
           \A s \in Stores : synced'[s] \subseteq stored'[s],
           \A s \in Stores : stored[s] \subseteq stored'[s],
           approved' \subseteq synced'["approvals"]
    PROVE  PublicationInv'
<1>1. Idle \in Command /\ Idle.step = "idle"
  BY DEF Command, Idle
<1>2. PublicationTypeOK'
  BY <1>1 DEF PublicationInv, PublicationTypeOK, End
<1>3. \A d \in Commands : command'[d] = IF d = c THEN Idle ELSE command[d]
  BY DEF PublicationInv, PublicationTypeOK, End
<1>4. "bundles" \in Stores /\ "approvals" \in Stores
  BY DEF Stores
<1>5. \A d \in Commands : CommandStands(command[d])'
  BY <1>1, <1>3, <1>4 DEF PublicationInv, CommandStands
<1> QED
  BY <1>2, <1>5 DEF PublicationInv

\* What a replacement or a creation does to the stores.
LEMMA PutStep ==
    ASSUME PublicationInv, NEW s \in Stores, NEW content \in TeachableContents,
           NEW syncs \in BOOLEAN, Put(s, content, syncs)
    PROVE  /\ made' \subseteq Directories
           /\ stored' \in [Stores -> SUBSET TeachableContents]
           /\ synced' \in [Stores -> SUBSET TeachableContents]
           /\ \A t \in Stores : synced'[t] \subseteq stored'[t]
           /\ \A t \in Stores : stored[t] \subseteq stored'[t]
           /\ \A t \in Stores : synced[t] \subseteq synced'[t]
           /\ syncs => content \in synced'[s]
           /\ \A t \in Stores : stored'[t] \subseteq stored[t] \cup {content}
           /\ \A t \in Stores \ {s} : stored'[t] = stored[t]
<1>1. stored' = [stored EXCEPT ![s] = stored[s] \cup {content}]
  BY DEF Put
<1>2. \A t \in Stores : stored'[t] = IF t = s THEN stored[s] \cup {content} ELSE stored[t]
  BY <1>1 DEF PublicationInv, PublicationTypeOK
<1>3. stored' \in [Stores -> SUBSET TeachableContents]
  BY <1>1 DEF PublicationInv, PublicationTypeOK
<1>4. CASE syncs
  <2>1. synced' = [synced EXCEPT ![s] = stored'[s]]
    BY <1>4 DEF Put
  <2>2. \A t \in Stores : synced'[t] = IF t = s THEN stored'[s] ELSE synced[t]
    BY <2>1 DEF PublicationInv, PublicationTypeOK
  <2>3. synced' \in [Stores -> SUBSET TeachableContents]
    BY <1>3, <2>1 DEF PublicationInv, PublicationTypeOK
  <2> QED
    BY <1>2, <1>3, <2>2, <2>3 DEF PublicationInv, PublicationTypeOK, Put, Directories
<1>5. CASE ~syncs
  <2>1. synced' = synced
    BY <1>5 DEF Put
  <2> QED
    BY <1>2, <1>3, <1>5, <2>1 DEF PublicationInv, PublicationTypeOK, Put, Directories
<1> QED
  BY <1>4, <1>5

LEMMA ReplaceStep ==
    ASSUME PublicationInv, NEW s \in Stores, NEW content \in TeachableContents,
           Replace(s, content)
    PROVE  /\ made' \subseteq Directories
           /\ stored' \in [Stores -> SUBSET TeachableContents]
           /\ synced' \in [Stores -> SUBSET TeachableContents]
           /\ \A t \in Stores : synced'[t] \subseteq stored'[t]
           /\ \A t \in Stores : stored[t] \subseteq stored'[t]
           /\ \A t \in Stores : synced[t] \subseteq synced'[t]
           /\ \A t \in Stores : stored'[t] \subseteq stored[t] \cup {content}
           /\ \A t \in Stores \ {s} : stored'[t] = stored[t]
<1>1. CASE UNCHANGED <<made, stored, synced>>
  BY <1>1 DEF PublicationInv, PublicationTypeOK
<1>2. CASE \E syncs \in BOOLEAN : Put(s, content, syncs)
  BY <1>2, PutStep
<1> QED
  BY <1>1, <1>2 DEF Replace

\* The start of a command that is a sound record.
LEMMA StartStep ==
    ASSUME PublicationInv, NEW c \in Commands, NEW r \in Command, CommandStands(r),
           Start(c, r),
           UNCHANGED <<accepted, mayReturn, made, stored, synced, approved, losses>>
    PROVE  PublicationInv'
BY CommandStep DEF Start

\* A check or a requirement that ends in the next step.
LEMMA AdvanceStep ==
    ASSUME PublicationInv, NEW c \in Commands, NEW step,
           [command[c] EXCEPT !.step = step] \in Command,
           CommandStands([command[c] EXCEPT !.step = step]),
           Step(c, step),
           UNCHANGED <<accepted, mayReturn, made, stored, synced, approved, losses>>
    PROVE  PublicationInv'
<1>1. command' = [command EXCEPT ![c] = [command[c] EXCEPT !.step = step]]
  BY DEF Step
<1> QED
  BY <1>1, CommandStep

\* Every command is of the shape its step says.
LEMMA CommandTyped ==
    ASSUME PublicationInv, NEW c \in Commands
    PROVE  command[c] \in Command /\ CommandStands(command[c])
BY DEF PublicationInv, PublicationTypeOK

-----------------------------------------------------------------------------
LEMMA InitInv == PublicationInit => PublicationInv
<1> SUFFICES ASSUME PublicationInit PROVE PublicationInv
  OBVIOUS
<1>1. NoPack \in Contents
  BY DEF NoPack, Contents
<1>2. Idle \in Command /\ CommandStands(Idle)
  BY DEF Idle, Command, CommandStands
<1>3. Rooted \subseteq Directories
  BY DEF Rooted, Directories, Stores
<1>4. losses \in 0..MaxLosses
  BY MaxLossesAssumption DEF PublicationInit
<1>5. PublicationTypeOK
  BY <1>1, <1>2, <1>3, <1>4 DEF PublicationInit, PublicationTypeOK
<1> QED
  BY <1>2, <1>5 DEF PublicationInit, PublicationInv

LEMMA PromoteInv ==
    ASSUME PublicationInv, Promote PROVE PublicationInv'
<1>1. PICK p \in Promotions(accepted) :
          p.update \notin Used(accepted) /\ accepted' = Append(accepted, p)
  BY DEF Promote
<1>2. accepted' \in Contents
  BY <1>1, PromotedContent DEF PublicationInv, PublicationTypeOK
<1>3. mayReturn' \subseteq Contents
  BY <1>2 DEF Promote, PublicationInv, PublicationTypeOK
<1>4. made' \subseteq Directories
  BY DEF Promote, PublicationInv, PublicationTypeOK, Directories
<1>5. ASSUME NEW c \in Commands
      PROVE  command'[c] \in Command /\ CommandStands(command[c])'
  <2> DEFINE r == command[c]
             later == [r EXCEPT !.wasCurrent = @ \/ r.content = accepted']
  <2>1. r \in Command /\ CommandStands(r)
    BY CommandTyped
  <2>2. command'[c] = IF r.step = "check" THEN later ELSE r
    BY DEF Promote
  <2>3. CASE r.step = "check"
    <3>1. r \in [op : {"approve"}, step : {"check", "create"},
                 content : TeachableContents, wasCurrent : BOOLEAN]
      BY <2>1, <2>3, CommandShape
    <3>2. later = [op |-> r.op, step |-> r.step, content |-> r.content,
                   wasCurrent |-> r.wasCurrent \/ r.content = accepted']
      BY <3>1
    <3>3. later \in Command
      BY <3>1, <3>2 DEF Command
    <3>4. command'[c].step = "check" /\ command'[c].content = r.content
      BY <2>2, <2>3, <3>2
    <3>5. command'[c].content = accepted' => command'[c].wasCurrent
      BY <2>2, <2>3, <3>2, <3>4
    <3> QED
      BY <2>2, <2>3, <3>3, <3>4, <3>5 DEF CommandStands
  <2>4. CASE r.step # "check"
    BY <2>1, <2>2, <2>4 DEF CommandStands, Promote
  <2> QED
    BY <2>3, <2>4
<1>6. command' \in [Commands -> Command]
  <2>1. command' = [c \in Commands |-> command'[c]]
    BY DEF Promote
  <2> QED
    BY <1>5, <2>1
<1> QED
  BY <1>2, <1>3, <1>4, <1>5, <1>6
  DEF Promote, PublicationInv, PublicationTypeOK

LEMMA TeachingInv ==
    ASSUME PublicationInv, NEW c \in Commands, BeginTeaching(c) \/ SaveBundle(c)
    PROVE  PublicationInv'
<1>1. CASE BeginTeaching(c)
  <2> DEFINE r == [op |-> "start", step |-> "save", content |-> accepted]
  <2>1. r \in Command /\ CommandStands(r)
    BY <1>1 DEF BeginTeaching, PublicationInv, PublicationTypeOK,
                TeachableContents, Command, CommandStands
  <2> QED
    BY <1>1, <2>1, StartStep DEF BeginTeaching
<1>2. CASE SaveBundle(c)
  <2>1. command[c].content \in TeachableContents
    BY <1>2, CommandTyped, CommandShape DEF SaveBundle
  <2>2. approved \subseteq synced["approvals"] /\ {"bundles", "approvals"} \subseteq Stores
    BY DEF PublicationInv, PublicationTypeOK, Stores
  <2> QED
    BY <1>2, <2>1, <2>2, ReplaceStep, FileStep DEF SaveBundle
<1> QED
  BY <1>1, <1>2

LEMMA ApproveInv ==
    ASSUME PublicationInv, NEW c \in Commands,
           BeginApprove(c) \/ CheckApproval(c) \/ CreateApproval(c)
    PROVE  PublicationInv'
<1>1. CASE BeginApprove(c)
  <2>1. PICK content \in stored["bundles"] :
            Start(c, [op |-> "approve", step |-> "check", content |-> content,
                      wasCurrent |-> content = accepted])
    BY <1>1 DEF BeginApprove
  <2> DEFINE r == [op |-> "approve", step |-> "check", content |-> content,
                   wasCurrent |-> content = accepted]
  <2>2. content \in TeachableContents
    BY DEF PublicationInv, PublicationTypeOK, Stores
  <2>3. (content = accepted) \in BOOLEAN
    OBVIOUS
  <2>4. r \in Command
    BY <2>2, <2>3 DEF Command
  <2>5. CommandStands(r)
    BY DEF CommandStands
  <2> QED
    BY <1>1, <2>1, <2>4, <2>5, StartStep DEF BeginApprove
<1>2. CASE CheckApproval(c)
  <2>1. CASE RequireSnapshot(command[c].content)
    <3>1. command[c] \in [op : {"approve"}, step : {"check", "create"},
                          content : TeachableContents, wasCurrent : BOOLEAN]
      BY <1>2, CommandTyped, CommandShape DEF CheckApproval
    <3>2. command[c].wasCurrent
      BY <1>2, <2>1, CommandTyped DEF CheckApproval, CommandStands, RequireSnapshot
    <3> DEFINE r == [command[c] EXCEPT !.step = "create"]
    <3>3. r \in Command
      BY <3>1 DEF Command
    <3>4. r.step = "create" /\ r.wasCurrent
      BY <3>1, <3>2
    <3>5. CommandStands(r)
      BY <3>4 DEF CommandStands
    <3> QED
      BY <1>2, <2>1, <3>3, <3>5, AdvanceStep DEF CheckApproval
  <2>2. CASE ~RequireSnapshot(command[c].content)
    BY <1>2, <2>2, EndStep DEF CheckApproval
  <2> QED
    BY <2>1, <2>2
<1>3. CASE CreateApproval(c)
  <2>1. command[c].content \in TeachableContents
    BY <1>3, CommandTyped, CommandShape DEF CreateApproval
  <2>2. PICK syncs \in BOOLEAN :
            /\ Put("approvals", command[c].content, syncs)
            /\ approved' = IF syncs THEN approved \cup {command[c].content} ELSE approved
    BY <1>3 DEF CreateApproval
  <2>3. approved \subseteq synced["approvals"] /\ "approvals" \in Stores
    BY DEF PublicationInv, PublicationTypeOK, Stores
  <2>4. /\ synced["approvals"] \subseteq synced'["approvals"]
        /\ syncs => command[c].content \in synced'["approvals"]
    BY <2>1, <2>2, <2>3, PutStep
  <2>5. approved' \subseteq synced'["approvals"]
    BY <2>2, <2>3, <2>4
  <2> QED
    BY <1>3, <2>1, <2>2, <2>3, <2>5, PutStep, FileStep DEF CreateApproval
<1> QED
  BY <1>1, <1>2, <1>3

LEMMA ExportInv ==
    ASSUME PublicationInv, NEW c \in Commands,
           \/ BeginExport(c) \/ RequireApproval(c) \/ CommitExport(c) \/ RefuseExport(c)
    PROVE  PublicationInv'
<1>1. CASE BeginExport(c)
  <2>1. PICK content \in stored["bundles"] :
            Start(c, [op |-> "export", step |-> "require", content |-> content])
    BY <1>1 DEF BeginExport
  <2>2. content \in TeachableContents
    BY DEF PublicationInv, PublicationTypeOK, Stores
  <2>3. [op |-> "export", step |-> "require", content |-> content] \in Command
    BY <2>2 DEF Command
  <2>4. CommandStands([op |-> "export", step |-> "require", content |-> content])
    BY DEF CommandStands
  <2> QED
    BY <1>1, <2>1, <2>3, <2>4, StartStep DEF BeginExport
<1>2. CASE RequireApproval(c)
  <2>1. CASE command[c].content \in stored["approvals"]
    <3>1. command[c] \in [op : {"export"}, step : {"require", "commit"},
                          content : TeachableContents]
      BY <1>2, CommandTyped, CommandShape DEF RequireApproval
    <3>2. command[c].content \in stored["bundles"]
      BY <1>2, CommandTyped DEF RequireApproval, CommandStands
    <3> DEFINE r == [command[c] EXCEPT !.step = "commit"]
    <3>3. r \in Command
      BY <3>1 DEF Command
    <3>4. r.step = "commit" /\ r.content = command[c].content
      BY <3>1
    <3>5. CommandStands(r)
      BY <2>1, <3>2, <3>4 DEF CommandStands
    <3> QED
      BY <1>2, <2>1, <3>3, <3>5, AdvanceStep DEF RequireApproval
  <2>2. CASE command[c].content \notin stored["approvals"]
    BY <1>2, <2>2, EndStep DEF RequireApproval
  <2> QED
    BY <2>1, <2>2
<1>3. CASE CommitExport(c)
  <2>1. command[c].content \in TeachableContents
    BY <1>3, CommandTyped, CommandShape DEF CommitExport
  <2>2. approved \subseteq synced["approvals"] /\ {"exports", "approvals"} \subseteq Stores
    BY DEF PublicationInv, PublicationTypeOK, Stores
  <2> QED
    BY <1>3, <2>1, <2>2, ReplaceStep, FileStep DEF CommitExport
<1>4. CASE RefuseExport(c)
  BY <1>4, EndStep DEF RefuseExport
<1> QED
  BY <1>1, <1>2, <1>3, <1>4

LEMMA PowerLossInv ==
    ASSUME PublicationInv, PowerLoss PROVE PublicationInv'
<1>1. PICK kept \in SUBSET made :
          /\ Rooted \subseteq kept
          /\ \E survive \in [Stores -> SUBSET UNION {stored[s] : s \in Stores}] :
                 /\ \A s \in Stores :
                        IF s \in kept
                        THEN synced[s] \subseteq survive[s] /\ survive[s] \subseteq stored[s]
                        ELSE survive[s] = {}
                 /\ stored' = survive
                 /\ synced' = survive
          /\ made' = kept
          /\ accepted' \in IF "pack" \in kept THEN mayReturn ELSE {NoPack}
  BY DEF PowerLoss
<1>2. PICK survive \in [Stores -> SUBSET UNION {stored[s] : s \in Stores}] :
          /\ \A s \in Stores :
                 IF s \in kept
                 THEN synced[s] \subseteq survive[s] /\ survive[s] \subseteq stored[s]
                 ELSE survive[s] = {}
          /\ stored' = survive
          /\ synced' = survive
  BY <1>1
<1>3. \A s \in Stores : survive[s] \subseteq stored[s]
  BY <1>2
<1>4. stored' \in [Stores -> SUBSET TeachableContents]
  <2>1. \A s \in Stores : survive[s] \in SUBSET TeachableContents
    BY <1>3 DEF PublicationInv, PublicationTypeOK
  <2>2. survive = [s \in Stores |-> survive[s]]
    BY <1>2
  <2>3. survive \in [Stores -> SUBSET TeachableContents]
    BY <2>1, <2>2
  <2> QED
    BY <1>2, <2>3
<1>5. accepted' \in Contents
  <2>1. NoPack \in Contents
    BY DEF NoPack, Contents
  <2> QED
    BY <1>1, <2>1 DEF PublicationInv, PublicationTypeOK
<1>6. mayReturn' \subseteq Contents
  BY <1>5 DEF PowerLoss
<1>7. Idle \in Command /\ Idle.step = "idle"
  BY DEF Idle, Command
<1>8. command' \in [Commands -> Command] /\ \A c \in Commands : command'[c] = Idle
  BY <1>7 DEF PowerLoss
<1>9. losses' \in 0..MaxLosses
  BY MaxLossesAssumption DEF PowerLoss, PublicationInv, PublicationTypeOK
<1>10. approved' \subseteq synced'["approvals"]
  BY <1>2 DEF PowerLoss
<1>11. made' \subseteq Directories
  BY <1>1 DEF PublicationInv, PublicationTypeOK
<1>12. synced' = stored'
  BY <1>2
<1>13. PublicationTypeOK'
  BY <1>4, <1>5, <1>6, <1>8, <1>9, <1>10, <1>11, <1>12 DEF PublicationTypeOK
<1> QED
  BY <1>7, <1>8, <1>13 DEF PublicationInv, CommandStands

LEMMA NextInv == PublicationInv /\ [PublicationNext]_vars => PublicationInv'
<1> SUFFICES ASSUME PublicationInv, [PublicationNext]_vars PROVE PublicationInv'
  OBVIOUS
<1>1. CASE Promote
  BY <1>1, PromoteInv
<1>2. ASSUME NEW c \in Commands, BeginTeaching(c) \/ SaveBundle(c)
      PROVE  PublicationInv'
  BY <1>2, TeachingInv
<1>3. ASSUME NEW c \in Commands,
             BeginApprove(c) \/ CheckApproval(c) \/ CreateApproval(c)
      PROVE  PublicationInv'
  BY <1>3, ApproveInv
<1>4. ASSUME NEW c \in Commands,
             BeginExport(c) \/ RequireApproval(c) \/ CommitExport(c) \/ RefuseExport(c)
      PROVE  PublicationInv'
  BY <1>4, ExportInv
<1>5. ASSUME NEW c \in Commands, Kill(c)
      PROVE  PublicationInv'
  BY <1>5, EndStep DEF Kill
<1>6. CASE PowerLoss
  BY <1>6, PowerLossInv
<1>7. CASE UNCHANGED vars
  BY <1>7 DEF vars, PublicationInv, PublicationTypeOK, CommandStands
<1> QED
  BY <1>1, <1>2, <1>3, <1>4, <1>5, <1>6, <1>7 DEF PublicationNext

-----------------------------------------------------------------------------
(***************************************************************************)
(* Every reachable state of bundles, approvals, exports and the commands   *)
(* that make them satisfies the invariant.                                 *)
(***************************************************************************)
THEOREM PublicationInvariant == PublicationSpec => []PublicationInv
BY InitInv, NextInv, PTL DEF PublicationSpec

(***************************************************************************)
(* Types, with: only contents that can be taught are stored, what is on    *)
(* disk is visible, and answered approvals are on disk.                    *)
(***************************************************************************)
THEOREM PublicationTypes == PublicationSpec => []PublicationTypeOK
<1>1. PublicationInv => PublicationTypeOK
  BY DEF PublicationInv
<1> QED
  BY <1>1, PublicationInvariant, PTL

-----------------------------------------------------------------------------
\* Which steps make a store grow, and by what.
LEMMA WhoPuts ==
    ASSUME PublicationInv, [PublicationNext]_vars, NEW s \in Stores,
           NEW content \in stored'[s] \ stored[s]
    PROVE  \E c \in Commands :
               /\ command[c].content = content
               /\ \/ s = "bundles" /\ command[c].step = "save"
                  \/ s = "approvals" /\ command[c].step = "create"
                  \/ s = "exports" /\ command[c].step = "commit"
<1> DEFINE Goal(c) ==
        /\ command[c].content = content
        /\ \/ s = "bundles" /\ command[c].step = "save"
           \/ s = "approvals" /\ command[c].step = "create"
           \/ s = "exports" /\ command[c].step = "commit"
<1>1. {"bundles", "approvals", "exports"} \subseteq Stores
  BY DEF Stores
<1>2. ASSUME NEW c \in Commands, SaveBundle(c) PROVE Goal(c)
  <2>1. command[c].content \in TeachableContents
    BY <1>2, CommandTyped, CommandShape DEF SaveBundle
  <2>2. Replace("bundles", command[c].content) /\ command[c].step = "save"
    BY <1>2 DEF SaveBundle
  <2> QED
    BY <1>1, <2>1, <2>2, ReplaceStep
<1>3. ASSUME NEW c \in Commands, CreateApproval(c) PROVE Goal(c)
  <2>1. command[c].content \in TeachableContents
    BY <1>3, CommandTyped, CommandShape DEF CreateApproval
  <2>2. /\ \E syncs \in BOOLEAN : Put("approvals", command[c].content, syncs)
        /\ command[c].step = "create"
    BY <1>3 DEF CreateApproval
  <2> QED
    BY <1>1, <2>1, <2>2, PutStep
<1>4. ASSUME NEW c \in Commands, CommitExport(c) PROVE Goal(c)
  <2>1. command[c].content \in TeachableContents
    BY <1>4, CommandTyped, CommandShape DEF CommitExport
  <2>2. Replace("exports", command[c].content) /\ command[c].step = "commit"
    BY <1>4 DEF CommitExport
  <2> QED
    BY <1>1, <2>1, <2>2, ReplaceStep
<1>5. ~PowerLoss
  <2>1. PowerLoss => stored'[s] \subseteq stored[s]
    BY DEF PowerLoss
  <2> QED
    BY <2>1
<1>6. stored' # stored
  OBVIOUS
<1>7. \E c \in Commands : SaveBundle(c) \/ CreateApproval(c) \/ CommitExport(c)
  BY <1>5, <1>6 DEF PublicationNext, vars, Promote, BeginTeaching, BeginApprove,
       CheckApproval, BeginExport, RequireApproval, RefuseExport, Kill
<1> QED
  BY <1>2, <1>3, <1>4, <1>7

(***************************************************************************)
(* Every approval that appears is of a bundle that was the pack's current  *)
(* content while its command ran (export-approve, require_snapshot).       *)
(***************************************************************************)
THEOREM ApprovalsAreOfCurrent == PublicationSpec => ApprovalsWereCurrent
<1>1. ASSUME PublicationInv, [PublicationNext]_vars,
             NEW content \in stored'["approvals"] \ stored["approvals"]
      PROVE  \E c \in Commands : /\ command[c].step = "create"
                                 /\ command[c].content = content
                                 /\ command[c].wasCurrent
  <2>1. PICK c \in Commands :
            command[c].content = content /\ command[c].step = "create"
    BY <1>1, WhoPuts DEF Stores
  <2> QED
    BY <1>1, <2>1, CommandTyped DEF CommandStands
<1>2. PublicationInv /\ [PublicationNext]_vars =>
        [\A content \in stored'["approvals"] \ stored["approvals"] :
          \E c \in Commands :
              /\ command[c].step = "create"
              /\ command[c].content = content
              /\ command[c].wasCurrent]_vars
  BY <1>1
<1> QED
  BY <1>2, PublicationInvariant, PTL DEF PublicationSpec, ApprovalsWereCurrent

(***************************************************************************)
(* An artifact appears only while its bundle and its approval are stored   *)
(* (export, ApprovalRepository.require and ExportRepository.commit).       *)
(***************************************************************************)
THEOREM ExportsHaveApproval == PublicationSpec => ExportsAreApproved
<1>1. ASSUME PublicationInv, [PublicationNext]_vars,
             NEW content \in stored'["exports"] \ stored["exports"]
      PROVE  content \in stored["approvals"] /\ content \in stored["bundles"]
  <2>1. PICK c \in Commands :
            command[c].content = content /\ command[c].step = "commit"
    BY <1>1, WhoPuts DEF Stores
  <2> QED
    BY <1>1, <2>1, CommandTyped DEF CommandStands
<1>2. PublicationInv /\ [PublicationNext]_vars =>
        [\A content \in stored'["exports"] \ stored["exports"] :
          content \in stored["approvals"] /\ content \in stored["bundles"]]_vars
  BY <1>1
<1> QED
  BY <1>2, PublicationInvariant, PTL DEF PublicationSpec, ExportsAreApproved

(***************************************************************************)
(* An approval that was answered is lost only with its whole directory     *)
(* (create_exact syncs the directory for a new file and for one found).    *)
(***************************************************************************)
THEOREM ApprovalsSurvive == PublicationSpec => AnsweredApprovalsSurvive
<1>1. ASSUME PublicationInv, [PublicationNext]_vars, NEW content \in approved
      PROVE  content \in stored'["approvals"] \/ "approvals" \notin made'
  <2>1. content \in synced["approvals"] /\ content \in stored["approvals"]
    BY <1>1 DEF PublicationInv, PublicationTypeOK, Stores
  <2>2. {"bundles", "approvals", "exports"} \subseteq Stores
    BY DEF Stores
  <2>3. CASE PowerLoss
    BY <2>1, <2>2, <2>3 DEF PowerLoss
  <2>4. ASSUME NEW c \in Commands, SaveBundle(c) \/ CreateApproval(c) \/ CommitExport(c)
        PROVE  content \in stored'["approvals"]
    <3>1. command[c].content \in TeachableContents
      BY <1>1, <2>4, CommandTyped, CommandShape DEF SaveBundle, CreateApproval, CommitExport
    <3>2. \/ \E s \in Stores : Replace(s, command[c].content)
          \/ \E syncs \in BOOLEAN : Put("approvals", command[c].content, syncs)
      BY <2>2, <2>4 DEF SaveBundle, CreateApproval, CommitExport
    <3>3. stored["approvals"] \subseteq stored'["approvals"]
      BY <1>1, <2>2, <3>1, <3>2, ReplaceStep, PutStep
    <3> QED
      BY <2>1, <3>3
  <2>5. CASE UNCHANGED stored
    BY <2>1, <2>5
  <2> QED
    BY <1>1, <2>3, <2>4, <2>5 DEF PublicationNext, vars, Promote, BeginTeaching,
       BeginApprove, CheckApproval, BeginExport, RequireApproval, RefuseExport, Kill
<1>2. PublicationInv /\ [PublicationNext]_vars =>
        [\A content \in approved :
          content \in stored'["approvals"] \/ "approvals" \notin made']_vars
  BY <1>1
<1> QED
  BY <1>2, PublicationInvariant, PTL DEF PublicationSpec, AnsweredApprovalsSurvive
=============================================================================
