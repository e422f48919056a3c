---------------------------- MODULE IntakeProofs ----------------------------
(***************************************************************************)
(* What capture and staging promise, proved for any number of commands,    *)
(* materials, times and packs.                                             *)
(***************************************************************************)
EXTENDS Intake, FiniteSetTheorems, TLAPS

HasManifest(p) == job[p].phase \in {"captured", "staging", "staged"}

(***************************************************************************)
(* The inductive invariant.  A command works with the manifest that is in  *)
(* the inbox, which is one of its own source and content; this is what     *)
(* makes the update it is about to write a proposal of that intake.        *)
(***************************************************************************)
WorksWithStored(p) ==
    HasManifest(p) =>
        /\ inbox[Key(job[p].manifest)] = job[p].manifest
        /\ Key(job[p].manifest) = Key(job[p].request.material)

WorksOnAcceptable(p) == ~Ended(p) => Acceptable(job[p].request)

IntakeInv ==
    /\ IntakeTypeOK
    /\ \A k \in IntakeKey : inbox[k] # NoManifest => Key(inbox[k]) = k
    /\ \A p \in Processes : WorksWithStored(p) /\ WorksOnAcceptable(p)
    /\ ProposalsHaveIntakes

-----------------------------------------------------------------------------
\* A material has a name in the inbox, and the name keeps its content.
LEMMA KeyType ==
    ASSUME NEW m \in Materials
    PROVE  /\ Key(m) \in IntakeKey
           /\ Key(m).content = m.content
           /\ m.content \in Contents /\ m.observed \in Times
BY MaterialsAssumption DEF Key, IntakeKey

\* A request is made on one of the materials.
LEMMA RequestType ==
    ASSUME NEW r \in Request
    PROVE  r.material \in Materials /\ r.selected \in Packs \cup {NoPack}
BY DEF Request

\* The match of an acceptable request names only packs its text matches.
LEMMA MatchType ==
    ASSUME NEW r \in Request, Acceptable(r)
    PROVE  /\ Match(r) \in Matches
           /\ Match(r).candidates \subseteq Matched[r.material.content]
<1> DEFINE found == Matched[r.material.content]
<1>1. found \in SUBSET Packs
  BY RequestType, KeyType, MatchedAssumption
<1>2. CASE r.selected = NoPack
  <2>1. Match(r) = ProposedMatch(r.material.content)
    BY <1>2 DEF Match
  <2>2. /\ ProposedMatch(r.material.content).candidates = found
        /\ ProposedMatch(r.material.content) \in Matches
    BY <1>1 DEF ProposedMatch, Matches
  <2> QED
    BY <2>1, <2>2
<1>3. CASE r.selected # NoPack
  <2>1. Match(r) = [candidates |-> {r.selected}, kind |-> "selected"]
    BY <1>3 DEF Match
  <2>2. r.selected \in found
    BY <1>3 DEF Acceptable
  <2> QED
    BY <1>1, <2>1, <2>2 DEF Matches
<1> QED
  BY <1>2, <1>3

\* What is compiled is a Pack Update of the intake it is compiled from.
LEMMA CompiledType ==
    ASSUME NEW r \in Request, Acceptable(r), NEW m \in Materials
    PROVE  Compiled(r, m) \in PackUpdate
BY MatchType, KeyType DEF Compiled, PackUpdate

\* What a process knows in each phase
LEMMA JobShape ==
    ASSUME IntakeInv, NEW p \in Processes, ~Ended(p)
    PROVE  /\ job[p].request \in Request
           /\ Acceptable(job[p].request)
           /\ Material(p) \in Materials
           /\ HasManifest(p) =>
                  /\ job[p].manifest \in Materials
                  /\ job[p] \in [phase : {"captured", "staging", "staged"},
                                  request : Request, manifest : Materials]
           /\ ~HasManifest(p) =>
                  job[p] \in [phase : {"accepted", "prepared"}, request : Request]
<1>1. job[p] \in Job
  BY DEF IntakeInv, IntakeTypeOK
<1>2. CASE HasManifest(p)
  <2>1. job[p] \in [phase : {"captured", "staging", "staged"}, request : Request,
                    manifest : Materials]
    BY <1>1, <1>2 DEF Job, HasManifest
  <2> QED
    BY <1>2, <2>1, RequestType DEF IntakeInv, WorksOnAcceptable, Material
<1>3. CASE ~HasManifest(p)
  <2>1. job[p] \in [phase : {"accepted", "prepared"}, request : Request]
    BY <1>1, <1>3 DEF Job, HasManifest, Ended
  <2> QED
    BY <1>3, <2>1, RequestType DEF IntakeInv, WorksOnAcceptable, Material
<1> QED
  BY <1>2, <1>3

-----------------------------------------------------------------------------
\* A step that only moves one process on, and leaves it well, is safe.
LEMMA JobStep ==
    ASSUME IntakeInv, NEW p \in Processes, NEW j \in Job,
           job' = [job EXCEPT ![p] = j], UNCHANGED <<inbox, staged>>,
           WorksWithStored(p)', WorksOnAcceptable(p)'
    PROVE  IntakeInv'
<1>1. IntakeTypeOK'
  BY DEF IntakeInv, IntakeTypeOK
<1>2. \A q \in Processes : WorksWithStored(q)' /\ WorksOnAcceptable(q)'
  <2> SUFFICES ASSUME NEW q \in Processes \ {p}
               PROVE  WorksWithStored(q)' /\ WorksOnAcceptable(q)'
    OBVIOUS
  <2>1. job'[q] = job[q] /\ inbox' = inbox
    BY DEF IntakeInv, IntakeTypeOK
  <2>2. WorksWithStored(q) /\ WorksOnAcceptable(q)
    BY DEF IntakeInv
  <2> QED
    BY <2>1, <2>2 DEF WorksWithStored, WorksOnAcceptable, HasManifest, Ended
<1>3. ProposalsHaveIntakes'
  BY DEF IntakeInv, ProposalsHaveIntakes
<1> QED
  BY <1>1, <1>2, <1>3 DEF IntakeInv

\* The next phase of a process that keeps what it knows
LEMMA PhaseStep ==
    ASSUME IntakeInv, NEW p \in Processes, ~Ended(p), NEW phase,
           \/ ~HasManifest(p) /\ phase \in {"accepted", "prepared"}
           \/ HasManifest(p) /\ phase \in {"captured", "staging", "staged"}
    PROVE  LET j == [job[p] EXCEPT !.phase = phase] IN
           /\ j \in Job
           /\ j.phase = phase /\ j.request = job[p].request
           /\ HasManifest(p) => j.manifest = job[p].manifest
BY JobShape DEF Job

LEMMA SubmitPreserves ==
    ASSUME IntakeInv, NEW p \in Processes, Submit(p)
    PROVE  IntakeInv'
<1>1. PICK r \in Request :
          job' = [job EXCEPT ![p] =
              IF Acceptable(r) THEN [phase |-> "accepted", request |-> r]
                               ELSE [phase |-> "refused"]]
  BY DEF Submit
<1>2. UNCHANGED <<inbox, staged>>
  BY DEF Submit
<1> DEFINE j == IF Acceptable(r) THEN [phase |-> "accepted", request |-> r]
                                 ELSE [phase |-> "refused"]
<1>3. j \in Job
  BY DEF Job
<1>4. job'[p] = j /\ job' = [job EXCEPT ![p] = j]
  BY <1>1 DEF IntakeInv, IntakeTypeOK
<1>5. WorksWithStored(p)'
  BY <1>4 DEF WorksWithStored, HasManifest
<1>6. WorksOnAcceptable(p)'
  BY <1>4 DEF WorksOnAcceptable, Ended, Acceptable
<1> HIDE DEF j
<1> QED
  BY <1>2, <1>3, <1>4, <1>5, <1>6, JobStep

\* Going on with the manifest of the intake directory
LEMMA FoundPreserves ==
    ASSUME IntakeInv, NEW p \in Processes, ~Ended(p),
           inbox[Key(Material(p))] # NoManifest,
           Captured(p, inbox[Key(Material(p))]),
           UNCHANGED <<inbox, staged>>
    PROVE  IntakeInv'
<1> DEFINE found == inbox[Key(Material(p))]
<1> DEFINE j == [phase |-> "captured", request |-> job[p].request, manifest |-> found]
<1>1. Key(Material(p)) \in IntakeKey /\ job[p].request \in Request
  BY JobShape, KeyType
<1>2. found \in Materials /\ Key(found) = Key(Material(p))
  BY <1>1 DEF IntakeInv, IntakeTypeOK
<1>3. j \in Job
  BY <1>1, <1>2 DEF Job
<1>4. job'[p] = j /\ job' = [job EXCEPT ![p] = j]
  BY DEF Captured, IntakeInv, IntakeTypeOK
<1>5. WorksWithStored(p)'
  BY <1>2, <1>4 DEF WorksWithStored, Material
<1>6. WorksOnAcceptable(p)'
  BY <1>4, JobShape DEF WorksOnAcceptable, Acceptable
<1> HIDE DEF j
<1> QED
  BY <1>3, <1>4, <1>5, <1>6, JobStep

LEMMA PreparePreserves ==
    ASSUME IntakeInv, NEW p \in Processes, Prepare(p)
    PROVE  IntakeInv'
<1> DEFINE j == [job[p] EXCEPT !.phase = "prepared"]
<1>1. ~Ended(p) /\ ~HasManifest(p)
  BY DEF Prepare, Ended, HasManifest
<1>2. j \in Job /\ j.phase = "prepared" /\ j.request = job[p].request
  BY <1>1, PhaseStep
<1>3. job'[p] = j /\ job' = [job EXCEPT ![p] = j] /\ UNCHANGED <<inbox, staged>>
  BY DEF Prepare, IntakeInv, IntakeTypeOK
<1> HIDE DEF j
<1>4. WorksWithStored(p)'
  BY <1>2, <1>3 DEF WorksWithStored, HasManifest
<1>5. WorksOnAcceptable(p)'
  BY <1>1, <1>2, <1>3, JobShape DEF WorksOnAcceptable, Acceptable
<1> QED
  BY <1>2, <1>3, <1>4, <1>5, JobStep

\* The winner's directory appears under a name that was free.
LEMMA RenameWinsPreserves ==
    ASSUME IntakeInv, NEW p \in Processes, RenameWins(p)
    PROVE  IntakeInv'
<1> DEFINE m == Material(p)
<1> DEFINE j == [phase |-> "captured", request |-> job[p].request, manifest |-> m]
<1>1. ~Ended(p)
  BY DEF RenameWins, Ended
<1>2. m \in Materials /\ Key(m) \in IntakeKey /\ job[p].request \in Request
  BY <1>1, JobShape, KeyType
<1>3. /\ inbox[Key(m)] = NoManifest
      /\ inbox' = [inbox EXCEPT ![Key(m)] = m]
      /\ job' = [job EXCEPT ![p] = j]
      /\ staged' = staged
  BY DEF RenameWins, Captured
<1>4. j \in Job
  BY <1>2 DEF Job
<1>5. inbox'[Key(m)] = m /\ job'[p] = j
  BY <1>2, <1>3 DEF IntakeInv, IntakeTypeOK
<1>6. \A k \in IntakeKey : inbox[k] # NoManifest => inbox'[k] = inbox[k]
  BY <1>3 DEF IntakeInv, IntakeTypeOK
<1>7. IntakeTypeOK'
  BY <1>2, <1>3, <1>4 DEF IntakeInv, IntakeTypeOK
<1>8. \A k \in IntakeKey : inbox'[k] # NoManifest => Key(inbox'[k]) = k
  BY <1>2, <1>3, <1>5 DEF IntakeInv, IntakeTypeOK
<1>9. \A q \in Processes : WorksWithStored(q)' /\ WorksOnAcceptable(q)'
  <2> SUFFICES ASSUME NEW q \in Processes
               PROVE  WorksWithStored(q)' /\ WorksOnAcceptable(q)'
    OBVIOUS
  <2>1. CASE q = p
    <3>1. WorksWithStored(p)'
      BY <1>5 DEF WorksWithStored, Material
    <3>2. WorksOnAcceptable(p)'
      BY <1>1, <1>5, JobShape DEF WorksOnAcceptable, Acceptable
    <3> QED
      BY <2>1, <3>1, <3>2
  <2>2. CASE q # p
    <3>1. job'[q] = job[q]
      BY <1>3, <2>2 DEF IntakeInv, IntakeTypeOK
    <3>2. WorksWithStored(q) /\ WorksOnAcceptable(q)
      BY DEF IntakeInv
    <3>3. WorksOnAcceptable(q)'
      BY <3>1, <3>2 DEF WorksOnAcceptable, Ended, Acceptable
    <3>4. ASSUME HasManifest(q)
          PROVE  inbox'[Key(job[q].manifest)] = job[q].manifest
      <4>1. ~Ended(q)
        BY <3>4 DEF HasManifest, Ended
      <4>2. /\ job[q].manifest \in Materials
            /\ inbox[Key(job[q].manifest)] = job[q].manifest
            /\ Key(job[q].manifest) \in IntakeKey
        BY <3>2, <3>4, <4>1, JobShape, KeyType DEF WorksWithStored
      <4> QED
        BY <1>6, <4>2, NamesAssumption
    <3> QED
      BY <3>1, <3>2, <3>3, <3>4 DEF WorksWithStored, HasManifest
  <2> QED
    BY <2>1, <2>2
<1>10. ProposalsHaveIntakes'
  <2> SUFFICES ASSUME NEW u \in staged
               PROVE  /\ inbox'[u.intake] # NoManifest
                      /\ inbox'[u.intake].observed = u.observed
                      /\ u.match.candidates \subseteq Matched[inbox'[u.intake].content]
    BY <1>3 DEF ProposalsHaveIntakes
  <2>1. u.intake \in IntakeKey
    BY DEF IntakeInv, IntakeTypeOK, PackUpdate
  <2> QED
    BY <1>6, <2>1 DEF IntakeInv, ProposalsHaveIntakes
<1> QED
  BY <1>7, <1>8, <1>9, <1>10 DEF IntakeInv

LEMMA FindUpdatePreserves ==
    ASSUME IntakeInv, NEW p \in Processes, FindUpdate(p)
    PROVE  IntakeInv'
<1> DEFINE phase == IF Update(p) \in staged THEN "staged" ELSE "staging"
<1> DEFINE j == [job[p] EXCEPT !.phase = phase]
<1>1. ~Ended(p) /\ HasManifest(p)
  BY DEF FindUpdate, Ended, HasManifest
<1>2. phase \in {"staged", "staging"}
  OBVIOUS
<1>3. job' = [job EXCEPT ![p] = j] /\ UNCHANGED <<inbox, staged>>
  BY DEF FindUpdate
<1> HIDE DEF phase
<1>4. /\ j \in Job /\ j.phase = phase
      /\ j.request = job[p].request /\ j.manifest = job[p].manifest
  BY <1>1, <1>2, PhaseStep
<1>5. job'[p] = j
  BY <1>3 DEF IntakeInv, IntakeTypeOK
<1> HIDE DEF j
<1>6. WorksWithStored(p)'
  BY <1>1, <1>3, <1>4, <1>5 DEF IntakeInv, WorksWithStored
<1>7. WorksOnAcceptable(p)'
  BY <1>1, <1>4, <1>5, JobShape DEF WorksOnAcceptable, Acceptable
<1> QED
  BY <1>3, <1>4, <1>6, <1>7, JobStep

\* The update a process writes is a proposal of the stored intake.
LEMMA UpdateIsGrounded ==
    ASSUME IntakeInv, NEW p \in Processes, ~Ended(p), HasManifest(p)
    PROVE  /\ Update(p) \in PackUpdate
           /\ inbox[Update(p).intake] # NoManifest
           /\ inbox[Update(p).intake].observed = Update(p).observed
           /\ Update(p).match.candidates \subseteq Matched[inbox[Update(p).intake].content]
<1> DEFINE m == job[p].manifest
<1> DEFINE r == job[p].request
<1>1. /\ m \in Materials /\ r \in Request /\ Acceptable(r)
      /\ r.material \in Materials
  BY JobShape DEF Material
<1>2. inbox[Key(m)] = m /\ Key(m) = Key(r.material)
  BY DEF IntakeInv, WorksWithStored
<1>3. m.content = r.material.content
  BY <1>1, <1>2, KeyType
<1>4. Update(p) = [intake |-> Key(m), observed |-> m.observed, match |-> Match(r)]
  BY DEF Update, Compiled
<1>5. Update(p) \in PackUpdate
  BY <1>1, CompiledType DEF Update
<1>6. Match(r).candidates \subseteq Matched[m.content]
  BY <1>1, <1>3, MatchType
<1> QED
  BY <1>1, <1>2, <1>4, <1>5, <1>6, NamesAssumption

LEMMA WriteUpdatePreserves ==
    ASSUME IntakeInv, NEW p \in Processes, WriteUpdate(p)
    PROVE  IntakeInv'
<1> DEFINE j == [job[p] EXCEPT !.phase = "staged"]
<1>1. ~Ended(p) /\ HasManifest(p)
  BY DEF WriteUpdate, Ended, HasManifest
<1>2. /\ j \in Job /\ j.phase = "staged"
      /\ j.request = job[p].request /\ j.manifest = job[p].manifest
  BY <1>1, PhaseStep
<1>3. /\ job' = [job EXCEPT ![p] = j]
      /\ staged' = staged \cup {Update(p)}
      /\ inbox' = inbox
  BY DEF WriteUpdate
<1> HIDE DEF j
<1>4. IntakeTypeOK'
  BY <1>1, <1>2, <1>3, UpdateIsGrounded DEF IntakeInv, IntakeTypeOK
<1>5. \A q \in Processes : WorksWithStored(q)' /\ WorksOnAcceptable(q)'
  <2> SUFFICES ASSUME NEW q \in Processes
               PROVE  WorksWithStored(q)' /\ WorksOnAcceptable(q)'
    OBVIOUS
  <2>1. WorksWithStored(q) /\ WorksOnAcceptable(q)
    BY DEF IntakeInv
  <2>2. CASE q = p
    <3>1. job'[p] = j
      BY <1>3 DEF IntakeInv, IntakeTypeOK
    <3> QED
      BY <1>1, <1>2, <1>3, <2>1, <2>2, <3>1, JobShape
      DEF WorksWithStored, WorksOnAcceptable, Acceptable
  <2>3. CASE q # p
    <3>1. job'[q] = job[q]
      BY <1>3, <2>3 DEF IntakeInv, IntakeTypeOK
    <3> QED
      BY <1>3, <2>1, <3>1 DEF WorksWithStored, WorksOnAcceptable, HasManifest, Ended, Acceptable
  <2> QED
    BY <2>2, <2>3
<1>6. ProposalsHaveIntakes'
  BY <1>1, <1>3, UpdateIsGrounded DEF IntakeInv, ProposalsHaveIntakes
<1> QED
  BY <1>3, <1>4, <1>5, <1>6 DEF IntakeInv

LEMMA AnswerPreserves ==
    ASSUME IntakeInv, NEW p \in Processes, Answer(p)
    PROVE  IntakeInv'
<1> DEFINE r == job[p].request
<1>1. ~Ended(p) /\ HasManifest(p)
  BY DEF Answer, Ended, HasManifest
<1>2. r \in Request /\ Acceptable(r) /\ Update(p) \in PackUpdate
  BY <1>1, JobShape, UpdateIsGrounded
<1>3. PICK status \in Outcomes(r) :
          job' = [job EXCEPT ![p] =
              [phase |-> "answered", request |-> r, status |-> status,
               update |-> Update(p),
               pack |-> IF status = "learning_ready" THEN SelectedPack(r) ELSE NoPack]]
  BY DEF Answer
<1> DEFINE pack == IF status = "learning_ready" THEN SelectedPack(r) ELSE NoPack
<1> DEFINE j == [phase |-> "answered", request |-> r, status |-> status,
                 update |-> Update(p), pack |-> pack]
<1>4. SelectedPack(r) \in Packs \cup {NoPack}
  BY <1>2, RequestType DEF SelectedPack
<1>5. status \in {"staged", "learner_choice_required", "learning_incomplete",
                  "learning_ready"}
  BY DEF Outcomes
<1>6. j \in Job
  BY <1>2, <1>4, <1>5 DEF Job
<1>7. job'[p] = j /\ job' = [job EXCEPT ![p] = j] /\ UNCHANGED <<inbox, staged>>
  BY <1>3 DEF Answer, IntakeInv, IntakeTypeOK
<1>8. WorksWithStored(p)' /\ WorksOnAcceptable(p)'
  BY <1>7 DEF WorksWithStored, WorksOnAcceptable, HasManifest, Ended
<1> HIDE DEF j
<1> QED
  BY <1>6, <1>7, <1>8, JobStep

LEMMA EndPreserves ==
    ASSUME IntakeInv, NEW p \in Processes, End(p)
    PROVE  IntakeInv'
<1> DEFINE j == [phase |-> "ended"]
<1>1. j \in Job
  BY DEF Job
<1>2. job'[p] = j /\ job' = [job EXCEPT ![p] = j] /\ UNCHANGED <<inbox, staged>>
  BY DEF End, IntakeInv, IntakeTypeOK
<1>3. WorksWithStored(p)' /\ WorksOnAcceptable(p)'
  BY <1>2 DEF WorksWithStored, WorksOnAcceptable, HasManifest, Ended
<1> HIDE DEF j
<1> QED
  BY <1>1, <1>2, <1>3, JobStep

-----------------------------------------------------------------------------
LEMMA InitEstablishes == IntakeInit => IntakeInv
<1> SUFFICES ASSUME IntakeInit PROVE IntakeInv
  OBVIOUS
<1>1. IntakeTypeOK
  BY DEF IntakeInit, IntakeTypeOK, Job
<1>2. \A p \in Processes : WorksWithStored(p) /\ WorksOnAcceptable(p)
  BY DEF IntakeInit, WorksWithStored, WorksOnAcceptable, HasManifest, Ended
<1> QED
  BY <1>1, <1>2 DEF IntakeInit, IntakeInv, ProposalsHaveIntakes

LEMMA NextPreserves == IntakeInv /\ [IntakeNext]_intakeVars => IntakeInv'
<1> SUFFICES ASSUME IntakeInv, [IntakeNext]_intakeVars PROVE IntakeInv'
  OBVIOUS
<1>1. ASSUME NEW p \in Processes, FindIntake(p) PROVE IntakeInv'
  BY <1>1, FoundPreserves DEF FindIntake, Ended
<1>2. ASSUME NEW p \in Processes, RenameLoses(p) PROVE IntakeInv'
  BY <1>2, FoundPreserves DEF RenameLoses, Ended
<1>3. CASE UNCHANGED intakeVars
  BY <1>3 DEF intakeVars, IntakeInv, IntakeTypeOK, WorksWithStored, WorksOnAcceptable,
              HasManifest, Ended, Acceptable, ProposalsHaveIntakes
<1> QED
  BY <1>1, <1>2, <1>3, SubmitPreserves, PreparePreserves, RenameWinsPreserves,
     FindUpdatePreserves, WriteUpdatePreserves, AnswerPreserves, EndPreserves
  DEF IntakeNext

(***************************************************************************)
(* The types, and the provenance of every proposal, hold in every          *)
(* behaviour.                                                              *)
(***************************************************************************)
THEOREM IntakeInvariant == IntakeSpec => []IntakeInv
BY InitEstablishes, NextPreserves, PTL DEF IntakeSpec

(***************************************************************************)
(* Type correctness of capture and staging.                                *)
(***************************************************************************)
THEOREM IntakeTypes == IntakeSpec => []IntakeTypeOK
<1>1. IntakeInv => IntakeTypeOK
  BY DEF IntakeInv
<1> QED
  BY <1>1, IntakeInvariant, PTL

(***************************************************************************)
(* Every staged update has its intake in the inbox, with its provenance:   *)
(* capture comes before staging and a lost race keeps the winner's         *)
(* manifest.                                                               *)
(***************************************************************************)
THEOREM Provenance == IntakeSpec => []ProposalsHaveIntakes
<1>1. IntakeInv => ProposalsHaveIntakes
  BY DEF IntakeInv
<1> QED
  BY <1>1, IntakeInvariant, PTL

(***************************************************************************)
(* Repeating a command creates no second proposal: both would say what the *)
(* one manifest of their intake says.                                      *)
(***************************************************************************)
THEOREM Idempotence == IntakeSpec => []NoDuplicateProposals
<1>1. IntakeInv => NoDuplicateProposals
  <2> SUFFICES ASSUME IntakeInv, NEW u \in staged, NEW v \in staged,
                      u.intake = v.intake, u.match = v.match
               PROVE  u = v
    BY DEF NoDuplicateProposals
  <2>1. u \in PackUpdate /\ v \in PackUpdate
    BY DEF IntakeInv, IntakeTypeOK
  <2>2. u.observed = v.observed
    BY DEF IntakeInv, ProposalsHaveIntakes
  <2> QED
    BY <2>1, <2>2 DEF PackUpdate
<1> QED
  BY <1>1, IntakeInvariant, PTL

(***************************************************************************)
(* No step of any command takes an intake or a proposal away or changes    *)
(* it.                                                                     *)
(***************************************************************************)
THEOREM Permanence == IntakeSpec => ArtifactsRemain
<1>1. IntakeInv /\ [IntakeNext]_intakeVars =>
          [/\ \A k \in IntakeKey : inbox[k] # NoManifest => inbox'[k] = inbox[k]
           /\ staged \subseteq staged']_intakeVars
  <2> SUFFICES ASSUME IntakeInv, IntakeNext
               PROVE  /\ \A k \in IntakeKey : inbox[k] # NoManifest => inbox'[k] = inbox[k]
                      /\ staged \subseteq staged'
    OBVIOUS
  <2>1. ASSUME NEW p \in Processes, RenameWins(p)
        PROVE  \A k \in IntakeKey : inbox[k] # NoManifest => inbox'[k] = inbox[k]
    BY <2>1 DEF RenameWins, IntakeInv, IntakeTypeOK
  <2>2. PICK p \in Processes :
            \/ RenameWins(p) \/ Submit(p) \/ FindIntake(p) \/ Prepare(p)
            \/ RenameLoses(p) \/ FindUpdate(p) \/ WriteUpdate(p) \/ Answer(p)
            \/ End(p)
    BY DEF IntakeNext
  <2>3. CASE RenameWins(p)
    BY <2>1, <2>3 DEF RenameWins
  <2>4. CASE ~RenameWins(p)
    BY <2>2, <2>4 DEF Submit, FindIntake, Prepare, RenameLoses, FindUpdate, WriteUpdate,
                     Answer, End
  <2> QED
    BY <2>3, <2>4
<1> QED
  BY <1>1, IntakeInvariant, PTL DEF IntakeSpec, ArtifactsRemain

-----------------------------------------------------------------------------
(***************************************************************************)
(* The inductive invariant of answers: a process answers about an update   *)
(* that is staged, and the pack it names is the one candidate of that      *)
(* update, the learner's own choice or the only match.                     *)
(***************************************************************************)
AnswersStaged(p) == job[p].phase = "staged" => Update(p) \in staged

ChoiceInv == NeverChoosesSilently /\ \A p \in Processes : AnswersStaged(p)

\* What NeverChoosesSilently says of one answer
Grounded(j) ==
    j.phase = "answered" /\ j.pack # NoPack =>
        /\ j.update \in staged
        /\ j.update.match.candidates = {j.pack}
        /\ Cardinality(Matched[j.update.intake.content]) > 1 => j.request.selected = j.pack

\* A step that keeps every proposal and moves one process to a grounded answer
\* or to no answer at all.
LEMMA ChoiceStep ==
    ASSUME IntakeInv, ChoiceInv, NEW p \in Processes, NEW j \in Job,
           job' = [job EXCEPT ![p] = j], staged \subseteq staged',
           Grounded(j)', AnswersStaged(p)'
    PROVE  ChoiceInv'
<1>1. job'[p] = j /\ \A q \in Processes \ {p} : job'[q] = job[q]
  BY DEF IntakeInv, IntakeTypeOK
<1>2. \A q \in Processes : Grounded(job[q])'
  <2> SUFFICES ASSUME NEW q \in Processes \ {p}
               PROVE  Grounded(job[q])'
    BY <1>1 DEF Grounded
  <2>1. Grounded(job[q])
    BY DEF ChoiceInv, NeverChoosesSilently, Grounded
  <2> QED
    BY <1>1, <2>1 DEF Grounded
<1>3. \A q \in Processes : AnswersStaged(q)'
  <2> SUFFICES ASSUME NEW q \in Processes \ {p}
               PROVE  AnswersStaged(q)'
    OBVIOUS
  <2> QED
    BY <1>1 DEF ChoiceInv, AnswersStaged, Update
<1>4. NeverChoosesSilently'
  BY <1>2 DEF NeverChoosesSilently, Grounded
<1> QED
  BY <1>3, <1>4 DEF ChoiceInv

\* The pack of an answer is the one candidate of the update: the learner named
\* it, or the text matches no other.
LEMMA SelectionIsTheMatch ==
    ASSUME NEW r, SelectedPack(r) # NoPack
    PROVE  /\ Match(r).candidates = {SelectedPack(r)}
           /\ Cardinality(Matched[r.material.content]) > 1 =>
                  r.selected = SelectedPack(r)
<1>1. CASE r.selected # NoPack
  BY <1>1 DEF SelectedPack, Match
<1>2. CASE r.selected = NoPack
  <2>1. PICK q \in Packs : Matched[r.material.content] = {q}
    BY <1>2 DEF SelectedPack
  <2>2. SelectedPack(r) = q
    BY <1>2, <2>1 DEF SelectedPack
  <2>3. Match(r).candidates = {q}
    BY <1>2, <2>1 DEF Match, ProposedMatch
  <2>4. Cardinality(Matched[r.material.content]) = 1
    BY <2>1, FS_Singleton
  <2> QED
    BY <2>2, <2>3, <2>4
<1> QED
  BY <1>1, <1>2

LEMMA AnswerIsGrounded ==
    ASSUME IntakeInv, ChoiceInv, NEW p \in Processes, Answer(p)
    PROVE  ChoiceInv'
<1> DEFINE r == job[p].request
<1>1. ~Ended(p) /\ HasManifest(p)
  BY DEF Answer, Ended, HasManifest
<1>2. PICK status \in Outcomes(r) :
          job' = [job EXCEPT ![p] =
              [phase |-> "answered", request |-> r, status |-> status,
               update |-> Update(p),
               pack |-> IF status = "learning_ready" THEN SelectedPack(r) ELSE NoPack]]
  BY DEF Answer
<1>3. /\ r \in Request /\ Acceptable(r) /\ r.material \in Materials
      /\ job[p].manifest \in Materials
  BY <1>1, JobShape DEF Material
<1>4. /\ Update(p) \in staged
      /\ Update(p).match = Match(r)
      /\ Update(p).intake = Key(job[p].manifest)
  BY DEF Answer, ChoiceInv, AnswersStaged, Update, Compiled
<1>5. Update(p).intake.content = r.material.content
  <2>1. Key(job[p].manifest) = Key(r.material)
    BY <1>1 DEF IntakeInv, WorksWithStored
  <2> QED
    BY <1>3, <1>4, <2>1, KeyType
<1>6. staged' = staged
  BY DEF Answer
<1>7. PICK j : /\ job' = [job EXCEPT ![p] = j] /\ j \in Job
               /\ j.phase = "answered" /\ j.request = r /\ j.update = Update(p)
               /\ j.pack \in {SelectedPack(r), NoPack}
  <2> DEFINE named == IF status = "learning_ready" THEN SelectedPack(r) ELSE NoPack
             j == [phase |-> "answered", request |-> r, status |-> status,
                   update |-> Update(p), pack |-> named]
  <2>1. SelectedPack(r) \in Packs \cup {NoPack}
    BY <1>3, RequestType DEF SelectedPack
  <2>2. status \in {"staged", "learner_choice_required", "learning_incomplete",
                    "learning_ready"}
    BY DEF Outcomes
  <2>3. Update(p) \in PackUpdate
    BY <1>1, UpdateIsGrounded
  <2>4. j \in Job
    BY <1>3, <2>1, <2>2, <2>3 DEF Job
  <2>5. /\ j.phase = "answered" /\ j.request = r /\ j.update = Update(p)
        /\ j.pack \in {SelectedPack(r), NoPack}
    OBVIOUS
  <2>6. job' = [job EXCEPT ![p] = j]
    BY <1>2
  <2> HIDE DEF j
  <2> QED
    BY <2>4, <2>5, <2>6
<1> HIDE DEF r
<1>8. Grounded(j)
  BY <1>4, <1>5, <1>7, SelectionIsTheMatch DEF Grounded
<1>9. Grounded(j)'
  BY <1>6, <1>8 DEF Grounded
<1>10. AnswersStaged(p)'
  <2>1. job'[p] = j
    BY <1>7 DEF IntakeInv, IntakeTypeOK
  <2> QED
    BY <1>7, <2>1 DEF AnswersStaged
<1> QED
  BY <1>6, <1>7, <1>9, <1>10, ChoiceStep

\* A step of a process that answers nothing, and comes to no staged update.
LEMMA UnansweredStep ==
    ASSUME IntakeInv, ChoiceInv, NEW p \in Processes, NEW j \in Job,
           job' = [job EXCEPT ![p] = j], staged \subseteq staged',
           j.phase \notin {"answered", "staged"}
    PROVE  ChoiceInv'
<1>1. Grounded(j)'
  BY DEF Grounded
<1>2. job'[p] = j
  BY DEF IntakeInv, IntakeTypeOK
<1>3. AnswersStaged(p)'
  BY <1>2 DEF AnswersStaged
<1> QED
  BY <1>1, <1>3, ChoiceStep

\* The update is found, or is written: it is staged from here on.
LEMMA StagingIsGrounded ==
    ASSUME IntakeInv, ChoiceInv, NEW p \in Processes, FindUpdate(p) \/ WriteUpdate(p)
    PROVE  ChoiceInv'
<1>1. PICK phase \in {"staged", "staging"} :
          /\ job' = [job EXCEPT ![p] = [job[p] EXCEPT !.phase = phase]]
          /\ phase = "staged" => Update(p) \in staged'
  BY DEF FindUpdate, WriteUpdate
<1>2. ~Ended(p) /\ HasManifest(p)
  BY DEF FindUpdate, WriteUpdate, Ended, HasManifest
<1>3. PICK j \in Job : /\ job' = [job EXCEPT ![p] = j] /\ j.phase = phase
                      /\ j.request = job[p].request /\ j.manifest = job[p].manifest
  <2> DEFINE j == [job[p] EXCEPT !.phase = phase]
  <2>1. /\ j \in Job /\ j.phase = phase
        /\ j.request = job[p].request /\ j.manifest = job[p].manifest
    BY <1>2, PhaseStep
  <2>2. job' = [job EXCEPT ![p] = j]
    BY <1>1
  <2> HIDE DEF j
  <2> QED
    BY <2>1, <2>2
<1>4. staged \subseteq staged'
  BY DEF FindUpdate, WriteUpdate
<1>5. Grounded(j)'
  BY <1>3 DEF Grounded
<1>6. job'[p] = j
  BY <1>3 DEF IntakeInv, IntakeTypeOK
<1>7. AnswersStaged(p)'
  BY <1>1, <1>3, <1>6 DEF AnswersStaged, Update
<1> QED
  BY <1>3, <1>4, <1>5, <1>7, ChoiceStep

LEMMA OthersAnswerNothing ==
    ASSUME IntakeInv, IntakeInv', ChoiceInv, NEW p \in Processes,
           \/ Submit(p) \/ FindIntake(p) \/ Prepare(p) \/ RenameWins(p)
           \/ RenameLoses(p) \/ End(p)
    PROVE  ChoiceInv'
<1>1. PICK j : job' = [job EXCEPT ![p] = j] /\ j.phase \notin {"answered", "staged"}
  <2>1. CASE Submit(p)
    <3>1. PICK r \in Request :
              job' = [job EXCEPT ![p] =
                  IF Acceptable(r) THEN [phase |-> "accepted", request |-> r]
                                   ELSE [phase |-> "refused"]]
      BY <2>1 DEF Submit
    <3>2. CASE Acceptable(r)
      <4> DEFINE j == [phase |-> "accepted", request |-> r]
      <4>1. job' = [job EXCEPT ![p] = j] /\ j.phase = "accepted"
        BY <3>1, <3>2
      <4> QED
        BY <4>1
    <3>3. CASE ~Acceptable(r)
      <4> DEFINE j == [phase |-> "refused"]
      <4>1. job' = [job EXCEPT ![p] = j] /\ j.phase = "refused"
        BY <3>1, <3>3
      <4> QED
        BY <4>1
    <3> QED
      BY <3>2, <3>3
  <2>2. CASE Prepare(p)
    <3> DEFINE j == [job[p] EXCEPT !.phase = "prepared"]
    <3>1. ~Ended(p) /\ ~HasManifest(p)
      BY <2>2 DEF Prepare, Ended, HasManifest
    <3>2. j.phase = "prepared"
      BY <3>1, PhaseStep
    <3>3. job' = [job EXCEPT ![p] = j]
      BY <2>2 DEF Prepare
    <3> QED
      BY <3>2, <3>3
  <2>3. CASE FindIntake(p) \/ RenameWins(p) \/ RenameLoses(p)
    <3>1. PICK m : Captured(p, m)
      BY <2>3 DEF FindIntake, RenameWins, RenameLoses
    <3> DEFINE j == [phase |-> "captured", request |-> job[p].request, manifest |-> m]
    <3>2. job' = [job EXCEPT ![p] = j] /\ j.phase = "captured"
      BY <3>1 DEF Captured
    <3> QED
      BY <3>2
  <2>4. CASE End(p)
    <3> DEFINE j == [phase |-> "ended"]
    <3>1. job' = [job EXCEPT ![p] = j] /\ j.phase = "ended"
      BY <2>4 DEF End
    <3> QED
      BY <3>1
  <2> QED
    BY <2>1, <2>2, <2>3, <2>4
<1>2. staged' = staged
  BY DEF Submit, FindIntake, Prepare, RenameWins, RenameLoses, End
<1>3. j \in Job
  <2>1. job'[p] = j
    BY <1>1 DEF IntakeInv, IntakeTypeOK
  <2> QED
    BY <2>1 DEF IntakeInv, IntakeTypeOK
<1> QED
  BY <1>1, <1>2, <1>3, UnansweredStep

LEMMA ChoiceNext ==
    IntakeInv /\ IntakeInv' /\ ChoiceInv /\ [IntakeNext]_intakeVars => ChoiceInv'
<1> SUFFICES ASSUME IntakeInv, IntakeInv', ChoiceInv, [IntakeNext]_intakeVars
             PROVE  ChoiceInv'
  OBVIOUS
<1>1. CASE UNCHANGED intakeVars
  BY <1>1 DEF intakeVars, ChoiceInv, NeverChoosesSilently, AnswersStaged, Update
<1>2. CASE IntakeNext
  BY <1>2, OthersAnswerNothing, StagingIsGrounded, AnswerIsGrounded DEF IntakeNext
<1> QED
  BY <1>1, <1>2

(***************************************************************************)
(* No command sends the learner to a pack that its staged proposal leaves  *)
(* open: several matches are resolved by the learner's choice alone.       *)
(***************************************************************************)
THEOREM NoSilentChoice == IntakeSpec => []NeverChoosesSilently
<1>1. IntakeInit => ChoiceInv
  BY DEF IntakeInit, ChoiceInv, NeverChoosesSilently, AnswersStaged
<1>2. ChoiceInv => NeverChoosesSilently
  BY DEF ChoiceInv
<1> QED
  BY <1>1, <1>2, ChoiceNext, IntakeInvariant, PTL DEF IntakeSpec
=============================================================================
