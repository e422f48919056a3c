------------------------------ MODULE Promotion ------------------------------
(***************************************************************************)
(* Promotion of staged Pack Updates into accepted Learning Packs           *)
(* (promotion.py, pack_repository.py): a learner previews a plan against   *)
(* the pack as it is and later confirms that preview; the confirmation     *)
(* decides again under one lock for all packs, replaces pack.json          *)
(* atomically and may die, or its answer may be lost, at any point.        *)
(*                                                                         *)
(* Staged updates and plans are immutable and named by digests; a pack's   *)
(* content stands for its digest.  A claim is named by the update and the  *)
(* proposal it accepts, a plan's decisions are in the order of proposals.  *)
(* "title" never changes once a pack exists and is part of the pack name.  *)
(* What _validate_plan also asks of a plan (sanitized text, a contradict   *)
(* decision for a contradicting proposal) only makes plans fewer.          *)
(***************************************************************************)
EXTENDS Naturals, Sequences, FiniteSets, SequencesExt

CONSTANTS
    Packs,          \* pack ids
    Updates,        \* staged Pack Updates
    Sessions,       \* browser or command line sessions
    Candidates,     \* the packs an update's match allows as its target
    Proposals,      \* how many claims each update proposes
    Statuses        \* fact statuses a learner gives an accepted claim

CONSTANT NoClaim

ASSUME ProposalsAssumption == Proposals \in [Updates -> Nat \ {0}]
ASSUME CandidatesAssumption == Candidates \in [Updates -> SUBSET Packs]
ASSUME StatusesAssumption ==
    Statuses \subseteq {"current", "historical", "contradicted", "unverified"}

VARIABLES
    pack,           \* accepted pack of each id, version 0 when there is none
    session,        \* what each session has previewed and asked
    lock            \* the session holding the Promotion lock, or NoSession

promotionVars == <<pack, session, lock>>

NoSession == "no session"
ASSUME NoSessionAssumption == NoSession \notin Sessions

NoPack == [version |-> 0, claims |-> <<>>, promotions |-> <<>>]
NewSession == [phase |-> "new"]

PromotionInit ==
    /\ pack = [p \in Packs |-> NoPack]
    /\ session = [s \in Sessions |-> NewSession]
    /\ lock = NoSession

-----------------------------------------------------------------------------
(***************************************************************************)
(* Decisions a learner can make about a pack as it is (PromotionDecision). *)
(***************************************************************************)
ClaimIds(content) == {content.claims[i].id : i \in DOMAIN content.claims}

Rejection == [action |-> "reject"]

Acceptances(content) ==
    [action : {"accept"}, status : Statuses, history : {"add"}, target : {NoClaim}]
    \cup [action : {"accept"}, status : Statuses,
          history : {"supersede", "contradict"}, target : ClaimIds(content)]

Decisions(content) == {Rejection} \cup Acceptances(content)

Plans(u, p) ==
    [update : {u}, pack : {p}, base : {pack[p].version},
     decisions : [1..Proposals[u] -> Decisions(pack[p])]]

-----------------------------------------------------------------------------
(***************************************************************************)
(* _apply: a claim that is superseded or contradicted stays, with a new    *)
(* status; every accepted proposal becomes a new claim at the end.         *)
(***************************************************************************)

\* Mutant: only a supersede changes the status of its target.
RetargetSuperseded(claims, d) ==
    [i \in DOMAIN claims |->
        IF claims[i].id = d.target /\ d.history = "supersede"
        THEN [claims[i] EXCEPT !.status = "historical"]
        ELSE claims[i]]

\* Mutant: a superseded claim is removed.
RetargetRemoving(claims, d) ==
    LET Stays(claim) == ~(claim.id = d.target /\ d.history = "supersede")
    IN  SelectSeq(claims, Stays)

Retarget(claims, d) ==
    [i \in DOMAIN claims |->
        IF claims[i].id = d.target
        THEN [claims[i] EXCEPT !.status = IF d.history = "contradict"
                                          THEN "contradicted" ELSE "historical"]
        ELSE claims[i]]

Decide(claims, plan, proposal) ==
    LET d == plan.decisions[proposal] IN
    IF d.action = "reject" THEN claims
    ELSE Append(Retarget(claims, d),
                [id |-> <<plan.update, proposal>>, status |-> d.status,
                 history |-> d.history, target |-> d.target])

\* the claims after the first n decisions
Decided(claims, plan) ==
    LET decided[n \in 0..Proposals[plan.update]] ==
            IF n = 0 THEN claims ELSE Decide(decided[n - 1], plan, n)
    IN  decided

DecideAll(claims, plan) == Decided(claims, plan)[Proposals[plan.update]]

Apply(plan, content) ==
    [version |-> content.version + 1,
     claims |-> DecideAll(content.claims, plan),
     promotions |-> Append(content.promotions, plan)]

-----------------------------------------------------------------------------
(***************************************************************************)
(* Preview.  The review page's signed snapshot of the base must still be   *)
(* the pack's content, or preview refuses; so the base is the content now. *)
(***************************************************************************)
Working(s) == session[s].phase \in {"deciding", "written"}

Preview(s) ==
    /\ session[s].phase = "new"
    /\ \E u \in Updates : \E p \in Candidates[u] : \E plan \in Plans(u, p) :
           session' = [session EXCEPT ![s] =
               [phase |-> "previewed", plan |-> plan, base |-> pack[p],
                preview |-> Apply(plan, pack[p])]]
    /\ UNCHANGED <<pack, lock>>

\* The learner leaves the preview, or the pack just promoted.
Leave(s) ==
    /\ session[s].phase \in {"previewed", "confirmed"}
    /\ session' = [session EXCEPT ![s] = NewSession]
    /\ UNCHANGED <<pack, lock>>

(***************************************************************************)
(* commit.  _find_promotion_by_update searches all packs, and raises if it *)
(* finds two records.                                                      *)
(***************************************************************************)

\* Mutant: only the plan's own pack is searched.
OwnRecords(plan) ==
    {pr \in {pack[plan.pack].promotions[i] : i \in DOMAIN pack[plan.pack].promotions} :
        pr.update = plan.update}

PriorRecords(plan) ==
    {pr \in UNION {{pack[p].promotions[i] : i \in DOMAIN pack[p].promotions} :
                       p \in Packs} :
        pr.update = plan.update}

\* _require_expected_base, and the confirmed digest against a new preview
StillAsPreviewed(s) ==
    LET plan == session[s].plan IN
    /\ pack[plan.pack] = session[s].base
    /\ Apply(plan, pack[plan.pack]) = session[s].preview

\* Mutant: the decision is made before the lock is taken.
ConfirmUnlocked(s) ==
    /\ session[s].phase = "previewed"
    /\ PriorRecords(session[s].plan) = {} /\ StillAsPreviewed(s)
    /\ session' = [session EXCEPT ![s].phase = "deciding"]
    /\ lock' = s
    /\ UNCHANGED pack

Confirm(s) ==
    /\ session[s].phase = "previewed"
    /\ lock = NoSession
    /\ PriorRecords(session[s].plan) = {} /\ StillAsPreviewed(s)
    /\ session' = [session EXCEPT ![s].phase = "deciding"]
    /\ lock' = s
    /\ UNCHANGED pack

\* Mutant: any promotion of the update answers the retry.
ConfirmAnyAgain(s) ==
    /\ session[s].phase = "previewed"
    /\ lock = NoSession
    /\ PriorRecords(session[s].plan) # {}
    /\ session' = [session EXCEPT ![s].phase = "confirmed"]
    /\ UNCHANGED <<pack, lock>>

\* The exact plan was promoted before: the retry is told so.
ConfirmAgain(s) ==
    /\ session[s].phase = "previewed"
    /\ lock = NoSession
    /\ PriorRecords(session[s].plan) = {session[s].plan}
    /\ session' = [session EXCEPT ![s].phase = "confirmed"]
    /\ UNCHANGED <<pack, lock>>

\* A different decision, or a base that moved: nothing is written.
Refuse(s) ==
    /\ session[s].phase = "previewed"
    /\ lock = NoSession
    /\ PriorRecords(session[s].plan) # {session[s].plan}
    /\ PriorRecords(session[s].plan) # {} \/ ~StillAsPreviewed(s)
    /\ session' = [session EXCEPT ![s] = NewSession]
    /\ UNCHANGED <<pack, lock>>

\* _write_promoted replaces pack.json in one step.
Write(s) ==
    /\ session[s].phase = "deciding"
    /\ pack' = [pack EXCEPT ![session[s].plan.pack] = session[s].preview]
    /\ session' = [session EXCEPT ![s].phase = "written"]
    /\ UNCHANGED lock

\* The lock is released; the answer arrives, or is lost (the commit may also
\* be reported uncertain), and then the learner may confirm again.
Answer(s) ==
    /\ session[s].phase = "written"
    /\ \E phase \in {"confirmed", "previewed"} :
           session' = [session EXCEPT ![s].phase = phase]
    /\ lock' = NoSession
    /\ UNCHANGED pack

\* The write fails before the replacement, or the process dies at any point.
Abort(s) ==
    /\ Working(s)
    /\ session' = [session EXCEPT ![s].phase = "previewed"]
    /\ lock' = NoSession
    /\ UNCHANGED pack

PromotionNext ==
    \E s \in Sessions :
        \/ Preview(s) \/ Leave(s) \/ Confirm(s) \/ ConfirmAgain(s)
        \/ Refuse(s) \/ Write(s) \/ Answer(s) \/ Abort(s)

PromotionSpec == PromotionInit /\ [][PromotionNext]_promotionVars

-----------------------------------------------------------------------------
(***************************************************************************)
(* A staged update is promoted at most once over all packs ("one-use       *)
(* staged updates"); a second record would make _find_promotion_by_update  *)
(* raise for it ever after.                                                *)
(***************************************************************************)
UpdatePromotedOnce ==
    \A p, q \in Packs :
        \A i \in DOMAIN pack[p].promotions, j \in DOMAIN pack[q].promotions :
            pack[p].promotions[i].update = pack[q].promotions[j].update
            => p = q /\ i = j

(***************************************************************************)
(* "It never rebases a review silently" (docs/promotion.md): whatever      *)
(* changes a pack is what some learner previewed, made of the very content *)
(* it replaces.                                                            *)
(***************************************************************************)
NeverRebased ==
    [][\A p \in Packs : pack'[p] # pack[p] =>
          \E s \in Sessions :
              /\ Working(s)
              /\ session[s].plan.pack = p
              /\ session[s].base = pack[p]
              /\ session[s].preview = pack'[p]]_promotionVars

(***************************************************************************)
(* Accepted history is never lost: no step of any session removes, moves   *)
(* or rewrites an accepted claim or a Promotion record; all that may       *)
(* change is a claim's status, and never back to an active one.            *)
(***************************************************************************)
AcceptedHistoryGrows ==
    [][\A p \in Packs :
          /\ IsPrefix(pack[p].promotions, pack'[p].promotions)
          /\ Len(pack[p].claims) <= Len(pack'[p].claims)
          /\ \A i \in DOMAIN pack[p].claims :
                 LET old == pack[p].claims[i]
                     new == pack'[p].claims[i]
                 IN  /\ new = [old EXCEPT !.status = new.status]
                     /\ new.status # old.status =>
                            new.status \in {"historical", "contradicted"}]_promotionVars

(***************************************************************************)
(* Promotion implements what readers of packs rely on, AcceptedPacks: no   *)
(* interleaving, lost answer, retry or crash rewrites a history, skips a   *)
(* version or uses an update twice.                                        *)
(***************************************************************************)
PromotedUpdates ==
    [p \in Packs |->
        [i \in DOMAIN pack[p].promotions |-> pack[p].promotions[i].update]]

Accepted == INSTANCE AcceptedPacks WITH accepted <- PromotedUpdates

ImplementsAcceptedPacks == Accepted!AcceptedSpec

(***************************************************************************)
(* A claim that supersedes or contradicts another comes after it in the    *)
(* same pack, and the other is no longer shown as current.                 *)
(***************************************************************************)
HistoryLinks ==
    \A p \in Packs : \A j \in DOMAIN pack[p].claims :
        LET target == pack[p].claims[j].target IN
        target # NoClaim =>
            \E i \in 1..(j - 1) :
                /\ pack[p].claims[i].id = target
                /\ pack[p].claims[i].status \in {"historical", "contradicted"}

(***************************************************************************)
(* A learner who was told "promoted" finds the promotion in the pack, with *)
(* every claim it accepted, whatever is promoted, lost or retried later.   *)
(***************************************************************************)
ConfirmedIsRecorded ==
    \A s \in Sessions : session[s].phase = "confirmed" =>
        LET plan == session[s].plan IN
        /\ \E i \in DOMAIN pack[plan.pack].promotions :
               pack[plan.pack].promotions[i] = plan
        /\ \A k \in DOMAIN plan.decisions : plan.decisions[k].action = "accept" =>
               <<plan.update, k>> \in ClaimIds(pack[plan.pack])
=============================================================================
