-------------------------- MODULE PromotionProofs --------------------------
(***************************************************************************)
(* What promotion promises, proved for any packs, staged updates and       *)
(* sessions.  For the records it is enough that a plan adds its own at the *)
(* end; what a plan does to the claims is shown decision by decision, by   *)
(* induction over the plan's decisions.                                    *)
(***************************************************************************)
EXTENDS Promotion, SequenceTheorems, WellFoundedInduction, TLAPS

(***************************************************************************)
(* Shapes.  Sessions and packs hold values of no set that could be named   *)
(* without the fold, so they are described by their fields.                *)
(***************************************************************************)
Phases == {"previewed", "deciding", "written", "confirmed"}

IsOpened(v) ==
    /\ v = [phase |-> v.phase, plan |-> v.plan, base |-> v.base, preview |-> v.preview]
    /\ v.phase \in Phases
    /\ v.plan.update \in Updates /\ v.plan.pack \in Packs
    /\ v.preview = Apply(v.plan, v.base)

SessionShape ==
    /\ session = [s \in Sessions |-> session[s]]
    /\ \A s \in Sessions : session[s] = NewSession \/ IsOpened(session[s])

Records(content) == {content.promotions[i] : i \in DOMAIN content.promotions}

PackShape ==
    /\ pack = [p \in Packs |-> pack[p]]
    /\ \A p \in Packs :
           /\ pack[p].promotions \in Seq(Records(pack[p]))
           /\ \A r \in Records(pack[p]) : r.update \in Updates

(***************************************************************************)
(* The inductive invariant.  Whoever works under the Promotion lock holds  *)
(* it, and what was checked when the lock was taken still holds: the pack  *)
(* is the previewed base, and no pack records the update.                  *)
(***************************************************************************)
WorkersHoldTheLock == \A s \in Sessions : Working(s) => lock = s

StillDecided(v) ==
    v.phase = "deciding" =>
        pack[v.plan.pack] = v.base /\ PriorRecords(v.plan) = {}

DecisionsStand == \A s \in Sessions : StillDecided(session[s])

PromotionInv ==
    /\ PackShape
    /\ SessionShape
    /\ WorkersHoldTheLock
    /\ DecisionsStand
    /\ UpdatePromotedOnce

-----------------------------------------------------------------------------
\* A plan adds its own record at the end of the pack it is applied to.
LEMMA ApplyRecords ==
    ASSUME NEW plan, NEW content
    PROVE  Apply(plan, content).promotions = Append(content.promotions, plan)
BY DEF Apply

\* A session that moves to another phase keeps what it previewed.
LEMMA PhaseChange ==
    ASSUME NEW v, IsOpened(v), NEW phase \in Phases
    PROVE  LET w == [v EXCEPT !.phase = phase] IN
           /\ IsOpened(w) /\ w.phase = phase
           /\ w.plan = v.plan /\ w.base = v.base /\ w.preview = v.preview
<1> DEFINE w == [v EXCEPT !.phase = phase]
<1>1. v = [phase |-> v.phase, plan |-> v.plan, base |-> v.base, preview |-> v.preview]
  BY DEF IsOpened
<1>2. w = [phase |-> phase, plan |-> v.plan, base |-> v.base, preview |-> v.preview]
  BY <1>1
<1>3. /\ w.phase = phase /\ w.plan = v.plan
      /\ w.base = v.base /\ w.preview = v.preview
  BY <1>2
<1>4. IsOpened(w)
  BY <1>2, <1>3 DEF IsOpened
<1> QED
  BY <1>3, <1>4

\* A session in any phase but the first has previewed a plan.
LEMMA SessionIsOpened ==
    ASSUME PromotionInv, NEW s \in Sessions, session[s].phase \in Phases
    PROVE  IsOpened(session[s])
BY DEF PromotionInv, SessionShape, NewSession, Phases

\* An update no record names is in no pack.
LEMMA NoPriorRecords ==
    ASSUME NEW plan, PriorRecords(plan) = {}
    PROVE  \A p \in Packs : \A i \in DOMAIN pack[p].promotions :
               pack[p].promotions[i].update # plan.update
BY DEF PriorRecords

-----------------------------------------------------------------------------
\* A step of one session that leaves all packs alone.
LEMMA QuietStep ==
    ASSUME PromotionInv, NEW s \in Sessions, NEW v,
           v = NewSession \/ IsOpened(v),
           session' = [session EXCEPT ![s] = v], UNCHANGED pack,
           v.phase \in {"deciding", "written"} => lock' = s,
           \A t \in Sessions \ {s} : Working(t) => lock' = t,
           StillDecided(v)
    PROVE  PromotionInv'
<1>1. /\ session' = [t \in Sessions |-> session'[t]]
      /\ session'[s] = v
      /\ \A t \in Sessions \ {s} : session'[t] = session[t]
  BY DEF PromotionInv, SessionShape
<1>2. PackShape' /\ UpdatePromotedOnce'
  BY DEF PromotionInv, PackShape, UpdatePromotedOnce, Records
<1>3. SessionShape'
  BY <1>1 DEF PromotionInv, SessionShape
<1>4. WorkersHoldTheLock'
  BY <1>1 DEF WorkersHoldTheLock, Working
<1>5. DecisionsStand'
  <2> SUFFICES ASSUME NEW t \in Sessions
               PROVE  StillDecided(session[t])'
    BY DEF DecisionsStand
  <2>1. StillDecided(session'[t])
    BY <1>1 DEF PromotionInv, DecisionsStand
  <2> QED
    BY <2>1 DEF StillDecided, PriorRecords
<1> QED
  BY <1>2, <1>3, <1>4, <1>5 DEF PromotionInv

\* A session ends its preview, or starts another: no one's lock is touched.
LEMMA UnlockedStep ==
    ASSUME PromotionInv, NEW s \in Sessions, NEW v,
           v = NewSession \/ IsOpened(v),
           v.phase \notin {"deciding", "written"},
           session' = [session EXCEPT ![s] = v], UNCHANGED <<pack, lock>>
    PROVE  PromotionInv'
<1>1. StillDecided(v)
  BY DEF StillDecided
<1>2. \A t \in Sessions \ {s} : Working(t) => lock' = t
  BY DEF PromotionInv, WorkersHoldTheLock
<1> QED
  BY <1>1, <1>2, QuietStep

LEMMA PreviewPreserves ==
    ASSUME PromotionInv, NEW s \in Sessions, Preview(s)
    PROVE  PromotionInv'
<1>1. PICK u \in Updates : \E p \in Candidates[u] : \E plan \in Plans(u, p) :
          session' = [session EXCEPT ![s] =
              [phase |-> "previewed", plan |-> plan, base |-> pack[p],
               preview |-> Apply(plan, pack[p])]]
  BY DEF Preview
<1>2. PICK p \in Candidates[u] : \E plan \in Plans(u, p) :
          session' = [session EXCEPT ![s] =
              [phase |-> "previewed", plan |-> plan, base |-> pack[p],
               preview |-> Apply(plan, pack[p])]]
  BY <1>1
<1>3. PICK plan \in Plans(u, p) :
          session' = [session EXCEPT ![s] =
              [phase |-> "previewed", plan |-> plan, base |-> pack[p],
               preview |-> Apply(plan, pack[p])]]
  BY <1>2
<1> DEFINE v == [phase |-> "previewed", plan |-> plan, base |-> pack[p],
                 preview |-> Apply(plan, pack[p])]
<1>4. plan.update = u /\ plan.pack = p /\ p \in Packs
  BY CandidatesAssumption DEF Plans
<1>5. IsOpened(v) /\ v.phase \notin {"deciding", "written"}
  BY <1>4 DEF IsOpened, Phases
<1> QED
  BY <1>3, <1>5, UnlockedStep DEF Preview

LEMMA LeavePreserves ==
    ASSUME PromotionInv, NEW s \in Sessions, Leave(s) \/ Refuse(s)
    PROVE  PromotionInv'
<1>1. NewSession.phase \notin {"deciding", "written"}
  BY DEF NewSession
<1> QED
  BY <1>1, UnlockedStep DEF Leave, Refuse

LEMMA ConfirmAgainPreserves ==
    ASSUME PromotionInv, NEW s \in Sessions, ConfirmAgain(s)
    PROVE  PromotionInv'
<1> DEFINE v == [session[s] EXCEPT !.phase = "confirmed"]
<1>1. IsOpened(v) /\ v.phase = "confirmed"
  BY SessionIsOpened, PhaseChange DEF ConfirmAgain, Phases
<1>2. session' = [session EXCEPT ![s] = v] /\ UNCHANGED <<pack, lock>>
  BY DEF ConfirmAgain
<1> QED
  BY <1>1, <1>2, UnlockedStep

LEMMA ConfirmPreserves ==
    ASSUME PromotionInv, NEW s \in Sessions, Confirm(s)
    PROVE  PromotionInv'
<1> DEFINE v == [session[s] EXCEPT !.phase = "deciding"]
<1>1. /\ IsOpened(v) /\ v.phase = "deciding"
      /\ v.plan = session[s].plan /\ v.base = session[s].base
  BY SessionIsOpened, PhaseChange DEF Confirm, Phases
<1>2. session' = [session EXCEPT ![s] = v] /\ UNCHANGED pack /\ lock' = s
  BY DEF Confirm
<1>3. StillDecided(v)
  BY <1>1 DEF Confirm, StillAsPreviewed, StillDecided
<1>4. \A t \in Sessions \ {s} : ~Working(t)
  BY NoSessionAssumption DEF Confirm, PromotionInv, WorkersHoldTheLock
<1> QED
  BY <1>1, <1>2, <1>3, <1>4, QuietStep

\* The lock is given back: by an answer, a failure or the end of a process.
LEMMA ReleasePreserves ==
    ASSUME PromotionInv, NEW s \in Sessions, Answer(s) \/ Abort(s)
    PROVE  PromotionInv'
<1>1. PICK phase \in {"confirmed", "previewed"} :
          session' = [session EXCEPT ![s].phase = phase]
  BY DEF Answer, Abort
<1> DEFINE v == [session[s] EXCEPT !.phase = phase]
<1>2. session[s].phase \in {"deciding", "written"} /\ Working(s)
  BY DEF Answer, Abort, Working
<1>3. IsOpened(v) /\ v.phase = phase
  BY <1>2, SessionIsOpened, PhaseChange DEF Phases
<1>4. StillDecided(v)
  BY <1>3 DEF StillDecided
<1>5. \A t \in Sessions \ {s} : ~Working(t)
  BY <1>2 DEF PromotionInv, WorkersHoldTheLock
<1>6. session' = [session EXCEPT ![s] = v] /\ UNCHANGED pack
  BY <1>1 DEF Answer, Abort
<1> QED
  BY <1>3, <1>4, <1>5, <1>6, QuietStep

-----------------------------------------------------------------------------
\* A content with its old records, and the record of the plan after them.
ExtendedBy(plan, content, longer) ==
    LET old == content.promotions
        new == longer.promotions
    IN  /\ new \in Seq(Records(longer))
        /\ Records(longer) = Records(content) \cup {plan}
        /\ DOMAIN old = 1..Len(old) /\ Len(old) \in Nat
        /\ DOMAIN new = 1..(Len(old) + 1)
        /\ \A i \in 1..Len(old) : new[i] = old[i]
        /\ new[Len(old) + 1] = plan

\* Appending a record gives such a content.
LEMMA OneMoreRecord ==
    ASSUME NEW content, content.promotions \in Seq(Records(content)),
           NEW plan, NEW longer,
           longer.promotions = Append(content.promotions, plan)
    PROVE  ExtendedBy(plan, content, longer)
<1> DEFINE old == content.promotions
           new == longer.promotions
           S == Records(content) \cup {plan}
<1>1. old \in Seq(S)
  BY SeqMonotonic, Records(content) \subseteq S
<1>2. new \in Seq(S)
  BY <1>1
<1>3. DOMAIN old = 1..Len(old) /\ Len(old) \in Nat
  BY <1>1
<1>4. Len(new) = Len(old) + 1 /\ DOMAIN new = 1..(Len(old) + 1)
  BY <1>1, <1>2
<1>5. /\ \A i \in 1..Len(old) : new[i] = old[i]
      /\ new[Len(old) + 1] = plan
  BY <1>1, <1>3
<1>6. Records(longer) = S
  <2>1. Records(longer) \subseteq S
    BY <1>3, <1>4, <1>5 DEF Records
  <2>2. plan \in Records(longer)
    BY <1>3, <1>4, <1>5 DEF Records
  <2>3. Records(content) \subseteq Records(longer)
    BY <1>3, <1>4, <1>5 DEF Records
  <2> QED
    BY <2>1, <2>2, <2>3
<1> QED
  BY <1>2, <1>3, <1>4, <1>5, <1>6 DEF ExtendedBy

\* What a write does: the pack it decided about gets one record of an update
\* that no pack has recorded, and is what was previewed.
LEMMA WriteStep ==
    ASSUME PromotionInv, NEW s \in Sessions, Write(s)
    PROVE  LET plan == session[s].plan IN
           /\ plan.pack \in Packs /\ plan.update \in Updates
           /\ pack[plan.pack] = session[s].base
           /\ pack' = [pack EXCEPT ![plan.pack] = session[s].preview]
           /\ session[s].preview.promotions = Append(pack[plan.pack].promotions, plan)
           /\ \A p \in Packs : \A i \in DOMAIN pack[p].promotions :
                  pack[p].promotions[i].update # plan.update
<1> DEFINE plan == session[s].plan
<1>1. IsOpened(session[s])
  BY SessionIsOpened DEF Write, Phases
<1>2. pack[plan.pack] = session[s].base /\ PriorRecords(plan) = {}
  BY DEF Write, PromotionInv, DecisionsStand, StillDecided
<1>3. session[s].preview.promotions = Append(pack[plan.pack].promotions, plan)
  BY <1>1, <1>2, ApplyRecords DEF IsOpened
<1> QED
  BY <1>1, <1>2, <1>3, NoPriorRecords DEF IsOpened, Write

LEMMA WritePreserves ==
    ASSUME PromotionInv, NEW s \in Sessions, Write(s)
    PROVE  PromotionInv'
<1> DEFINE plan == session[s].plan
           q == plan.pack
           preview == session[s].preview
           old == pack[q].promotions
           v == [session[s] EXCEPT !.phase = "written"]
<1>1. /\ q \in Packs /\ plan.update \in Updates
      /\ preview.promotions = Append(old, plan)
      /\ \A p \in Packs : \A i \in DOMAIN pack[p].promotions :
             pack[p].promotions[i].update # plan.update
  BY WriteStep
<1>2. /\ pack' = [p \in Packs |-> pack'[p]]
      /\ pack'[q] = preview
      /\ \A p \in Packs \ {q} : pack'[p] = pack[p]
  BY <1>1, WriteStep DEF PromotionInv, PackShape
<1>3. /\ preview.promotions \in Seq(Records(preview))
      /\ Records(preview) = Records(pack[q]) \cup {plan}
      /\ DOMAIN old = 1..Len(old) /\ Len(old) \in Nat
      /\ DOMAIN preview.promotions = 1..(Len(old) + 1)
      /\ \A i \in 1..Len(old) : preview.promotions[i] = old[i]
      /\ preview.promotions[Len(old) + 1] = plan
  <2>1. old \in Seq(Records(pack[q]))
    BY <1>1 DEF PromotionInv, PackShape
  <2>2. preview.promotions = Append(pack[q].promotions, plan)
    BY <1>1
  <2>3. ExtendedBy(plan, pack[q], preview)
    BY <2>1, <2>2, OneMoreRecord
  <2> QED
    BY <2>3 DEF ExtendedBy
<1>4. PackShape'
  <2> SUFFICES ASSUME NEW p \in Packs
               PROVE  /\ pack'[p].promotions \in Seq(Records(pack'[p]))
                      /\ \A r \in Records(pack'[p]) : r.update \in Updates
    BY <1>2 DEF PackShape, Records
  <2>1. CASE p = q
    BY <1>1, <1>2, <1>3, <2>1 DEF PromotionInv, PackShape
  <2>2. CASE p # q
    BY <1>2, <2>2 DEF PromotionInv, PackShape
  <2> QED
    BY <2>1, <2>2
<1>5. /\ IsOpened(v) /\ v.phase = "written"
      /\ session' = [session EXCEPT ![s] = v]
  BY SessionIsOpened, PhaseChange DEF Write, Phases
<1>6. /\ session' = [t \in Sessions |-> session'[t]]
      /\ session'[s] = v
      /\ \A t \in Sessions \ {s} : session'[t] = session[t]
  BY <1>5 DEF PromotionInv, SessionShape
<1>7. SessionShape'
  BY <1>5, <1>6 DEF PromotionInv, SessionShape
<1>8. Working(s) /\ lock = s /\ \A t \in Sessions \ {s} : ~Working(t)
  BY DEF Write, Working, PromotionInv, WorkersHoldTheLock
<1>9. WorkersHoldTheLock'
  BY <1>6, <1>8 DEF WorkersHoldTheLock, Working, Write
<1>10. DecisionsStand'
  <2> SUFFICES ASSUME NEW t \in Sessions
               PROVE  StillDecided(session[t])'
    BY DEF DecisionsStand
  <2>1. session'[t].phase # "deciding"
    BY <1>5, <1>6, <1>8 DEF Working
  <2> QED
    BY <2>1 DEF StillDecided
<1>11. UpdatePromotedOnce'
  <2> SUFFICES ASSUME NEW p1 \in Packs, NEW p2 \in Packs,
                      NEW i \in DOMAIN pack'[p1].promotions,
                      NEW j \in DOMAIN pack'[p2].promotions,
                      pack'[p1].promotions[i].update = pack'[p2].promotions[j].update
               PROVE  p1 = p2 /\ i = j
    BY DEF UpdatePromotedOnce
  <2> DEFINE IsNew(p, k) == p = q /\ k = Len(old) + 1
  <2>1. \A p \in Packs : \A k \in DOMAIN pack'[p].promotions :
            \/ IsNew(p, k) /\ pack'[p].promotions[k] = plan
            \/ /\ ~IsNew(p, k)
               /\ k \in DOMAIN pack[p].promotions
               /\ pack'[p].promotions[k] = pack[p].promotions[k]
    <3> SUFFICES ASSUME NEW p \in Packs, NEW k \in DOMAIN pack'[p].promotions
                 PROVE  \/ IsNew(p, k) /\ pack'[p].promotions[k] = plan
                        \/ /\ ~IsNew(p, k)
                           /\ k \in DOMAIN pack[p].promotions
                           /\ pack'[p].promotions[k] = pack[p].promotions[k]
      OBVIOUS
    <3>1. CASE p = q
      <4>1. k \in 1..(Len(old) + 1)
        BY <1>2, <1>3, <3>1
      <4>2. k \in 1..Len(old) \/ k = Len(old) + 1
        BY <1>3, <4>1
      <4> QED
        BY <1>2, <1>3, <3>1, <4>2
    <3>2. CASE p # q
      BY <1>2, <3>2
    <3> QED
      BY <3>1, <3>2
  <2>2. CASE IsNew(p1, i)
    BY <1>1, <2>1, <2>2
  <2>3. CASE IsNew(p2, j)
    BY <1>1, <2>1, <2>3
  <2>4. CASE ~IsNew(p1, i) /\ ~IsNew(p2, j)
    BY <2>1, <2>4 DEF PromotionInv, UpdatePromotedOnce
  <2> QED
    BY <2>2, <2>3, <2>4
<1> QED
  BY <1>4, <1>7, <1>9, <1>10, <1>11 DEF PromotionInv

-----------------------------------------------------------------------------
LEMMA InitialPromotions == PromotionInit => PromotionInv
<1> SUFFICES ASSUME PromotionInit
             PROVE  PromotionInv
  OBVIOUS
<1>1. \A p \in Packs : pack[p].promotions = <<>> /\ Records(pack[p]) = {}
  BY DEF PromotionInit, NoPack, Records
<1>2. PackShape
  <2>1. \A p \in Packs : pack[p].promotions \in Seq(Records(pack[p]))
    BY <1>1, EmptySeq
  <2> QED
    BY <1>1, <2>1 DEF PromotionInit, PackShape
<1>3. SessionShape
  BY DEF PromotionInit, SessionShape
<1>4. \A s \in Sessions : session[s].phase = "new"
  BY DEF PromotionInit, NewSession
<1>5. WorkersHoldTheLock /\ DecisionsStand
  BY <1>4 DEF WorkersHoldTheLock, Working, DecisionsStand, StillDecided
<1>6. UpdatePromotedOnce
  BY <1>1 DEF UpdatePromotedOnce
<1> QED
  BY <1>2, <1>3, <1>5, <1>6 DEF PromotionInv

LEMMA PromotionStep ==
    PromotionInv /\ [PromotionNext]_promotionVars => PromotionInv'
<1> SUFFICES ASSUME PromotionInv, [PromotionNext]_promotionVars
             PROVE  PromotionInv'
  OBVIOUS
<1>1. CASE UNCHANGED promotionVars
  <2>1. pack' = pack /\ session' = session /\ lock' = lock
    BY <1>1 DEF promotionVars
  <2>2. PackShape' /\ SessionShape' /\ WorkersHoldTheLock'
    BY <2>1 DEF PromotionInv, PackShape, SessionShape, WorkersHoldTheLock, Working, Records
  <2>3. DecisionsStand' /\ UpdatePromotedOnce'
    BY <2>1 DEF PromotionInv, DecisionsStand, UpdatePromotedOnce, StillDecided, PriorRecords
  <2> QED
    BY <2>2, <2>3 DEF PromotionInv
<1>2. CASE PromotionNext
  <2>1. PICK s \in Sessions :
            \/ Preview(s) \/ Leave(s) \/ Confirm(s) \/ ConfirmAgain(s)
            \/ Refuse(s) \/ Write(s) \/ Answer(s) \/ Abort(s)
    BY <1>2 DEF PromotionNext
  <2> QED
    BY <2>1, PreviewPreserves, LeavePreserves, ConfirmPreserves, ConfirmAgainPreserves,
       WritePreserves, ReleasePreserves
<1> QED
  BY <1>1, <1>2

(***************************************************************************)
(* The inductive invariant: packs and sessions keep their shape, whoever   *)
(* decides or has written holds the Promotion lock, and what it checked    *)
(* stands until it writes.                                                 *)
(***************************************************************************)
THEOREM PromotionInvariant == PromotionSpec => []PromotionInv
BY InitialPromotions, PromotionStep, PTL DEF PromotionSpec

\* However sessions race, retry and die, an update is promoted at most once.
THEOREM UpdatesAreUsedOnce == PromotionSpec => []UpdatePromotedOnce
<1>1. PromotionInv => UpdatePromotedOnce
  BY DEF PromotionInv
<1> QED
  BY <1>1, PromotionInvariant, PTL

-----------------------------------------------------------------------------
\* Only a write changes a pack.
LEMMA PacksChangeByWrites ==
    ASSUME [PromotionNext]_promotionVars, pack' # pack
    PROVE  \E s \in Sessions : Write(s)
BY DEF promotionVars, PromotionNext, Preview, Leave, Confirm, ConfirmAgain, Refuse,
       Answer, Abort

\* Whatever changes a pack was previewed, and made of the content it replaces.
THEOREM NoSilentRebase == PromotionSpec => NeverRebased
<1>1. PromotionInv /\ [PromotionNext]_promotionVars =>
          [\A p \in Packs : pack'[p] # pack[p] =>
              \E s \in Sessions :
                  /\ Working(s)
                  /\ session[s].plan.pack = p
                  /\ session[s].base = pack[p]
                  /\ session[s].preview = pack'[p]]_promotionVars
  <2> SUFFICES ASSUME PromotionInv, [PromotionNext]_promotionVars,
                      NEW p \in Packs, pack'[p] # pack[p]
               PROVE  \E s \in Sessions :
                          /\ Working(s)
                          /\ session[s].plan.pack = p
                          /\ session[s].base = pack[p]
                          /\ session[s].preview = pack'[p]
    OBVIOUS
  <2>1. PICK s \in Sessions : Write(s)
    BY PacksChangeByWrites
  <2>2. Working(s)
    BY <2>1 DEF Write, Working
  <2>3. /\ session[s].plan.pack \in Packs
        /\ pack[session[s].plan.pack] = session[s].base
        /\ pack' = [pack EXCEPT ![session[s].plan.pack] = session[s].preview]
    BY <2>1, WriteStep
  <2>4. pack = [r \in Packs |-> pack[r]]
    BY DEF PromotionInv, PackShape
  <2>5. session[s].plan.pack = p /\ session[s].preview = pack'[p]
    BY <2>3, <2>4
  <2> QED
    BY <2>2, <2>3, <2>5
<1> QED
  BY <1>1, PromotionInvariant, PTL DEF PromotionSpec, NeverRebased

-----------------------------------------------------------------------------
\* The updates of a record list with one record more.
LEMMA AppendToImage ==
    ASSUME NEW R, \A r \in R : r.update \in Updates,
           NEW old \in Seq(R), NEW r, r.update \in Updates,
           NEW new, new = Append(old, r)
    PROVE  [i \in DOMAIN new |-> new[i].update]
               = Append([i \in DOMAIN old |-> old[i].update], r.update)
<1> DEFINE n == Len(old)
           updates == [i \in DOMAIN old |-> old[i].update]
           longer == [i \in DOMAIN new |-> new[i].update]
           appended == Append(updates, r.update)
<1>1. n \in Nat /\ DOMAIN old = 1..n /\ \A i \in 1..n : old[i] \in R
  BY LenProperties, ElementOfSeq
<1>2. old \in Seq(R \cup {r})
  BY SeqMonotonic, R \subseteq R \cup {r}
<1>3. /\ DOMAIN new = 1..(n + 1)
      /\ \A i \in 1..n : new[i] = old[i]
      /\ new[n + 1] = r
  BY <1>2, AppendProperties, LenProperties
<1>4. updates \in [1..n -> Updates]
  BY <1>1
<1>5. updates \in Seq(Updates) /\ Len(updates) = n
  <2> HIDE DEF updates, n
  <2> QED
    BY <1>1, <1>4
<1>6. /\ appended \in Seq(Updates) /\ Len(appended) = n + 1
      /\ \A i \in 1..n : appended[i] = updates[i]
      /\ appended[n + 1] = r.update
  <2> HIDE DEF updates, n
  <2> QED
    BY <1>5, AppendProperties
<1>7. longer \in [1..(n + 1) -> Updates]
  <2>1. \A i \in 1..(n + 1) : i \in 1..n \/ i = n + 1
    BY <1>1
  <2> QED
    BY <1>1, <1>3, <2>1
<1>8. \A i \in 1..(n + 1) : longer[i] = appended[i]
  <2> SUFFICES ASSUME NEW i \in 1..(n + 1)
               PROVE  longer[i] = appended[i]
    OBVIOUS
  <2>1. CASE i \in 1..n
    BY <1>1, <1>3, <1>6, <2>1
  <2>2. CASE i = n + 1
    BY <1>1, <1>3, <1>6, <2>2
  <2> QED
    BY <1>1, <2>1, <2>2
<1>9. appended \in [1..(n + 1) -> Updates]
  BY <1>6, LenProperties
<1> HIDE DEF longer, appended, n
<1>10. /\ longer = [i \in 1..(n + 1) |-> longer[i]]
       /\ appended = [i \in 1..(n + 1) |-> appended[i]]
  BY <1>7, <1>9
<1>11. longer = appended
  BY <1>8, <1>10
<1> QED
  BY <1>11 DEF longer, appended

\* A write accepts the plan's update into the plan's pack.
LEMMA WriteAccepts ==
    ASSUME PromotionInv, NEW s \in Sessions, Write(s)
    PROVE  Accepted!Accept(session[s].plan.pack, session[s].plan.update)
<1> DEFINE plan == session[s].plan
           q == plan.pack
           old == pack[q].promotions
           new == session[s].preview.promotions
           updates == PromotedUpdates[q]
<1>1. /\ q \in Packs
      /\ pack' = [pack EXCEPT ![q] = session[s].preview]
      /\ new = Append(old, plan)
      /\ \A p \in Packs : \A i \in DOMAIN pack[p].promotions :
             pack[p].promotions[i].update # plan.update
  BY WriteStep
<1>2. plan.update \notin Accepted!UsedUpdates
  BY <1>1 DEF Accepted!UsedUpdates, PromotedUpdates
<1>3. /\ old \in Seq(Records(pack[q]))
      /\ pack = [p \in Packs |-> pack[p]]
      /\ \A r \in Records(pack[q]) : r.update \in Updates
  BY <1>1 DEF PromotionInv, PackShape
<1>4. updates = [i \in DOMAIN old |-> old[i].update]
  BY <1>1 DEF PromotedUpdates
<1>5. plan.update \in Updates
  BY WriteStep
<1>6. [i \in DOMAIN new |-> new[i].update] = Append(updates, plan.update)
  <2> HIDE DEF new, old, updates, plan, q
  <2> QED
    BY <1>1, <1>3, <1>4, <1>5, AppendToImage
<1>7. PromotedUpdates' = [PromotedUpdates EXCEPT ![q] = Append(updates, plan.update)]
  BY <1>1, <1>3, <1>6 DEF PromotedUpdates
<1> QED
  BY <1>2, <1>7 DEF Accepted!Accept

(***************************************************************************)
(* Promotion implements AcceptedPacks: a write is an acceptance, and every *)
(* other step of every session leaves the accepted histories alone.        *)
(***************************************************************************)
THEOREM PromotionRefines == PromotionSpec => ImplementsAcceptedPacks
<1>1. PromotionInit => Accepted!AcceptedInit
  BY DEF PromotionInit, NoPack, Accepted!AcceptedInit, PromotedUpdates
<1>2. PromotionInv /\ [PromotionNext]_promotionVars =>
          [Accepted!AcceptedNext]_PromotedUpdates
  <2> SUFFICES ASSUME PromotionInv, [PromotionNext]_promotionVars
               PROVE  [Accepted!AcceptedNext]_PromotedUpdates
    OBVIOUS
  <2>1. CASE pack' = pack
    BY <2>1 DEF PromotedUpdates
  <2>2. CASE pack' # pack
    <3>1. PICK s \in Sessions : Write(s)
      BY <2>2, PacksChangeByWrites
    <3>2. session[s].plan.pack \in Packs /\ session[s].plan.update \in Updates
      BY <3>1, WriteStep
    <3> QED
      BY <3>1, <3>2, WriteAccepts DEF Accepted!AcceptedNext
  <2> QED
    BY <2>1, <2>2
<1> QED
  BY <1>1, <1>2, PromotionInvariant, PTL DEF PromotionSpec, ImplementsAcceptedPacks,
     Accepted!AcceptedSpec
-----------------------------------------------------------------------------
(***************************************************************************)
(* What one decision does to the claims of a pack.                         *)
(***************************************************************************)
Ids == Updates \X Nat

Claims ==
    [id : Ids, status : Statuses \cup {"historical", "contradicted"},
     history : {"add", "supersede", "contradict"}, target : Ids \cup {NoClaim}]

IdsIn(claims) == {claims[i].id : i \in DOMAIN claims}

\* Nothing but a status differs, and no status became an active one.
Keeps(old, new) ==
    /\ Len(old) <= Len(new)
    /\ \A i \in DOMAIN old :
           /\ new[i] = [old[i] EXCEPT !.status = new[i].status]
           /\ new[i].status # old[i].status =>
                  new[i].status \in {"historical", "contradicted"}

\* What a claim supersedes or contradicts comes before it, and is not current.
Linked(claims) ==
    \A j \in DOMAIN claims : claims[j].target # NoClaim =>
        \E i \in 1..(j - 1) :
            /\ claims[i].id = claims[j].target
            /\ claims[i].status \in {"historical", "contradicted"}

AcceptedBy(plan) ==
    {<<plan.update, k>> : k \in {j \in DOMAIN plan.decisions :
                                     plan.decisions[j].action = "accept"}}

PlanFits(plan, base) ==
    plan.decisions \in [1..Proposals[plan.update] -> Decisions(base)]

\* Keeping claims is transitive, and keeps their names.
LEMMA KeepsTwice ==
    ASSUME NEW a \in Seq(Claims), NEW b \in Seq(Claims), NEW c \in Seq(Claims),
           Keeps(a, b), Keeps(b, c)
    PROVE  Keeps(a, c)
<1>1. /\ Len(a) \in Nat /\ Len(b) \in Nat /\ Len(c) \in Nat
      /\ DOMAIN a = 1..Len(a) /\ DOMAIN b = 1..Len(b)
      /\ Len(a) <= Len(b) /\ Len(b) <= Len(c)
  BY DEF Keeps
<1>2. ASSUME NEW i \in DOMAIN a
      PROVE  /\ c[i] = [a[i] EXCEPT !.status = c[i].status]
             /\ c[i].status # a[i].status =>
                    c[i].status \in {"historical", "contradicted"}
  <2>1. i \in DOMAIN b /\ a[i] \in Claims /\ b[i] \in Claims
    BY <1>1
  <2>2. b[i] = [a[i] EXCEPT !.status = b[i].status]
    BY DEF Keeps
  <2>3. c[i] = [b[i] EXCEPT !.status = c[i].status]
    BY <2>1 DEF Keeps
  <2> DEFINE y == b[i].status
             z == c[i].status
  <2>4. [[a[i] EXCEPT !.status = y] EXCEPT !.status = z] = [a[i] EXCEPT !.status = z]
    BY <2>1 DEF Claims
  <2>5. c[i] = [a[i] EXCEPT !.status = z]
    BY <2>2, <2>3, <2>4
  <2>6. c[i].status # a[i].status => c[i].status \in {"historical", "contradicted"}
    BY <2>1 DEF Keeps
  <2> QED
    BY <2>5, <2>6
<1> QED
  BY <1>1, <1>2 DEF Keeps

LEMMA KeepsNames ==
    ASSUME NEW a \in Seq(Claims), NEW b \in Seq(Claims), Keeps(a, b)
    PROVE  IdsIn(a) \subseteq IdsIn(b)
<1> SUFFICES ASSUME NEW i \in DOMAIN a
             PROVE  a[i].id \in IdsIn(b)
  BY DEF IdsIn
<1>1. i \in DOMAIN b /\ a[i] \in Claims /\ b[i] \in Claims
  BY DEF Keeps
<1>2. b[i].id = a[i].id
  BY <1>1 DEF Keeps, Claims
<1> QED
  BY <1>1, <1>2 DEF IdsIn

\* A target gets another status, and every other claim stays as it is.
LEMMA RetargetKeeps ==
    ASSUME NEW claims \in Seq(Claims), NEW d
    PROVE  LET new == Retarget(claims, d) IN
           /\ new \in Seq(Claims) /\ Len(new) = Len(claims)
           /\ Keeps(claims, new)
           /\ \A i \in DOMAIN claims :
                  /\ new[i].id = claims[i].id /\ new[i].target = claims[i].target
                  /\ new[i].status # claims[i].status \/ claims[i].id = d.target =>
                         new[i].status \in {"historical", "contradicted"}
<1> DEFINE n == Len(claims)
           new == Retarget(claims, d)
<1>1. n \in Nat /\ DOMAIN claims = 1..n /\ \A i \in 1..n : claims[i] \in Claims
  OBVIOUS
<1>2. DOMAIN new = 1..n /\ new = [i \in 1..n |-> new[i]]
  BY <1>1 DEF Retarget
<1>3. \A i \in 1..n : new[i] = IF claims[i].id = d.target
                               THEN [claims[i] EXCEPT !.status =
                                        IF d.history = "contradict"
                                        THEN "contradicted" ELSE "historical"]
                               ELSE claims[i]
  BY <1>1 DEF Retarget
<1>4. ASSUME NEW i \in 1..n
      PROVE  /\ new[i] \in Claims
             /\ new[i] = [claims[i] EXCEPT !.status = new[i].status]
             /\ new[i].id = claims[i].id /\ new[i].target = claims[i].target
             /\ new[i].status # claims[i].status \/ claims[i].id = d.target =>
                    new[i].status \in {"historical", "contradicted"}
  <2>1. claims[i] \in Claims
    BY <1>1
  <2> HIDE DEF new
  <2>2. CASE claims[i].id = d.target
    BY <1>3, <2>1, <2>2 DEF Claims
  <2>3. CASE claims[i].id # d.target
    BY <1>3, <2>1, <2>3 DEF Claims
  <2> QED
    BY <2>2, <2>3
<1> HIDE DEF new
<1>5. new \in Seq(Claims) /\ Len(new) = n
  BY <1>1, <1>2, <1>4
<1>6. Keeps(claims, new)
  BY <1>1, <1>4, <1>5 DEF Keeps
<1> QED
  BY <1>1, <1>4, <1>5, <1>6 DEF new

-----------------------------------------------------------------------------
(***************************************************************************)
(* Induction over a plan's decisions, from the least number it fails for.  *)
(***************************************************************************)

\* A nonempty set of numbers has a least one.
LEMMA LeastNumber ==
    ASSUME NEW T, T \subseteq Nat, T # {}
    PROVE  \E n \in T : \A m \in T : n <= m
<1> DEFINE R == {ss \in Nat \X Nat : ss[1] < ss[2]}
<1>1. IsWellFoundedOn(R, Nat)
  BY NatLessThanWellFounded DEF OpToRel
<1>2. ASSUME NEW m \in Nat, NEW n \in Nat, m < n
      PROVE  <<m, n>> \in R
  <2> DEFINE p == <<m, n>>
  <2>1. p[1] = m /\ p[2] = n /\ p \in Nat \X Nat
    OBVIOUS
  <2> QED
    BY <1>2, <2>1
<1> HIDE DEF R
<1>3. PICK n \in T : \A m \in T : ~(<<m, n>> \in R)
  BY <1>1, WFMin
<1>4. ASSUME NEW m \in T
      PROVE  n <= m
  <2>1. n \in Nat /\ m \in Nat
    OBVIOUS
  <2>2. ~(m < n)
    BY <1>2, <1>3, <2>1
  <2> QED
    BY <2>1, <2>2
<1> QED
  BY <1>4

\* Induction on the numbers up to N, stated of the set of those it holds for.
LEMMA Induction ==
    ASSUME NEW N \in Nat, NEW S, 0 \in S,
           \A n \in 1..N : n - 1 \in S => n \in S
    PROVE  0..N \subseteq S
<1> SUFFICES ASSUME (0..N) \ S # {} PROVE FALSE
  OBVIOUS
<1> DEFINE T == (0..N) \ S
<1>0. T \subseteq Nat /\ T # {}
  OBVIOUS
<1>1. PICK n \in T : \A m \in T : n <= m
  <2> HIDE DEF T
  <2> QED
    BY <1>0, LeastNumber
<1>2. n \in 1..N /\ n - 1 \in 0..N
  BY <1>1
<1>3. n - 1 \in S
  BY <1>1, <1>2
<1> QED
  BY <1>1, <1>2, <1>3

\* The claims after each decision: the recursive function has the values its
\* equation gives it.
LEMMA DecidedUnfolds ==
    ASSUME NEW claims, NEW plan, Proposals[plan.update] \in Nat
    PROVE  /\ Decided(claims, plan)[0] = claims
           /\ \A n \in 1..Proposals[plan.update] :
                  Decided(claims, plan)[n] = Decide(Decided(claims, plan)[n - 1], plan, n)
<1> DEFINE N == Proposals[plan.update]
           Value(g, n) == IF n = 0 THEN claims ELSE Decide(g[n - 1], plan, n)
           S == {k \in Nat : \E g : g = [n \in 0..k |-> Value(g, n)]}
<1>1. 0 \in S
  <2> DEFINE g == [n \in 0..0 |-> claims]
  <2>1. g = [n \in 0..0 |-> Value(g, n)]
    OBVIOUS
  <2> QED
    BY <2>1
<1>2. ASSUME NEW k \in 1..N, k - 1 \in S
      PROVE  k \in S
  <2>1. PICK g : g = [n \in 0..(k - 1) |-> Value(g, n)]
    BY <1>2
  <2> DEFINE h == [n \in 0..k |-> IF n = k THEN Value(g, k) ELSE g[n]]
  <2>2. ASSUME NEW n \in 0..k
        PROVE  h[n] = Value(h, n)
    <3>1. CASE n = 0
      BY <2>1, <3>1
    <3>2. CASE n # 0
      <4>1. n - 1 \in 0..(k - 1) /\ h[n - 1] = g[n - 1]
        BY <3>2
      <4>2. Value(h, n) = Value(g, n)
        BY <4>1
      <4>3. n # k => g[n] = Value(g, n)
        BY <2>1
      <4> QED
        BY <4>2, <4>3
    <3> QED
      BY <3>1, <3>2
  <2>3. h = [n \in 0..k |-> Value(h, n)]
    BY <2>2
  <2> HIDE DEF h
  <2> QED
    BY <2>3
<1> HIDE DEF S
<1>3. N \in S
  <2>1. 0..N \subseteq S
    BY <1>1, <1>2, Induction
  <2> QED
    BY <2>1
<1>4. \E g : g = [n \in 0..N |-> Value(g, n)]
  BY <1>3 DEF S
<1> DEFINE f == Decided(claims, plan)
<1>5. f = [n \in 0..N |-> Value(f, n)]
  BY <1>4 DEF Decided
<1> HIDE DEF f
<1> QED
  BY <1>5 DEF f

\* One decision about well-linked claims keeps them, and adds the claim of an
\* accepted proposal.
LEMMA DecideKeeps ==
    ASSUME NEW claims \in Seq(Claims), Linked(claims),
           NEW plan, plan.update \in Updates,
           NEW base, IdsIn(base.claims) \subseteq IdsIn(claims),
           NEW k \in Nat, plan.decisions[k] \in Decisions(base),
           base.claims \in Seq(Claims)
    PROVE  LET new == Decide(claims, plan, k) IN
           /\ new \in Seq(Claims) /\ Linked(new) /\ Keeps(claims, new)
           /\ plan.decisions[k].action = "accept" => <<plan.update, k>> \in IdsIn(new)
<1> DEFINE new == Decide(claims, plan, k)
           d == plan.decisions[k]
           id == <<plan.update, k>>
<1>1. CASE d = Rejection
  <2>1. new = claims /\ d.action = "reject"
    BY <1>1 DEF Decide, Rejection
  <2>2. Keeps(claims, claims)
    <3>1. \A i \in DOMAIN claims : claims[i] \in Claims
      OBVIOUS
    <3> QED
      BY <3>1 DEF Keeps, Claims
  <2> QED
    BY <2>1, <2>2
<1>2. CASE d \in Acceptances(base)
  <2> DEFINE n == Len(claims)
             mid == Retarget(claims, d)
             claim == [id |-> id, status |-> d.status, history |-> d.history,
                       target |-> d.target]
  <2>1. /\ d.action = "accept" /\ d.status \in Statuses
        /\ d.history \in {"add", "supersede", "contradict"}
        /\ d.target = NoClaim \/ d.target \in IdsIn(base.claims)
    BY <1>2 DEF Acceptances, ClaimIds, IdsIn
  <2>2. new = Append(mid, claim)
    BY <2>1 DEF Decide
  <2>3. \A x \in IdsIn(base.claims) : x \in Ids
    <3> SUFFICES ASSUME NEW i \in DOMAIN base.claims
                 PROVE  base.claims[i].id \in Ids
      BY DEF IdsIn
    <3>1. base.claims[i] \in Claims
      OBVIOUS
    <3> QED
      BY <3>1 DEF Claims
  <2>4. claim \in Claims
    <3>1. id \in Ids
      BY DEF Ids
    <3>2. d.target \in Ids \cup {NoClaim}
      BY <2>1, <2>3
    <3> HIDE DEF id, d
    <3> QED
      BY <2>1, <3>1, <3>2 DEF Claims
  <2>5. /\ mid \in Seq(Claims) /\ Len(mid) = n /\ Keeps(claims, mid)
        /\ \A i \in DOMAIN claims :
               /\ mid[i].id = claims[i].id /\ mid[i].target = claims[i].target
               /\ mid[i].status # claims[i].status \/ claims[i].id = d.target =>
                      mid[i].status \in {"historical", "contradicted"}
    BY RetargetKeeps
  <2>6. claim.id = id /\ claim.target = d.target
    OBVIOUS
  <2> HIDE DEF mid, claim, d, id, new
  <2>7. /\ n \in Nat /\ DOMAIN claims = 1..n /\ DOMAIN mid = 1..n
        /\ new \in Seq(Claims) /\ Len(new) = n + 1 /\ DOMAIN new = 1..(n + 1)
        /\ new[n + 1] = claim
        /\ \A i \in 1..n : new[i] = mid[i]
    BY <2>2, <2>4, <2>5
  <2>8. Keeps(claims, new)
    BY <2>5, <2>7 DEF Keeps
  <2>9. Linked(new)
    <3> SUFFICES ASSUME NEW j \in 1..(n + 1), new[j].target # NoClaim
                 PROVE  \E i \in 1..(j - 1) :
                            /\ new[i].id = new[j].target
                            /\ new[i].status \in {"historical", "contradicted"}
      BY <2>7 DEF Linked
    <3>1. CASE j \in 1..n
      <4>1. claims[j].target = new[j].target
        BY <2>5, <2>7, <3>1
      <4>2. PICK i \in 1..(j - 1) :
                /\ claims[i].id = claims[j].target
                /\ claims[i].status \in {"historical", "contradicted"}
        BY <2>7, <3>1, <4>1 DEF Linked
      <4>3. i \in 1..n
        BY <2>7, <3>1
      <4>4. /\ new[i].id = claims[i].id
            /\ new[i].status # claims[i].status =>
                   new[i].status \in {"historical", "contradicted"}
        BY <2>5, <2>7, <4>3
      <4> QED
        BY <4>1, <4>2, <4>4
    <3>2. CASE j = n + 1
      <4>1. d.target \in IdsIn(claims) /\ new[j].target = d.target
        BY <2>1, <2>6, <2>7, <3>2
      <4>2. PICK i \in 1..n : claims[i].id = d.target
        BY <2>7, <4>1 DEF IdsIn
      <4>3. /\ new[i].id = d.target
            /\ new[i].status \in {"historical", "contradicted"}
        BY <2>5, <2>7, <4>2
      <4>4. i \in 1..(j - 1)
        BY <2>7, <3>2
      <4> QED
        BY <4>1, <4>3, <4>4
    <3> QED
      BY <2>7, <3>1, <3>2
  <2>10. id \in IdsIn(new)
    BY <2>6, <2>7 DEF IdsIn
  <2> QED
    BY <2>7, <2>8, <2>9, <2>10 DEF d, id, new
<1> QED
  BY <1>1, <1>2 DEF Decisions

\* The first n decisions of a plan keep the claims they are made about, and
\* add a claim for each of them that accepts.
DecidedSoFar(base, plan, n) ==
    LET claims == Decided(base.claims, plan)[n] IN
    /\ claims \in Seq(Claims) /\ Linked(claims) /\ Keeps(base.claims, claims)
    /\ \A k \in 1..n : plan.decisions[k].action = "accept" =>
           <<plan.update, k>> \in IdsIn(claims)

LEMMA PlanKeeps ==
    ASSUME NEW base, base.claims \in Seq(Claims), Linked(base.claims),
           NEW plan, plan.update \in Updates, PlanFits(plan, base)
    PROVE  DecidedSoFar(base, plan, Proposals[plan.update])
<1> DEFINE N == Proposals[plan.update]
           S == {n \in 0..N : DecidedSoFar(base, plan, n)}
<1>1. N \in Nat
  BY ProposalsAssumption
<1>2. 0 \in S
  <2>1. Keeps(base.claims, base.claims)
    <3>1. \A i \in DOMAIN base.claims : base.claims[i] \in Claims
      OBVIOUS
    <3> QED
      BY <3>1 DEF Keeps, Claims
  <2> QED
    BY <1>1, <2>1, DecidedUnfolds DEF DecidedSoFar
<1>3. ASSUME NEW n \in 1..N, n - 1 \in S
      PROVE  n \in S
  <2> DEFINE before == Decided(base.claims, plan)[n - 1]
             after == Decided(base.claims, plan)[n]
  <2>1. after = Decide(before, plan, n)
    BY <1>1, DecidedUnfolds
  <2>2. /\ before \in Seq(Claims) /\ Linked(before) /\ Keeps(base.claims, before)
        /\ \A k \in 1..(n - 1) : plan.decisions[k].action = "accept" =>
               <<plan.update, k>> \in IdsIn(before)
    BY <1>3 DEF DecidedSoFar
  <2> HIDE DEF before, after
  <2>3. IdsIn(base.claims) \subseteq IdsIn(before)
    BY <2>2, KeepsNames
  <2>4. plan.decisions[n] \in Decisions(base)
    BY DEF PlanFits
  <2>5. n \in Nat
    BY <1>1
  <2>6. /\ after \in Seq(Claims) /\ Linked(after) /\ Keeps(before, after)
        /\ plan.decisions[n].action = "accept" => <<plan.update, n>> \in IdsIn(after)
    BY <2>1, <2>2, <2>3, <2>4, <2>5, DecideKeeps
  <2>7. Keeps(base.claims, after)
    BY <2>2, <2>6, KeepsTwice
  <2>8. IdsIn(before) \subseteq IdsIn(after)
    BY <2>2, <2>6, KeepsNames
  <2>9. \A k \in 1..n : k \in 1..(n - 1) \/ k = n
    BY <1>1
  <2>10. \A k \in 1..n : plan.decisions[k].action = "accept" =>
             <<plan.update, k>> \in IdsIn(after)
    BY <2>2, <2>6, <2>8, <2>9
  <2>11. DecidedSoFar(base, plan, n)
    BY <2>6, <2>7, <2>10 DEF DecidedSoFar, after
  <2> QED
    BY <1>1, <2>11
<1> HIDE DEF S
<1>4. 0..N \subseteq S
  BY <1>1, <1>2, <1>3, Induction
<1> QED
  BY <1>1, <1>4 DEF S

-----------------------------------------------------------------------------
(***************************************************************************)
(* The inductive invariant of accepted history.  A record in a pack is of  *)
(* that pack, and the claims it accepted are there; a session's plan has   *)
(* decisions about the base it was made of, and is recorded from the write *)
(* until the session leaves.                                               *)
(***************************************************************************)
ClaimShape == \A p \in Packs : pack[p].claims \in Seq(Claims)

IsApplied(r, p) == r.pack = p /\ AcceptedBy(r) \subseteq IdsIn(pack[p].claims)

RecordsAreApplied == \A p \in Packs : \A r \in Records(pack[p]) : IsApplied(r, p)

SessionFits(v) ==
    /\ v.phase \in Phases => PlanFits(v.plan, v.base)
    /\ v.phase \in {"written", "confirmed"} => v.plan \in Records(pack[v.plan.pack])

SessionsFit == \A s \in Sessions : SessionFits(session[s])

HistoryInv ==
    /\ ClaimShape
    /\ HistoryLinks
    /\ RecordsAreApplied
    /\ SessionsFit

LEMMA LinksOfPacks == HistoryLinks <=> \A p \in Packs : Linked(pack[p].claims)
BY DEF HistoryLinks, Linked

\* A step of one session that leaves all packs alone.
LEMMA QuietHistory ==
    ASSUME PromotionInv, HistoryInv, NEW s \in Sessions, NEW v, SessionFits(v),
           session' = [session EXCEPT ![s] = v], UNCHANGED pack
    PROVE  HistoryInv'
<1>1. \A t \in Sessions : session'[t] = v \/ session'[t] = session[t]
  BY DEF PromotionInv, SessionShape
<1>2. \A t \in Sessions : SessionFits(session'[t])
  BY <1>1 DEF HistoryInv, SessionsFit
<1>3. SessionsFit'
  BY <1>2 DEF SessionsFit, SessionFits
<1>4. ClaimShape' /\ HistoryLinks' /\ RecordsAreApplied'
  BY DEF HistoryInv, ClaimShape, HistoryLinks, RecordsAreApplied, IsApplied
<1> QED
  BY <1>3, <1>4 DEF HistoryInv

LEMMA PreviewFits ==
    ASSUME PromotionInv, HistoryInv, NEW s \in Sessions, Preview(s)
    PROVE  HistoryInv'
<1>1. PICK u \in Updates : \E p \in Candidates[u] : \E plan \in Plans(u, p) :
          session' = [session EXCEPT ![s] =
              [phase |-> "previewed", plan |-> plan, base |-> pack[p],
               preview |-> Apply(plan, pack[p])]]
  BY DEF Preview
<1>2. PICK p \in Candidates[u] : \E plan \in Plans(u, p) :
          session' = [session EXCEPT ![s] =
              [phase |-> "previewed", plan |-> plan, base |-> pack[p],
               preview |-> Apply(plan, pack[p])]]
  BY <1>1
<1>3. PICK plan \in Plans(u, p) :
          session' = [session EXCEPT ![s] =
              [phase |-> "previewed", plan |-> plan, base |-> pack[p],
               preview |-> Apply(plan, pack[p])]]
  BY <1>2
<1> DEFINE v == [phase |-> "previewed", plan |-> plan, base |-> pack[p],
                 preview |-> Apply(plan, pack[p])]
<1>4. PlanFits(plan, pack[p])
  BY DEF Plans, PlanFits
<1>5. SessionFits(v)
  BY <1>4 DEF SessionFits
<1> QED
  BY <1>3, <1>5, QuietHistory DEF Preview

LEMMA LeaveFits ==
    ASSUME PromotionInv, HistoryInv, NEW s \in Sessions, Leave(s) \/ Refuse(s)
    PROVE  HistoryInv'
<1>1. SessionFits(NewSession)
  BY DEF SessionFits, NewSession, Phases
<1> QED
  BY <1>1, QuietHistory DEF Leave, Refuse

\* A session that only moves on keeps its plan, which must be recorded before
\* it may be told so.
LEMMA PhaseFits ==
    ASSUME PromotionInv, HistoryInv, NEW s \in Sessions, session[s].phase \in Phases,
           NEW phase \in Phases,
           session' = [session EXCEPT ![s].phase = phase], UNCHANGED pack,
           phase \in {"written", "confirmed"} =>
               session[s].plan \in Records(pack[session[s].plan.pack])
    PROVE  HistoryInv'
<1> DEFINE v == [session[s] EXCEPT !.phase = phase]
<1>1. /\ IsOpened(session[s])
      /\ v.phase = phase /\ v.plan = session[s].plan /\ v.base = session[s].base
  BY SessionIsOpened, PhaseChange
<1>2. SessionFits(session[s])
  BY DEF HistoryInv, SessionsFit
<1>3. session' = [session EXCEPT ![s] = v]
  OBVIOUS
<1> HIDE DEF v
<1>4. SessionFits(v)
  BY <1>1, <1>2 DEF SessionFits
<1> QED
  BY <1>3, <1>4, QuietHistory

LEMMA ConfirmFits ==
    ASSUME PromotionInv, HistoryInv, NEW s \in Sessions, Confirm(s)
    PROVE  HistoryInv'
BY PhaseFits DEF Confirm, Phases

\* The record found is of the pack the plan names.
LEMMA ConfirmAgainFits ==
    ASSUME PromotionInv, HistoryInv, NEW s \in Sessions, ConfirmAgain(s)
    PROVE  HistoryInv'
<1> DEFINE plan == session[s].plan
<1>1. plan \in PriorRecords(plan)
  BY DEF ConfirmAgain
<1>2. PICK p \in Packs : plan \in Records(pack[p])
  BY <1>1 DEF PriorRecords, Records
<1>3. plan.pack = p
  BY <1>2 DEF HistoryInv, RecordsAreApplied, IsApplied
<1> QED
  BY <1>2, <1>3, PhaseFits DEF ConfirmAgain, Phases

LEMMA ReleaseFits ==
    ASSUME PromotionInv, HistoryInv, NEW s \in Sessions, Answer(s) \/ Abort(s)
    PROVE  HistoryInv'
<1>1. session[s].phase \in Phases
  BY DEF Answer, Abort, Working, Phases
<1>2. CASE Answer(s)
  <2>1. PICK phase \in {"confirmed", "previewed"} :
            session' = [session EXCEPT ![s].phase = phase]
    BY <1>2 DEF Answer
  <2>2. session[s].plan \in Records(pack[session[s].plan.pack])
    BY <1>2 DEF Answer, HistoryInv, SessionsFit, SessionFits
  <2>3. phase \in Phases /\ UNCHANGED pack
    BY <1>2 DEF Phases, Answer
  <2> QED
    BY <1>1, <2>1, <2>2, <2>3, PhaseFits
<1>3. CASE Abort(s)
  BY <1>1, <1>3, PhaseFits DEF Abort, Phases
<1> QED
  BY <1>2, <1>3

\* What a write does to the pack it decided about: the claims there stay, the
\* accepted ones follow them, and the plan is on record.
LEMMA WriteGrows ==
    ASSUME PromotionInv, HistoryInv, NEW s \in Sessions, Write(s)
    PROVE  LET plan == session[s].plan
               new == session[s].preview
           IN  /\ new.claims \in Seq(Claims) /\ Linked(new.claims)
               /\ Keeps(pack[plan.pack].claims, new.claims)
               /\ AcceptedBy(plan) \subseteq IdsIn(new.claims)
               /\ new.promotions = Append(pack[plan.pack].promotions, plan)
               /\ Records(new) = Records(pack[plan.pack]) \cup {plan}
               /\ plan.pack \in Packs
               /\ pack' = [pack EXCEPT ![plan.pack] = new]
<1> DEFINE plan == session[s].plan
           base == session[s].base
           new == session[s].preview
           N == Proposals[plan.update]
<1>1. /\ plan.pack \in Packs /\ plan.update \in Updates
      /\ pack[plan.pack] = base
      /\ pack' = [pack EXCEPT ![plan.pack] = new]
      /\ new.promotions = Append(pack[plan.pack].promotions, plan)
  BY WriteStep
<1>2. IsOpened(session[s]) /\ session[s].phase \in Phases
  BY SessionIsOpened DEF Write, Phases
<1>3. new.claims = Decided(base.claims, plan)[N]
  BY <1>2 DEF IsOpened, Apply, DecideAll
<1>4. base.claims \in Seq(Claims) /\ Linked(base.claims) /\ PlanFits(plan, base)
  BY <1>1, <1>2, LinksOfPacks DEF HistoryInv, ClaimShape, SessionsFit, SessionFits
<1>5. Records(new) = Records(pack[plan.pack]) \cup {plan}
  <2>1. pack[plan.pack].promotions \in Seq(Records(pack[plan.pack]))
    BY <1>1 DEF PromotionInv, PackShape
  <2>2. ExtendedBy(plan, pack[plan.pack], new)
    BY <1>1, <2>1, OneMoreRecord
  <2> QED
    BY <2>2 DEF ExtendedBy
<1> HIDE DEF new, base, plan
<1>6. /\ new.claims \in Seq(Claims) /\ Linked(new.claims)
      /\ Keeps(base.claims, new.claims)
      /\ \A k \in 1..N : plan.decisions[k].action = "accept" =>
             <<plan.update, k>> \in IdsIn(new.claims)
  BY <1>1, <1>3, <1>4, PlanKeeps DEF DecidedSoFar
<1>7. AcceptedBy(plan) \subseteq IdsIn(new.claims)
  <2>1. DOMAIN plan.decisions = 1..N
    BY <1>4 DEF PlanFits
  <2> QED
    BY <1>6, <2>1 DEF AcceptedBy
<1> QED
  BY <1>1, <1>5, <1>6, <1>7 DEF new, base, plan

LEMMA WriteFits ==
    ASSUME PromotionInv, HistoryInv, NEW s \in Sessions, Write(s)
    PROVE  HistoryInv'
<1> DEFINE plan == session[s].plan
           q == plan.pack
           new == session[s].preview
           v == [session[s] EXCEPT !.phase = "written"]
<1>1. /\ q \in Packs
      /\ pack' = [pack EXCEPT ![q] = new]
      /\ new.claims \in Seq(Claims) /\ Linked(new.claims)
      /\ Keeps(pack[q].claims, new.claims)
      /\ AcceptedBy(plan) \subseteq IdsIn(new.claims)
      /\ Records(new) = Records(pack[q]) \cup {plan}
  BY WriteGrows
<1>2. pack'[q] = new /\ \A p \in Packs \ {q} : pack'[p] = pack[p]
  BY <1>1 DEF PromotionInv, PackShape
<1>3. /\ v.phase = "written" /\ v.plan = plan /\ v.base = session[s].base
      /\ session[s].phase \in Phases
      /\ session' = [session EXCEPT ![s] = v]
  BY SessionIsOpened, PhaseChange DEF Write, Phases
<1>4. \A t \in Sessions : session'[t] = IF t = s THEN v ELSE session[t]
  BY <1>3 DEF PromotionInv, SessionShape
<1> HIDE DEF new, plan, q, v
<1>5. ClaimShape'
  BY <1>1, <1>2 DEF HistoryInv, ClaimShape
<1>6. \A p \in Packs : Linked(pack'[p].claims)
  BY <1>1, <1>2, LinksOfPacks DEF HistoryInv
<1>7. \A p \in Packs : /\ IdsIn(pack[p].claims) \subseteq IdsIn(pack'[p].claims)
                       /\ Records(pack[p]) \subseteq Records(pack'[p])
  <2>1. IdsIn(pack[q].claims) \subseteq IdsIn(new.claims)
    BY <1>1, KeepsNames DEF HistoryInv, ClaimShape
  <2> QED
    BY <1>1, <1>2, <2>1
<1>8. RecordsAreApplied'
  <2> SUFFICES ASSUME NEW p \in Packs, NEW r \in Records(pack'[p])
               PROVE  r.pack = p /\ AcceptedBy(r) \subseteq IdsIn(pack'[p].claims)
    BY DEF RecordsAreApplied, IsApplied, Records
  <2>1. CASE r \in Records(pack[p])
    BY <1>7, <2>1 DEF HistoryInv, RecordsAreApplied, IsApplied
  <2>2. CASE r \notin Records(pack[p])
    <3>1. p = q /\ r = plan
      BY <1>1, <1>2, <2>2
    <3> QED
      BY <1>1, <1>2, <3>1 DEF q
  <2> QED
    BY <2>1, <2>2
<1>9. SessionsFit'
  <2> SUFFICES ASSUME NEW t \in Sessions
               PROVE  /\ session'[t].phase \in Phases =>
                             PlanFits(session'[t].plan, session'[t].base)
                      /\ session'[t].phase \in {"written", "confirmed"} =>
                             session'[t].plan \in Records(pack'[session'[t].plan.pack])
    BY DEF SessionsFit, SessionFits, Records
  <2>1. CASE t = s
    <3>1. PlanFits(plan, session[s].base)
      BY <1>3 DEF HistoryInv, SessionsFit, SessionFits, plan
    <3>2. plan \in Records(pack'[plan.pack])
      BY <1>1, <1>2 DEF q
    <3> QED
      BY <1>3, <1>4, <2>1, <3>1, <3>2
  <2>2. CASE t # s
    <3>1. session'[t] = session[t] /\ SessionFits(session[t])
      BY <1>4, <2>2 DEF HistoryInv, SessionsFit
    <3>2. session[t].phase \in Phases => session[t].plan.pack \in Packs
      BY SessionIsOpened DEF IsOpened
    <3> QED
      BY <1>7, <3>1, <3>2 DEF SessionFits, Phases
  <2> QED
    BY <2>1, <2>2
<1>10. HistoryLinks'
  BY <1>6 DEF HistoryLinks, Linked
<1> QED
  BY <1>5, <1>8, <1>9, <1>10 DEF HistoryInv

-----------------------------------------------------------------------------
LEMMA InitialHistory == PromotionInit => HistoryInv
<1> SUFFICES ASSUME PromotionInit
             PROVE  HistoryInv
  OBVIOUS
<1>1. \A p \in Packs : /\ pack[p].claims = <<>>
                       /\ pack[p].promotions = <<>> /\ Records(pack[p]) = {}
  BY DEF PromotionInit, NoPack, Records
<1>2. \A s \in Sessions : session[s].phase = "new"
  BY DEF PromotionInit, NewSession
<1>3. ClaimShape /\ RecordsAreApplied
  <2>1. <<>> \in Seq(Claims)
    BY EmptySeq
  <2>2. ClaimShape
    BY <1>1, <2>1 DEF ClaimShape
  <2>3. RecordsAreApplied
    BY <1>1 DEF RecordsAreApplied
  <2> QED
    BY <2>2, <2>3
<1>4. HistoryLinks
  <2>1. \A p \in Packs : DOMAIN pack[p].claims = {}
    BY <1>1
  <2> QED
    BY <2>1 DEF HistoryLinks
<1>5. SessionsFit
  BY <1>2 DEF SessionsFit, SessionFits, Phases
<1> QED
  BY <1>3, <1>4, <1>5 DEF HistoryInv

LEMMA HistoryStep ==
    PromotionInv /\ HistoryInv /\ [PromotionNext]_promotionVars => HistoryInv'
<1> SUFFICES ASSUME PromotionInv, HistoryInv, [PromotionNext]_promotionVars
             PROVE  HistoryInv'
  OBVIOUS
<1>1. CASE UNCHANGED promotionVars
  BY <1>1 DEF promotionVars, HistoryInv, ClaimShape, HistoryLinks, RecordsAreApplied,
              IsApplied, SessionsFit, SessionFits, Records
<1>2. CASE PromotionNext
  <2>1. PICK s \in Sessions :
            \/ Preview(s) \/ Leave(s) \/ Confirm(s) \/ ConfirmAgain(s)
            \/ Refuse(s) \/ Write(s) \/ Answer(s) \/ Abort(s)
    BY <1>2 DEF PromotionNext
  <2> QED
    BY <2>1, PreviewFits, LeaveFits, ConfirmFits, ConfirmAgainFits, WriteFits, ReleaseFits
<1> QED
  BY <1>1, <1>2

(***************************************************************************)
(* The inductive invariant of accepted history: what a learner confirms is *)
(* made of the pack as it is, so that a plan's decisions are about claims  *)
(* that are there, and records and claims are written together.            *)
(***************************************************************************)
THEOREM HistoryInvariant == PromotionSpec => []HistoryInv
BY InitialHistory, HistoryStep, PromotionInvariant, PTL DEF PromotionSpec

\* A superseded or contradicted claim comes before the claim that says so, and
\* is not shown as current.
THEOREM HistoryStaysLinked == PromotionSpec => []HistoryLinks
<1>1. HistoryInv => HistoryLinks
  BY DEF HistoryInv
<1> QED
  BY <1>1, HistoryInvariant, PTL

\* Who was told "promoted" finds the promotion and its claims in the pack.
THEOREM ConfirmationsHold == PromotionSpec => []ConfirmedIsRecorded
<1>1. PromotionInv /\ HistoryInv => ConfirmedIsRecorded
  <2> SUFFICES ASSUME PromotionInv, HistoryInv,
                      NEW s \in Sessions, session[s].phase = "confirmed"
               PROVE  LET plan == session[s].plan IN
                      /\ \E i \in DOMAIN pack[plan.pack].promotions :
                             pack[plan.pack].promotions[i] = plan
                      /\ \A k \in DOMAIN plan.decisions :
                             plan.decisions[k].action = "accept" =>
                                 <<plan.update, k>> \in ClaimIds(pack[plan.pack])
    BY DEF ConfirmedIsRecorded
  <2> DEFINE plan == session[s].plan
  <2>1. plan.pack \in Packs
    BY SessionIsOpened DEF IsOpened, Phases
  <2>2. plan \in Records(pack[plan.pack])
    BY DEF HistoryInv, SessionsFit, SessionFits
  <2>3. AcceptedBy(plan) \subseteq IdsIn(pack[plan.pack].claims)
    BY <2>1, <2>2 DEF HistoryInv, RecordsAreApplied, IsApplied
  <2> HIDE DEF plan
  <2>4. \E i \in DOMAIN pack[plan.pack].promotions : pack[plan.pack].promotions[i] = plan
    BY <2>2 DEF Records
  <2>5. \A k \in DOMAIN plan.decisions : plan.decisions[k].action = "accept" =>
            <<plan.update, k>> \in ClaimIds(pack[plan.pack])
    BY <2>3 DEF AcceptedBy, IdsIn, ClaimIds
  <2> QED
    BY <2>4, <2>5 DEF plan
<1> QED
  BY <1>1, PromotionInvariant, HistoryInvariant, PTL

(***************************************************************************)
(* No step removes, moves or rewrites an accepted claim or a record.       *)
(***************************************************************************)
\* What AcceptedHistoryGrows says of one pack
HistoryGrows(p) ==
    /\ IsPrefix(pack[p].promotions, pack'[p].promotions)
    /\ Len(pack[p].claims) <= Len(pack'[p].claims)
    /\ \A i \in DOMAIN pack[p].claims :
           LET old == pack[p].claims[i]
               new == pack'[p].claims[i]
           IN  /\ new = [old EXCEPT !.status = new.status]
               /\ new.status # old.status =>
                      new.status \in {"historical", "contradicted"}

THEOREM HistoryIsKept == PromotionSpec => AcceptedHistoryGrows
<1>1. PromotionInv /\ HistoryInv /\ [PromotionNext]_promotionVars =>
          [\A p \in Packs : HistoryGrows(p)]_promotionVars
  <2> SUFFICES ASSUME PromotionInv, HistoryInv, [PromotionNext]_promotionVars,
                      NEW p \in Packs
               PROVE  HistoryGrows(p)
    OBVIOUS
  <2> DEFINE records == pack[p].promotions
             claims == pack[p].claims
  <2>1. records \in Seq(Records(pack[p])) /\ claims \in Seq(Claims)
    BY DEF PromotionInv, PackShape, HistoryInv, ClaimShape
  <2>2. CASE pack'[p] = pack[p]
    <3>1. IsPrefix(records, records)
      BY <2>1 DEF IsPrefix
    <3>2. Keeps(claims, claims)
      <4>1. \A i \in DOMAIN claims : claims[i] \in Claims
        BY <2>1
      <4> QED
        BY <2>1, <4>1 DEF Claims, Keeps
    <3>3. pack'[p].promotions = records /\ pack'[p].claims = claims
      BY <2>2
    <3> QED
      BY <3>1, <3>2, <3>3 DEF HistoryGrows, Keeps
  <2>3. CASE pack'[p] # pack[p]
    <3>1. PICK s \in Sessions : Write(s)
      BY <2>3, PacksChangeByWrites
    <3> DEFINE plan == session[s].plan
               new == session[s].preview
    <3>2. /\ pack' = [pack EXCEPT ![plan.pack] = new] /\ plan.pack \in Packs
          /\ Keeps(pack[plan.pack].claims, new.claims)
          /\ new.promotions = Append(pack[plan.pack].promotions, plan)
      BY <3>1, WriteGrows
    <3>3. plan.pack = p /\ pack'[p] = new
      BY <2>3, <3>2 DEF PromotionInv, PackShape
    <3> HIDE DEF new, plan
    <3>4. new.promotions = Append(records, plan) /\ Keeps(claims, new.claims)
      BY <3>2, <3>3
    <3>5. IsPrefix(records, Append(records, plan))
      BY <2>1 DEF IsPrefix
    <3> QED
      BY <3>3, <3>4, <3>5 DEF Keeps, HistoryGrows
  <2> QED
    BY <2>2, <2>3
<1> QED
  BY <1>1, PromotionInvariant, HistoryInvariant, PTL
  DEF PromotionSpec, AcceptedHistoryGrows, HistoryGrows
=============================================================================
