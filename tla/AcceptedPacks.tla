---------------------------- MODULE AcceptedPacks ----------------------------
(***************************************************************************)
(* What Promotion promises to the readers of accepted packs: a pack's      *)
(* history only ever grows, by one promotion at a time, and every staged   *)
(* update is used at most once over all packs.  Everything a learner sees  *)
(* of a pack (claims, version, digest) is a function of this history.      *)
(***************************************************************************)
EXTENDS Sequences

CONSTANTS
    Packs,      \* pack ids
    Updates     \* staged Pack Updates

VARIABLE accepted   \* per pack, the updates promoted into it, in order

AcceptedInit == accepted = [p \in Packs |-> <<>>]

UsedUpdates == UNION {{accepted[p][i] : i \in DOMAIN accepted[p]} : p \in Packs}

Accept(p, u) ==
    /\ u \notin UsedUpdates
    /\ accepted' = [accepted EXCEPT ![p] = Append(accepted[p], u)]

AcceptedNext == \E p \in Packs, u \in Updates : Accept(p, u)

AcceptedSpec == AcceptedInit /\ [][AcceptedNext]_accepted
=============================================================================
