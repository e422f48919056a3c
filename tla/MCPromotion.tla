----------------------------- MODULE MCPromotion -----------------------------
(***************************************************************************)
(* Promotion for TLC: two packs and three updates, one that may go to      *)
(* either pack (a new-pack or ambiguous match: the learner chooses), one   *)
(* with two proposals for the first pack, and one for the second.          *)
(* Sessions are only compared for equality.                                *)
(***************************************************************************)
EXTENDS Promotion, TLC

CONSTANTS p1, p2, u1, u2, u3

MCCandidates == (u1 :> {p1, p2}) @@ (u2 :> {p1}) @@ (u3 :> {p2})
MCProposals == (u1 :> 1) @@ (u2 :> 2) @@ (u3 :> 1)

Symmetry == Permutations(Sessions)
=============================================================================
