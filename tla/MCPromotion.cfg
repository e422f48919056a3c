SPECIFICATION PromotionSpec
CONSTANTS
    p1 = p1
    p2 = p2
    u1 = u1
    u2 = u2
    u3 = u3
    Packs = {p1, p2}
    Updates = {u1, u2, u3}
    Sessions = {s1, s2}
    Candidates <- MCCandidates
    Proposals <- MCProposals
    Statuses = {"current"}
    NoClaim = NoClaim
SYMMETRY Symmetry
INVARIANTS
    UpdatePromotedOnce
    ConfirmedIsRecorded
    HistoryLinks
PROPERTIES
    NeverRebased
    AcceptedHistoryGrows
    ImplementsAcceptedPacks
