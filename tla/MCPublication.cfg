SPECIFICATION PublicationSpec
CONSTANTS
    Updates = {u1, u2}
    Claims = {"current", "none"}
    Commands = {c1, c2}
    MaxBundles = 1
    MaxLosses = 1
SYMMETRY Symmetry
INVARIANTS
    PublicationTypeOK
PROPERTIES
    ApprovalsWereCurrent
    ExportsAreApproved
    AnsweredApprovalsSurvive
CHECK_DEADLOCK FALSE
