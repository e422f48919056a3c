SPECIFICATION IntakeSpec
CONSTANTS
    file = file
    turns = turns
    t1 = t1
    t2 = t2
    ambiguous = ambiguous
    clear = clear
    malformed = malformed
    p1 = p1
    p2 = p2
    Processes = {a, b}
    Sources = {file, turns}
    Scoped = {turns}
    Contents = {ambiguous, clear, malformed}
    Malformed = {malformed}
    Times = {t1, t2}
    Packs = {p1, p2}
    Matched <- MCMatched
    Materials <- MCMaterials
    NoTime = NoTime
    NoPack = NoPack
    NoManifest = NoManifest
SYMMETRY Symmetry
INVARIANTS
    IntakeTypeOK
    NoDuplicateProposals
    ProposalsHaveIntakes
    NeverChoosesSilently
PROPERTIES
    ArtifactsRemain
