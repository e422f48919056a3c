SPECIFICATION FilesSpec
CONSTANTS
    Processes = {p1}
    Threads = {t1}
    Readers = {r1}
    Commands = {c1, c2}
SYMMETRY Symmetry
INVARIANTS
    ReadersNeverRefuse
