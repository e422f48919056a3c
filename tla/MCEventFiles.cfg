SPECIFICATION FilesSpec
CONSTANTS
    Processes = {p1, p2}
    Threads = {t1, t2}
    Readers = {r1}
    Commands = {c1, c2, c3}
SYMMETRY Symmetry
INVARIANTS
    DirectoryIsValid
    ReadersSeePrefixes
PROPERTIES
    ImplementsLog
