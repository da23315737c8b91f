\* Three entries with one name, so that a folder has one child: chains of folders.
\* Two concurrent requests of any kind, moves included; a batch has up to two ids.
CONSTANTS
    Entries = {e1, e2, e3}
    Names = {n1}
    PhotoNames = {n1}
    Shares = {s1}
    MaxBatchEntries = 2
    Requests = {r1, r2}
    NULL = NULL
SPECIFICATION SerialSpec
SYMMETRY Symmetry
INVARIANTS TypeOK Acyclic ParentsExist SharesResolve
