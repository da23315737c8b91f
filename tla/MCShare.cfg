\* Two uploads (the second may replace the first one's file) and one link or
\* copy over the same objects.
CONSTANTS
    Uploads = {u1, u2}
    Clones = {c1}
    Finalizers = {f1}
    Sweepers = {w1}
    Data = {d1}
    Sizes = {1}
    MaxPatch = 1
    NULL = NULL
SPECIFICATION Spec
SYMMETRY Symmetry
\* Every id is used once: the run ends when all are spent.
CHECK_DEADLOCK FALSE
INVARIANTS TypeOK StorageInv
