\* One upload of up to three bytes in PATCHes of at most two, two concurrent
\* finalizers, two concurrent sweepers.  No link or copy.
CONSTANTS
    Uploads = {u1}
    Clones = {}
    Finalizers = {f1, f2}
    Sweepers = {w1, w2}
    Data = {d1, d2}
    Sizes = {0, 1, 2, 3}
    MaxPatch = 2
    NULL = NULL
SPECIFICATION Spec
SYMMETRY Symmetry
\* Every id is used once: the run ends when all are spent.
CHECK_DEADLOCK FALSE
INVARIANTS ResumableOffset ReadyIntact Recoverable NoCollision CleanedMeansGone
PROPERTIES RemovedOnlyUnreferenced
