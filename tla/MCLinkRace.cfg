\* One upload and one link or copy against the sweeper.
CONSTANTS
    Uploads = {u1}
    Clones = {c1}
    Finalizers = {f1, f2}
    Sweepers = {w1}
    Data = {d1}
    Sizes = {0}
    MaxPatch = 1
    NULL = NULL
SPECIFICATION Spec
CHECK_DEADLOCK FALSE
PROPERTY RemovedOnlyUnreferenced
