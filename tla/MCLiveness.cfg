\* One upload of one byte and one link or copy of it, one client
\* retrying, one sweeper; no symmetry.
CONSTANTS
    Uploads = {u1}
    Clones = {c1}
    Finalizers = {f1}
    Sweepers = {w1}
    Data = {d1}
    Sizes = {1}
    MaxPatch = 1
    NULL = NULL
SPECIFICATION LiveSpec
\* Every id is used once: the run ends when all are spent.
CHECK_DEADLOCK FALSE
PROPERTIES StagingReclaimed ObjectsReclaimed FinalizeSettles
