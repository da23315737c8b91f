\* Two uploads, the second replacing the file of the first.
CONSTANTS
    Uploads = {u1, u2}
    Clones = {}
    Finalizers = {f1, f2}
    Sweepers = {w1}
    Data = {d1}
    Sizes = {0}
    MaxPatch = 1
    NULL = NULL
SPECIFICATION Spec
CHECK_DEADLOCK FALSE
PROPERTY CompletedKept
