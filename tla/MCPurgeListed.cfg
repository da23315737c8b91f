\* Two folders and a purge that runs beside another request.
CONSTANTS
    Entries = {e1, e2}
    Names = {n1, n2}
    PhotoNames = {}
    Shares = {}
    MaxBatchEntries = 2
    Requests = {r1, r2}
    NULL = NULL
SPECIFICATION Spec
SYMMETRY Symmetry
PROPERTY PurgesOnlyTrash
