\* One file on the second page of a folder below the source, with two contents it
\* changes between at Google, two runs, one fault; a run gives up at the first
\* failed tick.
CONSTANTS
    Runs = {r1, r2}
    RootFiles = {}
    NestedFiles = {g1}
    LaterFiles = {g1}
    NativeFiles = {}
    ExportFiles = {}
    Contents = {A, B}
    FailureLimit = 1
    MaxFaults = 1
    NULL = NULL
SPECIFICATION Spec
SYMMETRY Symmetry
INVARIANTS TypeOK ReadyHasPayload NoSecondCopy  CompletedSawAll CountsMatch
