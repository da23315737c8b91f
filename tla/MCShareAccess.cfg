\* One share and one key, two handlers at once; a password locks after two
\* failures, a limited share allows one download.
CONSTANTS
    Shares = {s1}
    Keys = {k1}
    Grants = {g1, g2}
    Requests = {r1, r2}
    PasswordFailureLimit = 2
    MaxDownloads = 1
    NULL = NULL
SPECIFICATION Spec
SYMMETRY Symmetry
INVARIANTS TypeOK RevocationRemovesGrants BulkRevocationComplete DownloadsBounded GuessesBounded
