\* One account with two sessions in its life and up to three passwords, one device
\* with a token that is rotated twice, two handlers at once; the limiter locks
\* after one failure.
CONSTANTS
    Sessions = {s1, s2}
    Codes = {d1}
    Credentials = {k1, k2, k3}
    Requests = {r1, r2}
    LoginFailureLimit = 1
    MaxPasswords = 3
    NULL = NULL
SPECIFICATION Spec
INVARIANTS TypeOK SessionsCurrent OneLiveCredential CodeSpentOnce SignInsBounded
