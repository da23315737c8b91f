------------------------- MODULE ShareAccess_proofs -------------------------
(***************************************************************************)
(* The safety properties of ShareAccess for any number of shares, keys,    *)
(* grants and handlers.                                                    *)
(*                                                                         *)
(* The two counters need the handlers that have not reported yet: a        *)
(* download that was reserved and is still to be sent, a guess that was    *)
(* let through before the lock and is still to be verified.  Num counts    *)
(* them; a step moves one handler, so it changes each count by at most one *)
(* (CountMove).                                                            *)
(***************************************************************************)
EXTENDS ShareAccess, FiniteSetTheorems, TLAPS

-----------------------------------------------------------------------------
(* The inductive invariant *)

\* The handlers at pc with share s.
At(pc, s) == {r \in Requests : req[r].pc = pc /\ req[r].share = s}
Num(pc, s) == Cardinality(At(pc, s))

\* A visitor's handler works on a share that exists.
RequestInv(r) ==
    req[r].pc \in {"fetched", "verify", "wrong", "right", "granted", "reserve", "send"} =>
        req[r].share \in Shares /\ share[req[r].share].state # "none"

\* An id that is not drawn yet has no past.
FreshInv(s) ==
    share[s].state = "none" =>
        share[s] = NoShare /\ history[s] = [guesses |-> 0, downloads |-> 0]

\* A grant that works belongs to a share that exists and is not revoked.
GrantInv(g) ==
    grant[g].state = "live" =>
        grant[g].share \in Shares /\ share[grant[g].share].state \notin {"none", "revoked"}

\* What was revoked in bulk cannot be added to: the key is revoked.
KeyInv(k) == key[k].bulk => key[k].state = "revoked"

\* A download is counted before it is sent: those on their way included, no
\* more are sent than counted.
DownloadInv(s) ==
    share[s].max # NULL =>
        /\ history[s].downloads + Num("send", s) <= share[s].count
        /\ share[s].count <= share[s].max

\* While guesses are counted, the wrong ones are in failures or about to be.
\* Once they are not (locked, expired, revoked), the handlers that verify one
\* are all that can still add to them.
GuessInv(s) ==
    IF share[s].state = "live" /\ share[s].lock # "locked"
    THEN history[s].guesses <=
            (IF share[s].lock = "none" THEN share[s].failures ELSE 0) + Num("wrong", s)
    ELSE history[s].guesses + Num("verify", s) <=
            PasswordFailureLimit + Cardinality(Requests) - 1

ShareInv ==
    /\ TypeOK
    /\ \A r \in Requests : RequestInv(r)
    /\ \A s \in Shares : FreshInv(s) /\ DownloadInv(s) /\ GuessInv(s)
    /\ \A g \in Grants : GrantInv(g)
    /\ \A k \in Keys : KeyInv(k)
    /\ BulkRevocationComplete

-----------------------------------------------------------------------------
(* Types *)

\* The initial state is well typed.
LEMMA InitType == Init => TypeOK
BY ShareAssumption DEF Init, TypeOK, Key, Share, Grant, Request, Idle, NoShare

\* The state of a share is written.
LEMMA StateRow ==
    ASSUME NEW row \in Share, NEW x \in {"none", "live", "expired", "revoked"},
           NEW t, t = [row EXCEPT !.state = x]
    PROVE  /\ t \in Share
           /\ t.state = x /\ t.lock = row.lock /\ t.failures = row.failures
           /\ t.key = row.key /\ t.max = row.max /\ t.count = row.count
BY DEF Share

\* The lock of a share is written.
LEMMA LapseRow ==
    ASSUME NEW row \in Share, NEW x \in {"none", "locked", "lapsed"},
           NEW t, t = [row EXCEPT !.lock = x]
    PROVE  /\ t \in Share
           /\ t.state = row.state /\ t.lock = x /\ t.failures = row.failures
           /\ t.key = row.key /\ t.max = row.max /\ t.count = row.count
BY DEF Share

\* A download is counted.
LEMMA CountRow ==
    ASSUME NEW row \in Share, NEW n \in Nat, NEW t, t = [row EXCEPT !.count = n]
    PROVE  /\ t \in Share
           /\ t.state = row.state /\ t.lock = row.lock /\ t.failures = row.failures
           /\ t.key = row.key /\ t.max = row.max /\ t.count = n
BY Zenon DEF Share

\* A revocation changes the state of rows and nothing else.
LEMMA RevokedType ==
    ASSUME TypeOK, NEW S
    PROVE  /\ Revoked(S) \in [Shares -> Share]
           /\ GrantsGone(S) \in [Grants -> Grant]
           /\ \A s \in Shares :
                 /\ Revoked(S)[s].state = IF s \in S /\ share[s].state # "none"
                                          THEN "revoked" ELSE share[s].state
                 /\ Revoked(S)[s].lock = share[s].lock
                 /\ Revoked(S)[s].failures = share[s].failures
                 /\ Revoked(S)[s].key = share[s].key
                 /\ Revoked(S)[s].max = share[s].max
                 /\ Revoked(S)[s].count = share[s].count
           /\ \A g \in Grants :
                 /\ GrantsGone(S)[g].share = grant[g].share
                 /\ GrantsGone(S)[g].state =
                      IF grant[g].share \in S THEN "gone" ELSE grant[g].state
<1>1. ASSUME NEW s \in Shares
      PROVE  share[s] \in Share
  BY DEF TypeOK
<1>2. ASSUME NEW g \in Grants
      PROVE  /\ grant[g] \in Grant
             /\ [grant[g] EXCEPT !.state = "gone"] \in Grant
             /\ [grant[g] EXCEPT !.state = "gone"].state = "gone"
             /\ [grant[g] EXCEPT !.state = "gone"].share = grant[g].share
  BY DEF TypeOK, Grant
<1>3. Revoked(S) \in [Shares -> Share]
  BY <1>1, StateRow DEF Revoked
<1>4. GrantsGone(S) \in [Grants -> Grant]
  BY <1>2 DEF GrantsGone
<1>5. ASSUME NEW s \in Shares
      PROVE  /\ Revoked(S)[s].state = IF s \in S /\ share[s].state # "none"
                                      THEN "revoked" ELSE share[s].state
             /\ Revoked(S)[s].lock = share[s].lock
             /\ Revoked(S)[s].failures = share[s].failures
             /\ Revoked(S)[s].key = share[s].key
             /\ Revoked(S)[s].max = share[s].max
             /\ Revoked(S)[s].count = share[s].count
  <2>1. Revoked(S)[s] = IF s \in S /\ share[s].state # "none"
                        THEN [share[s] EXCEPT !.state = "revoked"] ELSE share[s]
    BY DEF Revoked
  <2>2. QED
    BY <1>1, <2>1, StateRow
<1>6. QED
  BY <1>2, <1>3, <1>4, <1>5 DEF GrantsGone

\* Moving one handler keeps the handlers well typed.
LEMMA RequestType ==
    ASSUME TypeOK, NEW r \in Requests,
           \/ Ends(r)
           \/ \E pc \in {"create", "insert", "wrong", "right", "granted",
                         "reserve", "send"} : Becomes(r, pc)
    PROVE  req' \in [Requests -> Request]
<1>1. req[r] \in Request
  BY DEF TypeOK
<1>2. CASE Ends(r)
  BY <1>2, ShareAssumption DEF Ends, Idle, TypeOK, Request
<1>3. ASSUME NEW pc \in {"create", "insert", "wrong", "right", "granted",
                         "reserve", "send"}, Becomes(r, pc)
      PROVE  req' \in [Requests -> Request]
  <2>1. [req[r] EXCEPT !.pc = pc] \in Request
    BY <1>1 DEF Request
  <2>2. QED
    BY <1>3, <2>1 DEF Becomes, TypeOK
<1>4. QED
  BY <1>2, <1>3

\* record_password_failure keeps the lock and the failures in step.
LEMMA CountedType ==
    ASSUME NEW row \in Share, row.lock # "locked",
           row.lock = "none" <=> row.failures < PasswordFailureLimit
    PROVE  /\ Counted(row) \in Share
           /\ Counted(row).lock = "none" <=>
                 Counted(row).failures < PasswordFailureLimit
           /\ Counted(row).lock # "lapsed"
           /\ Counted(row).failures = IF row.lock = "none" THEN row.failures + 1 ELSE 1
           /\ Counted(row).lock = "locked" => Counted(row).failures = PasswordFailureLimit
           /\ Counted(row).state = row.state /\ Counted(row).key = row.key
           /\ Counted(row).max = row.max /\ Counted(row).count = row.count
<1> USE ShareAssumption
<1>1. /\ row.failures \in 0 .. PasswordFailureLimit
      /\ row.lock \in {"none", "lapsed"}
  BY DEF Share
<1>2. CASE row.lock = "lapsed"
  <2>1. Counted(row) = [row EXCEPT !.failures = 1, !.lock = "none"]
    BY <1>2 DEF Counted
  <2>2. 1 \in 0 .. PasswordFailureLimit /\ 1 < PasswordFailureLimit
    OBVIOUS
  <2>3. QED
    BY <1>2, <2>1, <2>2 DEF Share
<1>3. CASE row.lock = "none"
  <2> DEFINE n == row.failures + 1
             l == IF n >= PasswordFailureLimit THEN "locked" ELSE "none"
  <2>1. Counted(row) = [row EXCEPT !.failures = n, !.lock = l]
    BY <1>3 DEF Counted
  <2>2. /\ n \in 0 .. PasswordFailureLimit
        /\ l = "none" <=> n < PasswordFailureLimit
        /\ l \in {"none", "locked"}
        /\ l = "locked" => n = PasswordFailureLimit
    BY <1>1, <1>3
  <2> HIDE DEF n, l
  <2>3. Counted(row) \in Share /\ Counted(row).failures = n /\ Counted(row).lock = l
    BY <2>1, <2>2 DEF Share
  <2>4. /\ Counted(row).state = row.state /\ Counted(row).key = row.key
        /\ Counted(row).max = row.max /\ Counted(row).count = row.count
    BY <2>1 DEF Share
  <2>5. QED
    BY <1>3, <2>2, <2>3, <2>4 DEF n
<1>4. QED
  BY <1>1, <1>2, <1>3

\* Every step keeps the types.
LEMMA NextType ==
    ASSUME ShareInv, Next
    PROVE  TypeOK'
<1> USE ShareAssumption DEF ShareInv, TypeOK
<1>s. \A s \in Shares : share[s] \in Share
  OBVIOUS
<1>0. 0 \in 0 .. PasswordFailureLimit /\ 0 \in Nat
  OBVIOUS
<1>1. ASSUME NEW r \in Requests, OwnerStep(r)
      PROVE  TypeOK'
  <2>1. ASSUME NEW k \in Keys, KeyLookup(r, k)
        PROVE  TypeOK'
    <3>1. [Idle EXCEPT !.pc = "key", !.key = k] \in Request
      BY DEF Idle, Request
    <3>2. QED
      BY <2>1, <3>1 DEF KeyLookup
  <2>2. CASE KeyCounted(r) \/ CreateBySession(r) \/ CreateCheck(r)
    BY <2>2, RequestType DEF KeyCounted, CreateBySession, CreateCheck
  <2>3. CASE CreateInsert(r)
    <3>1. req' \in [Requests -> Request]
      BY <2>3, RequestType DEF CreateInsert
    <3>2. CASE UNCHANGED share
      BY <2>3, <3>1, <3>2 DEF CreateInsert
    <3>3. ASSUME NEW s \in Shares, NEW password \in BOOLEAN, NEW download \in BOOLEAN,
                 NEW max \in {MaxDownloads, NULL},
                 share' = [share EXCEPT ![s] = [NoShare EXCEPT
                            !.state = "live", !.key = req[r].key,
                            !.password = password, !.download = download,
                            !.max = max]]
          PROVE  TypeOK'
      <4> DEFINE row == [NoShare EXCEPT
                            !.state = "live", !.key = req[r].key,
                            !.password = password, !.download = download,
                            !.max = max]
      <4>1. row \in Share /\ row.lock = "none" /\ row.failures = 0
        <5>1. req[r].key \in Keys \cup {NULL}
          BY DEF Request
        <5>2. QED
          BY <5>1, <1>0, Zenon DEF Share, NoShare
      <4>2. share' = [share EXCEPT ![s] = row]
        BY <3>3, Zenon
      <4> HIDE DEF row
      <4>3. share' \in [Shares -> Share] /\ \A x \in Shares :
                share'[x].lock = "none" <=> share'[x].failures < PasswordFailureLimit
        BY <4>1, <4>2
      <4>4. QED
        BY <2>3, <3>1, <4>3 DEF CreateInsert
    <3>4. QED
      BY <2>3, <3>2, <3>3 DEF CreateInsert
  <2>4. QED
    BY <1>1, <2>1, <2>2, <2>3 DEF OwnerStep
<1>2. ASSUME NEW r \in Requests, VisitorStep(r)
      PROVE  TypeOK'
  <2>1. ASSUME NEW s \in Shares, Fetch(r, s) \/ Unlock(r, s)
        PROVE  TypeOK'
    <3>1. \A pc \in {"fetched", "verify"} :
             [Idle EXCEPT !.pc = pc, !.share = s] \in Request
      BY DEF Idle, Request
    <3>2. QED
      BY <2>1, <3>1 DEF Fetch, Unlock
  <2>2. CASE Verify(r)
    <3>1. req' \in [Requests -> Request]
      BY <2>2, RequestType DEF Verify
    <3>2. history' \in [Shares -> [guesses : Nat, downloads : Nat]]
      BY <2>2 DEF Verify
    <3>3. QED
      BY <2>2, <3>1, <3>2 DEF Verify
  <2>3. CASE RecordPasswordFailure(r)
    <3>1. req' \in [Requests -> Request]
      BY <2>3, RequestType DEF RecordPasswordFailure
    <3>2. CASE UNCHANGED share
      BY <2>3, <3>1, <3>2 DEF RecordPasswordFailure
    <3>3. CASE share # share'
      <4> DEFINE s == req[r].share
      <4>1. s \in Shares
        BY <2>3 DEF RecordPasswordFailure, RequestInv
      <4>2. share[s].lock # "locked" /\ share' = [share EXCEPT ![s] = Counted(share[s])]
        BY <2>3, <3>3 DEF RecordPasswordFailure
      <4>3. Counted(share[s]) \in Share /\ (Counted(share[s]).lock = "none" <=>
                 Counted(share[s]).failures < PasswordFailureLimit)
        BY <1>s, <4>1, <4>2, CountedType
      <4>4. QED
        BY <2>3, <3>1, <4>1, <4>2, <4>3 DEF RecordPasswordFailure
    <3>4. QED
      BY <3>2, <3>3
  <2>4. CASE UnlockCommit(r)
    <3>1. req' \in [Requests -> Request]
      BY <2>4, RequestType DEF UnlockCommit
    <3>2. CASE share[req[r].share].state # "live"
      BY <2>4, <3>1, <3>2 DEF UnlockCommit
    <3>3. CASE share[req[r].share].state = "live"
      <4> DEFINE s == req[r].share
                 row == [share[s] EXCEPT !.failures = 0, !.lock = "none"]
      <4>1. s \in Shares
        BY <2>4 DEF UnlockCommit, RequestInv
      <4>2. row \in Share /\ row.failures = 0 /\ row.lock = "none"
        <5>1. share[s] \in Share
          BY <1>s, <4>1
        <5> HIDE DEF s
        <5>2. QED
          BY <1>0, <5>1, Zenon DEF Share
      <4>3. share' = [share EXCEPT ![s] = row]
        BY <2>4, <3>3, <4>1 DEF UnlockCommit
      <4> HIDE DEF row
      <4>4. share' \in [Shares -> Share] /\ \A x \in Shares :
                share'[x].lock = "none" <=> share'[x].failures < PasswordFailureLimit
        BY <4>1, <4>2, <4>3
      <4>5. [state |-> "live", share |-> s] \in Grant
        BY <4>1 DEF Grant
      <4>6. grant' \in [Grants -> Grant]
        BY <2>4, <3>3, <4>5 DEF UnlockCommit
      <4>7. history' \in [Shares -> [guesses : Nat, downloads : Nat]]
        BY <2>4, <3>3 DEF UnlockCommit
      <4>8. QED
        BY <2>4, <3>1, <4>4, <4>6, <4>7 DEF UnlockCommit
    <3>4. QED
      BY <3>2, <3>3
  <2>5. CASE RequireGrant(r) \/ View(r) \/ Download(r)
    BY <2>5, RequestType DEF RequireGrant, View, Download
  <2>6. CASE ReserveDownload(r)
    <3>1. req' \in [Requests -> Request]
      BY <2>6, RequestType DEF ReserveDownload
    <3>2. CASE UNCHANGED share
      BY <2>6, <3>1, <3>2 DEF ReserveDownload
    <3>3. CASE share # share'
      <4> DEFINE s == req[r].share
                 n == IF share[s].max = NULL /\ share[s].count = MaxDownloads
                      THEN share[s].count ELSE share[s].count + 1
                 row == [share[s] EXCEPT !.count = n]
      <4>1. s \in Shares
        BY <2>6 DEF ReserveDownload, RequestInv
      <4>2. share' = [share EXCEPT ![s] = row]
        BY <2>6, <3>3, <4>1 DEF ReserveDownload
      <4>3. n \in Nat
        BY <1>s, <4>1 DEF Share
      <4> HIDE DEF n
      <4>4. row \in Share /\ row.failures = share[s].failures /\ row.lock = share[s].lock
        BY <1>s, <4>1, <4>3, CountRow
      <4> HIDE DEF row
      <4>5. QED
        BY <2>6, <3>1, <4>1, <4>2, <4>4 DEF ReserveDownload
    <3>4. QED
      BY <3>2, <3>3
  <2>7. CASE Send(r)
    <3>1. req' \in [Requests -> Request]
      BY <2>7, RequestType DEF Send
    <3>2. history' \in [Shares -> [guesses : Nat, downloads : Nat]]
      BY <2>7 DEF Send
    <3>3. QED
      BY <2>7, <3>1, <3>2 DEF Send
  <2>8. QED
    BY <1>2, <2>1, <2>2, <2>3, <2>4, <2>5, <2>6, <2>7 DEF VisitorStep
<1>3. ASSUME OtherStep
      PROVE  TypeOK'
  <2>1. ASSUME NEW k \in Keys, CreateKey(k) \/ KeyExpires(k)
        PROVE  TypeOK'
    <3>1. \A x \in {"active", "expired"} : [key[k] EXCEPT !.state = x] \in Key
      BY DEF Key
    <3>2. QED
      BY <2>1, <3>1 DEF CreateKey, KeyExpires
  <2>2. ASSUME NEW S, share' = Revoked(S), grant' = GrantsGone(S)
        PROVE  /\ share' \in [Shares -> Share]
               /\ grant' \in [Grants -> Grant]
               /\ \A s \in Shares :
                    share'[s].lock = "none" <=> share'[s].failures < PasswordFailureLimit
    <3>1. \A s \in Shares :
             share'[s].lock = share[s].lock /\ share'[s].failures = share[s].failures
      BY <2>2, RevokedType
    <3>2. QED
      BY <2>2, <3>1, RevokedType
  <2>3. ASSUME NEW k \in Keys, NEW alsoKey \in BOOLEAN, NEW alsoShares \in BOOLEAN,
               RevokeKey(k, alsoKey, alsoShares)
        PROVE  TypeOK'
    <3>1. key' \in [Keys -> Key]
      BY <2>3 DEF RevokeKey, Key
    <3>2. QED
      BY <2>2, <2>3, <3>1 DEF RevokeKey
  <2>4. ASSUME NEW s \in Shares, RevokeShare(s)
        PROVE  TypeOK'
    BY <2>2, <2>4 DEF RevokeShare
  <2>5. ASSUME NEW s \in Shares, ShareExpires(s)
        PROVE  TypeOK'
    <3>1. /\ [share[s] EXCEPT !.state = "expired"] \in Share
          /\ [share[s] EXCEPT !.state = "expired"].lock = share[s].lock
          /\ [share[s] EXCEPT !.state = "expired"].failures = share[s].failures
      BY <1>s, StateRow
    <3>2. QED
      BY <2>5, <3>1 DEF ShareExpires
  <2>6. ASSUME NEW s \in Shares, LockLapses(s)
        PROVE  TypeOK'
    <3>1. /\ [share[s] EXCEPT !.lock = "lapsed"] \in Share
          /\ [share[s] EXCEPT !.lock = "lapsed"].lock = "lapsed"
          /\ [share[s] EXCEPT !.lock = "lapsed"].failures = share[s].failures
      BY <1>s, LapseRow
    <3>2. history' \in [Shares -> [guesses : Nat, downloads : Nat]]
      BY <2>6 DEF LockLapses
    <3>3. QED
      BY <2>6, <3>1, <3>2 DEF LockLapses
  <2>7. ASSUME NEW g \in Grants, GrantExpires(g)
        PROVE  TypeOK'
    BY <2>7 DEF GrantExpires, Grant
  <2>8. CASE Trash \/ Restore
    BY <2>2, <2>8 DEF Trash, Restore
  <2>9. QED
    BY <1>3, <2>1, <2>3, <2>4, <2>5, <2>6, <2>7, <2>8 DEF OtherStep
<1>4. QED
  BY <1>1, <1>2, <1>3 DEF Next

-----------------------------------------------------------------------------
(* Counting handlers *)

\* The handlers at a place are finitely many.
LEMMA NumType ==
    ASSUME NEW pc, NEW s
    PROVE  /\ IsFiniteSet(At(pc, s)) /\ Num(pc, s) \in Nat
           /\ IsFiniteSet(At(pc, s))' /\ Num(pc, s)' \in Nat
BY ShareAssumption, FS_Subset, FS_CardinalityType DEF At, Num

\* When one handler moves, it alone is added to a count or taken from it.
LEMMA CountMove ==
    ASSUME NEW r \in Requests, NEW pc, NEW s,
           \A q \in Requests : q # r => req'[q] = req[q]
    PROVE  /\ r \notin At(pc, s) /\ r \notin At(pc, s)' => Num(pc, s)' = Num(pc, s)
           /\ r \in At(pc, s) /\ r \in At(pc, s)' => Num(pc, s)' = Num(pc, s)
           /\ r \in At(pc, s) /\ r \notin At(pc, s)' => Num(pc, s)' + 1 = Num(pc, s)
           /\ r \notin At(pc, s) /\ r \in At(pc, s)' => Num(pc, s)' = Num(pc, s) + 1
<1>1. \A q \in Requests : q # r => (q \in At(pc, s) <=> q \in At(pc, s)')
  BY DEF At
<1>2. CASE r \in At(pc, s) <=> r \in At(pc, s)'
  <2>1. At(pc, s)' = At(pc, s)
    BY <1>1, <1>2 DEF At
  <2>2. QED
    BY <1>2, <2>1 DEF Num
<1>3. CASE r \in At(pc, s) /\ r \notin At(pc, s)'
  <2>1. At(pc, s) = At(pc, s)' \cup {r}
    BY <1>1, <1>3 DEF At
  <2>2. QED
    BY <1>3, <2>1, NumType, FS_AddElement DEF Num
<1>4. CASE r \notin At(pc, s) /\ r \in At(pc, s)'
  <2>1. At(pc, s)' = At(pc, s) \cup {r}
    BY <1>1, <1>4 DEF At
  <2>2. QED
    BY <1>4, <2>1, NumType, FS_AddElement DEF Num
<1>5. QED
  BY <1>2, <1>3, <1>4

\* The handlers at two places are no more than the handlers, and fewer when
\* one is at neither.
LEMMA CountBound ==
    ASSUME NEW s
    PROVE  /\ Cardinality(Requests) \in Nat
           /\ Num("verify", s) + Num("wrong", s) <= Cardinality(Requests)
           /\ (\E r \in Requests : r \notin At("verify", s) /\ r \notin At("wrong", s)) =>
                 Num("verify", s) + Num("wrong", s) <= Cardinality(Requests) - 1
<1> DEFINE both == At("verify", s) \cup At("wrong", s)
<1>1. Cardinality(Requests) \in Nat
  BY ShareAssumption, FS_CardinalityType
<1>2. At("verify", s) \cap At("wrong", s) = {}
  BY DEF At
<1>3. Cardinality(both) = Num("verify", s) + Num("wrong", s)
  <2>1. Cardinality(both) = Num("verify", s) + Num("wrong", s)
                            - Cardinality(At("verify", s) \cap At("wrong", s))
    BY NumType, FS_Union DEF Num
  <2>2. Cardinality(At("verify", s) \cap At("wrong", s)) = 0
    BY <1>2, FS_EmptySet
  <2>3. QED
    BY <2>1, <2>2, NumType
<1>4. both \in SUBSET Requests
  BY DEF At
<1>5. Cardinality(both) <= Cardinality(Requests)
  BY <1>4, ShareAssumption, FS_Subset
<1>6. ASSUME NEW r \in Requests, r \notin both
      PROVE  Cardinality(both) <= Cardinality(Requests) - 1
  <2>1. IsFiniteSet(Requests \ {r}) /\ Cardinality(Requests \ {r}) = Cardinality(Requests) - 1
    BY ShareAssumption, FS_RemoveElement
  <2>2. both \in SUBSET (Requests \ {r})
    BY <1>4, <1>6
  <2>3. QED
    BY <2>1, <2>2, FS_Subset
<1>7. QED
  BY <1>1, <1>3, <1>5, <1>6

-----------------------------------------------------------------------------
(* Steps *)

\* Arithmetic on a share's row and its history is arithmetic on numbers.
LEMMA Numbers ==
    ASSUME TypeOK, NEW s \in Shares
    PROVE  /\ share[s].count \in Nat /\ share[s].failures \in Nat
           /\ history[s].guesses \in Nat /\ history[s].downloads \in Nat
           /\ share[s].lock \in {"none", "locked", "lapsed"}
           /\ share[s].lock = "none" => share[s].failures <= PasswordFailureLimit - 1
           /\ PasswordFailureLimit \in Nat /\ PasswordFailureLimit > 1
           /\ Num("send", s) \in Nat /\ Num("wrong", s) \in Nat /\ Num("verify", s) \in Nat
<1>1. /\ share[s] \in Share
      /\ history[s] \in [guesses : Nat, downloads : Nat]
      /\ share[s].lock = "none" => share[s].failures < PasswordFailureLimit
  BY DEF TypeOK
<1>2. share[s].failures \in 0 .. PasswordFailureLimit
  BY <1>1 DEF Share
<1>3. QED
  BY <1>1, <1>2, NumType, ShareAssumption DEF Share

\* A handler that moves on without writing a row, and neither takes a guess
\* back nor sends what it did not reserve, disturbs nothing.
LEMMA QuietMove ==
    ASSUME ShareInv, TypeOK', NEW r \in Requests,
           \A q \in Requests : q # r => req'[q] = req[q],
           UNCHANGED <<key, share, grant, history>>,
           RequestInv(r)',
           req'[r].pc # "send",
           req[r].pc # "wrong",
           req'[r].pc = "verify" =>
              share[req'[r].share].state = "live" /\ share[req'[r].share].lock # "locked"
    PROVE  ShareInv'
<1>1. \A q \in Requests : RequestInv(q)'
  BY DEF ShareInv, RequestInv
<1>2. ASSUME NEW s \in Shares
      PROVE  FreshInv(s)' /\ DownloadInv(s)' /\ GuessInv(s)'
  <2>1. FreshInv(s)'
    BY DEF ShareInv, FreshInv
  <2>2. DownloadInv(s)'
    <3>1. Num("send", s)' <= Num("send", s)
      <4>1. r \notin At("send", s)'
        BY DEF At
      <4>2. QED
        BY <4>1, CountMove, NumType
    <3>2. QED
      BY <3>1, Numbers, NumType DEF ShareInv, DownloadInv, TypeOK, Share
  <2>3. Num("wrong", s)' >= Num("wrong", s)
    <3>1. r \notin At("wrong", s)
      BY DEF At
    <3>2. QED
      BY <3>1, CountMove, NumType
  <2>4. CASE share[s].state = "live" /\ share[s].lock # "locked"
    BY <2>1, <2>2, <2>3, <2>4, Numbers, NumType DEF ShareInv, GuessInv
  <2>5. CASE ~(share[s].state = "live" /\ share[s].lock # "locked")
    <3>1. r \notin At("verify", s)'
      BY <2>5 DEF At
    <3>2. Num("verify", s)' <= Num("verify", s)
      BY <3>1, CountMove, NumType
    <3>3. Cardinality(Requests) \in Nat
      BY CountBound
    <3>4. QED
      BY <2>1, <2>2, <2>5, <3>2, <3>3, Numbers, NumType DEF ShareInv, GuessInv
  <2>6. QED
    BY <2>4, <2>5
<1>3. \A g \in Grants : GrantInv(g)'
  BY DEF ShareInv, GrantInv
<1>4. (\A k \in Keys : KeyInv(k)') /\ BulkRevocationComplete'
  BY DEF ShareInv, KeyInv, BulkRevocationComplete
<1>5. QED
  BY <1>1, <1>2, <1>3, <1>4 DEF ShareInv

\* A share whose row, history and handlers stay keeps its invariants.
LEMMA ShareFrame ==
    ASSUME ShareInv, TypeOK', NEW s \in Shares,
           share'[s] = share[s], history'[s] = history[s],
           \A pc \in {"send", "wrong", "verify"} : Num(pc, s)' = Num(pc, s)
    PROVE  FreshInv(s)' /\ DownloadInv(s)' /\ GuessInv(s)'
BY DEF ShareInv, FreshInv, DownloadInv, GuessInv

\* Retired or not, a share keeps its accounts: once it is, its guesses are
\* bounded by those counted and those under way.
LEMMA RetireShare ==
    ASSUME ShareInv, TypeOK', NEW s \in Shares, req' = req,
           share[s].state # "none", share'[s].state \in {"expired", "revoked"},
           share'[s].max = share[s].max, share'[s].count = share[s].count,
           history'[s] = history[s]
    PROVE  FreshInv(s)' /\ DownloadInv(s)' /\ GuessInv(s)'
<1>1. \A pc \in {"send", "wrong", "verify"} : Num(pc, s)' = Num(pc, s)
  BY DEF Num, At
<1>2. FreshInv(s)' /\ DownloadInv(s)'
  BY <1>1 DEF ShareInv, FreshInv, DownloadInv
<1>3. history[s].guesses + Num("verify", s) <=
         PasswordFailureLimit + Cardinality(Requests) - 1
  <2>1. CASE share[s].state = "live" /\ share[s].lock # "locked"
    <3>1. history[s].guesses <= PasswordFailureLimit - 1 + Num("wrong", s)
      BY <2>1, Numbers DEF ShareInv, GuessInv
    <3>2. QED
      BY <3>1, Numbers, CountBound DEF ShareInv
  <2>2. CASE ~(share[s].state = "live" /\ share[s].lock # "locked")
    BY <2>2 DEF ShareInv, GuessInv
  <2>3. QED
    BY <2>1, <2>2
<1>4. QED
  BY <1>1, <1>2, <1>3 DEF GuessInv

\* Revoking any set of shares with their grants; the keys may change with it
\* if their bulk revocation is complete.
LEMMA RevokeShares ==
    ASSUME ShareInv, TypeOK', NEW S, share' = Revoked(S), grant' = GrantsGone(S),
           UNCHANGED <<req, history>>,
           \A k \in Keys : KeyInv(k)',
           \A k \in Keys : key'[k].bulk => key[k].bulk \/ CreatedBy(k) \subseteq S,
           S \subseteq Shares
    PROVE  ShareInv'
<1> USE DEF ShareInv
<1>1. \A s \in Shares :
         /\ share'[s].state = IF s \in S /\ share[s].state # "none"
                              THEN "revoked" ELSE share[s].state
         /\ share'[s].key = share[s].key
         /\ share'[s].max = share[s].max /\ share'[s].count = share[s].count
         /\ ~(s \in S /\ share[s].state # "none") => share'[s] = share[s]
  BY RevokedType DEF Revoked
<1>2. \A r \in Requests : RequestInv(r)'
  BY <1>1 DEF RequestInv
<1>3. ASSUME NEW s \in Shares
      PROVE  FreshInv(s)' /\ DownloadInv(s)' /\ GuessInv(s)'
  <2>1. CASE s \in S /\ share[s].state # "none"
    BY <1>1, <2>1, RetireShare
  <2>2. CASE ~(s \in S /\ share[s].state # "none")
    <3>1. \A pc \in {"send", "wrong", "verify"} : Num(pc, s)' = Num(pc, s)
      BY DEF Num, At
    <3>2. QED
      BY <1>1, <2>2, <3>1, ShareFrame
  <2>3. QED
    BY <2>1, <2>2
<1>4. ASSUME NEW g \in Grants
      PROVE  GrantInv(g)'
  BY <1>1, RevokedType DEF GrantInv
<1>5. ASSUME NEW k \in Keys, NEW s \in Shares, key'[k].bulk, share'[s].key = k
      PROVE  share'[s].state = "revoked"
  <2>1. share[s].key = k
    BY <1>1, <1>5
  <2>2. share[s].state # "none"
    BY <2>1, ShareAssumption DEF FreshInv, NoShare
  <2>3. QED
    BY <1>1, <1>5, <2>1, <2>2 DEF BulkRevocationComplete, CreatedBy
<1>6. QED
  BY <1>2, <1>3, <1>4, <1>5 DEF BulkRevocationComplete

\* A visitor's handler writes the row or the history of its own share.
LEMMA VisitorMove ==
    ASSUME ShareInv, TypeOK', NEW r \in Requests, NEW x \in Shares,
           req[r].share = x, share[x].state # "none",
           \A q \in Requests : q # r => req'[q] = req[q],
           req'[r].pc = "idle" \/ req'[r].share = x,
           key' = key,
           \A s \in Shares : s # x => share'[s] = share[s] /\ history'[s] = history[s],
           share'[x].state = share[x].state, share'[x].key = share[x].key,
           \A g \in Grants : GrantInv(g)',
           DownloadInv(x)', GuessInv(x)'
    PROVE  ShareInv'
<1> USE DEF ShareInv
<1>1. \A s \in Shares : share'[s].state = share[s].state /\ share'[s].key = share[s].key
  OBVIOUS
<1>2. \A q \in Requests : RequestInv(q)'
  BY <1>1 DEF RequestInv
<1>3. ASSUME NEW s \in Shares
      PROVE  FreshInv(s)' /\ DownloadInv(s)' /\ GuessInv(s)'
  <2>1. CASE s = x
    BY <2>1 DEF FreshInv
  <2>2. CASE s # x
    <3>1. ASSUME NEW pc \in {"send", "wrong", "verify"}
          PROVE  Num(pc, s)' = Num(pc, s)
      <4>1. r \notin At(pc, s) /\ r \notin At(pc, s)'
        BY <2>2 DEF At
      <4>2. QED
        BY <4>1, CountMove
    <3>2. QED
      BY <2>2, <3>1, ShareFrame
  <2>3. QED
    BY <2>1, <2>2
<1>4. (\A k \in Keys : KeyInv(k)') /\ BulkRevocationComplete'
  BY <1>1 DEF KeyInv, BulkRevocationComplete
<1>5. QED
  BY <1>2, <1>3, <1>4

\* create_share: a key that was revoked in bulk adds no link.
LEMMA CreateInsertInv ==
    ASSUME ShareInv, TypeOK', NEW r \in Requests, CreateInsert(r)
    PROVE  ShareInv'
<1> USE DEF ShareInv
<1>1. /\ req[r].pc = "insert" /\ req'[r].pc = "idle"
      /\ \A q \in Requests : q # r => req'[q] = req[q]
      /\ UNCHANGED <<key, grant, history>>
  BY DEF CreateInsert, Ends, Idle, TypeOK
<1>2. RequestInv(r)'
  BY <1>1 DEF RequestInv
<1>3. CASE UNCHANGED share
  BY <1>1, <1>2, <1>3, QuietMove
<1>4. ASSUME KeyStillGood(r), NEW x \in Shares, NEW password \in BOOLEAN,
             NEW download \in BOOLEAN, NEW max \in {MaxDownloads, NULL},
             share[x].state = "none",
             share' = [share EXCEPT ![x] = [NoShare EXCEPT
                            !.state = "live", !.key = req[r].key,
                            !.password = password, !.download = download,
                            !.max = max]]
      PROVE  ShareInv'
  <2>1. /\ share'[x].state = "live" /\ share'[x].lock = "none" /\ share'[x].failures = 0
        /\ share'[x].key = req[r].key /\ share'[x].max = max /\ share'[x].count = 0
    <3>1. share'[x] = [NoShare EXCEPT !.state = "live", !.key = req[r].key,
                         !.password = password, !.download = download, !.max = max]
      BY <1>4 DEF TypeOK
    <3>2. QED
      BY <3>1, Zenon DEF NoShare
  <2>2. \A s \in Shares : s # x => share'[s] = share[s]
    BY <1>4 DEF TypeOK
  <2>3. \A q \in Requests : RequestInv(q)'
    BY <1>1, <1>2, <2>1, <2>2 DEF RequestInv
  <2>4. ASSUME NEW s \in Shares, NEW pc \in {"send", "wrong", "verify"}
        PROVE  Num(pc, s)' = Num(pc, s)
    <3>1. r \notin At(pc, s) /\ r \notin At(pc, s)'
      BY <1>1 DEF At
    <3>2. QED
      BY <1>1, <3>1, CountMove
  <2>5. history'[x].guesses = 0 /\ history'[x].downloads = 0
    BY <1>1, <1>4 DEF FreshInv
  <2>6. Num("send", x)' = 0
    <3>1. At("send", x) = {}
      BY <1>4 DEF At, RequestInv
    <3>2. Num("send", x) = 0
      BY <3>1, FS_EmptySet DEF Num
    <3>3. QED
      BY <2>4, <3>2
  <2>7. FreshInv(x)' /\ DownloadInv(x)' /\ GuessInv(x)'
    <3>1. FreshInv(x)' /\ DownloadInv(x)'
      BY <2>1, <2>5, <2>6, ShareAssumption DEF FreshInv, DownloadInv
    <3>2. GuessInv(x)'
      BY <2>1, <2>5, NumType DEF GuessInv
    <3>3. QED
      BY <3>1, <3>2
  <2>8. ASSUME NEW s \in Shares, s # x
        PROVE  FreshInv(s)' /\ DownloadInv(s)' /\ GuessInv(s)'
    BY <1>1, <2>2, <2>4, <2>8, ShareFrame
  <2>9. \A g \in Grants : GrantInv(g)'
    BY <1>1, <2>1, <2>2 DEF GrantInv
  <2>10. (\A k \in Keys : KeyInv(k)') /\ BulkRevocationComplete'
    <3>1. ASSUME NEW k \in Keys, key[k].bulk, share'[x].key = k
          PROVE  FALSE
      BY <1>4, <2>1, <3>1, ShareAssumption DEF KeyStillGood, KeyInv
    <3>2. QED
      BY <1>1, <2>2, <3>1 DEF KeyInv, BulkRevocationComplete
  <2>11. QED
    BY <2>3, <2>7, <2>8, <2>9, <2>10
<1>5. QED
  BY <1>3, <1>4 DEF CreateInsert

\* Steps of whoever creates a share.
LEMMA OwnerInv ==
    ASSUME ShareInv, TypeOK', NEW r \in Requests, OwnerStep(r)
    PROVE  ShareInv'
<1> USE DEF ShareInv
<1>1. ASSUME \/ \E k \in Keys : KeyLookup(r, k)
             \/ KeyCounted(r) \/ CreateBySession(r) \/ CreateCheck(r)
      PROVE  ShareInv'
  <2>1. /\ req[r].pc # "wrong" /\ req'[r].pc \in {"idle", "key", "create", "insert"}
        /\ \A q \in Requests : q # r => req'[q] = req[q]
        /\ UNCHANGED <<key, share, grant, history>>
    <3>1. req \in [Requests -> Request]
      BY DEF TypeOK
    <3>2. ASSUME NEW k \in Keys, KeyLookup(r, k)
          PROVE  <2>1!:
      BY <3>1, <3>2 DEF KeyLookup, Idle
    <3>3. CASE KeyCounted(r) \/ CreateBySession(r) \/ CreateCheck(r)
      BY <3>1, <3>3 DEF KeyCounted, CreateBySession, CreateCheck, Ends, Becomes,
         Idle, Request
    <3>4. QED
      BY <1>1, <3>2, <3>3
  <2>2. RequestInv(r)'
    BY <2>1 DEF RequestInv
  <2>3. QED
    BY <2>1, <2>2, QuietMove
<1>2. QED
  BY <1>1, CreateInsertInv DEF OwnerStep

\* verify_password: a wrong guess moves its handler from those verifying to
\* those that record.
LEMMA VerifyInv ==
    ASSUME ShareInv, TypeOK', NEW r \in Requests, Verify(r)
    PROVE  ShareInv'
<1> USE DEF ShareInv
<1>0. req[r].share \in Shares /\ share[req[r].share].state # "none"
  BY DEF Verify, RequestInv
<1>x. PICK x \in Shares : x = req[r].share
  BY <1>0
<1>1. /\ req[r].pc = "verify" /\ req[r].share = x /\ share[x].state # "none"
      /\ req'[r].pc \in {"right", "wrong"} /\ req'[r].share = x
      /\ \A q \in Requests : q # r => req'[q] = req[q]
      /\ UNCHANGED <<key, share, grant>>
  <2>1. req \in [Requests -> Request] /\ req[r] \in Request
    BY DEF TypeOK
  <2>2. QED
    BY <1>0, <1>x, <2>1 DEF Verify, Becomes, Request
<1>2. CASE req'[r].pc = "right"
  <2>1. UNCHANGED history
    <3>1. ~Becomes(r, "wrong")
      BY <1>2 DEF Becomes, TypeOK, Request
    <3>2. QED
      BY <1>x, <3>1 DEF Verify
  <2>2. RequestInv(r)'
    BY <1>1, <1>2 DEF RequestInv
  <2>3. QED
    BY <1>1, <1>2, <2>1, <2>2, QuietMove
<1>3. CASE req'[r].pc = "wrong"
  <2>1. history' = [history EXCEPT ![x].guesses = @ + 1]
    <3>1. ~Becomes(r, "right")
      BY <1>3 DEF Becomes, TypeOK, Request
    <3>2. QED
      BY <1>x, <3>1 DEF Verify
  <2>2. /\ history'[x].guesses = history[x].guesses + 1
        /\ history'[x].downloads = history[x].downloads
        /\ \A s \in Shares : s # x => history'[s] = history[s]
    BY <1>1, <2>1 DEF TypeOK
  <2>3. /\ Num("verify", x)' + 1 = Num("verify", x)
        /\ Num("wrong", x)' = Num("wrong", x) + 1
        /\ Num("send", x)' = Num("send", x)
    <3>1. /\ r \in At("verify", x) /\ r \notin At("verify", x)'
          /\ r \notin At("wrong", x) /\ r \in At("wrong", x)'
          /\ r \notin At("send", x) /\ r \notin At("send", x)'
      BY <1>1, <1>3 DEF At
    <3>2. QED
      BY <1>1, <3>1, CountMove
  <2>4. DownloadInv(x)'
    BY <1>1, <2>2, <2>3 DEF DownloadInv
  <2>5. GuessInv(x)'
    <3>1. GuessInv(x)
      OBVIOUS
    <3>2. Cardinality(Requests) \in Nat
      BY CountBound
    <3>3. QED
      BY <1>1, <2>2, <2>3, <3>1, <3>2, Numbers, NumType DEF GuessInv
  <2>6. \A g \in Grants : GrantInv(g)'
    BY <1>1 DEF GrantInv
  <2>7. QED
    BY <1>1, <2>2, <2>4, <2>5, <2>6, VisitorMove
<1>4. QED
  BY <1>1, <1>2, <1>3

\* record_password_failure: the guess it counts was wrong before; the one that
\* locks the share leaves behind fewer handlers than there are.
LEMMA RecordPasswordFailureInv ==
    ASSUME ShareInv, TypeOK', NEW r \in Requests, RecordPasswordFailure(r)
    PROVE  ShareInv'
<1> USE DEF ShareInv
<1>0. req[r].share \in Shares /\ share[req[r].share].state # "none"
  BY DEF RecordPasswordFailure, RequestInv
<1>x. PICK x \in Shares : x = req[r].share
  BY <1>0
<1>1. /\ req[r].pc = "wrong" /\ req[r].share = x /\ share[x].state # "none"
      /\ req'[r].pc = "idle"
      /\ \A q \in Requests : q # r => req'[q] = req[q]
      /\ UNCHANGED <<key, grant, history>>
  BY <1>0, <1>x DEF RecordPasswordFailure, Ends, Idle, TypeOK
<1>2. /\ Num("wrong", x)' + 1 = Num("wrong", x)
      /\ Num("verify", x)' = Num("verify", x)
      /\ Num("send", x)' = Num("send", x)
  <2>1. /\ r \in At("wrong", x) /\ r \notin At("wrong", x)'
        /\ r \notin At("verify", x) /\ r \notin At("verify", x)'
        /\ r \notin At("send", x) /\ r \notin At("send", x)'
    BY <1>1 DEF At
  <2>2. QED
    BY <1>1, <2>1, CountMove
<1>3. GuessInv(x) /\ DownloadInv(x)
  OBVIOUS
<1>4. Cardinality(Requests) \in Nat
      /\ Num("verify", x)' + Num("wrong", x)' <= Cardinality(Requests) - 1
  <2>1. Cardinality(Requests) \in Nat
    BY CountBound
  <2>2. Num("verify", x) + Num("wrong", x) <= Cardinality(Requests)
    BY CountBound
  <2>3. QED
    BY <1>2, <2>1, <2>2, NumType
<1>5. CASE share[x].state = "live" /\ share[x].lock # "locked"
  <2>1. share[x] \in Share /\ (share[x].lock = "none" <=> share[x].failures < PasswordFailureLimit)
    BY <1>1 DEF TypeOK
  <2>2. /\ share'[x] = Counted(share[x])
        /\ \A s \in Shares : s # x => share'[s] = share[s]
    BY <1>1, <1>5 DEF RecordPasswordFailure, TypeOK
  <2>3. /\ share'[x].lock # "lapsed"
        /\ share'[x].failures = IF share[x].lock = "none" THEN share[x].failures + 1 ELSE 1
        /\ share'[x].lock = "locked" => share'[x].failures = PasswordFailureLimit
        /\ share'[x].state = share[x].state /\ share'[x].key = share[x].key
        /\ share'[x].max = share[x].max /\ share'[x].count = share[x].count
    BY <1>5, <2>1, <2>2, CountedType
  <2>4. DownloadInv(x)'
    BY <1>1, <1>2, <1>3, <2>3 DEF DownloadInv
  <2>5. history'[x].guesses <= share'[x].failures + Num("wrong", x)'
    <3>1. QED
      BY <1>1, <1>2, <1>3, <1>5, <2>3, Numbers, NumType DEF GuessInv
  <2>6. GuessInv(x)'
    <3>1. CASE share'[x].lock = "locked"
      <4>1. share'[x].failures = PasswordFailureLimit /\ history'[x].guesses \in Nat
        BY <1>1, <2>3, <3>1, Numbers
      <4>2. QED
        BY <1>4, <2>5, <3>1, <4>1, NumType, ShareAssumption DEF GuessInv
    <3>2. CASE share'[x].lock # "locked"
      <4>1. share'[x].lock = "none"
        BY <1>1, <2>3, <3>2 DEF TypeOK, Share
      <4>2. QED
        BY <1>5, <2>3, <2>5, <4>1 DEF GuessInv
    <3>3. QED
      BY <3>1, <3>2
  <2>7. \A g \in Grants : GrantInv(g)'
    <3>1. \A s \in Shares : share'[s].state = share[s].state
      BY <2>2, <2>3
    <3>2. QED
      BY <1>1, <3>1 DEF GrantInv
  <2>8. QED
    BY <1>1, <2>2, <2>3, <2>4, <2>6, <2>7, VisitorMove
<1>6. CASE ~(share[x].state = "live" /\ share[x].lock # "locked")
  <2>1. UNCHANGED share
    BY <1>6, <1>x DEF RecordPasswordFailure
  <2>2. GuessInv(x)' /\ DownloadInv(x)'
    <3>1. share'[x] = share[x] /\ history'[x] = history[x]
      BY <1>1, <2>1
    <3>2. GuessInv(x)'
      BY <1>2, <1>3, <1>6, <3>1 DEF GuessInv
    <3>3. DownloadInv(x)'
      BY <1>2, <1>3, <3>1 DEF DownloadInv
    <3>4. QED
      BY <3>2, <3>3
  <2>3. \A g \in Grants : GrantInv(g)'
    BY <1>1, <2>1 DEF GrantInv
  <2>4. QED
    BY <1>1, <2>1, <2>2, <2>3, VisitorMove
<1>7. QED
  BY <1>5, <1>6

\* unlock_share: the grant it inserts is for a share that still is not revoked.
LEMMA UnlockCommitInv ==
    ASSUME ShareInv, TypeOK', NEW r \in Requests, UnlockCommit(r)
    PROVE  ShareInv'
<1> USE DEF ShareInv
<1>0. req[r].share \in Shares /\ share[req[r].share].state # "none"
  BY DEF UnlockCommit, RequestInv
<1>x. PICK x \in Shares : x = req[r].share
  BY <1>0
<1>1. /\ req[r].pc = "right" /\ req[r].share = x /\ share[x].state # "none"
      /\ req'[r].pc = "idle"
      /\ \A q \in Requests : q # r => req'[q] = req[q]
      /\ UNCHANGED key
  BY <1>0, <1>x DEF UnlockCommit, Ends, Idle, TypeOK
<1>2. CASE share[x].state = "live"
  <2>1. /\ NewGrants # {}
        /\ share' = [share EXCEPT ![x].failures = 0, ![x].lock = "none"]
        /\ grant' = [grant EXCEPT ![NewGrant] = [state |-> "live", share |-> x]]
        /\ history' = [history EXCEPT ![x].guesses = 0]
    BY <1>2, <1>x DEF UnlockCommit
  <2>2. share[x] \in Share
    BY DEF TypeOK
  <2>3. /\ share'[x].failures = 0 /\ share'[x].lock = "none"
        /\ share'[x].state = share[x].state /\ share'[x].key = share[x].key
        /\ share'[x].max = share[x].max /\ share'[x].count = share[x].count
        /\ \A s \in Shares : s # x => share'[s] = share[s]
    BY <2>1, <2>2 DEF TypeOK, Share
  <2>4. /\ history'[x].guesses = 0 /\ history'[x].downloads = history[x].downloads
        /\ \A s \in Shares : s # x => history'[s] = history[s]
    BY <2>1 DEF TypeOK
  <2>5. \A g \in Grants : GrantInv(g)'
    <3>1. \A s \in Shares : share'[s].state = share[s].state
      BY <2>3
    <3>2. \A g \in Grants : \/ grant'[g] = grant[g]
                            \/ grant'[g] = [state |-> "live", share |-> x]
      BY <2>1 DEF TypeOK
    <3>3. QED
      BY <1>2, <3>1, <3>2 DEF GrantInv
  <2>6. Num("send", x)' = Num("send", x)
    <3>1. r \notin At("send", x) /\ r \notin At("send", x)'
      BY <1>1 DEF At
    <3>2. QED
      BY <1>1, <3>1, CountMove
  <2>7. DownloadInv(x)'
    BY <2>3, <2>4, <2>6 DEF DownloadInv
  <2>8. GuessInv(x)'
    BY <1>2, <2>3, <2>4, NumType DEF GuessInv
  <2>9. QED
    BY <1>1, <2>3, <2>4, <2>5, <2>7, <2>8, VisitorMove
<1>3. CASE share[x].state # "live"
  <2>1. UNCHANGED <<share, grant, history>>
    BY <1>3, <1>x DEF UnlockCommit
  <2>2. RequestInv(r)'
    BY <1>1 DEF RequestInv
  <2>3. QED
    BY <1>1, <2>1, <2>2, QuietMove
<1>4. QED
  BY <1>2, <1>3

\* reserve_download: what is to be sent is counted first.
LEMMA ReserveDownloadInv ==
    ASSUME ShareInv, TypeOK', NEW r \in Requests, ReserveDownload(r)
    PROVE  ShareInv'
<1> USE DEF ShareInv
<1>0. req[r].share \in Shares /\ share[req[r].share].state # "none"
  BY DEF ReserveDownload, RequestInv
<1>x. PICK x \in Shares : x = req[r].share
  BY <1>0
<1>1. /\ req[r].pc = "reserve" /\ req[r].share = x /\ share[x].state # "none"
      /\ \A q \in Requests : q # r => req'[q] = req[q]
      /\ UNCHANGED <<key, grant, history>>
  BY <1>0, <1>x DEF ReserveDownload, Ends, Becomes, TypeOK
<1>2. CASE ~MayReserve(share[x])
  <2>1. UNCHANGED share /\ req'[r].pc = "idle"
    BY <1>2, <1>x DEF ReserveDownload, Ends, Idle, TypeOK
  <2>2. RequestInv(r)'
    BY <2>1 DEF RequestInv
  <2>3. QED
    BY <1>1, <2>1, <2>2, QuietMove
<1>3. CASE MayReserve(share[x])
  <2>1. /\ share' = [share EXCEPT ![x].count =
                       IF share[x].max = NULL /\ @ = MaxDownloads THEN @ ELSE @ + 1]
        /\ req' = [req EXCEPT ![r].pc = "send"]
    BY <1>3, <1>x DEF ReserveDownload, Becomes
  <2>2. req'[r].pc = "send" /\ req'[r].share = x
    <3>1. req \in [Requests -> Request] /\ req[r] \in Request
      BY DEF TypeOK
    <3>2. QED
      BY <1>1, <2>1, <3>1 DEF Request
  <2>3. share[x] \in Share
    BY DEF TypeOK
  <2>4. /\ share[x].max # NULL => share'[x].count = share[x].count + 1
        /\ share'[x].failures = share[x].failures /\ share'[x].lock = share[x].lock
        /\ share'[x].state = share[x].state /\ share'[x].key = share[x].key
        /\ share'[x].max = share[x].max
        /\ \A s \in Shares : s # x => share'[s] = share[s]
    BY <2>1, <2>3 DEF TypeOK, Share
  <2>5. /\ Num("send", x)' = Num("send", x) + 1
        /\ Num("verify", x)' = Num("verify", x)
        /\ Num("wrong", x)' = Num("wrong", x)
    <3>1. /\ r \notin At("send", x) /\ r \in At("send", x)'
          /\ r \notin At("verify", x) /\ r \notin At("verify", x)'
          /\ r \notin At("wrong", x) /\ r \notin At("wrong", x)'
      BY <1>1, <2>2 DEF At
    <3>2. QED
      BY <1>1, <3>1, CountMove
  <2>6. DownloadInv(x)'
    <3>1. ASSUME share[x].max # NULL
          PROVE  /\ history[x].downloads + (Num("send", x) + 1) <= share[x].count + 1
                 /\ share[x].count + 1 <= share[x].max
      <4>1. DownloadInv(x) /\ share[x].max \in Nat /\ share[x].count < share[x].max
        BY <1>3, <2>3, <3>1, ShareAssumption DEF MayReserve, Share
      <4>2. QED
        BY <3>1, <4>1, Numbers DEF DownloadInv
    <3>2. history'[x] = history[x]
      BY <1>1
    <3>3. QED
      BY <2>4, <2>5, <3>1, <3>2 DEF DownloadInv
  <2>7. GuessInv(x)'
    <3>1. GuessInv(x) /\ history'[x] = history[x]
      BY <1>1
    <3>2. QED
      BY <2>4, <2>5, <3>1 DEF GuessInv
  <2>8. \A g \in Grants : GrantInv(g)'
    <3>1. \A s \in Shares : share'[s].state = share[s].state
      BY <2>4
    <3>2. QED
      BY <1>1, <3>1 DEF GrantInv
  <2>9. QED
    BY <1>1, <2>2, <2>4, <2>6, <2>7, <2>8, VisitorMove
<1>4. QED
  BY <1>2, <1>3

\* download_response: the handler that sends was counted.
LEMMA SendInv ==
    ASSUME ShareInv, TypeOK', NEW r \in Requests, Send(r)
    PROVE  ShareInv'
<1> USE DEF ShareInv
<1>0. req[r].share \in Shares /\ share[req[r].share].state # "none"
  BY DEF Send, RequestInv
<1>x. PICK x \in Shares : x = req[r].share
  BY <1>0
<1>1. /\ req[r].pc = "send" /\ req[r].share = x /\ share[x].state # "none"
      /\ req'[r].pc = "idle"
      /\ \A q \in Requests : q # r => req'[q] = req[q]
      /\ UNCHANGED <<key, grant, share>>
  BY <1>0, <1>x DEF Send, Ends, Idle, TypeOK
<1>2. /\ history'[x].guesses = history[x].guesses
      /\ history'[x].downloads \in {history[x].downloads, history[x].downloads + 1}
      /\ \A s \in Shares : s # x => history'[s] = history[s]
  BY <1>x DEF Send, TypeOK
<1>3. /\ Num("send", x)' + 1 = Num("send", x)
      /\ Num("verify", x)' = Num("verify", x)
      /\ Num("wrong", x)' = Num("wrong", x)
  <2>1. /\ r \in At("send", x) /\ r \notin At("send", x)'
        /\ r \notin At("verify", x) /\ r \notin At("verify", x)'
        /\ r \notin At("wrong", x) /\ r \notin At("wrong", x)'
    BY <1>1 DEF At
  <2>2. QED
    BY <1>1, <2>1, CountMove
<1>4. DownloadInv(x)'
  <2>1. DownloadInv(x) /\ share'[x] = share[x]
    BY <1>1
  <2>2. QED
    BY <1>2, <1>3, <2>1, Numbers, NumType DEF DownloadInv
<1>5. GuessInv(x)'
  <2>1. GuessInv(x) /\ share'[x] = share[x]
    BY <1>1
  <2>2. QED
    BY <1>2, <1>3, <2>1 DEF GuessInv
<1>6. \A g \in Grants : GrantInv(g)'
  BY <1>1 DEF GrantInv
<1>7. QED
  BY <1>1, <1>2, <1>4, <1>5, <1>6, VisitorMove

\* Steps of a visitor.
LEMMA VisitorInv ==
    ASSUME ShareInv, TypeOK', NEW r \in Requests, VisitorStep(r)
    PROVE  ShareInv'
<1> USE DEF ShareInv
<1>t. req \in [Requests -> Request] /\ req[r] \in Request
  BY DEF TypeOK
<1>1. ASSUME NEW s \in Shares, Fetch(r, s) \/ Unlock(r, s)
      PROVE  ShareInv'
  <2>1. /\ req[r].pc = "idle" /\ req'[r].share = s
        /\ req'[r].pc \in {"fetched", "verify"}
        /\ req'[r].pc = "verify" => share[s].lock # "locked"
        /\ share[s].state = "live"
        /\ \A q \in Requests : q # r => req'[q] = req[q]
        /\ UNCHANGED <<key, share, grant, history>>
    <3>1. CASE Fetch(r, s)
      BY <3>1, <1>t DEF Fetch, Idle
    <3>2. CASE Unlock(r, s)
      BY <3>2, <1>t DEF Unlock, Idle
    <3>3. QED
      BY <1>1, <3>1, <3>2
  <2>2. RequestInv(r)'
    BY <2>1 DEF RequestInv
  <2>3. QED
    BY <2>1, <2>2, QuietMove
<1>2. ASSUME RequireGrant(r) \/ View(r) \/ Download(r)
      PROVE  ShareInv'
  <2>1. /\ req[r].pc \in {"fetched", "granted"}
        /\ req'[r].pc \in {"idle", "granted", "reserve"}
        /\ req'[r].pc # "idle" => req'[r].share = req[r].share
        /\ \A q \in Requests : q # r => req'[q] = req[q]
        /\ UNCHANGED <<key, share, grant, history>>
    BY <1>2, <1>t DEF RequireGrant, View, Download, Ends, Becomes, Idle, Request
  <2>2. RequestInv(r)'
    BY <2>1 DEF RequestInv
  <2>3. QED
    BY <2>1, <2>2, QuietMove
<1>3. QED
  BY <1>1, <1>2, VerifyInv, RecordPasswordFailureInv, UnlockCommitInv,
     ReserveDownloadInv, SendInv DEF VisitorStep

\* Steps of the owner, the keys, the trash and the clock.
LEMMA OtherInv ==
    ASSUME ShareInv, TypeOK', OtherStep
    PROVE  ShareInv'
<1> USE DEF ShareInv
<1>1. ASSUME NEW k \in Keys, CreateKey(k) \/ KeyExpires(k)
      PROVE  ShareInv'
  <2>1. /\ \A x \in Keys : key'[x].bulk = key[x].bulk /\ KeyInv(x)'
        /\ UNCHANGED <<share, grant, req, history>>
    BY <1>1 DEF CreateKey, KeyExpires, KeyInv, TypeOK, Key
  <2>2. (\A r \in Requests : RequestInv(r)') /\ (\A g \in Grants : GrantInv(g)')
    BY <2>1 DEF RequestInv, GrantInv
  <2>3. \A s \in Shares : FreshInv(s)' /\ DownloadInv(s)' /\ GuessInv(s)'
    BY <2>1 DEF FreshInv, DownloadInv, GuessInv, Num, At
  <2>4. QED
    BY <2>1, <2>2, <2>3 DEF BulkRevocationComplete
<1>2. ASSUME NEW k \in Keys, NEW alsoKey \in BOOLEAN, NEW alsoShares \in BOOLEAN,
             RevokeKey(k, alsoKey, alsoShares)
      PROVE  ShareInv'
  <2>1. /\ \A x \in Keys : KeyInv(x)'
        /\ \A x \in Keys : key'[x].bulk => key[x].bulk \/ (x = k /\ alsoShares)
    BY <1>2 DEF RevokeKey, KeyInv, TypeOK, Key
  <2>2. CASE alsoShares
    <3>1. CreatedBy(k) \subseteq Shares
      BY DEF CreatedBy
    <3>2. QED
      BY <1>2, <2>1, <2>2, <3>1, RevokeShares DEF RevokeKey
  <2>3. CASE ~alsoShares
    <3>1. UNCHANGED <<share, grant, req, history>>
      BY <1>2, <2>3 DEF RevokeKey
    <3>2. (\A r \in Requests : RequestInv(r)') /\ (\A g \in Grants : GrantInv(g)')
      BY <3>1 DEF RequestInv, GrantInv
    <3>3. \A s \in Shares : FreshInv(s)' /\ DownloadInv(s)' /\ GuessInv(s)'
      BY <3>1 DEF FreshInv, DownloadInv, GuessInv, Num, At
    <3>4. QED
      BY <2>1, <2>3, <3>1, <3>2, <3>3 DEF BulkRevocationComplete
  <2>4. QED
    BY <2>2, <2>3
<1>3. ASSUME \/ \E s \in Shares : RevokeShare(s)
             \/ Trash
      PROVE  ShareInv'
  <2>1. \E S \in SUBSET Shares : share' = Revoked(S) /\ grant' = GrantsGone(S)
    BY <1>3 DEF RevokeShare, Trash
  <2>2. key' = key /\ UNCHANGED <<req, history>>
    BY <1>3 DEF RevokeShare, Trash
  <2>3. \A k \in Keys : KeyInv(k)'
    BY <2>2 DEF KeyInv
  <2>4. QED
    BY <2>1, <2>2, <2>3, RevokeShares
<1>4. ASSUME NEW x \in Shares, ShareExpires(x) \/ LockLapses(x)
      PROVE  ShareInv'
  <2>1. share[x] \in Share
    BY DEF TypeOK
  <2>2. /\ UNCHANGED <<key, grant, req>>
        /\ \A s \in Shares : s # x => share'[s] = share[s] /\ history'[s] = history[s]
        /\ share[x].state # "none"
        /\ share'[x].key = share[x].key /\ share'[x].max = share[x].max
        /\ share'[x].count = share[x].count
        /\ \/ share'[x].state = "expired" /\ share[x].state = "live"
              /\ history'[x] = history[x]
           \/ /\ share'[x].state = share[x].state
              /\ share'[x].lock = "lapsed" /\ history'[x].guesses = 0
              /\ history'[x].downloads = history[x].downloads
    <3>1. CASE ShareExpires(x)
      BY <2>1, <3>1 DEF ShareExpires, TypeOK, Share
    <3>2. CASE LockLapses(x)
      <4>1. share[x].state # "none"
        BY <3>2 DEF LockLapses, FreshInv, NoShare
      <4>2. QED
        BY <2>1, <3>2, <4>1 DEF LockLapses, TypeOK, Share
    <3>3. QED
      BY <1>4, <3>1, <3>2
  <2>3. \A s \in Shares, pc \in {"send", "wrong", "verify"} : Num(pc, s)' = Num(pc, s)
    BY <2>2 DEF Num, At
  <2>4. FreshInv(x)' /\ DownloadInv(x)' /\ GuessInv(x)'
    <3>1. CASE share'[x].state = "expired" /\ history'[x] = history[x]
      BY <2>2, <3>1, RetireShare
    <3>2. CASE /\ share'[x].state = share[x].state
               /\ share'[x].lock = "lapsed" /\ history'[x].guesses = 0
               /\ history'[x].downloads = history[x].downloads
      <4>1. FreshInv(x)'
        BY <2>2, <3>2 DEF FreshInv
      <4>2. DownloadInv(x)'
        <5>1. DownloadInv(x)
          OBVIOUS
        <5>2. QED
          BY <2>2, <2>3, <3>2, <5>1 DEF DownloadInv
      <4>3. GuessInv(x)'
        <5>1. Num("verify", x)' <= Cardinality(Requests)
          BY <2>3, CountBound, NumType
        <5>2. Cardinality(Requests) \in Nat
          BY CountBound
        <5>3. QED
          BY <3>2, <5>1, <5>2, NumType, ShareAssumption DEF GuessInv
      <4>4. QED
        BY <4>1, <4>2, <4>3
    <3>3. QED
      BY <2>2, <3>1, <3>2
  <2>5. ASSUME NEW s \in Shares, s # x
        PROVE  FreshInv(s)' /\ DownloadInv(s)' /\ GuessInv(s)'
    BY <2>2, <2>3, <2>5, ShareFrame
  <2>6. \A s \in Shares : /\ share'[s].key = share[s].key
                          /\ \/ share'[s].state = share[s].state
                             \/ share[s].state = "live" /\ share'[s].state = "expired"
    BY <2>2
  <2>7. (\A r \in Requests : RequestInv(r)') /\ (\A g \in Grants : GrantInv(g)')
    BY <2>2, <2>6 DEF RequestInv, GrantInv
  <2>8. (\A k \in Keys : KeyInv(k)') /\ BulkRevocationComplete'
    BY <2>2, <2>6 DEF KeyInv, BulkRevocationComplete
  <2>9. QED
    BY <2>4, <2>5, <2>7, <2>8
<1>5. ASSUME Restore \/ \E g \in Grants : GrantExpires(g)
      PROVE  ShareInv'
  <2>1. /\ UNCHANGED <<key, share, req, history>>
        /\ \A g \in Grants : GrantInv(g)'
    BY <1>5 DEF Restore, GrantExpires, GrantInv, TypeOK, Grant
  <2>2. (\A r \in Requests : RequestInv(r)') /\ (\A k \in Keys : KeyInv(k)')
    BY <2>1 DEF RequestInv, KeyInv
  <2>3. \A s \in Shares : FreshInv(s)' /\ DownloadInv(s)' /\ GuessInv(s)'
    BY <2>1 DEF FreshInv, DownloadInv, GuessInv, Num, At
  <2>4. QED
    BY <2>1, <2>2, <2>3 DEF BulkRevocationComplete
<1>6. QED
  BY <1>1, <1>2, <1>3, <1>4, <1>5 DEF OtherStep

-----------------------------------------------------------------------------
(* Theorems *)

\* Every initial state has the invariant: no share, no handler, no history.
LEMMA InitInv == Init => ShareInv
<1> SUFFICES ASSUME Init PROVE ShareInv
  OBVIOUS
<1>1. TypeOK
  BY InitType
<1>2. \A r \in Requests : RequestInv(r)
  BY DEF Init, RequestInv, Idle
<1>3. ASSUME NEW s \in Shares
      PROVE  FreshInv(s) /\ DownloadInv(s) /\ GuessInv(s)
  <2>1. /\ share[s] = NoShare /\ history[s] = [guesses |-> 0, downloads |-> 0]
        /\ At("verify", s) = {}
    BY DEF Init, At, Idle
  <2>2. Num("verify", s) = 0
    BY <2>1, FS_EmptySet DEF Num
  <2>3. Cardinality(Requests) \in Nat
    BY CountBound
  <2>4. GuessInv(s)
    BY <2>1, <2>2, <2>3, ShareAssumption DEF GuessInv, NoShare
  <2>5. QED
    BY <2>1, <2>4 DEF FreshInv, DownloadInv, NoShare
<1>4. \A g \in Grants : GrantInv(g)
  BY DEF Init, GrantInv
<1>5. (\A k \in Keys : KeyInv(k)) /\ BulkRevocationComplete
  BY DEF Init, KeyInv, BulkRevocationComplete
<1>6. QED
  BY <1>1, <1>2, <1>3, <1>4, <1>5 DEF ShareInv

\* Every step of a handler, of the owner or of the clock keeps the invariant.
LEMMA StepInv == ShareInv /\ [Next]_vars => ShareInv'
<1>1. ASSUME ShareInv, Next
      PROVE  ShareInv'
  <2>1. TypeOK'
    BY <1>1, NextType
  <2>2. QED
    BY <1>1, <2>1, OwnerInv, VisitorInv, OtherInv DEF Next
<1>2. ASSUME ShareInv, UNCHANGED vars
      PROVE  ShareInv'
  <2>1. UNCHANGED <<active, key, share, grant, req, history>>
    BY <1>2 DEF vars
  <2>2. TypeOK'
    BY <1>2, <2>1 DEF ShareInv, TypeOK
  <2>3. (\A r \in Requests : RequestInv(r)') /\ (\A g \in Grants : GrantInv(g)')
    BY <1>2, <2>1 DEF ShareInv, RequestInv, GrantInv
  <2>4. \A s \in Shares : FreshInv(s)' /\ DownloadInv(s)' /\ GuessInv(s)'
    BY <1>2, <2>1 DEF ShareInv, FreshInv, DownloadInv, GuessInv, Num, At
  <2>5. QED
    BY <1>2, <2>1, <2>2, <2>3, <2>4 DEF ShareInv, KeyInv, BulkRevocationComplete
<1>3. QED
  BY <1>1, <1>2

\* The handlers that were let through before a lock are fewer than all.
LEMMA InvGuesses == ShareInv => GuessesBounded
<1> SUFFICES ASSUME ShareInv, NEW s \in Shares
             PROVE  history[s].guesses < PasswordFailureLimit + Cardinality(Requests)
  BY DEF GuessesBounded
<1>1. Cardinality(Requests) \in Nat /\ Num("wrong", s) <= Cardinality(Requests)
  BY CountBound, NumType
<1>2. GuessInv(s)
  BY DEF ShareInv
<1>3. QED
  BY <1>1, <1>2, Numbers DEF ShareInv, GuessInv

\* ShareInv holds of every share system, whatever its shares, keys and visitors.
THEOREM ShareInvariant == Spec => []ShareInv
BY InitInv, StepInv, PTL DEF Spec

\* The rows and handlers of shares.rs and developer.rs keep their types; a
\* share is locked exactly when its failures reached the limit.
THEOREM ShareTypes == Spec => []TypeOK
<1>1. ShareInv => TypeOK
  BY DEF ShareInv
<1>2. QED
  BY <1>1, ShareInvariant, PTL

\* Revoking a share leaves no grant, however an unlock interleaves with it.
THEOREM RevokedSharesAreClosed == Spec => []RevocationRemovesGrants
<1>1. ShareInv => RevocationRemovesGrants
  BY DEF ShareInv, GrantInv, RevocationRemovesGrants
<1>2. QED
  BY <1>1, ShareInvariant, PTL

\* The bulk revocation of a revoked key's links misses none.
THEOREM BulkRevocationHolds == Spec => []BulkRevocationComplete
<1>1. ShareInv => BulkRevocationComplete
  BY DEF ShareInv
<1>2. QED
  BY <1>1, ShareInvariant, PTL

\* A limited share is never downloaded more often than it allows, however many
\* downloads run at once.
THEOREM DownloadLimitHolds == Spec => []DownloadsBounded
<1>1. ShareInv => DownloadsBounded
  <2> SUFFICES ASSUME ShareInv, NEW s \in Shares, share[s].max # NULL
               PROVE  history[s].downloads <= share[s].count /\ share[s].count <= share[s].max
    BY DEF DownloadsBounded
  <2>1. DownloadInv(s)
    BY DEF ShareInv
  <2>2. QED
    BY <2>1, Numbers DEF ShareInv, DownloadInv
<1>2. QED
  BY <1>1, ShareInvariant, PTL

\* However many handlers guess at once, fewer wrong guesses than the limit and
\* the handlers together are answered before a right one or a lockout's end.
THEOREM GuessLimitHolds == Spec => []GuessesBounded
BY InvGuesses, ShareInvariant, PTL
=============================================================================
