---------------------------- MODULE ShareAccess -----------------------------
(***************************************************************************)
(* Public shares (shares.rs) and the API keys that create them             *)
(* (developer.rs): creation, revocation, unlocking with a password and its *)
(* lockout, viewing and counted downloads.  The shared file and its        *)
(* folders are one resource that is trashed and restored (DriveTree has    *)
(* the tree).  A visitor's handler reads the share once and acts on it     *)
(* later; each of its UPDATEs looks at the row again.                      *)
(*                                                                         *)
(* The transactions of a revocation lock the key or the share before they  *)
(* look for what depends on it, and so does whoever creates it: each is    *)
(* one step.                                                               *)
(***************************************************************************)
EXTENDS Naturals, FiniteSets

CONSTANTS
    Shares,    \* ids of shares
    Keys,      \* ids of api_keys
    Grants,    \* ids of share_access_sessions
    Requests,  \* handlers that may run at once
    PasswordFailureLimit,
    MaxDownloads,  \* the limit a share is created with, if any
    NULL       \* SQL NULL

ASSUME ShareAssumption ==
    /\ NULL \notin Shares /\ NULL \notin Keys
    /\ IsFiniteSet(Requests)
    /\ PasswordFailureLimit \in Nat \ {0, 1}   \* PASSWORD_FAILURE_LIMIT is 5
    /\ MaxDownloads \in Nat \ {0}

VARIABLES
    active,   \* the resource and its folders are not in the trash
    key,      \* rows of api_keys
    share,    \* rows of shares
    grant,    \* rows of share_access_sessions
    req,      \* running handlers
    history   \* of each share: wrong guesses answered and limited downloads sent

vars == <<active, key, share, grant, req, history>>

-----------------------------------------------------------------------------
(* Types *)

\* bulk: the shares of the key were revoked with it or after it.
Key == [state : {"none", "active", "expired", "revoked"}, bulk : BOOLEAN]

\* lock: password_locked_until is NULL, in the future or past.
Share ==
    [state : {"none", "live", "expired", "revoked"},
     key : Keys \cup {NULL},
     password : BOOLEAN,
     download : BOOLEAN,
     max : {MaxDownloads, NULL},
     count : Nat,
     failures : 0 .. PasswordFailureLimit,
     lock : {"none", "locked", "lapsed"}]

Grant == [state : {"none", "live", "gone"}, share : Shares \cup {NULL}]

Request ==
    [pc : {"idle", "key", "create", "insert", "fetched", "verify", "wrong",
           "right", "granted", "reserve", "send"},
     share : Shares \cup {NULL},
     key : Keys \cup {NULL}]

\* A share's failures are below the limit unless it is or was locked, and are
\* what the lockout is decided from.
TypeOK ==
    /\ active \in BOOLEAN
    /\ key \in [Keys -> Key]
    /\ share \in [Shares -> Share]
    /\ grant \in [Grants -> Grant]
    /\ req \in [Requests -> Request]
    /\ history \in [Shares -> [guesses : Nat, downloads : Nat]]
    /\ \A s \in Shares :
          share[s].lock = "none" <=> share[s].failures < PasswordFailureLimit

Idle == [pc |-> "idle", share |-> NULL, key |-> NULL]

NoShare ==
    [state |-> "none", key |-> NULL, password |-> FALSE, download |-> FALSE,
     max |-> NULL, count |-> 0, failures |-> 0, lock |-> "none"]

Init ==
    /\ active = TRUE
    /\ key = [k \in Keys |-> [state |-> "none", bulk |-> FALSE]]
    /\ share = [s \in Shares |-> NoShare]
    /\ grant = [g \in Grants |-> [state |-> "none", share |-> NULL]]
    /\ req = [r \in Requests |-> Idle]
    /\ history = [s \in Shares |-> [guesses |-> 0, downloads |-> 0]]

-----------------------------------------------------------------------------
(* API keys: developer.rs *)

Becomes(r, pc) == req' = [req EXCEPT ![r].pc = pc]
Ends(r) == req' = [req EXCEPT ![r] = Idle]

CreateKey(k) ==
    /\ key[k].state = "none"
    /\ key' = [key EXCEPT ![k].state = "active"]
    /\ UNCHANGED <<active, share, grant, req, history>>

KeyExpires(k) ==
    /\ key[k].state = "active"
    /\ key' = [key EXCEPT ![k].state = "expired"]
    /\ UNCHANGED <<active, share, grant, req, history>>

\* authenticate looks the key up and then counts the request, ...
KeyLookup(r, k) ==
    /\ req[r].pc = "idle"
    /\ key[k].state = "active"
    /\ req' = [req EXCEPT ![r] = [Idle EXCEPT !.pc = "key", !.key = k]]
    /\ UNCHANGED <<active, key, share, grant, history>>

\* ... unless the key was revoked, is over its rate or lacks the scope.
KeyCounted(r) ==
    /\ req[r].pc = "key"
    /\ \/ /\ key[req[r].key].state # "revoked"
          /\ Becomes(r, "create")
       \/ Ends(r)
    /\ UNCHANGED <<active, key, share, grant, history>>

\* The grants of the shares in S, deleted.
GrantsGone(S) ==
    [g \in Grants |-> IF grant[g].share \in S
                      THEN [grant[g] EXCEPT !.state = "gone"] ELSE grant[g]]

\* revoked_at is set once, also on a share past its time.
Revoked(S) ==
    [s \in Shares |-> IF s \in S /\ share[s].state # "none"
                      THEN [share[s] EXCEPT !.state = "revoked"] ELSE share[s]]

CreatedBy(k) == {s \in Shares : share[s].key = k}

\* revoke_key and revoke_key_shares: the key, its shares, or both.
RevokeKey(k, alsoKey, alsoShares) ==
    /\ key[k].state # "none"
    /\ alsoKey \/ alsoShares
    /\ key' = [key EXCEPT ![k] =
                 [state |-> IF alsoKey THEN "revoked" ELSE @.state,
                  bulk |-> \/ @.bulk
                           \/ alsoShares /\ (alsoKey \/ @.state = "revoked")]]
    /\ share' = IF alsoShares THEN Revoked(CreatedBy(k)) ELSE share
    /\ grant' = IF alsoShares THEN GrantsGone(CreatedBy(k)) ELSE grant
    /\ UNCHANGED <<active, req, history>>

-----------------------------------------------------------------------------
(* The owner: shares.rs *)

\* A browser session asks for a share.
CreateBySession(r) ==
    /\ req[r].pc = "idle"
    /\ Becomes(r, "create")
    /\ UNCHANGED <<active, key, share, grant, history>>

\* ensure_active_entry, and then the password is hashed.
CreateCheck(r) ==
    /\ req[r].pc = "create"
    /\ IF active THEN Becomes(r, "insert") ELSE Ends(r)
    /\ UNCHANGED <<active, key, share, grant, history>>

\* Fault: the key was checked when the request came in.
KeyWasGood(r) == TRUE

\* SELECT id FROM api_keys ... FOR SHARE, in the transaction of the INSERT
KeyStillGood(r) == req[r].key # NULL => key[req[r].key].state = "active"

CreateInsert(r) ==
    /\ req[r].pc = "insert"
    /\ \/ /\ KeyStillGood(r)
          /\ \E s \in Shares, password, download \in BOOLEAN,
                max \in {MaxDownloads, NULL} :
                /\ share[s].state = "none"
                /\ share' = [share EXCEPT ![s] = [NoShare EXCEPT
                               !.state = "live", !.key = req[r].key,
                               !.password = password, !.download = download,
                               !.max = max]]
       \/ /\ ~KeyStillGood(r)
          /\ UNCHANGED share
    /\ Ends(r)
    /\ UNCHANGED <<active, key, grant, history>>

RevokeShare(s) ==
    /\ share[s].state # "none"
    /\ share' = Revoked({s})
    /\ grant' = GrantsGone({s})
    /\ UNCHANGED <<active, key, req, history>>

\* Trashing the resource or a folder above it (drive.rs).
Trash ==
    /\ active
    /\ active' = FALSE
    /\ share' = Revoked(Shares)
    /\ grant' = GrantsGone(Shares)
    /\ UNCHANGED <<key, req, history>>

Restore ==
    /\ ~active
    /\ active' = TRUE
    /\ UNCHANGED <<key, share, grant, req, history>>

-----------------------------------------------------------------------------
(* The clock *)

ShareExpires(s) ==
    /\ share[s].state = "live"
    /\ share' = [share EXCEPT ![s].state = "expired"]
    /\ UNCHANGED <<active, key, grant, req, history>>

LockLapses(s) ==
    /\ share[s].lock = "locked"
    /\ share' = [share EXCEPT ![s].lock = "lapsed"]
    /\ history' = [history EXCEPT ![s].guesses = 0]
    /\ UNCHANGED <<active, key, grant, req>>

GrantExpires(g) ==
    /\ grant[g].state = "live"
    /\ grant' = [grant EXCEPT ![g].state = "gone"]
    /\ UNCHANGED <<active, key, share, req, history>>

-----------------------------------------------------------------------------
(* Visitors: shares.rs *)

\* fetch_active_share
Fetch(r, s) ==
    /\ req[r].pc = "idle"
    /\ share[s].state = "live"
    /\ active
    /\ req' = [req EXCEPT ![r] = [Idle EXCEPT !.pc = "fetched", !.share = s]]
    /\ UNCHANGED <<active, key, share, grant, history>>

\* Fault: only record_password_failure looks at the lock.
UnlockAnyway(r, s) ==
    /\ req[r].pc = "idle"
    /\ share[s].state = "live"
    /\ active
    /\ share[s].password
    /\ req' = [req EXCEPT ![r] = [Idle EXCEPT !.pc = "verify", !.share = s]]
    /\ UNCHANGED <<active, key, share, grant, history>>

\* unlock_share: the lock was read with the share.
Unlock(r, s) ==
    /\ req[r].pc = "idle"
    /\ share[s].state = "live"
    /\ active
    /\ share[s].password
    /\ share[s].lock # "locked"
    /\ req' = [req EXCEPT ![r] = [Idle EXCEPT !.pc = "verify", !.share = s]]
    /\ UNCHANGED <<active, key, share, grant, history>>

\* verify_password; a wrong guess is counted by its answer.
Verify(r) ==
    /\ req[r].pc = "verify"
    /\ \/ /\ Becomes(r, "right")
          /\ UNCHANGED history
       \/ /\ Becomes(r, "wrong")
          /\ history' = [history EXCEPT ![req[r].share].guesses = @ + 1]
    /\ UNCHANGED <<active, key, share, grant>>

\* Fault: the lock is never set.
CountedOnly(row) == [row EXCEPT !.failures = @ + 1, !.lock = "none"]

\* The UPDATE of record_password_failure.
Counted(row) ==
    IF row.lock = "lapsed"
    THEN [row EXCEPT !.failures = 1, !.lock = "none"]
    ELSE [row EXCEPT !.failures = @ + 1,
            !.lock = IF row.failures + 1 >= PasswordFailureLimit
                     THEN "locked" ELSE "none"]

RecordPasswordFailure(r) ==
    LET s == req[r].share IN
    /\ req[r].pc = "wrong"
    /\ \/ /\ share[s].state = "live"
          /\ share[s].lock # "locked"
          /\ share' = [share EXCEPT ![s] = Counted(share[s])]
       \/ /\ ~(share[s].state = "live" /\ share[s].lock # "locked")
          /\ UNCHANGED share
    /\ Ends(r)
    /\ UNCHANGED <<active, key, grant, history>>

\* Which new id is drawn makes no difference.
NewGrants == {g \in Grants : grant[g].state = "none"}

NewGrant == CHOOSE g \in NewGrants : TRUE

\* Fault: the share is not looked at again.
UnlockStale(r) ==
    /\ req[r].pc = "right"
    /\ NewGrants # {}
    /\ share' = [share EXCEPT ![req[r].share].failures = 0,
                              ![req[r].share].lock = "none"]
    /\ grant' = [grant EXCEPT ![NewGrant] =
                   [state |-> "live", share |-> req[r].share]]
    /\ history' = [history EXCEPT ![req[r].share].guesses = 0]
    /\ Ends(r)
    /\ UNCHANGED <<active, key>>

\* The UPDATE clears a lock that was set since; the grant is inserted under it.
UnlockCommit(r) ==
    /\ req[r].pc = "right"
    /\ \/ /\ share[req[r].share].state = "live"
          /\ NewGrants # {}
          /\ share' = [share EXCEPT ![req[r].share].failures = 0,
                                    ![req[r].share].lock = "none"]
          /\ grant' = [grant EXCEPT ![NewGrant] =
                         [state |-> "live", share |-> req[r].share]]
          /\ history' = [history EXCEPT ![req[r].share].guesses = 0]
       \/ /\ share[req[r].share].state # "live"
          /\ UNCHANGED <<share, grant, history>>
    /\ Ends(r)
    /\ UNCHANGED <<active, key>>

\* require_password_grant
RequireGrant(r) ==
    /\ req[r].pc = "fetched"
    /\ IF \/ ~share[req[r].share].password
          \/ \E g \in Grants :
                grant[g].state = "live" /\ grant[g].share = req[r].share
       THEN Becomes(r, "granted")
       ELSE Ends(r)
    /\ UNCHANGED <<active, key, share, grant, history>>

\* public_share, public_album, preview_shared and thumbnail_shared: nothing
\* changes but last_accessed_at.
View(r) ==
    /\ req[r].pc = "granted"
    /\ Ends(r)
    /\ UNCHANGED <<active, key, share, grant, history>>

\* download_shared: allow_download as it was read, and file_in_share.
Download(r) ==
    /\ req[r].pc = "granted"
    /\ share[req[r].share].download
    /\ IF active THEN Becomes(r, "reserve") ELSE Ends(r)
    /\ UNCHANGED <<active, key, share, grant, history>>

\* Fault: the limit is compared before the row is updated.
MayReserveStale(row) ==
    row.state = "live" /\ (row.max # NULL => row.count <= row.max)

\* The WHERE of reserve_download.
MayReserve(row) ==
    row.state = "live" /\ (row.max # NULL => row.count < row.max)

\* Without a limit the count goes on: it stops at the bound here.
ReserveDownload(r) ==
    LET s == req[r].share IN
    /\ req[r].pc = "reserve"
    /\ \/ /\ MayReserve(share[s])
          /\ share' = [share EXCEPT ![s].count =
                         IF share[s].max = NULL /\ @ = MaxDownloads THEN @ ELSE @ + 1]
          /\ Becomes(r, "send")
       \/ /\ ~MayReserve(share[s])
          /\ UNCHANGED share
          /\ Ends(r)
    /\ UNCHANGED <<active, key, grant, history>>

\* download_response: the bytes, or a storage error.
Send(r) ==
    /\ req[r].pc = "send"
    /\ \/ /\ share[req[r].share].max # NULL
          /\ history' = [history EXCEPT ![req[r].share].downloads = @ + 1]
       \/ UNCHANGED history
    /\ Ends(r)
    /\ UNCHANGED <<active, key, share, grant>>

-----------------------------------------------------------------------------
(* Specification *)

OwnerStep(r) ==
    \/ \E k \in Keys : KeyLookup(r, k)
    \/ KeyCounted(r) \/ CreateBySession(r) \/ CreateCheck(r) \/ CreateInsert(r)

VisitorStep(r) ==
    \/ \E s \in Shares : Fetch(r, s) \/ Unlock(r, s)
    \/ Verify(r) \/ RecordPasswordFailure(r) \/ UnlockCommit(r)
    \/ RequireGrant(r) \/ View(r) \/ Download(r) \/ ReserveDownload(r) \/ Send(r)

OtherStep ==
    \/ \E k \in Keys :
          \/ CreateKey(k) \/ KeyExpires(k)
          \/ \E alsoKey, alsoShares \in BOOLEAN : RevokeKey(k, alsoKey, alsoShares)
    \/ \E s \in Shares : RevokeShare(s) \/ ShareExpires(s) \/ LockLapses(s)
    \/ \E g \in Grants : GrantExpires(g)
    \/ Trash \/ Restore

Next ==
    \/ \E r \in Requests : OwnerStep(r) \/ VisitorStep(r)
    \/ OtherStep

Spec == Init /\ [][Next]_vars

-----------------------------------------------------------------------------
(* Properties *)

\* A share that was revoked, by its owner, with its key or by the trash, has
\* no grant left, whatever an unlock that was verifying its password does next.
RevocationRemovesGrants ==
    \A g \in Grants :
        grant[g].state = "live" => share[grant[g].share].state # "revoked"

\* No link of a key survives the bulk revocation of its links once the key is
\* revoked: a create_share that was let in before cannot insert after it.
BulkRevocationComplete ==
    \A k \in Keys, s \in Shares :
        key[k].bulk /\ share[s].key = k => share[s].state = "revoked"

\* However many downloads of a limited share run at once, no more are sent
\* than it allows: each is counted before it is sent (reserve_download).
DownloadsBounded ==
    \A s \in Shares :
        share[s].max # NULL =>
            /\ history[s].downloads <= share[s].count
            /\ share[s].count <= share[s].max

\* The wrong guesses at a share's password, since the last right one or the
\* end of the last lockout, pass the limit by no more than the handlers that had read the
\* share before it was locked.
GuessesBounded ==
    \A s \in Shares :
        history[s].guesses < PasswordFailureLimit + Cardinality(Requests)
=============================================================================
