------------------------------ MODULE Accounts ------------------------------
(***************************************************************************)
(* Who may act for an account: the password and its browser sessions       *)
(* (auth/session.rs), the owner's hold on a managed account                *)
(* (admin_accounts.rs), and the backup devices with their authorization    *)
(* codes and rotating credentials (devices.rs).  One account: rows of      *)
(* different accounts never meet in these handlers.                        *)
(*                                                                         *)
(* A transaction that first locks the users row is one step: whoever else  *)
(* needs that row waits, and a later statement of the transaction sees     *)
(* what was committed before the lock was granted.  The device handlers    *)
(* lock rows in different orders and are split where they may wait.        *)
(* Tokens are random, so a request either presents a row's own token or    *)
(* finds no row.                                                           *)
(***************************************************************************)
EXTENDS Naturals, FiniteSets

CONSTANTS
    Sessions,      \* ids of sessions
    Codes,         \* device codes; an approved code's device has its name
    Credentials,   \* ids of device_credentials
    Requests,      \* handlers that may run at once
    LoginFailureLimit,
    MaxPasswords,  \* bound: passwords the account has had
    NULL           \* SQL NULL

ASSUME AccountsAssumption ==
    /\ NULL \notin Sessions /\ NULL \notin Credentials /\ NULL \notin Codes
    /\ IsFiniteSet(Requests)
    /\ LoginFailureLimit \in Nat \ {0}
    /\ MaxPasswords \in Nat \ {0}

VARIABLES
    account,     \* the users row; a hash is the number of the password
    failed,      \* recent failures the in-memory rate limiter holds
    session,     \* rows of sessions
    code,        \* rows of device_authorization_requests
    device,      \* rows of backup_devices
    credential,  \* rows of device_credentials
    req          \* running handlers

vars == <<account, failed, session, code, device, credential, req>>

-----------------------------------------------------------------------------
(* Types *)

Passwords == 1 .. MaxPasswords

Account == [password : Passwords, mustChange : BOOLEAN, disabled : BOOLEAN]

\* "ended": revoked or expired.  proof: the password the session stands on.
Session == [state : {"none", "live", "ended"}, proof : Passwords \cup {NULL}]

\* late: expires_at has passed.
Code ==
    [status : {"none", "pending", "approved", "denied", "expired", "consumed"},
     late : BOOLEAN]

Device == {"none", "active", "revoked"}

\* first: issued for the code, not for a refresh token.
Credential ==
    [device : Codes \cup {NULL}, first : BOOLEAN, revoked : BOOLEAN]

Request ==
    [pc : {"idle", "verify", "session", "authed", "change", "device",
           "refresh", "rotate", "revoke", "revoking", "sweep"},
     session : Sessions \cup {NULL},
     restricted : BOOLEAN,               \* must_change_password, as read
     hash : Passwords \cup {NULL},       \* password_hash, as read
     device : Codes \cup {NULL},
     token : Credentials \cup {NULL},    \* the presented refresh token's row
     valid : BOOLEAN,                    \* device and account, as read
     holds : BOOLEAN,                    \* FOR UPDATE lock on the token's row
     seen : SUBSET Credentials]          \* the rows the UPDATE's snapshot has

\* A row lock belongs to a handler that still has its transaction.
TypeOK ==
    /\ account \in Account
    /\ failed \in Nat
    /\ session \in [Sessions -> Session]
    /\ code \in [Codes -> Code]
    /\ device \in [Codes -> Device]
    /\ credential \in [Credentials -> Credential]
    /\ req \in [Requests -> Request]
    /\ \A r \in Requests :
          req[r].holds => req[r].pc \in {"rotate", "revoke", "revoking", "sweep"}

Idle ==
    [pc |-> "idle", session |-> NULL, restricted |-> FALSE, hash |-> NULL,
     device |-> NULL, token |-> NULL, valid |-> FALSE, holds |-> FALSE,
     seen |-> {}]

\* An owner's own account, or a new managed one with its temporary password.
Init ==
    /\ \E must \in BOOLEAN :
          account = [password |-> 1, mustChange |-> must, disabled |-> FALSE]
    /\ failed = 0
    /\ session = [s \in Sessions |-> [state |-> "none", proof |-> NULL]]
    /\ code = [c \in Codes |-> [status |-> "none", late |-> FALSE]]
    /\ device = [c \in Codes |-> "none"]
    /\ credential =
          [k \in Credentials |-> [device |-> NULL, first |-> FALSE, revoked |-> FALSE]]
    /\ req = [r \in Requests |-> Idle]

-----------------------------------------------------------------------------
(* Signing in: session.rs *)

accountRows == <<session, code, device, credential>>
deviceRows == <<code, device, credential>>

\* Fault: the transaction, and its locks, outlive the handler.
EndsInTransaction(r) == req' = [req EXCEPT ![r].pc = "idle"]

Ends(r) == req' = [req EXCEPT ![r] = Idle]

\* Fault: the limiter is not asked.
LoginUnlimited(r) ==
    /\ req[r].pc = "idle"
    /\ req' = [req EXCEPT ![r] = [Idle EXCEPT !.pc = "verify",
                 !.hash = IF account.disabled THEN NULL ELSE account.password]]
    /\ UNCHANGED <<account, failed, accountRows>>

\* login reads the limiter and then the row of an enabled account.
LoginLookup(r) ==
    /\ req[r].pc = "idle"
    /\ failed < LoginFailureLimit
    /\ req' = [req EXCEPT ![r] = [Idle EXCEPT !.pc = "verify",
                 !.hash = IF account.disabled THEN NULL ELSE account.password]]
    /\ UNCHANGED <<account, failed, accountRows>>

\* The password is wrong, or there is no such enabled account.
LoginRejected(r) ==
    /\ req[r].pc = "verify"
    /\ failed' = failed + 1
    /\ Ends(r)
    /\ UNCHANGED <<account, accountRows>>

LoginAccepted(r) ==
    /\ req[r].pc = "verify"
    /\ req[r].hash # NULL
    /\ failed' = 0
    /\ req' = [req EXCEPT ![r].pc = "session"]
    /\ UNCHANGED <<account, accountRows>>

\* Fault: only disabled_at is looked at again.
RevalidatesEnabled(r) == ~account.disabled

\* SELECT password_hash ... disabled_at IS NULL FOR SHARE
Revalidates(r) == ~account.disabled /\ account.password = req[r].hash

\* Which new id is drawn makes no difference.
Unused == {s \in Sessions : session[s].state = "none"}

LoginCommit(r) ==
    /\ req[r].pc = "session"
    /\ Ends(r)
    /\ \/ /\ Revalidates(r)
          /\ Unused # {}
          /\ session' = [session EXCEPT ![CHOOSE s \in Unused : TRUE] =
                            [state |-> "live", proof |-> req[r].hash]]
       \/ /\ ~Revalidates(r)
          /\ UNCHANGED session
    /\ UNCHANGED <<account, failed, deviceRows>>

\* prune_buckets: the oldest failure leaves the window.
FailureAgesOut ==
    /\ failed > 0
    /\ failed' = failed - 1
    /\ UNCHANGED <<account, accountRows, req>>

SessionExpires(s) ==
    /\ session[s].state = "live"
    /\ session' = [session EXCEPT ![s].state = "ended"]
    /\ UNCHANGED <<account, failed, deviceRows, req>>

-----------------------------------------------------------------------------
(* Requests of a browser session: session.rs *)

\* The extractor; what it read may be stale when the handler goes on.
Authenticate(r, s) ==
    /\ req[r].pc = "idle"
    /\ session[s].state = "live"
    /\ ~account.disabled
    /\ req' = [req EXCEPT ![r] = [Idle EXCEPT !.pc = "authed", !.session = s,
                                    !.restricted = account.mustChange]]
    /\ UNCHANGED <<account, failed, accountRows>>

\* Any other request, an early return, or password_change_required.
RequestEnds(r) ==
    /\ req[r].pc \in {"authed", "device", "change"}
    /\ Ends(r)
    /\ UNCHANGED <<account, failed, accountRows>>

\* The sessions in S that have not ended, ended.
EndedIn(S) ==
    [s \in Sessions |-> IF s \in S /\ session[s].state = "live"
                        THEN [session[s] EXCEPT !.state = "ended"]
                        ELSE session[s]]

\* The one request besides change_password that a temporary password allows.
Logout(r) ==
    /\ req[r].pc = "authed"
    /\ session' = EndedIn({req[r].session})
    /\ Ends(r)
    /\ UNCHANGED <<account, failed, deviceRows>>

\* revoke_session of another session, revoke_other_sessions
SignOut(r) ==
    /\ req[r].pc = "authed"
    /\ ~req[r].restricted
    /\ \/ \E s \in Sessions \ {req[r].session} : session' = EndedIn({s})
       \/ session' = EndedIn(Sessions \ {req[r].session})
    /\ Ends(r)
    /\ UNCHANGED <<account, failed, deviceRows>>

\* change_password reads the hash, and verifies and hashes without a lock.
ChangeLookup(r) ==
    /\ req[r].pc = "authed"
    /\ ~account.disabled
    /\ req' = [req EXCEPT ![r].pc = "change", ![r].hash = account.password]
    /\ UNCHANGED <<account, failed, accountRows>>

\* The UPDATE with its WHERE password_hash, and the other sessions: all the
\* current session had is replaced by the new password.
ChangeCommit(r) ==
    /\ req[r].pc = "change"
    /\ account.password < MaxPasswords
    /\ Revalidates(r)
    /\ account' = [account EXCEPT !.password = @ + 1, !.mustChange = FALSE]
    /\ session' = [EndedIn(Sessions \ {req[r].session}) EXCEPT
                     ![req[r].session].proof = account.password + 1]
    /\ Ends(r)
    /\ UNCHANGED <<failed, deviceRows>>

-----------------------------------------------------------------------------
(* The managing owner: admin_accounts.rs *)

\* update_account with disabled, or without it on a disabled account: the
\* sessions end unless the account is, or is being, enabled.
UpdateAccount(disabled) ==
    /\ account' = [account EXCEPT !.disabled = disabled]
    /\ session' = IF disabled THEN EndedIn(Sessions) ELSE session
    /\ UNCHANGED <<failed, deviceRows, req>>

ResetPassword ==
    /\ account.password < MaxPasswords
    /\ account' = [account EXCEPT !.password = @ + 1, !.mustChange = TRUE]
    /\ session' = EndedIn(Sessions)
    /\ UNCHANGED <<failed, deviceRows, req>>

-----------------------------------------------------------------------------
(* Authorization codes: devices.rs *)

\* create_code also marks the pending codes that are late.
CreateCode(c) ==
    /\ code[c].status = "none"
    /\ code' = [d \in Codes |->
                  IF d = c THEN [status |-> "pending", late |-> FALSE]
                  ELSE IF code[d].status = "pending" /\ code[d].late
                  THEN [code[d] EXCEPT !.status = "expired"]
                  ELSE code[d]]
    /\ UNCHANGED <<account, failed, session, device, credential, req>>

CodeTimesOut(c) ==
    /\ code[c].status \in {"pending", "approved"}
    /\ ~code[c].late
    /\ code' = [code EXCEPT ![c].late = TRUE]
    /\ UNCHANGED <<account, failed, session, device, credential, req>>

\* approve_request and exchange_token on a code past its time.
CodeExpires(c) ==
    /\ code[c].status = "pending"
    /\ code[c].late
    /\ code' = [code EXCEPT ![c].status = "expired"]
    /\ UNCHANGED <<account, failed, session, device, credential, req>>

ApproveRequest(r, c) ==
    /\ req[r].pc = "authed"
    /\ ~req[r].restricted
    /\ code[c].status = "pending"
    /\ ~code[c].late
    /\ code' = [code EXCEPT ![c].status = "approved"]
    /\ device' = [device EXCEPT ![c] = "active"]
    /\ Ends(r)
    /\ UNCHANGED <<account, failed, session, credential>>

\* UPDATE ... WHERE status = 'pending' AND expires_at > now()
DenyRequest(r, c) ==
    /\ req[r].pc = "authed"
    /\ ~req[r].restricted
    /\ code[c].status = "pending"
    /\ ~code[c].late
    /\ code' = [code EXCEPT ![c].status = "denied"]
    /\ Ends(r)
    /\ UNCHANGED <<account, failed, session, device, credential>>

Unissued == {k \in Credentials : credential[k].device = NULL}

\* issue_credentials: a new row for device d.
Issue(rows, d, first) ==
    [rows EXCEPT ![CHOOSE k \in Unissued : TRUE] =
        [device |-> d, first |-> first, revoked |-> FALSE]]

\* Fault: the code stays approved.
ExchangeAgain(c) ==
    /\ code[c].status = "approved"
    /\ ~code[c].late
    /\ Unissued # {}
    /\ credential' = Issue(credential, c, TRUE)
    /\ UNCHANGED <<account, failed, session, code, device, req>>

\* exchange_token with its row locked.  The device may be revoked by now.
ExchangeToken(c) ==
    /\ code[c].status = "approved"
    /\ ~code[c].late
    /\ Unissued # {}
    /\ credential' = Issue(credential, c, TRUE)
    /\ code' = [code EXCEPT ![c].status = "consumed"]
    /\ UNCHANGED <<account, failed, session, device, req>>

-----------------------------------------------------------------------------
(* Refreshing and revoking: devices.rs *)

\* FOR UPDATE locks on rows of device_credentials.
TokenLocked(r, k) == \E q \in Requests \ {r} : req[q].holds /\ req[q].token = k

\* The UPDATE of backup_devices locks the row until the commit.
DeviceLocked(r, d) ==
    \E q \in Requests \ {r} :
        req[q].device = d /\ req[q].pc \in {"revoking", "sweep"}

\* refresh_token: the statement's snapshot is taken here.
RefreshLookup(r, k) ==
    /\ req[r].pc = "idle"
    /\ credential[k].device # NULL
    /\ req' = [req EXCEPT ![r] = [Idle EXCEPT !.pc = "refresh", !.token = k,
                 !.device = credential[k].device,
                 !.valid = /\ device[credential[k].device] = "active"
                           /\ ~account.disabled]]
    /\ UNCHANGED <<account, failed, accountRows>>

\* Fault: FOR UPDATE is left out.
LockFree(r) == TRUE

LockGranted(r) == ~TokenLocked(r, req[r].token)

\* FOR UPDATE OF c reads the credential as it is when the lock is granted, the
\* joined rows as they were.  A revoked token is a reused one.
RefreshLock(r) ==
    /\ req[r].pc = "refresh"
    /\ LockGranted(r)
    /\ \/ /\ credential[req[r].token].revoked
          /\ req' = [req EXCEPT ![r].pc = "revoke", ![r].holds = TRUE]
       \/ /\ ~credential[req[r].token].revoked
          /\ req[r].valid
          /\ req' = [req EXCEPT ![r].pc = "rotate", ![r].holds = TRUE]
       \/ /\ ~credential[req[r].token].revoked   \* invalid, or expired
          /\ Ends(r)
    /\ UNCHANGED <<account, failed, accountRows>>

RefreshRotate(r) ==
    /\ req[r].pc = "rotate"
    /\ \/ /\ Unissued # {}
          /\ credential' =
                Issue([credential EXCEPT ![req[r].token].revoked = TRUE],
                      req[r].device, FALSE)
       \/ UNCHANGED credential      \* a statement or the commit failed
    /\ Ends(r)
    /\ UNCHANGED <<account, failed, session, code, device>>

\* A request with an access token, checked against all four rows.
AuthenticateDevice(r, k) ==
    /\ req[r].pc = "idle"
    /\ credential[k].device # NULL
    /\ ~credential[k].revoked
    /\ device[credential[k].device] = "active"
    /\ ~account.disabled
    /\ ~account.mustChange
    /\ req' = [req EXCEPT ![r] = [Idle EXCEPT !.pc = "device",
                                    !.device = credential[k].device]]
    /\ UNCHANGED <<account, failed, accountRows>>

\* revoke_device of a session, logout_device of the device itself.
RevokeStart(r, d) ==
    /\ \/ req[r].pc = "authed" /\ ~req[r].restricted
       \/ req[r].pc = "device" /\ req[r].device = d
    /\ device[d] # "none"
    /\ req' = [req EXCEPT ![r] = [Idle EXCEPT !.pc = "revoke", !.device = d]]
    /\ UNCHANGED <<account, failed, accountRows>>

\* UPDATE backup_devices
RevokeDeviceRow(r) ==
    /\ req[r].pc = "revoke"
    /\ ~DeviceLocked(r, req[r].device)
    /\ req' = [req EXCEPT ![r].pc = "revoking"]
    /\ UNCHANGED <<account, failed, accountRows>>

\* UPDATE device_credentials: its snapshot misses what commits later.
SweepCredentials(r) ==
    /\ req[r].pc = "revoking"
    /\ req' = [req EXCEPT ![r].pc = "sweep",
                 ![r].seen = {k \in Credentials :
                                credential[k].device = req[r].device}]
    /\ UNCHANGED <<account, failed, accountRows>>

Swept(r) ==
    [k \in Credentials |-> IF k \in req[r].seen
                           THEN [credential[k] EXCEPT !.revoked = TRUE]
                           ELSE credential[k]]

\* The statement has every row's lock; commit.
RevokeCommit(r) ==
    /\ req[r].pc = "sweep"
    /\ \A k \in req[r].seen : ~TokenLocked(r, k)
    /\ device' = [device EXCEPT ![req[r].device] = "revoked"]
    /\ credential' = Swept(r)
    /\ Ends(r)
    /\ UNCHANGED <<account, failed, session, code>>

\* A statement or the commit fails: the transaction rolls back and its client
\* gets service_unavailable.  So does one of two that lock the device and a
\* credential in opposite order, when PostgreSQL breaks the deadlock.
RevokeFails(r) ==
    /\ req[r].pc \in {"revoke", "revoking", "sweep"}
    /\ Ends(r)
    /\ UNCHANGED <<account, failed, accountRows>>

-----------------------------------------------------------------------------
(* Specification *)

BrowserStep(r) ==
    \/ LoginLookup(r) \/ LoginRejected(r) \/ LoginAccepted(r) \/ LoginCommit(r)
    \/ \E s \in Sessions : Authenticate(r, s)
    \/ RequestEnds(r) \/ Logout(r) \/ SignOut(r) \/ ChangeLookup(r) \/ ChangeCommit(r)
    \/ \E c \in Codes : ApproveRequest(r, c) \/ DenyRequest(r, c)

DeviceStep(r) ==
    \/ \E k \in Credentials : RefreshLookup(r, k) \/ AuthenticateDevice(r, k)
    \/ RefreshLock(r) \/ RefreshRotate(r)
    \/ \E d \in Codes : RevokeStart(r, d)
    \/ RevokeDeviceRow(r) \/ SweepCredentials(r) \/ RevokeCommit(r)
    \/ RevokeFails(r)

OtherStep ==
    \/ FailureAgesOut
    \/ \E s \in Sessions : SessionExpires(s)
    \/ \E disabled \in BOOLEAN : UpdateAccount(disabled)
    \/ ResetPassword
    \/ \E c \in Codes :
          CreateCode(c) \/ CodeTimesOut(c) \/ CodeExpires(c) \/ ExchangeToken(c)

Next ==
    \/ \E r \in Requests : BrowserStep(r) \/ DeviceStep(r)
    \/ OtherStep

Spec == Init /\ [][Next]_vars

-----------------------------------------------------------------------------
(* Properties *)

\* A session that is still good stands on the account's password: signing in
\* with a password that was changed or reset meanwhile, or to an account that
\* was disabled meanwhile, leaves no session behind (login's FOR SHARE), and
\* enabling an account revives none.
SessionsCurrent ==
    \A s \in Sessions :
        session[s].state = "live" =>
            /\ session[s].proof = account.password
            /\ ~account.disabled

\* A device that is not revoked has one refresh token that can be rotated,
\* however many refreshes present its tokens at once (FOR UPDATE OF c): the
\* chain of tokens never forks.
OneLiveCredential ==
    \A d \in Codes :
        device[d] = "active" =>
            Cardinality({k \in Credentials :
                credential[k].device = d /\ ~credential[k].revoked}) <= 1

\* A code yields tokens once, and only after its approval: approve, deny, the
\* expiry and the exchange agree on who came first.
CodeSpentOnce ==
    \A d \in Codes :
        /\ Cardinality({k \in Credentials :
              credential[k].device = d /\ credential[k].first}) <= 1
        /\ (\E k \in Credentials : credential[k].device = d) =>
              code[d].status = "consumed" /\ device[d] # "none"

\* The sign-ins that are verified at once pass the limit by no more than their
\* number (LoginRateLimiter is asked before the verification, told after it).
SignInsBounded == failed < LoginFailureLimit + Cardinality(Requests)
=============================================================================
