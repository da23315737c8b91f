-------------------------- MODULE Accounts_proofs ---------------------------
(***************************************************************************)
(* The safety properties of Accounts for any number of sessions, devices,  *)
(* credentials and handlers, and that no revocation of a device is lost.   *)
(*                                                                         *)
(* SessionsCurrent is inductive as it stands.  That a device's chain of    *)
(* refresh tokens does not fork rests on the row locks: a handler about to *)
(* rotate holds the lock of a token that is not revoked, and no other      *)
(* handler holds it, so nobody revokes it first.                           *)
(***************************************************************************)
EXTENDS Accounts, FiniteSetTheorems, TLAPS

-----------------------------------------------------------------------------
(* The inductive invariant *)

\* What a refresh read of the token it presents is still so; the token it is
\* about to rotate is the one it has locked.
RequestInv(r) ==
    /\ req[r].pc \in {"refresh", "rotate"} =>
          /\ req[r].token \in Credentials
          /\ req[r].device \in Codes
          /\ credential[req[r].token].device = req[r].device
    /\ req[r].pc = "rotate" => req[r].holds /\ ~credential[req[r].token].revoked

\* FOR UPDATE: two handlers never hold the same credential's row.
LocksExclusive ==
    \A r, q \in Requests :
        r # q /\ req[r].holds /\ req[q].holds => req[r].token # req[q].token

\* An approved code has its device, and only a spent one has tokens.
CodeInv(d) ==
    /\ code[d].status \in {"approved", "consumed"} => device[d] # "none"
    /\ \A k \in Credentials : credential[k].device = d => code[d].status = "consumed"

LiveOf(d) == {k \in Credentials : credential[k].device = d /\ ~credential[k].revoked}
FirstOf(d) == {k \in Credentials : credential[k].device = d /\ credential[k].first}

AtMostOne(S) == \A x, y \in S : x = y

\* The tokens of a device are one chain, begun once, with one end.
ChainInv(d) ==
    /\ device[d] = "active" => AtMostOne(LiveOf(d))
    /\ AtMostOne(FirstOf(d))

Verifying == {r \in Requests : req[r].pc = "verify"}

\* The failures and the sign-ins that may still become one.
LimiterInv ==
    failed + Cardinality(Verifying) <= LoginFailureLimit - 1 + Cardinality(Requests)

AccountsInv ==
    /\ TypeOK
    /\ \A r \in Requests : RequestInv(r)
    /\ LocksExclusive
    /\ \A d \in Codes : CodeInv(d) /\ ChainInv(d)
    /\ SessionsCurrent
    /\ LimiterInv

-----------------------------------------------------------------------------
(* Types *)

\* Where a handler may hold a credential's row.
InTransaction == {"rotate", "revoke", "revoking", "sweep"}

\* A handler that ended holds nothing.
LEMMA IdleType ==
    /\ Idle \in Request
    /\ Idle.pc = "idle" /\ ~Idle.holds
BY Zenon DEF Idle, Request

\* One handler moves.
Moves(r, t) == req' = [req EXCEPT ![r] = t]

\* The handlers keep their types when one of them moves.
LEMMA MovesType ==
    ASSUME TypeOK, NEW r \in Requests, NEW t \in Request, Moves(r, t),
           t.holds => t.pc \in InTransaction
    PROVE  /\ req' \in [Requests -> Request]
           /\ \A q \in Requests : req'[q].holds => req'[q].pc \in InTransaction
           /\ req'[r] = t
           /\ \A q \in Requests : q # r => req'[q] = req[q]
BY DEF TypeOK, Moves, InTransaction

\* A row of sessions ends or is written whole.
LEMMA EndedType ==
    ASSUME TypeOK, NEW S
    PROVE  /\ EndedIn(S) \in [Sessions -> Session]
           /\ \A s \in Sessions :
                 /\ EndedIn(S)[s].proof = session[s].proof
                 /\ EndedIn(S)[s].state = "live" => session[s].state = "live" /\ s \notin S
<1>1. ASSUME NEW s \in Sessions
      PROVE  /\ session[s] \in Session
             /\ [session[s] EXCEPT !.state = "ended"] \in Session
             /\ [session[s] EXCEPT !.state = "ended"].state = "ended"
             /\ [session[s] EXCEPT !.state = "ended"].proof = session[s].proof
  BY DEF TypeOK, Session
<1>2. QED
  BY <1>1 DEF EndedIn

\* A row of device_credentials is issued, or revoked.
LEMMA IssueType ==
    ASSUME NEW rows \in [Credentials -> Credential], NEW d \in Codes,
           NEW first \in BOOLEAN, Unissued # {}
    PROVE  /\ Issue(rows, d, first) \in [Credentials -> Credential]
           /\ \E n \in Unissued :
                 /\ Issue(rows, d, first)[n] =
                       [device |-> d, first |-> first, revoked |-> FALSE]
                 /\ \A k \in Credentials : k # n => Issue(rows, d, first)[k] = rows[k]
<1> DEFINE n == CHOOSE k \in Unissued : TRUE
           row == [device |-> d, first |-> first, revoked |-> FALSE]
<1>1. n \in Unissued /\ n \in Credentials
  BY DEF Unissued
<1>2. row \in Credential
  BY Zenon DEF Credential
<1>3. Issue(rows, d, first) = [rows EXCEPT ![n] = row]
  BY Zenon DEF Issue
<1> HIDE DEF n, row
<1>4. /\ Issue(rows, d, first) \in [Credentials -> Credential]
      /\ Issue(rows, d, first)[n] = row
      /\ \A k \in Credentials : k # n => Issue(rows, d, first)[k] = rows[k]
  BY <1>1, <1>2, <1>3
<1>5. QED
  BY <1>1, <1>4 DEF row

\* What a step of handler r does to the handlers.
Handlers(r) ==
    /\ req' \in [Requests -> Request]
    /\ \A q \in Requests : req'[q].holds => req'[q].pc \in InTransaction
    /\ \A q \in Requests : q # r => req'[q] = req[q]

\* A handler of a browser holds no credential's row.
LEMMA BrowserHandlers ==
    ASSUME TypeOK, NEW r \in Requests, BrowserStep(r)
    PROVE  /\ Handlers(r) /\ ~req'[r].holds
           /\ req[r].pc \in {"idle", "verify", "session", "authed", "device", "change"}
           /\ req'[r].pc \in {"idle", "verify", "session", "authed", "change"}
           /\ req'[r].pc = "verify" <=> LoginLookup(r)
<1>r. req[r] \in Request
  BY DEF TypeOK
<1>a. account \in Account /\ account.password \in Passwords
      /\ account.mustChange \in BOOLEAN
  BY DEF TypeOK, Account
<1>1. ASSUME NEW t \in Request, Moves(r, t), ~t.holds,
             t.pc \in {"idle", "verify", "session", "authed", "change"}
      PROVE  /\ Handlers(r) /\ ~req'[r].holds
             /\ req'[r].pc = t.pc
  BY <1>1, MovesType DEF Handlers
<1>2. ASSUME Ends(r)
      PROVE  Handlers(r) /\ ~req'[r].holds /\ req'[r].pc = "idle"
  BY <1>1, <1>2, IdleType DEF Ends, Moves
<1>3. CASE LoginLookup(r)
  <2> DEFINE h == IF account.disabled THEN NULL ELSE account.password
             t == [Idle EXCEPT !.pc = "verify", !.hash = h]
  <2>1. h \in Passwords \cup {NULL}
    BY <1>a
  <2>2. t \in Request /\ t.pc = "verify" /\ ~t.holds
    BY <2>1, Zenon DEF Idle, Request
  <2>3. Moves(r, t) /\ req[r].pc = "idle"
    BY <1>3, Zenon DEF LoginLookup, Moves
  <2> HIDE DEF t
  <2>4. QED
    BY <1>1, <1>3, <2>2, <2>3
<1>4. CASE LoginRejected(r)
  BY <1>2, <1>4 DEF LoginRejected, LoginLookup
<1>5. CASE LoginAccepted(r)
  <2> DEFINE t == [req[r] EXCEPT !.pc = "session"]
  <2>1. t \in Request /\ t.pc = "session" /\ ~t.holds /\ req[r].pc = "verify"
    <3>1. req[r].pc = "verify" /\ ~req[r].holds
      BY <1>5 DEF LoginAccepted, TypeOK
    <3>2. QED
      BY <1>r, <3>1, Zenon DEF Request
  <2>2. Moves(r, t)
    BY <1>5, Zenon DEF LoginAccepted, Moves
  <2> HIDE DEF t
  <2>3. QED
    BY <1>1, <2>1, <2>2 DEF LoginLookup
<1>6. CASE LoginCommit(r)
  BY <1>2, <1>6 DEF LoginCommit, LoginLookup
<1>7. ASSUME NEW s \in Sessions, Authenticate(r, s)
      PROVE  /\ Handlers(r) /\ ~req'[r].holds /\ req[r].pc = "idle"
             /\ req'[r].pc = "authed"
  <2> DEFINE t == [Idle EXCEPT !.pc = "authed", !.session = s,
                                    !.restricted = account.mustChange]
  <2>1. t \in Request /\ t.pc = "authed" /\ ~t.holds
    BY <1>a, Zenon DEF Idle, Request
  <2>2. Moves(r, t) /\ req[r].pc = "idle"
    BY <1>7, Zenon DEF Authenticate, Moves
  <2> HIDE DEF t
  <2>3. QED
    BY <1>1, <2>1, <2>2
<1>8. CASE RequestEnds(r)
  BY <1>2, <1>8 DEF RequestEnds, LoginLookup
<1>9. CASE Logout(r) \/ SignOut(r)
  BY <1>2, <1>9 DEF Logout, SignOut, LoginLookup
<1>10. CASE ChangeLookup(r)
  <2> DEFINE t == [req[r] EXCEPT !.pc = "change", !.hash = account.password]
  <2>1. t \in Request /\ t.pc = "change" /\ ~t.holds /\ req[r].pc = "authed"
    <3>1. req[r].pc = "authed" /\ ~req[r].holds
      BY <1>10 DEF ChangeLookup, TypeOK
    <3>2. QED
      BY <1>a, <1>r, <3>1, Zenon DEF Request
  <2>2. Moves(r, t)
    BY <1>10, <1>r DEF ChangeLookup, Moves, TypeOK
  <2> HIDE DEF t
  <2>3. QED
    BY <1>1, <2>1, <2>2 DEF LoginLookup
<1>11. CASE ChangeCommit(r)
  BY <1>2, <1>11 DEF ChangeCommit, LoginLookup
<1>12. ASSUME NEW c \in Codes, ApproveRequest(r, c) \/ DenyRequest(r, c)
       PROVE  /\ Handlers(r) /\ ~req'[r].holds /\ req[r].pc = "authed"
              /\ req'[r].pc = "idle"
  BY <1>2, <1>12 DEF ApproveRequest, DenyRequest
<1>13. QED
  BY <1>3, <1>4, <1>5, <1>6, <1>7, <1>8, <1>9, <1>10, <1>11, <1>12
     DEF BrowserStep, LoginLookup

\* A handler of a device: what a refresh knows, and which locks it takes.
LEMMA DeviceHandlers ==
    ASSUME AccountsInv, NEW r \in Requests, DeviceStep(r)
    PROVE  /\ Handlers(r)
           /\ req[r].pc # "verify" /\ req'[r].pc # "verify"
           /\ req'[r].holds =>
                 \/ req[r].holds /\ req'[r].token = req[r].token
                 \/ ~TokenLocked(r, req'[r].token)
           /\ req'[r].pc \in {"refresh", "rotate"} =>
                 /\ req'[r].token \in Credentials
                 /\ req'[r].device \in Codes
                 /\ credential[req'[r].token].device = req'[r].device
           /\ req'[r].pc = "rotate" => req'[r].holds /\ ~credential[req'[r].token].revoked
           /\ req[r].pc \in {"revoke", "revoking"} /\ req'[r].pc # "idle" =>
                 req'[r].pc \in {"revoking", "sweep"} /\ req'[r].device = req[r].device
<1> USE DEF AccountsInv
<1>r. req[r] \in Request
  BY DEF TypeOK
<1>1. ASSUME NEW t \in Request, Moves(r, t), t.holds => t.pc \in InTransaction
      PROVE  Handlers(r) /\ req'[r] = t
  BY <1>1, MovesType DEF Handlers
<1>2. ASSUME Ends(r)
      PROVE  Handlers(r) /\ ~req'[r].holds /\ req'[r].pc = "idle"
  BY <1>1, <1>2, IdleType DEF Ends, Moves
<1>3. ASSUME NEW k \in Credentials, RefreshLookup(r, k)
      PROVE  /\ Handlers(r) /\ req[r].pc = "idle" /\ req'[r].pc = "refresh" /\ ~req'[r].holds
             /\ req'[r].token = k /\ req'[r].device \in Codes
             /\ credential[k].device = req'[r].device
  <2> DEFINE v == /\ device[credential[k].device] = "active"
                  /\ ~account.disabled
             t == [Idle EXCEPT !.pc = "refresh", !.token = k,
                     !.device = credential[k].device, !.valid = v]
  <2>1. credential[k].device \in Codes
    BY <1>3 DEF RefreshLookup, TypeOK, Credential
  <2>2. v \in BOOLEAN
    OBVIOUS
  <2>3. /\ t \in Request /\ t.pc = "refresh" /\ ~t.holds
        /\ t.token = k /\ t.device = credential[k].device
    <3> HIDE DEF v
    <3>1. QED
      BY <2>1, <2>2, Zenon DEF Idle, Request
  <2>4. Moves(r, t) /\ req[r].pc = "idle"
    BY <1>3, Zenon DEF RefreshLookup, Moves
  <2> HIDE DEF t
  <2>5. QED
    BY <1>1, <2>1, <2>3, <2>4
<1>4. ASSUME NEW k \in Credentials, AuthenticateDevice(r, k)
      PROVE  /\ Handlers(r) /\ req[r].pc = "idle" /\ req'[r].pc = "device" /\ ~req'[r].holds
  <2> DEFINE t == [Idle EXCEPT !.pc = "device", !.device = credential[k].device]
  <2>1. credential[k].device \in Codes
    BY <1>4 DEF AuthenticateDevice, TypeOK, Credential
  <2>2. t \in Request /\ t.pc = "device" /\ ~t.holds
    BY <2>1, Zenon DEF Idle, Request
  <2>3. Moves(r, t) /\ req[r].pc = "idle"
    BY <1>4, Zenon DEF AuthenticateDevice, Moves
  <2> HIDE DEF t
  <2>4. QED
    BY <1>1, <2>2, <2>3
<1>5. ASSUME RefreshLock(r)
      PROVE  \/ Handlers(r) /\ ~req'[r].holds /\ req'[r].pc = "idle"
             \/ /\ Handlers(r) /\ req[r].pc = "refresh"
                /\ req'[r].pc \in {"revoke", "rotate"}
                /\ req'[r].token = req[r].token /\ req'[r].device = req[r].device
                /\ req'[r].holds /\ ~TokenLocked(r, req[r].token)
                /\ req'[r].pc = "rotate" => ~credential[req[r].token].revoked
  <2>1. ASSUME NEW p \in {"revoke", "rotate"},
               req' = [req EXCEPT ![r].pc = p, ![r].holds = TRUE]
        PROVE  /\ Handlers(r) /\ req'[r].pc = p /\ req'[r].token = req[r].token
               /\ req'[r].device = req[r].device /\ req'[r].holds
    <3> DEFINE t == [req[r] EXCEPT !.pc = p, !.holds = TRUE]
    <3>1. /\ t \in Request /\ t.pc = p /\ t.holds /\ t.token = req[r].token
          /\ t.device = req[r].device
      BY <1>r, Zenon DEF Request
    <3>2. Moves(r, t)
      BY <2>1, <1>r DEF Moves, TypeOK
    <3> HIDE DEF t
    <3>3. QED
      BY <1>1, <3>1, <3>2 DEF InTransaction
  <2>2. QED
    BY <1>2, <1>5, <2>1 DEF RefreshLock, LockGranted
<1>6. ASSUME NEW d \in Codes, RevokeStart(r, d)
      PROVE  /\ Handlers(r) /\ req[r].pc \in {"authed", "device"}
             /\ req'[r].pc = "revoke" /\ ~req'[r].holds /\ req'[r].device = d
  <2> DEFINE t == [Idle EXCEPT !.pc = "revoke", !.device = d]
  <2>1. t \in Request /\ t.pc = "revoke" /\ ~t.holds /\ t.device = d
    BY Zenon DEF Idle, Request
  <2>2. Moves(r, t) /\ req[r].pc \in {"authed", "device"}
    BY <1>6, Zenon DEF RevokeStart, Moves
  <2> HIDE DEF t
  <2>3. QED
    BY <1>1, <2>1, <2>2
<1>7. ASSUME RevokeDeviceRow(r)
      PROVE  /\ Handlers(r) /\ req[r].pc = "revoke" /\ req'[r].pc = "revoking"
             /\ req'[r].holds = req[r].holds /\ req'[r].token = req[r].token
             /\ req'[r].device = req[r].device
  <2> DEFINE t == [req[r] EXCEPT !.pc = "revoking"]
  <2>1. /\ t \in Request /\ t.pc = "revoking" /\ t.holds = req[r].holds
        /\ t.token = req[r].token /\ t.device = req[r].device
    BY <1>r, Zenon DEF Request
  <2>2. Moves(r, t) /\ req[r].pc = "revoke"
    BY <1>7, Zenon DEF RevokeDeviceRow, Moves
  <2> HIDE DEF t
  <2>3. QED
    BY <1>1, <2>1, <2>2 DEF InTransaction
<1>8. ASSUME SweepCredentials(r)
      PROVE  /\ Handlers(r) /\ req[r].pc = "revoking" /\ req'[r].pc = "sweep"
             /\ req'[r].holds = req[r].holds /\ req'[r].token = req[r].token
             /\ req'[r].device = req[r].device
  <2> DEFINE S == {k \in Credentials : credential[k].device = req[r].device}
             t == [req[r] EXCEPT !.pc = "sweep", !.seen = S]
  <2>1. /\ t \in Request /\ t.pc = "sweep" /\ t.holds = req[r].holds
        /\ t.token = req[r].token /\ t.device = req[r].device
    <3>1. S \in SUBSET Credentials
      OBVIOUS
    <3> HIDE DEF S
    <3>2. QED
      BY <1>r, <3>1, Zenon DEF Request
  <2>2. Moves(r, t) /\ req[r].pc = "revoking"
    <3>1. req' = [req EXCEPT ![r].pc = "sweep", ![r].seen = S] /\ req[r].pc = "revoking"
      BY <1>8 DEF SweepCredentials
    <3> HIDE DEF S
    <3>2. QED
      BY <1>r, <3>1 DEF Moves, TypeOK
  <2> HIDE DEF t
  <2>3. QED
    BY <1>1, <2>1, <2>2 DEF InTransaction
<1>9. ASSUME RefreshRotate(r) \/ RevokeCommit(r) \/ RevokeFails(r)
      PROVE  /\ Handlers(r) /\ ~req'[r].holds /\ req'[r].pc = "idle"
             /\ req[r].pc # "verify"
  BY <1>2, <1>9 DEF RefreshRotate, RevokeCommit, RevokeFails
<1>10. QED
  <2>1. RequestInv(r)
    OBVIOUS
  <2>2. CASE \E k \in Credentials : RefreshLookup(r, k) \/ AuthenticateDevice(r, k)
    BY <1>3, <1>4, <2>2
  <2>3. CASE RefreshLock(r)
    <3>1. req[r].pc = "refresh"
      BY <2>3 DEF RefreshLock
    <3>2. QED
      BY <1>5, <2>1, <2>3, <3>1 DEF RequestInv
  <2>4. CASE \E d \in Codes : RevokeStart(r, d)
    BY <1>6, <2>4
  <2>5. CASE RevokeDeviceRow(r) \/ SweepCredentials(r)
    BY <1>7, <1>8, <2>5
  <2>6. CASE RefreshRotate(r) \/ RevokeCommit(r) \/ RevokeFails(r)
    BY <1>9, <2>6
  <2>7. QED
    BY <2>2, <2>3, <2>4, <2>5, <2>6 DEF DeviceStep

-----------------------------------------------------------------------------
(* Sessions *)

\* Types of the rows that sign-in and the owner write, and SessionsCurrent.
SessionPart ==
    /\ account \in Account
    /\ session \in [Sessions -> Session]
    /\ SessionsCurrent

\* A step that keeps the account and ends sessions keeps SessionsCurrent.
LEMMA EndingSessions ==
    ASSUME TypeOK, SessionsCurrent, NEW S, account' = account, session' = EndedIn(S)
    PROVE  SessionPart'
BY EndedType DEF TypeOK, SessionsCurrent, SessionPart

\* The password is replaced, or the account disabled: every session but one
\* that gets the new password ends.
LEMMA SessionStep ==
    ASSUME AccountsInv, Next
    PROVE  SessionPart'
<1> USE AccountsAssumption DEF AccountsInv
<1>a. /\ account \in Account /\ account.password \in Passwords
      /\ account.disabled \in BOOLEAN
  BY DEF TypeOK, Account
<1>p. ASSUME account.password < MaxPasswords
      PROVE  account.password + 1 \in Passwords
  BY <1>a, <1>p DEF Passwords
<1>1. ASSUME UNCHANGED <<account, session>>
      PROVE  SessionPart'
  BY <1>1 DEF TypeOK, SessionsCurrent, SessionPart
<1>2. ASSUME NEW r \in Requests, BrowserStep(r)
      PROVE  SessionPart'
  <2>1. CASE LoginLookup(r) \/ LoginRejected(r) \/ LoginAccepted(r)
             \/ RequestEnds(r) \/ ChangeLookup(r)
    BY <1>1, <2>1 DEF LoginLookup, LoginRejected, LoginAccepted, RequestEnds,
       ChangeLookup, accountRows
  <2>2. ASSUME NEW s \in Sessions, Authenticate(r, s)
        PROVE  SessionPart'
    BY <1>1, <2>2 DEF Authenticate, accountRows
  <2>3. CASE LoginCommit(r)
    <3>1. CASE UNCHANGED session
      BY <1>1, <2>3, <3>1 DEF LoginCommit
    <3>2. CASE /\ Revalidates(r) /\ Unused # {}
               /\ session' = [session EXCEPT ![CHOOSE s \in Unused : TRUE] =
                               [state |-> "live", proof |-> req[r].hash]]
      <4> DEFINE n == CHOOSE s \in Unused : TRUE
                 row == [state |-> "live", proof |-> req[r].hash]
      <4>1. n \in Sessions
        BY <3>2 DEF Unused
      <4>2. /\ req[r].hash = account.password /\ ~account.disabled
            /\ account' = account
        BY <2>3, <3>2 DEF Revalidates, LoginCommit
      <4>3. row \in Session /\ row.proof = account.password
        BY <1>a, <4>2 DEF Session
      <4>4. session' = [session EXCEPT ![n] = row]
        BY <3>2, Zenon
      <4> HIDE DEF n, row
      <4>5. /\ session' \in [Sessions -> Session]
            /\ session'[n] = row /\ \A s \in Sessions : s # n => session'[s] = session[s]
        BY <4>1, <4>3, <4>4 DEF TypeOK
      <4>6. QED
        BY <1>a, <4>2, <4>3, <4>5 DEF SessionsCurrent, SessionPart
    <3>3. QED
      BY <2>3, <3>1, <3>2 DEF LoginCommit
  <2>4. CASE Logout(r) \/ SignOut(r)
    BY <2>4, EndingSessions DEF Logout, SignOut
  <2>5. CASE ChangeCommit(r)
    <3> DEFINE rest == EndedIn(Sessions \ {req[r].session})
    <3>1. /\ account' = [account EXCEPT !.password = @ + 1, !.mustChange = FALSE]
          /\ session' = [rest EXCEPT ![req[r].session].proof = account.password + 1]
          /\ account.password + 1 \in Passwords /\ ~account.disabled
      BY <1>p, <2>5 DEF ChangeCommit, Revalidates
    <3>2. /\ account' \in Account /\ account'.password = account.password + 1
          /\ ~account'.disabled
      BY <1>a, <3>1 DEF Account
    <3>3. rest \in [Sessions -> Session]
          /\ \A s \in Sessions : rest[s].state = "live" => s = req[r].session
      BY EndedType
    <3> HIDE DEF rest
    <3>4. session' \in [Sessions -> Session]
      BY <3>1, <3>3 DEF Session
    <3>5. ASSUME NEW s \in Sessions, session'[s].state = "live"
          PROVE  session'[s].proof = account.password + 1
      <4>1. rest[s] \in Session /\ rest[s].state = "live"
        BY <3>1, <3>3, <3>5 DEF Session
      <4>2. s = req[r].session
        BY <3>3, <4>1
      <4>3. QED
        BY <3>1, <3>3, <4>1, <4>2 DEF Session
    <3>6. QED
      BY <3>2, <3>4, <3>5 DEF SessionsCurrent, SessionPart
  <2>6. ASSUME NEW c \in Codes, ApproveRequest(r, c) \/ DenyRequest(r, c)
        PROVE  SessionPart'
    BY <1>1, <2>6 DEF ApproveRequest, DenyRequest
  <2>7. QED
    BY <1>2, <2>1, <2>2, <2>3, <2>4, <2>5, <2>6 DEF BrowserStep
<1>3. ASSUME NEW r \in Requests, DeviceStep(r)
      PROVE  SessionPart'
  BY <1>1, <1>3 DEF DeviceStep, RefreshLookup, AuthenticateDevice, RefreshLock,
     RefreshRotate, RevokeStart, RevokeDeviceRow, SweepCredentials, RevokeCommit,
     RevokeFails, accountRows
<1>4. ASSUME OtherStep
      PROVE  SessionPart'
  <2>1. CASE \/ FailureAgesOut
             \/ \E c \in Codes :
                  CreateCode(c) \/ CodeTimesOut(c) \/ CodeExpires(c) \/ ExchangeToken(c)
    BY <1>1, <2>1 DEF FailureAgesOut, CreateCode, CodeTimesOut, CodeExpires,
       ExchangeToken, accountRows
  <2>2. ASSUME NEW s \in Sessions, SessionExpires(s)
        PROVE  SessionPart'
    <3>1. account' = account /\ session' = [session EXCEPT ![s].state = "ended"]
      BY <2>2 DEF SessionExpires
    <3>2. /\ session' \in [Sessions -> Session]
          /\ \A x \in Sessions : session'[x].state = "live" => session'[x] = session[x]
      BY <3>1 DEF TypeOK, Session
    <3>3. QED
      BY <1>a, <3>1, <3>2 DEF SessionsCurrent, SessionPart
  <2>3. ASSUME NEW disabled \in BOOLEAN, UpdateAccount(disabled)
        PROVE  SessionPart'
    <3>1. /\ account' \in Account /\ account'.password = account.password
          /\ account'.disabled = disabled
      BY <1>a, <2>3, Zenon DEF UpdateAccount, Account
    <3>2. CASE disabled
      BY <2>3, <3>1, <3>2, EndedType DEF UpdateAccount, SessionsCurrent, SessionPart
    <3>3. CASE ~disabled
      BY <2>3, <3>1, <3>3 DEF UpdateAccount, SessionsCurrent, SessionPart, TypeOK
    <3>4. QED
      BY <3>2, <3>3
  <2>4. CASE ResetPassword
    <3>1. account' \in Account
      BY <1>a, <1>p, <2>4 DEF ResetPassword, Account
    <3>2. QED
      BY <2>4, <3>1, EndedType DEF ResetPassword, SessionsCurrent, SessionPart
  <2>5. QED
    BY <1>4, <2>1, <2>2, <2>3, <2>4 DEF OtherStep
<1>5. QED
  BY <1>2, <1>3, <1>4 DEF Next

-----------------------------------------------------------------------------
(* The sign-in limiter *)

\* The sign-ins under way are finitely many.
LEMMA VerifyingType ==
    /\ IsFiniteSet(Verifying) /\ Cardinality(Verifying) \in Nat
    /\ IsFiniteSet(Verifying)' /\ Cardinality(Verifying)' \in Nat
    /\ Cardinality(Requests) \in Nat
    /\ Cardinality(Verifying) <= Cardinality(Requests)
    /\ Cardinality(Verifying)' <= Cardinality(Requests)
BY AccountsAssumption, FS_Subset, FS_CardinalityType DEF Verifying

\* A rejected sign-in is counted in place of its verification.
LEMMA LimiterStep ==
    ASSUME AccountsInv, Next
    PROVE  failed' \in Nat /\ LimiterInv'
<1> USE AccountsAssumption DEF AccountsInv
<1>f. failed \in Nat
  BY DEF TypeOK
<1>1. ASSUME Verifying' \subseteq Verifying, failed' = failed
      PROVE  failed' \in Nat /\ LimiterInv'
  <2>1. Cardinality(Verifying)' <= Cardinality(Verifying)
    BY <1>1, VerifyingType, FS_Subset
  <2>2. QED
    BY <1>1, <1>f, <2>1, VerifyingType DEF LimiterInv
<1>2. ASSUME NEW r \in Requests, BrowserStep(r)
      PROVE  failed' \in Nat /\ LimiterInv'
  <2>1. /\ \A q \in Requests : q # r => req'[q] = req[q]
        /\ req'[r].pc = "verify" <=> LoginLookup(r)
    BY <1>2, BrowserHandlers DEF Handlers
  <2>2. CASE LoginLookup(r)
    BY <1>f, <2>2, VerifyingType DEF LoginLookup, LimiterInv
  <2>3. CASE LoginAccepted(r)
    BY <2>3, VerifyingType DEF LoginAccepted, LimiterInv
  <2>4. CASE LoginRejected(r)
    <3>1. req[r].pc = "verify" /\ failed' = failed + 1
      BY <2>4 DEF LoginRejected
    <3>2. req'[r].pc # "verify"
      BY <2>1, <3>1 DEF LoginLookup
    <3>3. Verifying' = Verifying \ {r} /\ r \in Verifying
      BY <2>1, <3>1, <3>2 DEF Verifying
    <3>4. Cardinality(Verifying)' = Cardinality(Verifying) - 1
      BY <3>3, VerifyingType, FS_RemoveElement
    <3>5. QED
      BY <1>f, <3>1, <3>4, VerifyingType DEF LimiterInv
  <2>5. CASE ~LoginLookup(r) /\ ~LoginAccepted(r) /\ ~LoginRejected(r)
    <3>1. Verifying' \subseteq Verifying
      BY <2>1, <2>5 DEF Verifying
    <3>2. failed' = failed
      BY <1>2, <2>5 DEF BrowserStep, LoginCommit, Authenticate, RequestEnds, Logout,
         SignOut, ChangeLookup, ChangeCommit, ApproveRequest, DenyRequest
    <3>3. QED
      BY <1>1, <3>1, <3>2
  <2>6. QED
    BY <2>2, <2>3, <2>4, <2>5
<1>3. ASSUME NEW r \in Requests, DeviceStep(r)
      PROVE  failed' \in Nat /\ LimiterInv'
  <2>1. Verifying' \subseteq Verifying
    BY <1>3, DeviceHandlers DEF Handlers, Verifying
  <2>2. failed' = failed
    BY <1>3 DEF DeviceStep, RefreshLookup, AuthenticateDevice, RefreshLock,
       RefreshRotate, RevokeStart, RevokeDeviceRow, SweepCredentials, RevokeCommit,
       RevokeFails
  <2>3. QED
    BY <1>1, <2>1, <2>2
<1>4. ASSUME OtherStep
      PROVE  failed' \in Nat /\ LimiterInv'
  <2>1. req' = req
    BY <1>4 DEF OtherStep, FailureAgesOut, SessionExpires, UpdateAccount,
       ResetPassword, CreateCode, CodeTimesOut, CodeExpires, ExchangeToken
  <2>2. Verifying' = Verifying
    BY <2>1 DEF Verifying
  <2>3. CASE FailureAgesOut
    BY <1>f, <2>2, <2>3, VerifyingType DEF FailureAgesOut, LimiterInv
  <2>4. CASE ~FailureAgesOut
    <3>1. failed' = failed
      BY <1>4, <2>4 DEF OtherStep, SessionExpires, UpdateAccount,
         ResetPassword, CreateCode, CodeTimesOut, CodeExpires, ExchangeToken
    <3>2. QED
      BY <1>1, <2>2, <3>1
  <2>5. QED
    BY <2>3, <2>4
<1>5. QED
  BY <1>2, <1>3, <1>4 DEF Next

-----------------------------------------------------------------------------
(* Devices and their tokens *)

DevicePart ==
    /\ code \in [Codes -> Code]
    /\ device \in [Codes -> Device]
    /\ credential \in [Credentials -> Credential]
    /\ \A r \in Requests : RequestInv(r)
    /\ LocksExclusive
    /\ \A d \in Codes : CodeInv(d) /\ ChainInv(d)

\* A handler takes a row's lock only when nobody else holds it.
LEMMA LocksFrame ==
    ASSUME LocksExclusive, NEW r \in Requests,
           \A q \in Requests : q # r => req'[q] = req[q],
           req'[r].holds => \/ req[r].holds /\ req'[r].token = req[r].token
                            \/ ~TokenLocked(r, req'[r].token)
    PROVE  LocksExclusive'
BY DEF LocksExclusive, TokenLocked

\* A handler that does not move keeps its invariant while its token's row stays.
LEMMA RequestFrame ==
    ASSUME NEW q \in Requests, RequestInv(q), req'[q] = req[q],
           \A k \in Credentials :
              credential[k].device # NULL => credential'[k].device = credential[k].device,
           req[q].pc = "rotate" =>
              credential'[req[q].token].revoked = credential[req[q].token].revoked
    PROVE  RequestInv(q)'
BY AccountsAssumption DEF RequestInv

\* Steps that leave the credentials alone: a device is activated before its
\* code can be spent.
LEMMA CredentialsFrame ==
    ASSUME AccountsInv, UNCHANGED credential,
           code' \in [Codes -> Code], device' \in [Codes -> Device],
           \A d \in Codes : CodeInv(d)',
           \A d \in Codes : device'[d] = "active" =>
              device[d] = "active" \/ code[d].status # "consumed",
           \A r \in Requests : RequestInv(r)',
           LocksExclusive'
    PROVE  DevicePart'
<1>1. ASSUME NEW d \in Codes
      PROVE  ChainInv(d)'
  <2>1. LiveOf(d)' = LiveOf(d) /\ FirstOf(d)' = FirstOf(d)
    BY DEF LiveOf, FirstOf
  <2>2. ChainInv(d) /\ CodeInv(d)
    BY DEF AccountsInv
  <2>3. CASE device[d] = "active"
    BY <2>1, <2>2, <2>3 DEF ChainInv, AtMostOne
  <2>4. CASE code[d].status # "consumed"
    <3>1. LiveOf(d) = {}
      BY <2>2, <2>4 DEF CodeInv, LiveOf
    <3>2. QED
      BY <2>1, <2>2, <3>1 DEF ChainInv, AtMostOne
  <2>5. QED
    BY <2>1, <2>2, <2>3, <2>4 DEF ChainInv, AtMostOne
<1>2. QED
  BY <1>1 DEF DevicePart, AccountsInv, TypeOK

\* Steps that leave all rows of devices alone.
LEMMA DeviceRowsFrame ==
    ASSUME AccountsInv, UNCHANGED deviceRows,
           \A r \in Requests : RequestInv(r)', LocksExclusive'
    PROVE  DevicePart'
<1>1. \A d \in Codes : CodeInv(d)'
  BY DEF AccountsInv, CodeInv, deviceRows
<1>2. QED
  BY <1>1, CredentialsFrame DEF AccountsInv, TypeOK, deviceRows

\* Steps of a browser.
LEMMA BrowserDevice ==
    ASSUME AccountsInv, NEW r \in Requests, BrowserStep(r)
    PROVE  DevicePart'
<1> USE DEF AccountsInv
<1>1. /\ \A q \in Requests : q # r => req'[q] = req[q]
      /\ ~req'[r].holds
      /\ req'[r].pc \notin {"refresh", "rotate"}
  BY BrowserHandlers DEF Handlers
<1>2. LocksExclusive'
  BY <1>1, LocksFrame
<1>3. ASSUME UNCHANGED credential
      PROVE  \A q \in Requests : RequestInv(q)'
  BY <1>1, <1>3, RequestFrame DEF RequestInv
<1>4. ASSUME NEW c \in Codes, NEW x \in {"approved", "denied"},
             code[c].status = "pending",
             code' = [code EXCEPT ![c].status = x], UNCHANGED credential,
             \/ x = "denied" /\ device' = device
             \/ x = "approved" /\ device' = [device EXCEPT ![c] = "active"]
      PROVE  DevicePart'
  <2>1. /\ code' \in [Codes -> Code] /\ code'[c].status = x
        /\ \A d \in Codes : d # c => code'[d] = code[d]
    BY <1>4 DEF TypeOK, Code
  <2>2. /\ device' \in [Codes -> Device]
        /\ \A d \in Codes : d # c => device'[d] = device[d]
        /\ x = "approved" => device'[c] = "active"
        /\ x = "denied" => device' = device
    BY <1>4 DEF TypeOK, Device
  <2>3. \A d \in Codes : CodeInv(d)'
    BY <1>4, <2>1, <2>2 DEF CodeInv
  <2>4. QED
    BY <1>2, <1>3, <1>4, <2>1, <2>2, <2>3, CredentialsFrame
<1>5. ASSUME NEW c \in Codes, ApproveRequest(r, c) \/ DenyRequest(r, c)
      PROVE  DevicePart'
  BY <1>4, <1>5 DEF ApproveRequest, DenyRequest
<1>6. CASE UNCHANGED deviceRows
  BY <1>2, <1>3, <1>6, DeviceRowsFrame DEF deviceRows
<1>7. QED
  BY <1>5, <1>6 DEF BrowserStep, LoginLookup, LoginRejected, LoginAccepted,
     LoginCommit, Authenticate, RequestEnds, Logout, SignOut, ChangeLookup,
     ChangeCommit, accountRows, deviceRows

\* refresh_token: the token that is replaced was the only one.
LEMMA RotateDevice ==
    ASSUME AccountsInv, NEW r \in Requests, RefreshRotate(r), credential' # credential
    PROVE  DevicePart'
<1> USE AccountsAssumption DEF AccountsInv
<1>1. /\ req[r].pc = "rotate" /\ Unissued # {}
      /\ credential' = Issue([credential EXCEPT ![req[r].token].revoked = TRUE],
                             req[r].device, FALSE)
      /\ UNCHANGED <<code, device>>
  BY DEF RefreshRotate
<1>2. /\ req[r].token \in Credentials /\ req[r].device \in Codes /\ req[r].holds
      /\ credential[req[r].token].device = req[r].device
      /\ ~credential[req[r].token].revoked
  BY <1>1 DEF RequestInv
<1>t. PICK t \in Credentials : t = req[r].token
  BY <1>2
<1>d. PICK d \in Codes : d = req[r].device
  BY <1>2
<1> DEFINE rows == [credential EXCEPT ![t].revoked = TRUE]
<1>3. /\ rows \in [Credentials -> Credential]
      /\ rows[t].revoked /\ rows[t].device = d /\ rows[t].first = credential[t].first
      /\ \A k \in Credentials : k # t => rows[k] = credential[k]
  <2>1. credential[t] \in Credential
    BY DEF TypeOK
  <2>2. LET x == [credential[t] EXCEPT !.revoked = TRUE] IN
        x \in Credential /\ x.revoked /\ x.device = d /\ x.first = credential[t].first
    BY <1>2, <1>t, <1>d, <2>1, Zenon DEF Credential
  <2>3. QED
    BY <2>1, <2>2 DEF TypeOK
<1>4. credential' = Issue(rows, d, FALSE)
  BY <1>1, <1>t, <1>d
<1> HIDE DEF rows
<1>i. /\ Issue(rows, d, FALSE) \in [Credentials -> Credential]
      /\ \E n \in Unissued :
            /\ Issue(rows, d, FALSE)[n] = [device |-> d, first |-> FALSE, revoked |-> FALSE]
            /\ \A k \in Credentials : k # n => Issue(rows, d, FALSE)[k] = rows[k]
  <2>1. rows \in [Credentials -> Credential] /\ Unissued # {} /\ FALSE \in BOOLEAN
    BY <1>1, <1>3
  <2>2. QED
    BY <2>1, IssueType, Zenon
<1>5. credential' \in [Credentials -> Credential]
  BY <1>4, <1>i, Zenon
<1>6. PICK n \in Unissued :
         /\ credential'[n] = [device |-> d, first |-> FALSE, revoked |-> FALSE]
         /\ \A k \in Credentials : k # n => credential'[k] = rows[k]
  BY <1>4, <1>i, Zenon
<1>7. n \in Credentials /\ credential[n].device = NULL /\ n # t
  BY <1>2, <1>t DEF Unissued
<1>8. /\ credential'[n].device = d /\ ~credential'[n].first /\ ~credential'[n].revoked
      /\ credential'[t].revoked /\ credential'[t].device = d
      /\ credential'[t].first = credential[t].first
      /\ \A k \in Credentials : k # n /\ k # t => credential'[k] = credential[k]
  BY <1>3, <1>6, <1>7
<1>9. req'[r].pc = "idle" /\ ~req'[r].holds
      /\ \A q \in Requests : q # r => req'[q] = req[q]
  BY IdleType DEF RefreshRotate, Ends, TypeOK
<1>10. LocksExclusive'
  BY <1>9, LocksFrame
<1>11. ASSUME NEW q \in Requests
       PROVE  RequestInv(q)'
  <2>1. CASE q = r
    BY <1>9, <2>1 DEF RequestInv
  <2>2. CASE q # r
    <3>1. \A k \in Credentials :
             credential[k].device # NULL => credential'[k].device = credential[k].device
      BY <1>2, <1>7, <1>8, <1>t, <1>d
    <3>2. ASSUME req[q].pc = "rotate"
          PROVE  credential'[req[q].token].revoked = credential[req[q].token].revoked
      <4>1. req[q].token # t
        BY <1>2, <1>t, <2>2, <3>2 DEF RequestInv, LocksExclusive
      <4>2. req[q].token \in Credentials /\ credential[req[q].token].device # NULL
        BY <3>2 DEF RequestInv
      <4>3. QED
        BY <1>7, <1>8, <4>1, <4>2
    <3>3. QED
      BY <1>9, <2>2, <3>1, <3>2, RequestFrame
  <2>3. QED
    BY <2>1, <2>2
<1>12. ASSUME NEW e \in Codes
       PROVE  CodeInv(e)' /\ ChainInv(e)'
  <2>1. CodeInv(e) /\ ChainInv(e)
    OBVIOUS
  <2>2. CASE e # d
    <3>1. \A k \in Credentials :
             /\ credential'[k].device = e <=> credential[k].device = e
             /\ credential[k].device = e => credential'[k] = credential[k]
      BY <1>2, <1>7, <1>8, <1>t, <1>d, <2>2
    <3>2. LiveOf(e)' = LiveOf(e) /\ FirstOf(e)' = FirstOf(e)
      BY <3>1 DEF LiveOf, FirstOf
    <3>3. QED
      BY <1>1, <2>1, <3>1, <3>2 DEF CodeInv, ChainInv, AtMostOne
  <2>3. CASE e = d
    <3>1. credential[t].device = d
      BY <1>2, <1>t, <1>d
    <3>2. code[d].status = "consumed"
      BY <2>1, <2>3, <3>1 DEF CodeInv
    <3>3. CodeInv(e)'
      BY <1>1, <2>1, <2>3, <3>2 DEF CodeInv
    <3>4. FirstOf(d)' = FirstOf(d)
      BY <1>7, <1>8, <3>1 DEF FirstOf
    <3>5. ASSUME device[d] = "active"
          PROVE  LiveOf(d)' = {n}
      <4>1. \A k \in LiveOf(d) : k = t
        <5>1. t \in LiveOf(d)
          BY <1>2, <1>t, <3>1 DEF LiveOf
        <5>2. QED
          BY <2>1, <2>3, <3>5, <5>1 DEF ChainInv, AtMostOne
      <4>2. QED
        BY <1>7, <1>8, <4>1 DEF LiveOf
    <3>6. QED
      BY <1>1, <2>1, <2>3, <3>3, <3>4, <3>5 DEF ChainInv, AtMostOne
  <2>4. QED
    BY <2>2, <2>3
<1>13. QED
  BY <1>1, <1>5, <1>10, <1>11, <1>12 DEF DevicePart, TypeOK

\* revoke_device: the sweep waits for every row it saw, so it takes no token
\* from under a rotation.
LEMMA RevokeDevice ==
    ASSUME AccountsInv, NEW r \in Requests, RevokeCommit(r)
    PROVE  DevicePart'
<1> USE AccountsAssumption DEF AccountsInv
<1>1. /\ req[r].pc = "sweep" /\ credential' = Swept(r) /\ UNCHANGED code
      /\ device' = [device EXCEPT ![req[r].device] = "revoked"]
      /\ \A k \in req[r].seen : ~TokenLocked(r, k)
  BY DEF RevokeCommit
<1>2. ASSUME NEW k \in Credentials
      PROVE  /\ credential'[k] \in Credential
             /\ credential'[k].device = credential[k].device
             /\ credential'[k].first = credential[k].first
             /\ credential[k].revoked => credential'[k].revoked
             /\ k \notin req[r].seen => credential'[k] = credential[k]
  <2>1. credential[k] \in Credential
    BY DEF TypeOK
  <2>2. credential'[k] = IF k \in req[r].seen
                         THEN [credential[k] EXCEPT !.revoked = TRUE] ELSE credential[k]
    BY <1>1 DEF Swept
  <2>3. LET x == [credential[k] EXCEPT !.revoked = TRUE] IN
        /\ x \in Credential /\ x.revoked
        /\ x.device = credential[k].device /\ x.first = credential[k].first
    BY <2>1, Zenon DEF Credential
  <2>4. QED
    BY <2>1, <2>2, <2>3
<1>3. credential' \in [Credentials -> Credential]
  BY <1>1, <1>2 DEF Swept
<1>4. device' \in [Codes -> Device]
      /\ \A d \in Codes : device'[d] # device[d] => device'[d] = "revoked"
  BY <1>1 DEF TypeOK, Device
<1>5. req'[r].pc = "idle" /\ ~req'[r].holds
      /\ \A q \in Requests : q # r => req'[q] = req[q]
  BY IdleType DEF RevokeCommit, Ends, TypeOK
<1>6. LocksExclusive'
  BY <1>5, LocksFrame
<1>7. ASSUME NEW q \in Requests
      PROVE  RequestInv(q)'
  <2>1. CASE q = r
    BY <1>5, <2>1 DEF RequestInv
  <2>2. CASE q # r
    <3>1. ASSUME req[q].pc = "rotate"
          PROVE  credential'[req[q].token].revoked = credential[req[q].token].revoked
      <4>1. req[q].token \in Credentials /\ req[q].holds
        BY <3>1 DEF RequestInv
      <4>2. req[q].token \notin req[r].seen
        BY <1>1, <2>2, <4>1 DEF TokenLocked
      <4>3. QED
        BY <1>2, <4>1, <4>2
    <3>2. QED
      BY <1>2, <1>5, <2>2, <3>1, RequestFrame
  <2>3. QED
    BY <2>1, <2>2
<1>8. ASSUME NEW e \in Codes
      PROVE  CodeInv(e)' /\ ChainInv(e)'
  <2>1. CodeInv(e) /\ ChainInv(e)
    OBVIOUS
  <2>2. LiveOf(e)' \subseteq LiveOf(e) /\ FirstOf(e)' \subseteq FirstOf(e)
    BY <1>2 DEF LiveOf, FirstOf
  <2>3. device'[e] = "active" => device[e] = "active"
    BY <1>4
  <2>4. CodeInv(e)'
    BY <1>1, <1>2, <1>4, <2>1 DEF CodeInv
  <2>5. ChainInv(e)'
    BY <2>1, <2>2, <2>3 DEF ChainInv, AtMostOne
  <2>6. QED
    BY <2>4, <2>5
<1>9. QED
  BY <1>1, <1>3, <1>4, <1>6, <1>7, <1>8 DEF DevicePart, TypeOK

\* Steps of a device.
LEMMA DeviceDevice ==
    ASSUME AccountsInv, NEW r \in Requests, DeviceStep(r)
    PROVE  DevicePart'
<1> USE DEF AccountsInv
<1>1. /\ Handlers(r)
      /\ req'[r].holds => \/ req[r].holds /\ req'[r].token = req[r].token
                          \/ ~TokenLocked(r, req'[r].token)
      /\ req'[r].pc \in {"refresh", "rotate"} =>
            /\ req'[r].token \in Credentials
            /\ req'[r].device \in Codes
            /\ credential[req'[r].token].device = req'[r].device
      /\ req'[r].pc = "rotate" => req'[r].holds /\ ~credential[req'[r].token].revoked
  BY DeviceHandlers
<1>2. LocksExclusive'
  BY <1>1, LocksFrame DEF Handlers
<1>3. CASE UNCHANGED deviceRows
  <2>1. credential' = credential
    BY <1>3 DEF deviceRows
  <2>2. RequestInv(r)'
    BY <1>1, <2>1 DEF RequestInv
  <2>3. \A q \in Requests : q # r => RequestInv(q)'
    BY <1>1, <2>1, RequestFrame DEF Handlers
  <2>4. QED
    BY <1>2, <1>3, <2>2, <2>3, DeviceRowsFrame
<1>4. CASE RefreshRotate(r)
  BY <1>3, <1>4, RotateDevice DEF RefreshRotate, deviceRows
<1>5. CASE RevokeCommit(r)
  BY <1>5, RevokeDevice
<1>6. QED
  BY <1>3, <1>4, <1>5 DEF DeviceStep, RefreshLookup, AuthenticateDevice, RefreshLock,
     RevokeStart, RevokeDeviceRow, SweepCredentials, RevokeFails, accountRows,
     deviceRows

\* exchange_token: an approved code has no tokens yet, a spent one is never
\* approved again.
LEMMA ExchangeDevice ==
    ASSUME AccountsInv, NEW c \in Codes, ExchangeToken(c)
    PROVE  DevicePart'
<1> USE AccountsAssumption DEF AccountsInv
<1>1. /\ code[c].status = "approved" /\ Unissued # {}
      /\ credential' = Issue(credential, c, TRUE)
      /\ code' = [code EXCEPT ![c].status = "consumed"]
      /\ UNCHANGED <<device, req>>
  BY DEF ExchangeToken
<1>i. /\ Issue(credential, c, TRUE) \in [Credentials -> Credential]
      /\ \E n \in Unissued :
            /\ Issue(credential, c, TRUE)[n] =
                  [device |-> c, first |-> TRUE, revoked |-> FALSE]
            /\ \A k \in Credentials : k # n => Issue(credential, c, TRUE)[k] = credential[k]
  <2>1. credential \in [Credentials -> Credential] /\ Unissued # {} /\ TRUE \in BOOLEAN
    BY <1>1 DEF TypeOK
  <2>2. QED
    BY <2>1, IssueType, Zenon
<1>2. PICK n \in Unissued :
         /\ credential'[n] = [device |-> c, first |-> TRUE, revoked |-> FALSE]
         /\ \A k \in Credentials : k # n => credential'[k] = credential[k]
  BY <1>1, <1>i, Zenon
<1>3. n \in Credentials /\ credential[n].device = NULL /\ credential'[n].device = c
  BY <1>2 DEF Unissued
<1>4. /\ code' \in [Codes -> Code] /\ code'[c].status = "consumed"
      /\ \A d \in Codes : d # c => code'[d] = code[d]
  BY <1>1 DEF TypeOK, Code
<1>5. LocksExclusive'
  BY <1>1 DEF LocksExclusive
<1>6. ASSUME NEW q \in Requests
      PROVE  RequestInv(q)'
  <2>1. req[q].pc = "rotate" =>
           credential'[req[q].token].revoked = credential[req[q].token].revoked
    BY <1>2, <1>3 DEF RequestInv
  <2>2. QED
    BY <1>1, <1>2, <1>3, <2>1, RequestFrame
<1>7. ASSUME NEW e \in Codes
      PROVE  CodeInv(e)' /\ ChainInv(e)'
  <2>1. CodeInv(e) /\ ChainInv(e) /\ CodeInv(c)
    OBVIOUS
  <2>2. CASE e # c
    <3>1. LiveOf(e)' = LiveOf(e) /\ FirstOf(e)' = FirstOf(e)
      BY <1>2, <1>3, <2>2 DEF LiveOf, FirstOf
    <3>2. QED
      <4>1. CodeInv(e)'
        <5>1. \A k \in Credentials : credential'[k].device = e => credential[k].device = e
          BY <1>2, <1>3, <2>2
        <5>2. code'[e] = code[e] /\ device'[e] = device[e]
          BY <1>1, <1>4, <2>2
        <5>3. QED
          BY <2>1, <5>1, <5>2 DEF CodeInv
      <4>2. ChainInv(e)'
        BY <1>1, <2>1, <3>1 DEF ChainInv, AtMostOne
      <4>3. QED
        BY <4>1, <4>2
  <2>3. CASE e = c
    <3>1. \A k \in Credentials : credential[k].device # c
      BY <1>1, <2>1 DEF CodeInv
    <3>2. LiveOf(c)' \subseteq {n} /\ FirstOf(c)' \subseteq {n}
      BY <1>2, <3>1 DEF LiveOf, FirstOf
    <3>3. QED
      BY <1>1, <1>4, <2>1, <2>3, <3>2 DEF CodeInv, ChainInv, AtMostOne
  <2>4. QED
    BY <2>2, <2>3
<1>8. credential' \in [Credentials -> Credential]
  BY <1>1, <1>i, Zenon
<1>9. QED
  BY <1>1, <1>4, <1>5, <1>6, <1>7, <1>8 DEF DevicePart, TypeOK

\* The owner, the clock and the codes.
LEMMA OtherDevice ==
    ASSUME AccountsInv, OtherStep
    PROVE  DevicePart'
<1> USE DEF AccountsInv
<1>1. ASSUME req' = req, UNCHANGED credential
      PROVE  (\A r \in Requests : RequestInv(r)') /\ LocksExclusive'
  BY <1>1 DEF RequestInv, LocksExclusive
<1>2. CASE \/ FailureAgesOut \/ ResetPassword
           \/ \E s \in Sessions : SessionExpires(s)
           \/ \E disabled \in BOOLEAN : UpdateAccount(disabled)
  BY <1>1, <1>2, DeviceRowsFrame DEF FailureAgesOut, ResetPassword, SessionExpires,
     UpdateAccount, accountRows, deviceRows
<1>3. ASSUME NEW c \in Codes, CreateCode(c) \/ CodeTimesOut(c) \/ CodeExpires(c)
      PROVE  DevicePart'
  <2>1. UNCHANGED <<device, credential, req>>
    BY <1>3 DEF CreateCode, CodeTimesOut, CodeExpires
  <2>2. code' \in [Codes -> Code] /\ \A d \in Codes :
           \/ code'[d].status = code[d].status
           \/ code[d].status \in {"none", "pending"} /\ code'[d].status \in {"pending", "expired"}
    <3>1. \A d \in Codes : code[d] \in Code
      BY DEF TypeOK
    <3>2. CASE CreateCode(c)
      BY <3>1, <3>2 DEF CreateCode, Code
    <3>3. CASE CodeTimesOut(c)
      BY <3>1, <3>3 DEF CodeTimesOut, Code, TypeOK
    <3>4. CASE CodeExpires(c)
      BY <3>1, <3>4 DEF CodeExpires, Code, TypeOK
    <3>5. QED
      BY <1>3, <3>2, <3>3, <3>4
  <2>3. \A d \in Codes : CodeInv(d)'
    BY <2>1, <2>2 DEF CodeInv
  <2>4. QED
    BY <1>1, <2>1, <2>2, <2>3, CredentialsFrame DEF TypeOK
<1>4. QED
  BY <1>2, <1>3, ExchangeDevice, <1>2 DEF OtherStep

-----------------------------------------------------------------------------
(* Theorems *)

\* A new account has no session, no device and no failure.
LEMMA InitInv == Init => AccountsInv
<1> SUFFICES ASSUME Init PROVE AccountsInv
  OBVIOUS
<1> USE AccountsAssumption
<1>1. TypeOK
  <2>1. 1 \in Passwords
    BY DEF Passwords
  <2>2. account \in Account
    BY <2>1 DEF Init, Account
  <2>3. /\ [state |-> "none", proof |-> NULL] \in Session
        /\ [status |-> "none", late |-> FALSE] \in Code
        /\ [device |-> NULL, first |-> FALSE, revoked |-> FALSE] \in Credential
        /\ "none" \in Device
    BY Zenon DEF Session, Code, Credential, Device
  <2>4. QED
    BY <2>2, <2>3, IdleType DEF Init, TypeOK
<1>2. \A r \in Requests : req[r].pc = "idle" /\ ~req[r].holds
  BY IdleType DEF Init
<1>3. (\A r \in Requests : RequestInv(r)) /\ LocksExclusive
  BY <1>2 DEF RequestInv, LocksExclusive
<1>4. \A k \in Credentials : credential[k].device = NULL
  BY DEF Init
<1>5. \A d \in Codes : CodeInv(d) /\ ChainInv(d)
  <2>1. \A d \in Codes : code[d].status = "none" /\ device[d] = "none"
    BY DEF Init
  <2>2. QED
    BY <1>4, <2>1 DEF CodeInv, ChainInv, FirstOf, AtMostOne
<1>6. SessionsCurrent
  BY DEF Init, SessionsCurrent
<1>7. LimiterInv
  BY VerifyingType DEF Init, LimiterInv
<1>8. QED
  BY <1>1, <1>3, <1>5, <1>6, <1>7 DEF AccountsInv

\* Every step of a handler, of the owner or of the clock keeps the invariant.
LEMMA NextInv == ASSUME AccountsInv, Next PROVE AccountsInv'
<1>1. SessionPart' /\ failed' \in Nat /\ LimiterInv'
  BY SessionStep, LimiterStep
<1>2. DevicePart'
  BY BrowserDevice, DeviceDevice, OtherDevice DEF Next
<1>3. /\ req' \in [Requests -> Request]
      /\ \A q \in Requests : req'[q].holds => req'[q].pc \in InTransaction
  <2>1. CASE OtherStep
    <3>1. req' = req
      BY <2>1 DEF OtherStep, FailureAgesOut, SessionExpires, UpdateAccount,
         ResetPassword, CreateCode, CodeTimesOut, CodeExpires, ExchangeToken
    <3>2. QED
      BY <3>1 DEF AccountsInv, TypeOK, InTransaction
  <2>2. ASSUME NEW r \in Requests, BrowserStep(r) \/ DeviceStep(r)
        PROVE  Handlers(r)
    BY <2>2, BrowserHandlers, DeviceHandlers DEF AccountsInv
  <2>3. QED
    BY <2>1, <2>2 DEF Next, Handlers
<1>4. TypeOK'
  BY <1>1, <1>2, <1>3 DEF TypeOK, SessionPart, DevicePart, InTransaction
<1>5. QED
  BY <1>1, <1>2, <1>4 DEF AccountsInv, SessionPart, DevicePart

\* A step that changes nothing keeps the invariant.
LEMMA StutterInv == ASSUME AccountsInv, UNCHANGED vars PROVE AccountsInv'
<1> USE DEF vars
<1>1. UNCHANGED <<account, failed, session, code, device, credential, req>>
  OBVIOUS
<1>2. TypeOK' /\ SessionsCurrent'
  BY <1>1 DEF AccountsInv, TypeOK, SessionsCurrent
<1>3. (\A r \in Requests : RequestInv(r)') /\ LocksExclusive'
  BY <1>1 DEF AccountsInv, RequestInv, LocksExclusive
<1>4. \A d \in Codes : CodeInv(d)' /\ ChainInv(d)'
  BY <1>1 DEF AccountsInv, CodeInv, ChainInv, LiveOf, FirstOf
<1>5. LimiterInv'
  BY <1>1 DEF AccountsInv, LimiterInv, Verifying
<1>6. QED
  BY <1>2, <1>3, <1>4, <1>5 DEF AccountsInv

\* A set with at most one element has at most one element.
LEMMA CardinalityOne ==
    ASSUME NEW S, AtMostOne(S)
    PROVE  Cardinality(S) <= 1
<1>1. CASE S = {}
  BY <1>1, FS_EmptySet
<1>2. ASSUME NEW x \in S
      PROVE  Cardinality(S) <= 1
  <2>1. S = {x}
    BY <1>2 DEF AtMostOne
  <2>2. QED
    <3>1. Cardinality({x}) = 1
      BY FS_Singleton, Zenon
    <3>2. QED
      BY <2>1, <3>1
<1>3. QED
  BY <1>1, <1>2

\* AccountsInv holds whatever handlers run at once.
THEOREM AccountsInvariant == Spec => []AccountsInv
<1>1. AccountsInv /\ [Next]_vars => AccountsInv'
  BY NextInv, StutterInv
<1>2. QED
  BY <1>1, InitInv, PTL DEF Spec

\* The rows of accounts, sessions and devices keep their types; a row lock
\* belongs to a handler in a transaction.
THEOREM AccountsTypes == Spec => []TypeOK
<1>1. AccountsInv => TypeOK
  BY DEF AccountsInv
<1>2. QED
  BY <1>1, AccountsInvariant, PTL

\* A good session stands on the current password of an enabled account,
\* whatever sign-ins, changes and resets interleave.
THEOREM SessionsStayCurrent == Spec => []SessionsCurrent
<1>1. AccountsInv => SessionsCurrent
  BY DEF AccountsInv
<1>2. QED
  BY <1>1, AccountsInvariant, PTL

\* The chain of a device's refresh tokens never forks, however many refreshes
\* present its tokens at once.
THEOREM TokenChainHolds == Spec => []OneLiveCredential
<1>1. AccountsInv => OneLiveCredential
  BY CardinalityOne DEF AccountsInv, ChainInv, OneLiveCredential, LiveOf
<1>2. QED
  BY <1>1, AccountsInvariant, PTL

\* A device code yields tokens once, after its approval.
THEOREM CodesAreSpentOnce == Spec => []CodeSpentOnce
<1>1. AccountsInv => CodeSpentOnce
  <2> SUFFICES ASSUME AccountsInv, NEW d \in Codes
               PROVE  /\ Cardinality({k \in Credentials :
                             credential[k].device = d /\ credential[k].first}) <= 1
                      /\ (\E k \in Credentials : credential[k].device = d) =>
                            code[d].status = "consumed" /\ device[d] # "none"
    BY DEF CodeSpentOnce
  <2>1. CodeInv(d) /\ ChainInv(d)
    BY DEF AccountsInv
  <2>2. Cardinality(FirstOf(d)) <= 1
    BY <2>1, CardinalityOne DEF ChainInv
  <2>3. QED
    BY <2>1, <2>2 DEF CodeInv, FirstOf
<1>2. QED
  BY <1>1, AccountsInvariant, PTL

\* Sign-ins verified at once pass the limiter's limit by less than their number.
THEOREM SignInLimitHolds == Spec => []SignInsBounded
<1>1. AccountsInv => SignInsBounded
  BY VerifyingType, AccountsAssumption DEF AccountsInv, TypeOK, LimiterInv, SignInsBounded
<1>2. QED
  BY <1>1, AccountsInvariant, PTL
=============================================================================
