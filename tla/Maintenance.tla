---------------------------- MODULE Maintenance -----------------------------
(***************************************************************************)
(* What removes things: cancel_upload (transfers.rs), the hourly worker    *)
(* and the permanent deletion of trash (maintenance.rs).  Each one commits *)
(* a transaction that marks rows, then walks over what it marked: unlink   *)
(* a file, then record it.  A sweeper is one such run; the worker and any  *)
(* number of requests run at the same time.                                *)
(***************************************************************************)
EXTENDS DriveStore

\* Take x off the list; the run ends with an empty list.
Dropped(w, x) ==
    LET rest == sweep[w].todo \ {x}
    IN IF rest = {} THEN IdleSweeper ELSE [sweep[w] EXCEPT !.todo = rest]

\* The file of x is unlinked; its row comes next.
Unlinked(w, x) ==
    [pc |-> sweep[w].pc, todo |-> sweep[w].todo \ {x}, doing |-> x]

\* The row of doing is dealt with.
Recorded(w) ==
    IF sweep[w].todo = {} THEN IdleSweeper ELSE [sweep[w] EXCEPT !.doing = NULL]

Begun(pc, ids) ==
    IF ids = {} THEN IdleSweeper ELSE [pc |-> pc, todo |-> ids, doing |-> NULL]

-----------------------------------------------------------------------------
(* Staging files *)

\* cancel_upload refuses a completed and a finalizing session.
CancelStates == {"active", "expired", "failed"}

\* cancel_upload's transaction; it waits for a PATCH to release the row.
CancelUpload(w, u) ==
    /\ sweep[w].pc = "idle"
    /\ ~Locked(u)
    /\ sess[u].state \in CancelStates
    /\ sess' = [sess EXCEPT ![u].state =
                  IF @ = "active" THEN "expired" ELSE @]
    /\ sweep' = [sweep EXCEPT ![w] = Begun("cancel", {u})]
    /\ UNCHANGED <<obj, file, ver, clock, disk, patch, fin, clone, acked>>

\* Fault: a finalizing session expires too.
ExpirableFinalizing(u) ==
    /\ ~sess[u].cleaned
    /\ ~Locked(u)
    /\ \/ sess[u].state \in {"active", "finalizing"} /\ sess[u].past
       \/ sess[u].state \in {"expired", "failed"}

\* Fault: a session that is already expired is not looked at again.
ExpirableOnce(u) ==
    ~sess[u].cleaned /\ ~Locked(u) /\ sess[u].state = "active" /\ sess[u].past

\* The rows clean_expired_uploads may select; FOR UPDATE SKIP LOCKED passes over
\* a session a PATCH has locked.
Expirable(u) ==
    /\ ~sess[u].cleaned
    /\ ~Locked(u)
    /\ \/ sess[u].state = "active" /\ sess[u].past
       \/ sess[u].state \in {"expired", "failed"}

\* clean_expired_uploads' transaction; LIMIT and SKIP LOCKED pick a subset.
CleanExpired(w) ==
    /\ sweep[w].pc = "idle"
    /\ \E picked \in SUBSET {u \in Uploads : Expirable(u)} \ {{}} :
         /\ sess' = [u \in Uploads |->
                       IF u \in picked /\ sess[u].state = "active"
                       THEN [sess[u] EXCEPT !.state = "expired"] ELSE sess[u]]
         /\ sweep' = [sweep EXCEPT ![w] = Begun("staging", picked)]
    /\ UNCHANGED <<obj, file, ver, clock, disk, patch, fin, clone, acked>>

\* remove_staging_file; a missing file counts as removed.
UnlinkStaging(w) ==
    /\ sweep[w].pc \in {"cancel", "staging"}
    /\ sweep[w].doing = NULL
    /\ \E u \in sweep[w].todo :
         /\ staging' = [staging EXCEPT ![u] = NULL]
         /\ sweep' = [sweep EXCEPT ![w] = Unlinked(w, u)]
    /\ UNCHANGED <<rows, payload, patch, fin, clone, acked>>

\* UPDATE upload_sessions SET staging_cleaned_at: cancel_upload records only an
\* expired session, the worker a failed one too.  The row may be gone.
RecordCleaned(w) ==
    LET u == sweep[w].doing
        eligible == IF sweep[w].pc = "cancel" THEN {"expired"}
                    ELSE {"expired", "failed"}
    IN /\ sweep[w].pc \in {"cancel", "staging"}
       /\ u # NULL
       /\ sess' = IF sess[u].state \in eligible
                  THEN [sess EXCEPT ![u].cleaned = TRUE] ELSE sess
       /\ sweep' = [sweep EXCEPT ![w] = Recorded(w)]
       /\ UNCHANGED <<obj, file, ver, clock, disk, patch, fin, clone, acked>>

-----------------------------------------------------------------------------
(* Trash *)

ObjectsOf(f) == {ver[v].object : v \in VersionsOf(f)}

\* purge_expired_trash: one root and its rows; the payloads are left to
\* remove_unreferenced_objects.
PurgeExpired(f) ==
    /\ InTrash(f)
    /\ ~CascadeBlocked(f)
    /\ DeleteFileRows(f, sess)
    /\ UNCHANGED <<obj, clock, disk, patch, fin, sweep, clone, acked>>

\* purge_one_trash_root's transaction: "Delete forever" and "Empty trash".
PurgeRoot(w, f) ==
    /\ sweep[w].pc = "idle"
    /\ InTrash(f)
    /\ ~CascadeBlocked(f)
    /\ DeleteFileRows(f, sess)
    /\ sweep' = [sweep EXCEPT ![w] = Begun("mark", ObjectsOf(f))]
    /\ UNCHANGED <<obj, clock, disk, patch, fin, clone, acked>>

-----------------------------------------------------------------------------
(* Storage objects *)

\* Fault: payloads are unlinked without marking their rows first.
MarkNothing(ids) == UNCHANGED obj

\* Fault: a state the column's CHECK does not list.
MarkDeleted(ids) ==
    obj' = [o \in Uploads |->
              IF o \in ids THEN [obj[o] EXCEPT !.state = "deleted"] ELSE obj[o]]

MarkDeleting(ids) ==
    obj' = [o \in Uploads |->
              IF o \in ids THEN [obj[o] EXCEPT !.state = "deleting"] ELSE obj[o]]

\* Fault: versions are not looked at.
CollectableShared(o) == obj[o].state # "none" /\ sess[o].state # "finalizing"

\* Fault: an object left deleting by a failed pass is not looked at again.
CollectableOnce(o) == obj[o].state \in {"pending", "ready"} /\ Unreferenced(o)

Collectable(o) == obj[o].state # "none" /\ Unreferenced(o)

\* delete_unreferenced_objects marks what it can of the purged file's objects.
MarkPurged(w) ==
    LET ids == {o \in sweep[w].todo : Collectable(o)}
    IN /\ sweep[w].pc = "mark"
       /\ MarkDeleting(ids)
       /\ sweep' = [sweep EXCEPT ![w] = Begun("erase", ids)]
       /\ UNCHANGED <<sess, file, ver, clock, disk, patch, fin, clone, acked>>

\* remove_unreferenced_objects: LIMIT, SKIP LOCKED and the age of an object that
\* is not yet deleting pick a subset.
MarkUnreferenced(w) ==
    /\ sweep[w].pc = "idle"
    /\ \E ids \in SUBSET {o \in Uploads : Collectable(o)} \ {{}} :
         /\ MarkDeleting(ids)
         /\ sweep' = [sweep EXCEPT ![w] = Begun("objects", ids)]
    /\ UNCHANGED <<sess, file, ver, clock, disk, patch, fin, clone, acked>>

\* remove_object; a missing payload counts as removed.
RemovePayload(w) ==
    /\ sweep[w].pc \in {"erase", "objects"}
    /\ sweep[w].doing = NULL
    /\ \E o \in sweep[w].todo :
         /\ payload' = [payload EXCEPT ![o] = NULL]
         /\ sweep' = [sweep EXCEPT ![w] = Unlinked(w, o)]
    /\ UNCHANGED <<rows, staging, patch, fin, clone, acked>>

\* The condition of DELETE FROM storage_objects: the request's statement looks
\* at versions only, the worker's at finalizing sessions too.
RowDeletable(w, o) ==
    /\ obj[o].state = "deleting"
    /\ ~HasVersion(o)
    /\ sweep[w].pc = "objects" => sess[o].state # "finalizing"

DeleteObjectRow(w) ==
    LET o == sweep[w].doing
    IN /\ sweep[w].pc \in {"erase", "objects"}
       /\ o # NULL
       /\ obj' = IF RowDeletable(w, o)
                 THEN [obj EXCEPT ![o] = [state |-> "none", sum |-> NULL]]
                 ELSE obj
       /\ sweep' = [sweep EXCEPT ![w] = Recorded(w)]
       /\ UNCHANGED <<sess, file, ver, clock, disk, patch, fin, clone, acked>>

\* Fault: a failed unlink is recorded like a successful one.
SkipUnlinkRecorded(w) ==
    /\ sweep[w].pc \in {"staging", "objects"}
    /\ sweep[w].doing = NULL
    /\ \E x \in sweep[w].todo :
         sweep' = [sweep EXCEPT ![w] = Unlinked(w, x)]
    /\ UNCHANGED <<rows, disk, patch, fin, clone, acked>>

\* The worker logs a failed unlink and goes on with the next row.
SkipUnlink(w) ==
    /\ sweep[w].pc \in {"staging", "objects"}
    /\ sweep[w].doing = NULL
    /\ \E x \in sweep[w].todo : sweep' = [sweep EXCEPT ![w] = Dropped(w, x)]
    /\ UNCHANGED <<rows, disk, patch, fin, clone, acked>>

\* A failed unlink in a request, a database error, a crash.
SweepFail(w) ==
    /\ sweep[w].pc # "idle"
    /\ sweep' = [sweep EXCEPT ![w] = IdleSweeper]
    /\ UNCHANGED <<rows, disk, patch, fin, clone, acked>>

-----------------------------------------------------------------------------
SweepStep(w) ==
    \/ \E u \in Uploads : CancelUpload(w, u)
    \/ CleanExpired(w)
    \/ UnlinkStaging(w)
    \/ RecordCleaned(w)
    \/ \E f \in Minted : PurgeRoot(w, f)
    \/ MarkPurged(w)
    \/ MarkUnreferenced(w)
    \/ RemovePayload(w)
    \/ DeleteObjectRow(w)
    \/ SkipUnlink(w)
    \/ SweepFail(w)
=============================================================================
