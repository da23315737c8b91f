----------------------------- MODULE Transfers ------------------------------
(***************************************************************************)
(* The resumable upload API of transfers.rs: create, PATCH, finalize (with *)
(* its checksum rejection) and session expiry.                             *)
(*                                                                         *)
(* A crash of the server is every running handler failing, so each handler *)
(* has a Fail action that may happen between any two of its steps.         *)
(***************************************************************************)
EXTENDS DriveStore

-----------------------------------------------------------------------------
(* create_upload *)

\* The checks pass and create_staging_file returns; the INSERT is not committed.
\* r is the file to replace (load_replace_target) or NULL.
CreateStage(u, n, r) ==
    /\ sess[u].state = "none"
    /\ r # NULL => Live(r)
    /\ sess' = [sess EXCEPT ![u].state = "staged", ![u].expected = n,
                            ![u].replace = r]
    /\ staging' = [staging EXCEPT ![u] = <<>>]
    /\ UNCHANGED <<obj, file, ver, clock, payload, patch, fin, sweep, clone,
                   acked>>

\* INSERT INTO upload_sessions commits: replace_file_id must still reference a
\* file.
CreateCommit(u) ==
    /\ sess[u].state = "staged"
    /\ sess[u].replace # NULL => file[sess[u].replace].state # "none"
    /\ sess' = [sess EXCEPT ![u].state = "active"]
    /\ UNCHANGED <<obj, file, ver, clock, disk, patch, fin, sweep, clone, acked>>

\* A failed INSERT removes the staging file; a failed commit or a crash leaves
\* it, and no row names it.
CreateFail(u) ==
    /\ sess[u].state = "staged"
    /\ sess' = [sess EXCEPT ![u] = [NoSession EXCEPT !.state = "lost"]]
    /\ staging' \in {staging, [staging EXCEPT ![u] = NULL]}
    /\ UNCHANGED <<obj, file, ver, clock, payload, patch, fin, sweep, clone,
                   acked>>

\* expires_at passes.
SessionTimesOut(u) ==
    /\ sess[u].state \in {"active", "finalizing"}
    /\ ~sess[u].past
    /\ sess' = [sess EXCEPT ![u].past = TRUE]
    /\ UNCHANGED <<obj, file, ver, clock, disk, patch, fin, sweep, clone, acked>>

-----------------------------------------------------------------------------
(* patch_upload: the row lock of the session is held from PatchOpen to       *)
(* PatchCommit or PatchFail.                                                 *)

\* require_active
UsableSession(u) == sess[u].state = "active" /\ ~sess[u].past

\* file.set_len(current_offset)
Truncated(u) == SubSeq(staging[u], 1, sess[u].received)

\* max_bytes
PatchLimit(u) ==
    LET left == sess[u].expected - sess[u].received
    IN IF left <= MaxPatch THEN left ELSE MaxPatch

\* Fault: the offset is what this request appended.
NewOffsetRelative(u) == Len(patch[u])

\* new_offset
NewOffset(u) == sess[u].received + Len(patch[u])

\* A client that sends another offset gets the current one back and no more.
PatchOpen(u) ==
    /\ ~Locked(u)
    /\ UsableSession(u)
    /\ sess[u].received < sess[u].expected
    /\ staging[u] # NULL
    /\ Len(staging[u]) >= sess[u].received
    /\ patch' = [patch EXCEPT ![u] = <<>>]
    /\ staging' = [staging EXCEPT ![u] = Truncated(u)]
    /\ UNCHANGED <<rows, payload, fin, sweep, clone, acked>>

\* write_patch_body writes one more byte, at the end of the truncated file.
PatchWrite(u, d) ==
    /\ Locked(u)
    /\ Len(patch[u]) < PatchLimit(u)
    /\ patch' = [patch EXCEPT ![u] = Append(@, d)]
    /\ staging' = [staging EXCEPT ![u] = Append(@, d)]
    /\ UNCHANGED <<rows, payload, fin, sweep, clone, acked>>

\* The body ended, sync_data and the commit succeeded.
PatchCommit(u) ==
    /\ Locked(u)
    /\ patch[u] # <<>>
    /\ sess' = [sess EXCEPT ![u].received = NewOffset(u)]
    /\ acked' = [acked EXCEPT ![u] = @ \o patch[u]]
    /\ patch' = [patch EXCEPT ![u] = NULL]
    /\ UNCHANGED <<obj, file, ver, clock, disk, fin, sweep, clone>>

\* A body that is empty, too long or cut off, a full disk, a failed sync or
\* commit, a crash: set_len may have run or not.
PatchFail(u) ==
    /\ Locked(u)
    /\ staging' \in {staging, [staging EXCEPT ![u] = Truncated(u)]}
    /\ patch' = [patch EXCEPT ![u] = NULL]
    /\ UNCHANGED <<rows, payload, fin, sweep, clone, acked>>

-----------------------------------------------------------------------------
(* finalize_upload *)

GoTo(f, pc) == fin' = [fin EXCEPT ![f].pc = pc]

\* confirm_replace_locked, for an upload that replaces a file
ReplaceConfirmed(u) ==
    sess[u].replace # NULL => Live(sess[u].replace)

\* The first transaction: the pending object, the version and (unless the
\* upload replaces a file) the file are inserted before anything moves.
FinalizeBegin(f, u) ==
    LET target == IF sess[u].replace = NULL THEN u ELSE sess[u].replace
    IN /\ fin[f].pc = "idle"
       /\ ~Locked(u)
       /\ UsableSession(u)
       /\ sess[u].received = sess[u].expected
       /\ ReplaceConfirmed(u)
       /\ obj' = [obj EXCEPT ![u] = [state |-> "pending", sum |-> NULL]]
       /\ AddVersion(u, target, u)
       /\ sess' = [sess EXCEPT ![u].state = "finalizing", ![u].final = target]
       /\ fin' = [fin EXCEPT ![f] = [pc |-> "reload", upload |-> u, sum |-> NULL]]
       /\ UNCHANGED <<disk, patch, sweep, clone, acked>>

\* A retry, or a second request: the session is already finalizing.
FinalizeResume(f, u) ==
    /\ fin[f].pc = "idle"
    /\ sess[u].state = "finalizing"
    /\ fin' = [fin EXCEPT ![f] = [pc |-> "lookup", upload |-> u, sum |-> NULL]]
    /\ UNCHANGED <<rows, disk, patch, sweep, clone, acked>>

\* The handler that began reads final_file_id and storage_object_id back.
FinalizeReload(f) ==
    /\ fin[f].pc = "reload"
    /\ sess[fin[f].upload].final # NULL
    /\ GoTo(f, "lookup")
    /\ UNCHANGED <<rows, disk, patch, sweep, clone, acked>>

\* The folder the upload goes to, or one above it, is put in the trash or taken
\* back: trash_owned_entry and restore_entry.  Only a finalizer looks.
TargetToggles(u) ==
    /\ sess[u].state = "finalizing"
    /\ sess' = [sess EXCEPT ![u].shut = ~@]
    /\ UNCHANGED <<obj, file, ver, clock, disk, patch, fin, sweep, clone, acked>>

\* ensure_active_entry of target_parent_id, and the object's row.
FinalizeLookup(f) ==
    /\ fin[f].pc = "lookup"
    /\ ~sess[fin[f].upload].shut
    /\ obj[fin[f].upload].state # "none"
    /\ GoTo(f, "source")
    /\ UNCHANGED <<rows, disk, patch, sweep, clone, acked>>

\* promote_staging_file looks at the source path and then at the destination.
FinalizeSource(f) ==
    /\ fin[f].pc = "source"
    /\ GoTo(f, IF staging[fin[f].upload] # NULL THEN "destination" ELSE "moved")
    /\ UNCHANGED <<rows, disk, patch, sweep, clone, acked>>

\* Fault: a payload that is already in place is an error.
FinalizeMovedFails(f) ==
    /\ fin[f].pc = "moved"
    /\ payload[fin[f].upload] = NULL
    /\ GoTo(f, "source")
    /\ UNCHANGED <<rows, disk, patch, sweep, clone, acked>>

\* No source: the payload is already in place, or both paths are looked at again
\* (up to 25 times, then NotFound: FinalizeFail).
FinalizeMoved(f) ==
    /\ fin[f].pc = "moved"
    /\ GoTo(f, IF payload[fin[f].upload] # NULL THEN "hash" ELSE "source")
    /\ UNCHANGED <<rows, disk, patch, sweep, clone, acked>>

\* A source, and no destination: rename.  Both: ObjectCollision.
FinalizeDestination(f) ==
    /\ fin[f].pc = "destination"
    /\ GoTo(f, IF payload[fin[f].upload] = NULL THEN "rename" ELSE "collision")
    /\ UNCHANGED <<rows, disk, patch, sweep, clone, acked>>

\* Fault: the file is copied to its destination.
RenameByCopy(u) ==
    /\ payload' = [payload EXCEPT ![u] = staging[u]]
    /\ UNCHANGED staging

\* The atomic rename
Rename(u) ==
    /\ payload' = [payload EXCEPT ![u] = staging[u]]
    /\ staging' = [staging EXCEPT ![u] = NULL]

\* When another finalizer did the same rename first, go on.
FinalizeRename(f) ==
    LET u == fin[f].upload
    IN /\ fin[f].pc = "rename"
       /\ \/ staging[u] # NULL /\ Rename(u)
          \/ staging[u] = NULL /\ payload[u] # NULL /\ UNCHANGED disk
       /\ GoTo(f, "hash")
       /\ UNCHANGED <<rows, patch, sweep, clone, acked>>

\* hash_file: the digest stands for the content.
Hashed(u) == payload[u]

\* hash_file and the size check.  The client's X-Content-SHA256 is absent or
\* equal ("complete"), or different ("reject").
FinalizeHash(f) ==
    LET u == fin[f].upload
    IN /\ fin[f].pc = "hash"
       /\ payload[u] # NULL
       /\ Len(payload[u]) = sess[u].expected
       /\ \E next \in {"complete", "reject"} :
            fin' = [fin EXCEPT ![f] = [pc |-> next, upload |-> u, sum |-> Hashed(u)]]
       /\ UNCHANGED <<rows, disk, patch, sweep, clone, acked>>

\* The second transaction: the object becomes ready and the session completed.
FinalizeComplete(f) ==
    LET u == fin[f].upload
    IN /\ fin[f].pc = "complete"
       /\ sess[u].state = "finalizing"
       /\ obj' = IF obj[u].state \in {"pending", "ready"}
                 THEN [obj EXCEPT ![u] = [state |-> "ready", sum |-> fin[f].sum]]
                 ELSE obj
       /\ sess' = [sess EXCEPT ![u].state = "completed"]
       /\ fin' = [fin EXCEPT ![f] = IdleFinalizer]
       /\ UNCHANGED <<file, ver, clock, disk, patch, sweep, clone, acked>>

\* Versions reject_mismatched_upload deletes: the file's current version when
\* the upload replaces a file, every version of a file it created.
RejectedVersions(u) ==
    LET newVersion == file[sess[u].final].cur
    IN IF newVersion = NULL THEN {}
       ELSE IF sess[u].replace # NULL THEN {newVersion}
       ELSE VersionsOf(sess[u].final)

\* storage_object_id is ON DELETE RESTRICT: DELETE FROM storage_objects aborts
\* the transaction when a version that is left references the object.
ObjectDeletable(u, gone) ==
    \A v \in Minted \ gone : ver[v] # NULL => ver[v].object # u

\* reject_mismatched_upload's transaction, for an upload that replaces a file
RejectReplacement(f) ==
    LET u == fin[f].upload
        target == sess[u].final
    IN /\ fin[f].pc = "reject"
       /\ sess[u].state = "finalizing"
       /\ sess[u].replace # NULL
       /\ ObjectDeletable(u, RejectedVersions(u))
       /\ sess' = [sess EXCEPT ![u].state = "failed", ![u].final = NULL]
       /\ file' = [file EXCEPT ![target].cur =
                     PreviousVersion(target, file[target].cur)]
       /\ ver' = [v \in Minted |->
                    IF v \in RejectedVersions(u) THEN NULL ELSE ver[v]]
       /\ obj' = [obj EXCEPT ![u] = [state |-> "none", sum |-> NULL]]
       /\ GoTo(f, "unlink")
       /\ UNCHANGED <<clock, disk, patch, sweep, clone, acked>>

\* The same for an upload that created its file.
RejectNewFile(f) ==
    LET u == fin[f].upload
        target == sess[u].final
    IN /\ fin[f].pc = "reject"
       /\ sess[u].state = "finalizing"
       /\ sess[u].replace = NULL
       /\ file[target].cur # NULL
       /\ ObjectDeletable(u, RejectedVersions(u))
       /\ ~CascadeBlocked(target)
       /\ DeleteFileRows(target,
            [sess EXCEPT ![u].state = "failed", ![u].final = NULL])
       /\ obj' = [obj EXCEPT ![u] = [state |-> "none", sum |-> NULL]]
       /\ GoTo(f, "unlink")
       /\ UNCHANGED <<clock, disk, patch, sweep, clone, acked>>

\* remove_object after the rejection committed; its failure is only logged.
FinalizeUnlink(f) ==
    /\ fin[f].pc = "unlink"
    /\ payload' = [payload EXCEPT ![fin[f].upload] = NULL]
    /\ fin' = [fin EXCEPT ![f] = IdleFinalizer]
    /\ UNCHANGED <<rows, staging, patch, sweep, clone, acked>>

\* Every early return and every error: the parent folder is no longer active, a
\* session that is completed, failed or gone by now, ObjectCollision, an I/O or
\* database error, the aborted rejection, a disconnect, a crash.
FinalizeFail(f) ==
    /\ fin[f].pc # "idle"
    /\ fin' = [fin EXCEPT ![f] = IdleFinalizer]
    /\ UNCHANGED <<rows, disk, patch, sweep, clone, acked>>

-----------------------------------------------------------------------------
UploadStep(u) ==
    \/ \E n \in Sizes, r \in Minted \cup {NULL} : CreateStage(u, n, r)
    \/ CreateCommit(u)
    \/ CreateFail(u)
    \/ SessionTimesOut(u)
    \/ TargetToggles(u)
    \/ PatchOpen(u)
    \/ \E d \in Data : PatchWrite(u, d)
    \/ PatchCommit(u)
    \/ PatchFail(u)

FinalizeStep(f) ==
    \/ \E u \in Uploads : FinalizeBegin(f, u) \/ FinalizeResume(f, u)
    \/ FinalizeReload(f)
    \/ FinalizeLookup(f)
    \/ FinalizeSource(f)
    \/ FinalizeMoved(f)
    \/ FinalizeDestination(f)
    \/ FinalizeRename(f)
    \/ FinalizeHash(f)
    \/ FinalizeComplete(f)
    \/ RejectReplacement(f)
    \/ RejectNewFile(f)
    \/ FinalizeUnlink(f)
    \/ FinalizeFail(f)
=============================================================================
