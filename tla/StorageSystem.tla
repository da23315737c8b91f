--------------------------- MODULE StorageSystem ----------------------------
(***************************************************************************)
(* The storage core put together: uploads, finalizers, the maintenance     *)
(* worker with the deletion requests, and the links and copies that share  *)
(* objects, all running concurrently over one database and one HDD.        *)
(***************************************************************************)
EXTENDS Transfers, Maintenance, ContentReuse

Next ==
    \/ \E u \in Uploads : UploadStep(u)
    \/ \E f \in Finalizers : FinalizeStep(f)
    \/ \E w \in Sweepers : SweepStep(w)
    \/ \E c \in Clones : CloneStep(c)
    \/ \E f \in Minted : PurgeExpired(f) \/ TrashStep(f)

Spec == Init /\ [][Next]_vars

-----------------------------------------------------------------------------
(* Safety *)

\* An active upload's staging file holds every acknowledged byte, with at most
\* an uncommitted tail after them: a client that resumes at received_size after
\* a crash in the middle of a PATCH loses nothing and repeats nothing.
ResumableOffset ==
    \A u \in Uploads :
        sess[u].state = "active" =>
            /\ Len(acked[u]) = sess[u].received
            /\ sess[u].received <= sess[u].expected
            /\ staging[u] # NULL
            /\ Len(staging[u]) >= sess[u].received
            /\ SubSeq(staging[u], 1, sess[u].received) = acked[u]

\* A ready object's payload is on the HDD and is what was acknowledged to the
\* client and hashed by finalize_upload, whatever finalizers, rejections,
\* cancellations, purges and sweeps ran in between.
ReadyIntact ==
    \A o \in Uploads :
        obj[o].state = "ready" => payload[o] = acked[o] /\ obj[o].sum = acked[o]

\* A finalizing session can always be finished: the file, the version and the
\* pending object that the first transaction wrote are still there and the bytes
\* are complete on exactly one side of the rename.
Recoverable ==
    \A u \in Uploads :
        sess[u].state = "finalizing" =>
            /\ obj[u].state = "pending"
            /\ ver[u] # NULL
            /\ ver[u].file = sess[u].final
            /\ ver[u].object = u
            /\ file[sess[u].final].state # "none"
            /\ \/ staging[u] = acked[u] /\ payload[u] = NULL
               \/ staging[u] = NULL /\ payload[u] = acked[u]
            /\ Len(acked[u]) = sess[u].expected

\* What ObjectCollision is there to report does not happen: a staging file and a
\* payload of one upload are never both on the HDD, and a settled upload has left none in
\* uploads/.
NoCollision ==
    \A u \in Uploads :
        staging[u] # NULL =>
            payload[u] = NULL /\ sess[u].state \notin {"none", "completed", "failed"}

\* Every version's object has a row, and every file's current version is one of
\* its versions.
ReferencesHold ==
    /\ \A v \in Minted : ver[v] # NULL =>
         /\ obj[ver[v].object].state # "none"
         /\ file[ver[v].file].state # "none"
    /\ \A f \in Minted : file[f].cur # NULL => file[f].cur \in VersionsOf(f)

\* staging_cleaned_at is only set once the staging file is gone for good: no
\* later pass looks at the session again.
CleanedMeansGone ==
    \A u \in Uploads : sess[u].cleaned => staging[u] = NULL

\* The worker unlinks a payload only after no file version and no finalizing
\* upload references its object.
RemovedOnlyUnreferenced ==
    [][\A o \in Uploads :
          payload[o] # NULL /\ payload'[o] = NULL => Unreferenced(o)]_vars

\* A version whose upload has completed goes away with its file, from the trash,
\* and never because another upload was rejected.
CompletedKept ==
    [][\A v \in Minted :
          ver[v] # NULL /\ ver'[v] = NULL /\ obj[ver[v].object].state = "ready" =>
              InTrash(ver[v].file)]_vars

-----------------------------------------------------------------------------
(* Liveness *)

\* The worker runs at startup and every hour, and a failed pass is repeated: a
\* step of it that is possible again and again is taken, although any one pass
\* may fail.  A PATCH ends, with its body or with its connection, and so does a
\* request that purges.
WorkerFairness ==
    /\ \A u \in Uploads : WF_vars(PatchCommit(u) \/ PatchFail(u))
    /\ \A w \in Sweepers :
        /\ SF_vars(CleanExpired(w))
        /\ SF_vars(UnlinkStaging(w))
        /\ SF_vars(RecordCleaned(w))
        /\ SF_vars(MarkUnreferenced(w))
        /\ SF_vars(RemovePayload(w))
        /\ SF_vars(DeleteObjectRow(w))
        /\ WF_vars(MarkPurged(w) \/ SweepFail(w))

\* The client repeats POST /finalize until it gets an answer, no handler hangs,
\* and the errors that interrupt one pass.
ClientRetries ==
    \A f \in Finalizers :
        /\ \A u \in Uploads : SF_vars(FinalizeResume(f, u))
        /\ WF_vars(FinalizeReload(f) \/ FinalizeFail(f))
        /\ SF_vars(FinalizeLookup(f))
        /\ SF_vars(FinalizeSource(f))
        /\ SF_vars(FinalizeDestination(f))
        /\ SF_vars(FinalizeMoved(f) \/ FinalizeRename(f))
        /\ SF_vars(FinalizeHash(f))
        /\ SF_vars(FinalizeComplete(f) \/ RejectReplacement(f) \/ RejectNewFile(f))

LiveSpec == Spec /\ WorkerFairness /\ ClientRetries

\* The staging file of every expired or cancelled session is removed, whatever
\* pass failed between marking it, unlinking it and recording that.
StagingReclaimed ==
    \A u \in Uploads :
        (sess[u].state = "expired" \/ (sess[u].state = "active" /\ sess[u].past))
            ~> (staging[u] = NULL)

\* An object nothing references is deleted, whatever pass failed between
\* marking it, unlinking its payload and deleting its row, unless a link or copy
\* that had read it before puts a version on it after all.
ObjectsReclaimed ==
    \A o \in Uploads :
        Collectable(o) ~> (obj[o].state = "none" \/ HasVersion(o))

\* Retrying finalize settles an upload on whichever side of the rename it was
\* interrupted, except while its folder is in the trash (every retry is refused)
\* or another version keeps the object of a rejected upload from being deleted.
FinalizeSettles ==
    \A u \in Uploads :
        (sess[u].state = "finalizing")
            ~> \/ sess[u].state # "finalizing"
               \/ sess[u].shut
               \/ ~ObjectDeletable(u, RejectedVersions(u))
=============================================================================
