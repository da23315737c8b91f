------------------------ MODULE StorageTypes_proofs -------------------------
(***************************************************************************)
(* Type correctness of StorageSystem: every step preserves TypeOK.  The    *)
(* steps of a PATCH need the invariant, because truncating a file to an    *)
(* offset is only defined when the file is that long.                      *)
(***************************************************************************)
EXTENDS StorageInvariant, SequenceTheorems, TLAPS

\* The initial state is well typed.
LEMMA InitType == Init => TypeOK
BY DataAssumption DEF Init, TypeOK, Session, SessionStates, NoSession,
   StorageObject, Entry, Finalizer, IdleFinalizer, Sweeper, IdleSweeper, Clone,
   Content, Minted

\* Steps of create_upload, patch_upload and expiry.
LEMMA UploadType ==
    ASSUME TypeOK, NEW u \in Uploads, BytesInv(u), UploadStep(u)
    PROVE  TypeOK'
<1> USE DataAssumption DEF TypeOK, Content, rows, disk
<1>s. sess[u] \in Session
  OBVIOUS
<1>1. ASSUME NEW n \in Sizes, NEW r \in Minted \cup {NULL}, CreateStage(u, n, r)
      PROVE  TypeOK'
  <2> DEFINE t == [sess[u] EXCEPT !.state = "staged", !.expected = n, !.replace = r]
  <2>1. n \in Nat
    OBVIOUS
  <2>2. t \in Session
    BY <1>s, <2>1, Zenon DEF Session, SessionStates
  <2>3. sess' = [sess EXCEPT ![u] = t]
    BY <1>1, Zenon DEF CreateStage
  <2>4. QED
    BY <1>1, <2>2, <2>3 DEF CreateStage
<1>2. CASE CreateCommit(u)
  <2>1. [sess[u] EXCEPT !.state = "active"] \in Session
    BY <1>s, Zenon DEF Session, SessionStates
  <2>2. QED
    BY <1>2, <2>1 DEF CreateCommit
<1>3. CASE CreateFail(u)
  BY <1>3 DEF CreateFail, NoSession, Session, SessionStates
<1>4. CASE SessionTimesOut(u)
  <2>1. [sess[u] EXCEPT !.past = TRUE] \in Session
    BY <1>s, Zenon DEF Session
  <2>2. QED
    BY <1>4, <2>1 DEF SessionTimesOut
<1>t. CASE TargetToggles(u)
  <2>1. [sess[u] EXCEPT !.shut = ~sess[u].shut] \in Session
    BY <1>s, Zenon DEF Session
  <2>2. QED
    BY <1>t, <2>1 DEF TargetToggles
<1>5. CASE PatchOpen(u)
  <2>1. sess[u].received \in Nat
    BY <1>s DEF Session
  <2>2. QED
    BY <1>5, <2>1 DEF PatchOpen, Truncated
<1>6. ASSUME NEW d \in Data, PatchWrite(u, d)
      PROVE  TypeOK'
  <2>1. patch[u] \in Seq(Data) /\ staging[u] \in Seq(Data)
    BY <1>6 DEF PatchWrite, Locked, BytesInv
  <2>2. Append(patch[u], d) \in Seq(Data) /\ Append(staging[u], d) \in Seq(Data)
    BY <2>1, AppendProperties
  <2>3. QED
    BY <1>6, <2>1, <2>2 DEF PatchWrite
<1>7. CASE PatchCommit(u)
  <2> DEFINE t == [sess[u] EXCEPT !.received = NewOffset(u)]
  <2>1. patch[u] \in Seq(Data) /\ sess[u].received \in Nat
    BY <1>7, <1>s DEF PatchCommit, Locked, Session
  <2>2. acked[u] \o patch[u] \in Seq(Data) /\ NewOffset(u) \in Nat
    BY <2>1, ConcatProperties, LenProperties DEF NewOffset
  <2>3. t \in Session
    BY <1>s, <2>2, Zenon DEF Session
  <2>4. QED
    BY <1>7, <2>2, <2>3 DEF PatchCommit
<1>8. CASE PatchFail(u)
  <2>1. sess[u].received \in Nat
    BY <1>s DEF Session
  <2>2. QED
    BY <1>8, <2>1 DEF PatchFail, Truncated, Locked, BytesInv
<1>9. QED
  BY <1>1, <1>2, <1>3, <1>4, <1>5, <1>6, <1>7, <1>8, <1>t DEF UploadStep

\* Deleting a file's rows keeps the tables well typed.
LEMMA DeleteFileRowsType ==
    ASSUME TypeOK, NEW f \in Minted, NEW sessions \in [Uploads -> Session],
           DeleteFileRows(f, sessions)
    PROVE  /\ ver' \in [Minted -> Version \cup {NULL}]
           /\ file' \in [Minted -> Entry]
           /\ sess' \in [Uploads -> Session]
<1>1. /\ ver' \in [Minted -> Version \cup {NULL}]
      /\ file' \in [Minted -> Entry]
  BY DEF DeleteFileRows, TypeOK, Entry
<1>2. \A u \in Uploads :
        /\ [sessions[u] EXCEPT !.state = "deleted", !.replace = NULL, !.final = NULL]
             \in Session
        /\ [sessions[u] EXCEPT !.replace = NULL] \in Session
  BY Zenon DEF Session, SessionStates
<1>3. QED
  BY <1>1, <1>2 DEF DeleteFileRows

\* Inserting a version keeps the tables well typed.
LEMMA AddVersionType ==
    ASSUME TypeOK, NEW v \in Minted, NEW f \in Minted, NEW o \in Uploads,
           AddVersion(v, f, o)
    PROVE  /\ ver' \in [Minted -> Version \cup {NULL}]
           /\ file' \in [Minted -> Entry]
           /\ clock' \in Nat
BY DEF AddVersion, TypeOK, Version, Entry

\* The version a rejection falls back to is a version.
LEMMA PreviousVersionType ==
    ASSUME TypeOK, NEW f \in Minted, NEW skip
    PROVE  PreviousVersion(f, skip) \in Minted \cup {NULL}
BY DEF PreviousVersion, VersionsOf

\* Steps of finalize_upload and reject_mismatched_upload.
LEMMA FinalizeType ==
    ASSUME TypeOK, NEW f \in Finalizers, FinalizerInv(f),
           \A u \in Uploads : SessionInv(u), FinalizeStep(f)
    PROVE  TypeOK'
<1> USE DEF rows, disk
<1>f. fin[f] \in Finalizer /\ IdleFinalizer \in Finalizer
  BY DEF TypeOK, Finalizer, IdleFinalizer
<1>g. ASSUME NEW pc \in {"idle", "reload", "lookup", "source", "moved",
                         "destination", "collision", "rename", "hash",
                         "complete", "reject", "unlink"},
             GoTo(f, pc)
      PROVE  fin' \in [Finalizers -> Finalizer]
  BY <1>g, <1>f DEF GoTo, TypeOK, Finalizer
<1>u. fin[f].pc # "idle" => fin[f].upload \in Uploads
  BY <1>f DEF Finalizer, FinalizerInv
<1>1. ASSUME NEW u \in Uploads, FinalizeBegin(f, u)
      PROVE  TypeOK'
  <2> DEFINE target == IF sess[u].replace = NULL THEN u ELSE sess[u].replace
             t == [sess[u] EXCEPT !.state = "finalizing", !.final = target]
  <2>1. sess[u] \in Session /\ u \in Minted
    BY DEF TypeOK, Minted
  <2>2. target \in Minted
    BY <2>1 DEF Session
  <2>3. t \in Session
    BY <2>1, <2>2, Zenon DEF Session, SessionStates
  <2>4. sess' = [sess EXCEPT ![u] = t]
    BY <1>1, Zenon DEF FinalizeBegin
  <2>5. sess' \in [Uploads -> Session]
    BY <2>3, <2>4 DEF TypeOK
  <2>6. /\ ver' \in [Minted -> Version \cup {NULL}]
        /\ file' \in [Minted -> Entry]
        /\ clock' \in Nat
    BY <1>1, <2>1, <2>2, AddVersionType DEF FinalizeBegin
  <2>7. obj' \in [Uploads -> StorageObject] /\ fin' \in [Finalizers -> Finalizer]
    BY <1>1 DEF FinalizeBegin, TypeOK, StorageObject, Finalizer
  <2>8. QED
    BY <1>1, <2>5, <2>6, <2>7 DEF FinalizeBegin, TypeOK
<1>2. ASSUME NEW u \in Uploads, FinalizeResume(f, u)
      PROVE  TypeOK'
  BY <1>2 DEF FinalizeResume, TypeOK, Finalizer
<1>3. CASE FinalizeReload(f)
  BY <1>3, <1>g DEF FinalizeReload, TypeOK
<1>4. CASE FinalizeLookup(f)
  BY <1>4, <1>g DEF FinalizeLookup, TypeOK
<1>5. CASE FinalizeSource(f)
  BY <1>5, <1>g DEF FinalizeSource, TypeOK
<1>6. CASE FinalizeMoved(f)
  BY <1>6, <1>g DEF FinalizeMoved, TypeOK
<1>7. CASE FinalizeDestination(f)
  BY <1>7, <1>g DEF FinalizeDestination, TypeOK
<1>8. CASE FinalizeRename(f)
  <2>1. staging' \in [Uploads -> Content \cup {NULL}]
        /\ payload' \in [Uploads -> Content \cup {NULL}]
    BY <1>8, <1>u DEF FinalizeRename, Rename, TypeOK
  <2>2. QED
    BY <1>8, <1>g, <2>1 DEF FinalizeRename, TypeOK
<1>9. CASE FinalizeHash(f)
  <2>1. payload[fin[f].upload] \in Content
    BY <1>9, <1>u DEF FinalizeHash, TypeOK
  <2>2. fin' \in [Finalizers -> Finalizer]
    BY <1>9, <1>f, <2>1 DEF FinalizeHash, Hashed, TypeOK, Finalizer
  <2>3. QED
    BY <1>9, <2>2 DEF FinalizeHash, TypeOK
<1>10. CASE FinalizeComplete(f)
  <2> DEFINE u == fin[f].upload
             t == [sess[u] EXCEPT !.state = "completed"]
  <2>1. u \in Uploads /\ sess[u] \in Session
    BY <1>10, <1>u DEF FinalizeComplete, TypeOK
  <2>2. t \in Session
    BY <2>1, Zenon DEF Session, SessionStates
  <2>3. obj' \in [Uploads -> StorageObject]
    BY <1>10, <1>f, <2>1 DEF FinalizeComplete, TypeOK, StorageObject, Finalizer
  <2>4. sess' \in [Uploads -> Session]
    BY <1>10, <2>2 DEF FinalizeComplete, TypeOK
  <2>5. QED
    BY <1>10, <1>f, <2>3, <2>4 DEF FinalizeComplete, TypeOK
<1>11. CASE RejectReplacement(f)
  <2> DEFINE u == fin[f].upload
             target == sess[u].final
             t == [sess[u] EXCEPT !.state = "failed", !.final = NULL]
  <2>1. u \in Uploads /\ sess[u] \in Session
    BY <1>11, <1>u DEF RejectReplacement, TypeOK
  <2>2. t \in Session
    BY <2>1, Zenon DEF Session, SessionStates
  <2>3. sess' = [sess EXCEPT ![u] = t]
    BY <1>11, Zenon DEF RejectReplacement
  <2>4. sess' \in [Uploads -> Session]
    BY <2>2, <2>3 DEF TypeOK
  <2>5. ver' \in [Minted -> Version \cup {NULL}]
    BY <1>11 DEF RejectReplacement, TypeOK
  <2>6. file' \in [Minted -> Entry]
    <3>1. CASE target \in Minted
      BY <1>11, <3>1, PreviousVersionType DEF RejectReplacement, TypeOK, Entry
    <3>2. CASE target \notin Minted
      BY <1>11, <3>2 DEF RejectReplacement, TypeOK, Entry
    <3>3. QED
      BY <3>1, <3>2
  <2>7. obj' \in [Uploads -> StorageObject]
    BY <1>11 DEF RejectReplacement, TypeOK, StorageObject
  <2>8. fin' \in [Finalizers -> Finalizer]
    BY <1>11, <1>g DEF RejectReplacement
  <2>9. QED
    BY <1>11, <2>4, <2>5, <2>6, <2>7, <2>8 DEF RejectReplacement, TypeOK
<1>12. CASE RejectNewFile(f)
  <2> DEFINE u == fin[f].upload
             target == sess[u].final
             t == [sess[u] EXCEPT !.state = "failed", !.final = NULL]
             sessions == [sess EXCEPT ![u] = t]
  <2>1. u \in Uploads /\ sess[u] \in Session
    BY <1>12, <1>u DEF RejectNewFile, TypeOK
  <2>2. target \in Minted
    BY <1>12, <2>1 DEF RejectNewFile, SessionInv, Session
  <2>3. t \in Session
    BY <2>1, Zenon DEF Session, SessionStates
  <2>4. sessions \in [Uploads -> Session]
    BY <2>3 DEF TypeOK
  <2>5. DeleteFileRows(target, sessions)
    BY <1>12, Zenon DEF RejectNewFile
  <2>6. /\ ver' \in [Minted -> Version \cup {NULL}]
        /\ file' \in [Minted -> Entry]
        /\ sess' \in [Uploads -> Session]
    BY <2>2, <2>4, <2>5, DeleteFileRowsType
  <2>7. obj' \in [Uploads -> StorageObject]
    BY <1>12 DEF RejectNewFile, TypeOK, StorageObject
  <2>8. fin' \in [Finalizers -> Finalizer]
    BY <1>12, <1>g DEF RejectNewFile
  <2>9. QED
    BY <1>12, <2>6, <2>7, <2>8 DEF RejectNewFile, TypeOK
<1>13. CASE FinalizeUnlink(f)
  BY <1>13, <1>f DEF FinalizeUnlink, TypeOK
<1>14. CASE FinalizeFail(f)
  BY <1>14, <1>f DEF FinalizeFail, TypeOK
<1>15. QED
  BY <1>1, <1>2, <1>3, <1>4, <1>5, <1>6, <1>7, <1>8, <1>9, <1>10, <1>11, <1>12,
     <1>13, <1>14 DEF FinalizeStep

\* The lists of a sweeper only shrink.
LEMMA SweeperUpdates ==
    ASSUME TypeOK, NEW w \in Sweepers
    PROVE  /\ sweep[w] \in Sweeper
           /\ IdleSweeper \in Sweeper
           /\ Recorded(w) \in Sweeper
           /\ \A x : Dropped(w, x) \in Sweeper
           /\ \A x \in Uploads : Unlinked(w, x) \in Sweeper
           /\ \A pc \in {"cancel", "staging", "mark", "erase", "objects"},
                 ids \in SUBSET Uploads : Begun(pc, ids) \in Sweeper
BY DEF TypeOK, Sweeper, IdleSweeper, Recorded, Dropped, Begun,
   Unlinked

\* Steps of cancel_upload, the worker and the deletion requests.
LEMMA SweepType ==
    ASSUME TypeOK, NEW w \in Sweepers, SweepStep(w)
    PROVE  TypeOK'
<1> USE SweeperUpdates DEF rows, disk
<1>1. ASSUME NEW u \in Uploads, CancelUpload(w, u)
      PROVE  TypeOK'
  <2> DEFINE t == [sess[u] EXCEPT !.state = IF @ = "active" THEN "expired" ELSE @]
  <2>1. sess[u] \in Session /\ sess[u].state \in SessionStates
    BY DEF TypeOK, Session
  <2>2. t \in Session
    BY <2>1, Zenon DEF Session, SessionStates
  <2>3. sess' = [sess EXCEPT ![u] = t]
    BY <1>1, Zenon DEF CancelUpload
  <2>4. sess' \in [Uploads -> Session]
    BY <2>2, <2>3 DEF TypeOK
  <2>5. sweep' \in [Sweepers -> Sweeper]
    BY <1>1 DEF CancelUpload, TypeOK
  <2>6. QED
    BY <1>1, <2>4, <2>5 DEF CancelUpload, TypeOK
<1>2. CASE CleanExpired(w)
  <2>1. PICK picked \in SUBSET {u \in Uploads : Expirable(u)} \ {{}} :
          /\ sess' = [u \in Uploads |->
                        IF u \in picked /\ sess[u].state = "active"
                        THEN [sess[u] EXCEPT !.state = "expired"] ELSE sess[u]]
          /\ sweep' = [sweep EXCEPT ![w] = Begun("staging", picked)]
    BY <1>2 DEF CleanExpired
  <2>2. ASSUME NEW u \in Uploads
        PROVE  [sess[u] EXCEPT !.state = "expired"] \in Session
    <3>1. sess[u] \in Session
      BY DEF TypeOK
    <3>2. QED
      BY <3>1, Zenon DEF Session, SessionStates
  <2>3. sess' \in [Uploads -> Session]
    BY <2>1, <2>2 DEF TypeOK
  <2>4. sweep' \in [Sweepers -> Sweeper]
    BY <2>1 DEF TypeOK
  <2>5. QED
    BY <1>2, <2>3, <2>4 DEF CleanExpired, TypeOK
<1>3. CASE UnlinkStaging(w)
  <2>1. PICK u \in sweep[w].todo :
          /\ staging' = [staging EXCEPT ![u] = NULL]
          /\ sweep' = [sweep EXCEPT ![w] = Unlinked(w, u)]
    BY <1>3 DEF UnlinkStaging
  <2>2. u \in Uploads
    BY DEF Sweeper
  <2>3. QED
    BY <1>3, <2>1, <2>2 DEF UnlinkStaging, TypeOK
<1>4. CASE RecordCleaned(w)
  <2> DEFINE u == sweep[w].doing
  <2>1. u \in Uploads
    BY <1>4 DEF RecordCleaned, Sweeper
  <2>a. sess[u] \in Session
    BY <2>1 DEF TypeOK
  <2>2. [sess[u] EXCEPT !.cleaned = TRUE] \in Session
    BY <2>a, Zenon DEF Session
  <2>3. sess' = sess \/ sess' = [sess EXCEPT ![u] = [sess[u] EXCEPT !.cleaned = TRUE]]
    BY <1>4, Zenon DEF RecordCleaned
  <2>4. sess' \in [Uploads -> Session]
    BY <2>1, <2>2, <2>3 DEF TypeOK
  <2>5. sweep' \in [Sweepers -> Sweeper]
    BY <1>4 DEF RecordCleaned, TypeOK
  <2>6. QED
    BY <1>4, <2>4, <2>5 DEF RecordCleaned, TypeOK
<1>5. ASSUME NEW f \in Minted, PurgeRoot(w, f)
      PROVE  TypeOK'
  <2>1. /\ ver' \in [Minted -> Version \cup {NULL}]
        /\ file' \in [Minted -> Entry]
        /\ sess' \in [Uploads -> Session]
    <3>1. sess \in [Uploads -> Session]
      BY DEF TypeOK
    <3>2. QED
      BY <1>5, <3>1, DeleteFileRowsType DEF PurgeRoot
  <2>2. ObjectsOf(f) \in SUBSET Uploads
    BY DEF ObjectsOf, VersionsOf, TypeOK, Version
  <2>3. sweep' \in [Sweepers -> Sweeper]
    BY <1>5, <2>2 DEF PurgeRoot, TypeOK
  <2>4. QED
    BY <1>5, <2>1, <2>3 DEF PurgeRoot, TypeOK
<1>6. ASSUME NEW ids \in SUBSET Uploads, MarkDeleting(ids)
      PROVE  obj' \in [Uploads -> StorageObject]
  BY <1>6 DEF MarkDeleting, TypeOK, StorageObject
<1>7. CASE MarkPurged(w)
  <2> DEFINE ids == {o \in sweep[w].todo : Collectable(o)}
  <2>1. ids \in SUBSET Uploads
    BY DEF Sweeper
  <2>2. obj' \in [Uploads -> StorageObject]
    BY <1>6, <1>7, <2>1 DEF MarkPurged
  <2>3. sweep' \in [Sweepers -> Sweeper]
    BY <1>7, <2>1 DEF MarkPurged, TypeOK
  <2>4. QED
    BY <1>7, <2>2, <2>3 DEF MarkPurged, TypeOK
<1>8. CASE MarkUnreferenced(w)
  <2>1. PICK ids \in SUBSET {o \in Uploads : Collectable(o)} \ {{}} :
          /\ MarkDeleting(ids)
          /\ sweep' = [sweep EXCEPT ![w] = Begun("objects", ids)]
    BY <1>8 DEF MarkUnreferenced
  <2>2. obj' \in [Uploads -> StorageObject]
    BY <1>6, <2>1
  <2>3. sweep' \in [Sweepers -> Sweeper]
    BY <2>1 DEF TypeOK
  <2>4. QED
    BY <1>8, <2>2, <2>3 DEF MarkUnreferenced, TypeOK
<1>9. CASE RemovePayload(w)
  <2>1. PICK o \in sweep[w].todo :
          /\ payload' = [payload EXCEPT ![o] = NULL]
          /\ sweep' = [sweep EXCEPT ![w] = Unlinked(w, o)]
    BY <1>9 DEF RemovePayload
  <2>2. o \in Uploads
    BY DEF Sweeper
  <2>3. QED
    BY <1>9, <2>1, <2>2 DEF RemovePayload, TypeOK
<1>10. CASE DeleteObjectRow(w)
  <2>1. obj' \in [Uploads -> StorageObject]
    BY <1>10 DEF DeleteObjectRow, TypeOK, StorageObject
  <2>2. QED
    BY <1>10, <2>1 DEF DeleteObjectRow, TypeOK
<1>11. CASE SkipUnlink(w)
  BY <1>11 DEF SkipUnlink, TypeOK
<1>12. CASE SweepFail(w)
  BY <1>12 DEF SweepFail, TypeOK
<1>13. QED
  BY <1>1, <1>2, <1>3, <1>4, <1>5, <1>7, <1>8, <1>9, <1>10, <1>11, <1>12
     DEF SweepStep

\* Links and copies.
LEMMA CloneType ==
    ASSUME TypeOK, NEW c \in Clones, CloneInv(c), ReferencesHold, CloneStep(c)
    PROVE  TypeOK'
<1> USE DEF rows, disk
<1>c. c \in Minted /\ clone[c] \in Clone
  BY DEF Minted, TypeOK
<1>d. ASSUME clone' = [clone EXCEPT ![c].pc = "done"]
      PROVE  clone' \in [Clones -> Clone]
  BY <1>c, <1>d DEF TypeOK, Clone
<1>1. ASSUME NEW o \in Uploads, LinkRead(c, o)
      PROVE  TypeOK'
  BY <1>1 DEF LinkRead, TypeOK, Clone
<1>2. ASSUME NEW f \in Minted, LinkCommit(c, f)
      PROVE  TypeOK'
  <2>1. clone[c].object \in Uploads
    BY <1>c, <1>2 DEF LinkCommit, CloneInv, Clone
  <2>2. /\ ver' \in [Minted -> Version \cup {NULL}]
        /\ file' \in [Minted -> Entry]
        /\ clock' \in Nat
    BY <1>c, <1>2, <2>1, AddVersionType DEF LinkCommit
  <2>3. QED
    BY <1>2, <1>d, <2>2 DEF LinkCommit, TypeOK
<1>3. ASSUME NEW f \in Minted, CopyRead(c, f)
      PROVE  TypeOK'
  <2> DEFINE o == IF file[f].cur = NULL THEN NULL ELSE ver[file[f].cur].object
  <2>1. o \in Uploads \cup {NULL}
    BY DEF ReferencesHold, VersionsOf, TypeOK, Version, Entry
  <2>2. clone' = [clone EXCEPT ![c] = [pc |-> "copy", object |-> o]]
    BY <1>3 DEF CopyRead
  <2>3. clone' \in [Clones -> Clone]
    BY <2>1, <2>2 DEF TypeOK, Clone
  <2>4. QED
    BY <1>3, <2>3 DEF CopyRead, TypeOK
<1>4. CASE CopyCommit(c)
  <2>1. CASE clone[c].object = NULL
    BY <1>4, <1>c, <1>d, <2>1 DEF CopyCommit, TypeOK, Entry
  <2>2. CASE clone[c].object # NULL
    <3>1. clone[c].object \in Uploads
      BY <1>c, <2>2 DEF Clone
    <3>2. /\ ver' \in [Minted -> Version \cup {NULL}]
          /\ file' \in [Minted -> Entry]
          /\ clock' \in Nat
      BY <1>c, <1>4, <2>2, <3>1, AddVersionType DEF CopyCommit
    <3>3. QED
      BY <1>4, <1>d, <3>2 DEF CopyCommit, TypeOK
  <2>3. QED
    BY <2>1, <2>2
<1>5. CASE CloneFail(c)
  BY <1>5 DEF CloneFail, TypeOK, Clone
<1>6. QED
  BY <1>1, <1>2, <1>3, <1>4, <1>5 DEF CloneStep

\* The expiry of a trash root, and moving a file in and out of the trash.
LEMMA TrashType ==
    ASSUME TypeOK, NEW f \in Minted,
           PurgeExpired(f) \/ TrashStep(f)
    PROVE  TypeOK'
<1> USE DEF rows, disk
<1>1. CASE PurgeExpired(f)
  <2>1. sess \in [Uploads -> Session]
    BY DEF TypeOK
  <2>2. /\ ver' \in [Minted -> Version \cup {NULL}]
        /\ file' \in [Minted -> Entry]
        /\ sess' \in [Uploads -> Session]
    BY <1>1, <2>1, DeleteFileRowsType DEF PurgeExpired
  <2>3. QED
    BY <1>1, <2>2 DEF PurgeExpired, TypeOK
<1>2. CASE TrashStep(f)
  <2>1. file' \in [Minted -> Entry]
    BY <1>2 DEF TrashStep, TrashFile, RestoreFile, FolderTrashed, FolderRestored,
       TypeOK, Entry
  <2>2. QED
    BY <1>2, <2>1 DEF TrashStep, TrashFile, RestoreFile, FolderTrashed,
       FolderRestored, TypeOK
<1>3. QED
  BY <1>1, <1>2

\* A step that satisfies the invariant beforehand leaves every variable typed.
LEMMA NextType == TypeOK /\ StorageInv /\ [Next]_vars => TypeOK'
<1> SUFFICES ASSUME TypeOK, StorageInv, [Next]_vars PROVE TypeOK'
  OBVIOUS
<1> USE DEF StorageInv
<1>1. CASE UNCHANGED vars
  BY <1>1 DEF vars, TypeOK
<1>2. ASSUME NEW u \in Uploads, UploadStep(u) PROVE TypeOK'
  BY <1>2, UploadType DEF UploadInv
<1>3. ASSUME NEW f \in Finalizers, FinalizeStep(f) PROVE TypeOK'
  BY <1>3, FinalizeType DEF UploadInv
<1>4. ASSUME NEW w \in Sweepers, SweepStep(w) PROVE TypeOK'
  BY <1>4, SweepType
<1>5. ASSUME NEW c \in Clones, CloneStep(c) PROVE TypeOK'
  BY <1>5, CloneType
<1>6. ASSUME NEW f \in Minted, PurgeExpired(f) \/ TrashStep(f)
      PROVE TypeOK'
  BY <1>6, TrashType
<1>7. QED
  BY <1>1, <1>2, <1>3, <1>4, <1>5, <1>6 DEF Next
=============================================================================
