---------------------------- MODULE ContentReuse ----------------------------
(***************************************************************************)
(* What puts a second version on an object that is already stored, and     *)
(* what moves a file in and out of the trash: link_content of devices.rs,  *)
(* copy_one_entry, trash_owned_entry and restore_entry of drive.rs.        *)
(*                                                                         *)
(* A link and a copy read the object in one statement and insert the       *)
(* version in a later one, at READ COMMITTED and without locking the       *)
(* object's row: two steps.                                                *)
(***************************************************************************)
EXTENDS DriveStore

\* SELECT id FROM storage_objects WHERE state = 'ready' AND checksum_sha256 = ...
LinkRead(c, o) ==
    /\ clone[c].pc = "idle"
    /\ obj[o].state = "ready"
    /\ clone' = [clone EXCEPT ![c] = [pc |-> "link", object |-> o]]
    /\ UNCHANGED <<rows, disk, patch, fin, sweep, acked>>

\* The current content of a file that is not trashed differs from object o.
OtherContent(f, o) ==
    /\ Live(f)
    /\ file[f].cur # NULL
    /\ obj[ver[file[f].cur].object].sum # obj[o].sum

\* The version's foreign key needs the object's row and nothing more of it.
\* f is the entry already at the path, or c for a new one.
LinkCommit(c, f) ==
    LET o == clone[c].object
    IN /\ clone[c].pc = "link"
       /\ obj[o].state # "none"
       /\ f # c => OtherContent(f, o)
       /\ AddVersion(c, f, o)
       /\ clone' = [clone EXCEPT ![c].pc = "done"]
       /\ UNCHANGED <<sess, obj, disk, patch, fin, sweep, acked>>

\* copy_one_entry reads the object of the source's current version, in whatever
\* state it is.  The source was active when the copy began and may be in the
\* trash by now.
CopyRead(c, f) ==
    /\ clone[c].pc = "idle"
    /\ file[f].state # "none"
    /\ clone' = [clone EXCEPT ![c] =
                   [pc |-> "copy",
                    object |-> IF file[f].cur = NULL THEN NULL
                               ELSE ver[file[f].cur].object]]
    /\ UNCHANGED <<rows, disk, patch, fin, sweep, acked>>

\* A source without a version makes a file without one.
CopyCommit(c) ==
    LET o == clone[c].object
    IN /\ clone[c].pc = "copy"
       /\ \/ /\ o = NULL
             /\ file' = [file EXCEPT ![c].state = "active"]
             /\ UNCHANGED <<ver, clock>>
          \/ /\ o # NULL
             /\ obj[o].state # "none"
             /\ AddVersion(c, c, o)
       /\ clone' = [clone EXCEPT ![c].pc = "done"]
       /\ UNCHANGED <<sess, obj, disk, patch, fin, sweep, acked>>

\* The content is unchanged, the quota is exceeded, a foreign key or the
\* database fails, a crash: the transaction rolls back.
CloneFail(c) ==
    /\ clone[c].pc \in {"link", "copy"}
    /\ clone' = [clone EXCEPT ![c] = [pc |-> "idle", object |-> NULL]]
    /\ UNCHANGED <<rows, disk, patch, fin, sweep, acked>>

\* trash_owned_entry of the file; batch_entries does not look at the folders.
TrashFile(f) ==
    /\ Live(f)
    /\ file' = [file EXCEPT ![f].state = "trashed"]
    /\ UNCHANGED <<sess, obj, ver, clock, disk, patch, fin, sweep, clone, acked>>

\* restore_entry
RestoreFile(f) ==
    /\ file[f].state = "trashed"
    /\ file' = [file EXCEPT ![f].state = "active"]
    /\ UNCHANGED <<sess, obj, ver, clock, disk, patch, fin, sweep, clone, acked>>

\* trash_owned_entry and restore_entry of a folder above the file
FolderTrashed(f) ==
    /\ file[f].state = "active"
    /\ file' = [file EXCEPT ![f].state = "buried"]
    /\ UNCHANGED <<sess, obj, ver, clock, disk, patch, fin, sweep, clone, acked>>

FolderRestored(f) ==
    /\ file[f].state = "buried"
    /\ file' = [file EXCEPT ![f].state = "active"]
    /\ UNCHANGED <<sess, obj, ver, clock, disk, patch, fin, sweep, clone, acked>>

TrashStep(f) ==
    TrashFile(f) \/ RestoreFile(f) \/ FolderTrashed(f) \/ FolderRestored(f)

-----------------------------------------------------------------------------
CloneStep(c) ==
    \/ \E o \in Uploads : LinkRead(c, o)
    \/ \E f \in Minted : LinkCommit(c, f)
    \/ \E f \in Minted : CopyRead(c, f)
    \/ CopyCommit(c)
    \/ CloneFail(c)
=============================================================================
