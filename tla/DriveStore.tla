----------------------------- MODULE DriveStore -----------------------------
(***************************************************************************)
(* The shared state of the storage core: the PostgreSQL rows and the files *)
(* on the HDD that uploads, the maintenance worker, trash purges, backup   *)
(* links and copies all read and write, together with the in-memory state  *)
(* of the handlers that are running.                                       *)
(*                                                                         *)
(* Identifiers.  The server mints UUIDs; a request mints each kind of id   *)
(* at most once, so the minted ids are named after the request.  Upload u  *)
(* owns staging key u, mints storage object u and version u, and mints     *)
(* file u unless it replaces a file.  A link or copy request c mints       *)
(* version c and, when it makes a new entry, file c.                       *)
(*                                                                         *)
(* Committed transactions are atomic.  What a handler reads outside the    *)
(* transaction that uses it is a step of its own.                          *)
(***************************************************************************)
EXTENDS Naturals, Sequences

CONSTANTS
    Uploads,     \* upload sessions (and the ids they mint)
    Clones,      \* link and copy requests (and the ids they mint)
    Finalizers,  \* concurrent POST /finalize handlers
    Sweepers,    \* concurrent cancel, purge and maintenance runs
    Data,        \* byte values
    Sizes,       \* declared upload sizes
    MaxPatch,    \* MAX_PATCH_BYTES
    NULL         \* SQL NULL, a missing row, a missing file

Minted == Uploads \cup Clones

ASSUME IdAssumption ==
    /\ Uploads \cap Clones = {}
    /\ NULL \notin Minted

ASSUME DataAssumption ==
    /\ Sizes \subseteq Nat
    /\ MaxPatch \in Nat
    /\ NULL \notin Seq(Data)

VARIABLES
    \* database rows
    sess,     \* upload_sessions
    obj,      \* storage_objects
    file,     \* drive_entries joined with files
    ver,      \* file_versions
    clock,    \* the next created_at
    \* HDD
    staging,  \* uploads/<staging_key>.part
    payload,  \* objects/<2>/<2>/<object id>
    \* running handlers
    patch,    \* body bytes a PATCH handler has written, NULL when there is none;
              \* the handler holds the row lock of its session
    fin,      \* finalize handlers
    sweep,    \* cancel, purge and maintenance runs
    clone,    \* link and copy handlers
    \* history
    acked     \* bytes the server has acknowledged for each upload

rows == <<sess, obj, file, ver, clock>>
disk == <<staging, payload>>
vars == <<sess, obj, file, ver, clock, staging, payload,
          patch, fin, sweep, clone, acked>>

Content == Seq(Data)

-----------------------------------------------------------------------------
(* Types *)

\* "none": no row yet.  "staged": the staging file exists and the INSERT is not
\* committed.  "lost": that insert never committed.  "deleted": the row was
\* removed by ON DELETE CASCADE of final_file_id.  The others are the column's.
SessionStates == {"none", "staged", "lost", "deleted",
                  "active", "finalizing", "completed", "expired", "failed"}

Session ==
    [state : SessionStates,
     expected : Nat,
     received : Nat,
     past : BOOLEAN,                 \* expires_at <= now()
     shut : BOOLEAN,                 \* the folder target_parent_id is in the trash
     cleaned : BOOLEAN,              \* staging_cleaned_at IS NOT NULL
     replace : Minted \cup {NULL},   \* replace_file_id
     final : Minted \cup {NULL}]     \* final_file_id

StorageObject ==
    [state : {"none", "pending", "ready", "deleting"},
     sum : Content \cup {NULL}]      \* checksum_sha256, collision free

\* "none" covers both an unused and a purged id: ids are never reused.  A
\* "trashed" file has a deleted_at of its own; a "buried" one has none and is
\* below a folder that has.
Entry ==
    [state : {"none", "active", "buried", "trashed"},
     cur : Minted \cup {NULL}]       \* files.current_version_id

Version ==
    [file : Minted, object : Uploads, at : Nat]

ASSUME VersionAssumption == NULL \notin Version

Finalizer ==
    [pc : {"idle", "reload", "lookup", "source", "moved", "destination",
           "collision", "rename", "hash", "complete", "reject", "unlink"},
     upload : Uploads \cup {NULL},
     sum : Content \cup {NULL}]

Sweeper ==
    [pc : {"idle", "cancel", "staging", "mark", "erase", "objects"},
     todo : SUBSET Uploads,          \* ids still to handle
     doing : Uploads \cup {NULL}]    \* unlinked, its row not yet updated

Clone ==
    [pc : {"idle", "link", "copy", "done"},
     object : Uploads \cup {NULL}]

TypeOK ==
    /\ sess \in [Uploads -> Session]
    /\ obj \in [Uploads -> StorageObject]
    /\ file \in [Minted -> Entry]
    /\ ver \in [Minted -> Version \cup {NULL}]
    /\ clock \in Nat
    /\ staging \in [Uploads -> Content \cup {NULL}]
    /\ payload \in [Uploads -> Content \cup {NULL}]
    /\ patch \in [Uploads -> Content \cup {NULL}]
    /\ fin \in [Finalizers -> Finalizer]
    /\ sweep \in [Sweepers -> Sweeper]
    /\ clone \in [Clones -> Clone]
    /\ acked \in [Uploads -> Content]

NoSession ==
    [state |-> "none", expected |-> 0, received |-> 0, past |-> FALSE,
     shut |-> FALSE, cleaned |-> FALSE, replace |-> NULL, final |-> NULL]

IdleFinalizer == [pc |-> "idle", upload |-> NULL, sum |-> NULL]

IdleSweeper == [pc |-> "idle", todo |-> {}, doing |-> NULL]

\* An empty database and empty uploads/ and objects/ directories.
Init ==
    /\ sess = [u \in Uploads |-> NoSession]
    /\ obj = [u \in Uploads |-> [state |-> "none", sum |-> NULL]]
    /\ file = [f \in Minted |-> [state |-> "none", cur |-> NULL]]
    /\ ver = [v \in Minted |-> NULL]
    /\ clock = 0
    /\ staging = [u \in Uploads |-> NULL]
    /\ payload = [u \in Uploads |-> NULL]
    /\ patch = [u \in Uploads |-> NULL]
    /\ fin = [f \in Finalizers |-> IdleFinalizer]
    /\ sweep = [w \in Sweepers |-> IdleSweeper]
    /\ clone = [c \in Clones |-> [pc |-> "idle", object |-> NULL]]
    /\ acked = [u \in Uploads |-> <<>>]

-----------------------------------------------------------------------------
(* Queries over the rows *)

VersionsOf(f) == {v \in Minted : ver[v] # NULL /\ ver[v].file = f}

HasVersion(o) == \E v \in Minted : ver[v] # NULL /\ ver[v].object = o

\* The NOT EXISTS conditions every object deletion carries.
Unreferenced(o) == ~HasVersion(o) /\ sess[o].state # "finalizing"

\* SELECT id FROM file_versions WHERE file_id = f AND id IS DISTINCT FROM skip
\*  ORDER BY created_at DESC LIMIT 1
PreviousVersion(f, skip) ==
    LET others == VersionsOf(f) \ {skip}
        latest == {v \in others : \A w \in others : ver[w].at <= ver[v].at}
    IN IF latest = {} THEN NULL ELSE CHOOSE v \in latest : TRUE

\* deleted_at IS NULL
Live(f) == file[f].state \in {"active", "buried"}

\* What a purge of a trash root deletes.
InTrash(f) == file[f].state \in {"buried", "trashed"}

\* INSERT INTO file_versions ...; UPDATE files SET current_version_id = v.  A
\* file that is not there yet is inserted.
AddVersion(v, f, o) ==
    /\ ver' = [ver EXCEPT ![v] = [file |-> f, object |-> o, at |-> clock]]
    /\ file' = [file EXCEPT ![f] =
                   [state |-> IF file[f].state = "none" THEN "active"
                              ELSE file[f].state,
                    cur |-> v]]
    /\ clock' = clock + 1

\* DELETE FROM file_versions, files and drive_entries for f, and what the
\* foreign keys do to upload_sessions: final_file_id cascades, replace_file_id
\* is set to NULL.  A session that is not inserted yet is no row.
DeleteFileRows(f, sessions) ==
    /\ ver' = [v \in Minted |-> IF v \in VersionsOf(f) THEN NULL ELSE ver[v]]
    /\ file' = [file EXCEPT ![f] = [state |-> "none", cur |-> NULL]]
    /\ sess' = [u \in Uploads |->
                  IF sessions[u].final = f
                  THEN [sessions[u] EXCEPT !.state = "deleted",
                                           !.replace = NULL, !.final = NULL]
                  ELSE IF sessions[u].replace = f /\ sessions[u].state # "staged"
                  THEN [sessions[u] EXCEPT !.replace = NULL]
                  ELSE sessions[u]]

\* A PATCH is running; it holds the row lock of its session.
Locked(u) == patch[u] # NULL

\* The cascade has to lock the rows it changes.
CascadeBlocked(f) ==
    \E u \in Uploads : Locked(u) /\ f \in {sess[u].replace, sess[u].final}
=============================================================================
