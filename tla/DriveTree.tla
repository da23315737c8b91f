----------------------------- MODULE DriveTree ------------------------------
(***************************************************************************)
(* The tree of drive_entries: create, rename, move, batch move, trash,     *)
(* restore and purge of entries (drive.rs, maintenance.rs), the adoption   *)
(* of the system Photos folder, the parent trigger and the unique indexes  *)
(* of the migrations, and the shares a trashed subtree loses (shares.rs).  *)
(*                                                                         *)
(* PostgreSQL runs at READ COMMITTED.  A statement sees what is committed  *)
(* and what its own transaction wrote; its rows stay locked and invisible  *)
(* to others until the commit.  A handler that checks and then updates     *)
(* does so in separate steps.                                              *)
(***************************************************************************)
EXTENDS Naturals, FiniteSets

CONSTANTS
    Entries,          \* ids of drive_entries
    Names,            \* names, equal up to case
    PhotoNames,       \* Photos, Pictures, Photos Library
    Shares,           \* ids of shares
    MaxBatchEntries,  \* MAX_BATCH_ENTRIES
    Requests,         \* running handlers
    NULL              \* SQL NULL

ASSUME TreeAssumption ==
    /\ NULL \notin Entries
    /\ PhotoNames \subseteq Names
    /\ MaxBatchEntries \in Nat

VARIABLES
    entry,  \* rows of drive_entries
    share,  \* the entry of every share that is valid, NULL for the others
    req     \* running handlers and the uncommitted rows of their transactions

vars == <<entry, share, req>>

-----------------------------------------------------------------------------
(* Types *)

\* kind "none": no such row, yet or any more.
Row ==
    [kind : {"none", "file", "folder"},
     parent : Entries \cup {NULL},
     name : Names \cup {NULL},
     trashed : BOOLEAN,              \* deleted_at IS NOT NULL
     system : BOOLEAN]               \* system_role = 'photos'

ASSUME RowAssumption == NULL \notin Row

Request ==
    [pc : {"idle", "insert", "rename", "contains", "update", "commit",
           "move", "moving", "trash", "trashing", "restore",
           "list", "delete", "share"},
     id : Entries \cup {NULL},
     to : Entries \cup {NULL},
     ids : SUBSET Entries,           \* what a batch or a purge has still to handle
     revokes : SUBSET Shares,        \* uncommitted revocations
     writes : [Entries -> Row \cup {NULL}]]  \* uncommitted rows

TypeOK ==
    /\ entry \in [Entries -> Row]
    /\ share \in [Shares -> Entries \cup {NULL}]
    /\ req \in [Requests -> Request]

NoRow ==
    [kind |-> "none", parent |-> NULL, name |-> NULL, trashed |-> FALSE,
     system |-> FALSE]

Idle ==
    [pc |-> "idle", id |-> NULL, to |-> NULL, ids |-> {}, revokes |-> {},
     writes |-> [e \in Entries |-> NULL]]

Init ==
    /\ entry = [e \in Entries |-> NoRow]
    /\ share = [s \in Shares |-> NULL]
    /\ req = [r \in Requests |-> Idle]

-----------------------------------------------------------------------------
(* Queries *)

Exists(rows, e) == rows[e].kind # "none"

Live(rows, e) == Exists(rows, e) /\ ~rows[e].trashed

\* The recursive queries are least fixed points: e and everything above it,
\* e and everything below it.
Ancestors(rows, e) ==
    LET closed == {S \in SUBSET Entries :
                     /\ e \in S
                     /\ \A x \in S : rows[x].parent # NULL => rows[x].parent \in S}
    IN {a \in Entries : \A S \in closed : a \in S}

Subtree(rows, e) == {d \in Entries : Exists(rows, d) /\ e \in Ancestors(rows, d)}

\* The descendants folder_contains walks to: it does not go below trash.
LiveSubtree(rows, e) ==
    LET closed == {S \in SUBSET Entries :
                     /\ e \in S
                     /\ \A x \in Entries :
                          Live(rows, x) /\ rows[x].parent \in S => x \in S}
    IN {d \in Entries : \A S \in closed : d \in S}

\* ensure_active_entry
Active(rows, e) ==
    Exists(rows, e) /\ \A a \in Ancestors(rows, e) : ~rows[a].trashed

ActiveFolder(p) == p # NULL => Active(entry, p) /\ entry[p].kind = "folder"

\* ensure_mutable_entry
Mutable(rows, e) == Live(rows, e) /\ ~rows[e].system

\* The rows the transaction of r has written.
Written(r) == {e \in Entries : req[r].writes[e] # NULL}

\* What a statement of r sees.
Seen(r) ==
    [e \in Entries |-> IF e \in Written(r) THEN req[r].writes[e] ELSE entry[e]]

\* Another transaction purges the root e: nothing may reference its row anew.
Purging(r, e) ==
    \E q \in Requests \ {r} : req[q].pc \in {"list", "delete"} /\ req[q].id = e

\* Another transaction holds the row for an update.
Locked(r, e) == Purging(r, e) \/ \E q \in Requests \ {r} : e \in Written(q)

\* Another transaction has put a row below one of ids and keeps it from being
\* deleted (FOR KEY SHARE).
Referenced(r, ids) ==
    \E q \in Requests \ {r} :
        \E x \in Written(q) : req[q].writes[x].parent \in ids

\* A new UUID: no row has it and no handler knows it.
Fresh(e) ==
    /\ ~Exists(entry, e)
    /\ \A q \in Requests : e \notin req[q].ids \cup {req[q].id, req[q].to}

\* drive_entries_active_name and drive_entries_one_system_role: a conflict with
\* a committed row is an error, one with an uncommitted row waits for it.
Conflicts(row, other) ==
    /\ other.kind # "none" /\ ~other.trashed
    /\ \/ other.parent = row.parent /\ other.name = row.name
       \/ other.system /\ row.system

Indexed(r, e, row) ==
    /\ \A x \in Entries \ {e} : ~Conflicts(row, Seen(r)[x])
    /\ \A q \in Requests \ {r} :
         \A x \in Written(q) : ~Conflicts(row, req[q].writes[x])

\* Fault: the trigger leaves the cycle to the handler's own check.
ParentGuardShallow(rows, e, kind, p) ==
    p # NULL => rows[p].kind = "folder" /\ ~rows[p].trashed

\* validate_drive_entry_parent, before an insert or an update of parent_id
ParentGuard(rows, e, kind, p) ==
    p # NULL =>
        /\ rows[p].kind = "folder"
        /\ ~rows[p].trashed
        /\ kind = "folder" => e \notin Ancestors(rows, p)

\* The handler's transaction has written a row.
Wrote(r, e, row) == [req[r] EXCEPT !.writes = [@ EXCEPT ![e] = row]]

\* The handler returns, with an answer or an error; its transaction ends.
Return(r) == req' = [req EXCEPT ![r] = Idle]

-----------------------------------------------------------------------------
(* create_folder, and every other insert of an entry at a checked parent *)

CreateCheck(r, p) ==
    /\ req[r].pc = "idle"
    /\ ActiveFolder(p)
    /\ req' = [req EXCEPT ![r] = [Idle EXCEPT !.pc = "insert", !.to = p]]
    /\ UNCHANGED <<entry, share>>

\* The new row and its commit
CreateInsert(r, e, kind, n) ==
    LET row == [kind |-> kind, parent |-> req[r].to, name |-> n,
                trashed |-> FALSE, system |-> FALSE]
    IN /\ req[r].pc = "insert"
       /\ Fresh(e)
       /\ ParentGuard(entry, e, kind, req[r].to)
       /\ Indexed(r, e, row)
       /\ entry' = [entry EXCEPT ![e] = row]
       /\ Return(r)
       /\ UNCHANGED share

-----------------------------------------------------------------------------
(* rename_entry *)

RenameCheck(r, e) ==
    /\ req[r].pc = "idle"
    /\ Active(entry, e)
    /\ Mutable(entry, e)
    /\ req' = [req EXCEPT ![r] = [Idle EXCEPT !.pc = "rename", !.id = e]]
    /\ UNCHANGED <<entry, share>>

RenameUpdate(r, n) ==
    LET e == req[r].id
        row == [entry[e] EXCEPT !.name = n]
    IN /\ req[r].pc = "rename"
       /\ ~Locked(r, e)
       /\ Live(entry, e)
       /\ Indexed(r, e, row)
       /\ entry' = [entry EXCEPT ![e] = row]
       /\ Return(r)
       /\ UNCHANGED share

-----------------------------------------------------------------------------
(* move_entry *)

MoveCheck(r, e, p) ==
    /\ req[r].pc = "idle"
    /\ Active(entry, e)
    /\ Mutable(entry, e)
    /\ ActiveFolder(p)
    /\ req' = [req EXCEPT ![r] =
                 [Idle EXCEPT !.pc = "contains", !.id = e, !.to = p]]
    /\ UNCHANGED <<entry, share>>

\* parent_id == id || folder_contains(id, parent_id)
Contains(rows, e, p) ==
    p # NULL /\ (p = e \/ (rows[e].kind = "folder" /\ p \in LiveSubtree(rows, e)))

MoveContains(r) ==
    /\ req[r].pc = "contains"
    /\ ~Contains(entry, req[r].id, req[r].to)
    /\ req' = [req EXCEPT ![r].pc = "update"]
    /\ UNCHANGED <<entry, share>>

\* The row UPDATE ... SET parent_id writes
Moved(r, e, p) == [Seen(r)[e] EXCEPT !.parent = p]

Movable(r, e, p) ==
    /\ ~Locked(r, e)
    /\ Live(Seen(r), e)
    /\ ParentGuard(Seen(r), e, Seen(r)[e].kind, p)
    /\ Indexed(r, e, Moved(r, e, p))

MoveUpdate(r) ==
    LET e == req[r].id
    IN /\ req[r].pc = "update"
       /\ Movable(r, e, req[r].to)
       /\ req' = [req EXCEPT ![r] =
                    [Wrote(r, e, Moved(r, e, req[r].to)) EXCEPT !.pc = "commit"]]
       /\ UNCHANGED <<entry, share>>

\* Every transaction ends here: its rows become visible and are unlocked.
Commit(r) ==
    /\ req[r].pc \in {"commit", "move", "trash"}
    /\ req[r].ids = {}
    /\ entry' = Seen(r)
    /\ share' = [s \in Shares |-> IF s \in req[r].revokes THEN NULL ELSE share[s]]
    /\ Return(r)

-----------------------------------------------------------------------------
(* batch_entries "move" and "trash"; trash_entry is a batch of one that looks *)
(* at the folders above first.                                               *)

BatchMove(r, ids, p) ==
    /\ req[r].pc = "idle"
    /\ ids # {} /\ Cardinality(ids) <= MaxBatchEntries
    /\ p \notin ids
    /\ ActiveFolder(p)
    /\ req' = [req EXCEPT ![r] =
                 [Idle EXCEPT !.pc = "move", !.to = p, !.ids = ids]]
    /\ UNCHANGED <<entry, share>>

BatchTrash(r, ids) ==
    /\ req[r].pc = "idle"
    /\ ids # {} /\ Cardinality(ids) <= MaxBatchEntries
    /\ req' = [req EXCEPT ![r] = [Idle EXCEPT !.pc = "trash", !.ids = ids]]
    /\ UNCHANGED <<entry, share>>

TrashEntry(r, e) ==
    /\ req[r].pc = "idle"
    /\ Active(entry, e)
    /\ req' = [req EXCEPT ![r] = [Idle EXCEPT !.pc = "trash", !.ids = {e}]]
    /\ UNCHANGED <<entry, share>>

\* ensure_mutable_entry_tx and, for a move, folder_contains_tx
BatchCheck(r, e) ==
    /\ req[r].pc \in {"move", "trash"}
    /\ e \in req[r].ids
    /\ Mutable(Seen(r), e)
    /\ req[r].pc = "move" => ~Contains(Seen(r), e, req[r].to)
    /\ req' = [req EXCEPT ![r] =
                 [req[r] EXCEPT
                     !.pc = IF req[r].pc = "move" THEN "moving" ELSE "trashing",
                     !.id = e]]
    /\ UNCHANGED <<entry, share>>

\* move_owned_entry's update
BatchMoveOne(r) ==
    LET e == req[r].id
    IN /\ req[r].pc = "moving"
       /\ Movable(r, e, req[r].to)
       /\ req' = [req EXCEPT ![r] =
                    [Wrote(r, e, Moved(r, e, req[r].to)) EXCEPT
                        !.pc = "move", !.ids = @ \ {e}]]
       /\ UNCHANGED <<entry, share>>

\* trash_owned_entry revokes the shares of the whole subtree.
RevokedShares(rows, e) ==
    {s \in Shares : share[s] \in Subtree(rows, e)}

\* trash_owned_entry's updates
TrashOne(r) ==
    LET e == req[r].id
    IN /\ req[r].pc = "trashing"
       /\ ~Locked(r, e)
       /\ Live(Seen(r), e)
       /\ req' = [req EXCEPT ![r] =
                    [Wrote(r, e, [Seen(r)[e] EXCEPT !.trashed = TRUE]) EXCEPT
                        !.pc = "trash", !.ids = @ \ {e},
                        !.revokes = @ \cup RevokedShares(Seen(r), e)]]
       /\ UNCHANGED <<entry, share>>

-----------------------------------------------------------------------------
(* restore_entry *)

RestoreCheck(r, e) ==
    /\ req[r].pc = "idle"
    /\ Exists(entry, e) /\ entry[e].trashed
    /\ ActiveFolder(entry[e].parent)
    /\ req' = [req EXCEPT ![r] = [Idle EXCEPT !.pc = "restore", !.id = e]]
    /\ UNCHANGED <<entry, share>>

RestoreUpdate(r) ==
    LET e == req[r].id
        row == [entry[e] EXCEPT !.trashed = FALSE]
    IN /\ req[r].pc = "restore"
       /\ ~Locked(r, e)
       /\ Exists(entry, e) /\ entry[e].trashed
       /\ Indexed(r, e, row)
       /\ entry' = [entry EXCEPT ![e] = row]
       /\ Return(r)
       /\ UNCHANGED share

-----------------------------------------------------------------------------
(* purge_one_trash_root and purge_expired_trash *)

\* SELECT ... FOR UPDATE of the root
PurgeLock(r, e) ==
    /\ req[r].pc = "idle"
    /\ ~Locked(r, e)
    /\ ~Referenced(r, {e})
    /\ Exists(entry, e) /\ entry[e].trashed
    /\ req' = [req EXCEPT ![r] = [Idle EXCEPT !.pc = "list", !.id = e]]
    /\ UNCHANGED <<entry, share>>

PurgeList(r) ==
    /\ req[r].pc = "list"
    /\ req' = [req EXCEPT ![r].pc = "delete", ![r].ids = Subtree(entry, req[r].id)]
    /\ UNCHANGED <<entry, share>>

\* Fault: parent_id is ON DELETE SET NULL or unchecked.
DeletableAnyway(r, ids) ==
    \A e \in ids : ~Locked(r, e)

\* parent_id is ON DELETE RESTRICT, and a child that is being written keeps its
\* parent's row locked.
Deletable(r, ids) ==
    /\ \A e \in ids : ~Locked(r, e)
    /\ \A x \in Entries \ ids : Exists(entry, x) => entry[x].parent \notin ids
    /\ ~Referenced(r, ids)

\* The listed rows are deleted, with their shares (ON DELETE CASCADE).
PurgeDelete(r) ==
    LET ids == req[r].ids
    IN /\ req[r].pc = "delete"
       /\ Deletable(r, ids)
       /\ entry' = [e \in Entries |-> IF e \in ids THEN NoRow ELSE entry[e]]
       /\ share' = [s \in Shares |-> IF share[s] \in ids THEN NULL ELSE share[s]]
       /\ Return(r)

-----------------------------------------------------------------------------
(* ensure_photos_folder.  Its reads take no lock, so what they saw may be   *)
(* past when it writes: the choice between adopting and inserting, and of   *)
(* the name, is open, and the unique indexes decide.                        *)

PhotosAdopt(r, e) ==
    LET row == [entry[e] EXCEPT !.system = TRUE]
    IN /\ req[r].pc = "idle"
       /\ ~Locked(r, e)
       /\ Live(entry, e)
       /\ entry[e].kind = "folder"
       /\ entry[e].parent = NULL
       /\ entry[e].name \in PhotoNames
       /\ ~entry[e].system
       /\ Indexed(r, e, row)
       /\ entry' = [entry EXCEPT ![e] = row]
       /\ UNCHANGED <<share, req>>

\* Fault: the role is written to kind.
PhotosInsertKind(r, e, n) ==
    LET row == [kind |-> "photos", parent |-> NULL, name |-> n,
                trashed |-> FALSE, system |-> TRUE]
    IN /\ req[r].pc = "idle"
       /\ Fresh(e)
       /\ n \in PhotoNames
       /\ Indexed(r, e, row)
       /\ entry' = [entry EXCEPT ![e] = row]
       /\ UNCHANGED <<share, req>>

PhotosInsert(r, e, n) ==
    LET row == [kind |-> "folder", parent |-> NULL, name |-> n,
                trashed |-> FALSE, system |-> TRUE]
    IN /\ req[r].pc = "idle"
       /\ Fresh(e)
       /\ n \in PhotoNames
       /\ Indexed(r, e, row)
       /\ entry' = [entry EXCEPT ![e] = row]
       /\ UNCHANGED <<share, req>>

-----------------------------------------------------------------------------
(* create_share and revoke_share *)

ShareCheck(r, e) ==
    /\ req[r].pc = "idle"
    /\ Active(entry, e)
    /\ req' = [req EXCEPT ![r] = [Idle EXCEPT !.pc = "share", !.id = e]]
    /\ UNCHANGED <<entry, share>>

\* An uncommitted revocation has the row of s.
ShareLocked(s) == \E q \in Requests : s \in req[q].revokes

\* Fault: the share has no foreign key and trusts the check that came before.
ShareInsertUnchecked(r, s) ==
    /\ req[r].pc = "share"
    /\ share[s] = NULL
    /\ ~ShareLocked(s)
    /\ share' = [share EXCEPT ![s] = req[r].id]
    /\ Return(r)
    /\ UNCHANGED entry

\* The check is not repeated; the foreign key needs the entry's row.
ShareInsert(r, s) ==
    /\ req[r].pc = "share"
    /\ Exists(entry, req[r].id)
    /\ ~Purging(r, req[r].id)
    /\ share[s] = NULL
    /\ ~ShareLocked(s)
    /\ share' = [share EXCEPT ![s] = req[r].id]
    /\ Return(r)
    /\ UNCHANGED entry

RevokeShare(s) ==
    /\ share[s] # NULL
    /\ ~ShareLocked(s)
    /\ share' = [share EXCEPT ![s] = NULL]
    /\ UNCHANGED <<entry, req>>

-----------------------------------------------------------------------------
\* An error, a conflict, a row that is gone, a crash: the transaction rolls back.
RequestFail(r) ==
    /\ req[r].pc # "idle"
    /\ Return(r)
    /\ UNCHANGED <<entry, share>>

RequestStep(r) ==
    \/ \E p \in Entries \cup {NULL} : CreateCheck(r, p)
    \/ \E e \in Entries, kind \in {"file", "folder"}, n \in Names :
         CreateInsert(r, e, kind, n)
    \/ \E e \in Entries : RenameCheck(r, e)
    \/ \E n \in Names : RenameUpdate(r, n)
    \/ \E e \in Entries, p \in Entries \cup {NULL} : MoveCheck(r, e, p)
    \/ MoveContains(r)
    \/ MoveUpdate(r)
    \/ Commit(r)
    \/ \E ids \in SUBSET Entries, p \in Entries \cup {NULL} : BatchMove(r, ids, p)
    \/ \E ids \in SUBSET Entries : BatchTrash(r, ids)
    \/ \E e \in Entries : TrashEntry(r, e)
    \/ \E e \in Entries : BatchCheck(r, e)
    \/ BatchMoveOne(r)
    \/ TrashOne(r)
    \/ \E e \in Entries : RestoreCheck(r, e)
    \/ RestoreUpdate(r)
    \/ \E e \in Entries : PurgeLock(r, e)
    \/ PurgeList(r)
    \/ PurgeDelete(r)
    \/ \E e \in Entries : PhotosAdopt(r, e)
    \/ \E e \in Entries, n \in Names : PhotosInsert(r, e, n)
    \/ \E e \in Entries : ShareCheck(r, e)
    \/ \E s \in Shares : ShareInsert(r, s)
    \/ RequestFail(r)

Next ==
    \/ \E r \in Requests : RequestStep(r)
    \/ \E s \in Shares : RevokeShare(s)

Spec == Init /\ [][Next]_vars

\* The transaction of r has moved an entry and not committed.
Moving(r) ==
    \E e \in Written(r) : req[r].writes[e].parent # entry[e].parent

\* No two transactions have uncommitted moves at the same time.  Nothing in the
\* code sees to this; checks, updates and commits overlap freely otherwise.
SerialMoves ==
    \A r, q \in Requests : Moving(r) /\ Moving(q) => r = q

SerialSpec == Init /\ [][Next /\ SerialMoves']_vars

-----------------------------------------------------------------------------
(* Properties *)

NoCycle(rows) ==
    \A e \in Entries :
        rows[e].parent # NULL => e \notin Ancestors(rows, rows[e].parent)

\* No entry is above itself: every entry can be reached from the root, and the
\* recursive queries of the drive end.
Acyclic == NoCycle(entry)

\* Every parent is a folder that is there, also below a folder that was purged
\* while something was put into it.
ParentsExist ==
    \A e \in Entries :
        entry[e].parent # NULL => entry[entry[e].parent].kind = "folder"

\* A share is of an entry that is there, although create_share looks at it
\* without a lock and a purge may be under way.
SharesResolve ==
    \A s \in Shares : share[s] # NULL => Exists(entry, share[s])

\* Permanent deletion takes only what is in the trash when it is deleted.
PurgesOnlyTrash ==
    [][\A e \in Entries :
          Exists(entry, e) /\ ~Exists(entry', e) => ~Active(entry, e)]_vars

-----------------------------------------------------------------------------
(* The inductive invariant *)

\* What a transaction has written and not committed is the next version of a
\* row no other transaction writes, below a folder that stays until it ends.
UncommittedInv ==
    \A r \in Requests : \A e \in Written(r) :
        LET row == req[r].writes[e]
        IN /\ row.kind = entry[e].kind /\ row.kind # "none"
           /\ row.parent # NULL => entry[row.parent].kind = "folder"
           /\ \A q \in Requests \ {r} : e \notin Written(q)

\* A row that is not there has no parent; a transaction that is about to write an
\* entry names it.
ControlInv ==
    /\ \A e \in Entries : entry[e].kind = "none" => entry[e].parent = NULL
    /\ \A r \in Requests :
         req[r].pc \in {"contains", "update", "moving", "trashing"} =>
             req[r].id \in Entries

\* What makes the tree stay a tree: the committed tree and what every
\* transaction sees, its own uncommitted moves included, have no cycle.
TreeInv ==
    /\ ParentsExist
    /\ ControlInv
    /\ UncommittedInv
    /\ NoCycle(entry)
    /\ \A r \in Requests : NoCycle(Seen(r))
=============================================================================
