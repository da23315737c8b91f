# Verification of My Drive

TLA+ modules, TLC configurations and TLAPS proofs for the self-hosted drive of
this repository: a Rust server (axum, sqlx, PostgreSQL, files on an HDD), its
background workers, and a Windows backup client. File and line references are
to the repository at the commit this project was written against; `PROJECT.json`
maps every definition to the lines it translates.

## 1. The system and its parts

| Part | State | Operations | Hard behaviour | Module |
|---|---|---|---|---|
| Resumable uploads (`transfers.rs`) | `upload_sessions`, `uploads/<key>.part` | create, PATCH at an offset, finalize, cancel, expiry | crash in a PATCH, retried and concurrent finalize, crash between rename and commit, checksum rejection | `Transfers`, `Maintenance` |
| Object storage (`storage/mod.rs`) | `objects/<..>/<id>` | promote by rename, remove, open | two awaits around a rename, failed unlinks | `Transfers`, `Maintenance` |
| Maintenance (`maintenance.rs`) | marks on sessions and objects | hourly expiry, trash purge, object sweep; purge on request | passes that fail half-way, concurrent passes, cascades into running handlers | `Maintenance` |
| Drive entries (`drive.rs`) | `drive_entries`, `files`, `file_versions` | create folder, rename, move, copy, trash, restore, purge, batch | copies sharing objects, concurrent moves making a cycle, unlocked parent checks | `DriveTree`; `ContentReuse` (files) |
| Backup devices (`devices.rs`) | `backup_devices`, codes, credentials, path states | create and approve a code, exchange, refresh, revoke, check and link content | link racing the sweep, concurrent refreshes of one token, locks taken in two orders | `Accounts`, `ContentReuse` (link) |
| Sign-in sessions (`auth/session.rs`), accounts (`admin_accounts.rs`) | `users`, `sessions`, the rate limiter in memory | login, logout, password change, disable, reset, revoke | a password verified outside the transaction that uses the result | `Accounts` |
| Public shares (`shares.rs`), developer keys (`developer.rs`) | `shares`, `share_access_sessions`, `api_keys` | create, unlock, download, revoke; create and revoke a key, with its shares | revocation while a password is verified or a key's request runs, limits under concurrency | `ShareAccess`, `DriveTree` (create, revoke) |
| Google Drive import (`google_drive.rs`) | connection, source, runs, list queue, items, links | connect, select, list page by page, download, commit, resume, pause, remove, disconnect | crash between any two steps, files that change at Google, removal and object sweeps during a download | `DriveImport` |
| Media and face indexers (`media_indexer.rs`, `face_indexer.rs`), their controls (`media_admin.rs`) | `media_index_jobs`, derivatives, preview files | backfill, claim, heartbeat, stages, publish, complete, fail, pause, retry | a lock lost in the middle of a job, expired leases, purges under a running job | `MediaQueue`, implementing `LeaseQueue` |
| Library, search | favourites, albums | mostly queries | none of its own | not modelled |
| Windows client (`clients/windows`) | local SQLite queue | scan, queue, upload, link, resume | restart between an answer and its record | not modelled |

The parts meet in the database and on the HDD. A committed PostgreSQL
transaction is atomic; everything a handler does between two transactions, and
everything it reads outside the transaction that uses it, is a separate step
that other handlers may run between. The HDD is not transactional: the code
orders its unlinks and renames against commits, and that order is what most of
the properties are about.

### What makes the storage core correct

* Bytes a client was told are stored stay stored: a resumed upload continues
  after exactly the acknowledged bytes (`ResumableOffset`), a finalizing upload
  can be finished on either side of the rename (`Recoverable`), and a ready
  object's payload is what was acknowledged and hashed (`ReadyIntact`).
* Nothing is left half-done for ever: expired staging files and unreferenced
  objects are eventually removed although any pass may fail
  (`StagingReclaimed`, `ObjectsReclaimed`, `CleanedMeansGone`), and retried
  finalization settles, unless the upload's folder is in the trash or a copy
  blocks its rejection (`FinalizeSettles`).
* Nothing in use is removed: `RemovedOnlyUnreferenced`, `CompletedKept`; that
  versions keep their objects and files is part of `StorageInv`.

### What makes the tree correct

* It stays a tree: no folder is below itself (`Acyclic`), and every parent is a
  folder that exists although parents are checked without a lock
  (`ParentsExist`); a share is of an entry that exists (`SharesResolve`).
* Permanent deletion takes only what is in the trash (`PurgesOnlyTrash`; the code
  does not keep this, see `MCPurgeListed`).

### What makes the workers correct

* The media index is a queue with leases: a job is done, failed or given back
  only by the claim that holds it, and taken at most `MAX_ATTEMPTS` times
  (`ImplementsQueue`); a completed job of a version that is
  there has all its rows and files (`CompletedIsServed`); every job of a live
  version ends although workers die and lose their lock (`IndexSettles`).
* The import copies a file once as long as its source stays (`NoSecondCopy`) and
  skips only what the drive already holds, if the file was not edited between its
  listing and its download (`SkipIsCurrent`); a ready object has its bytes
  (`ReadyHasPayload`); a run that says completed has seen every file but those
  behind a page token that was refused (`CompletedSawAll`), and its counts are
  those of its items (`CountsMatch`).

### What makes access correct

* A live session stands on the current password of an enabled account
  (`SessionsCurrent`); concurrent sign-ins pass the limiter by no more than their
  number (`SignInsBounded`).
* A device code yields tokens once (`CodeSpentOnce`), and the refresh chain never
  forks (`OneLiveCredential`), whatever statement of a revocation fails.
* A revoked share has no access grant left (`RevocationRemovesGrants`), revoking
  a key with its shares misses none that is being created
  (`BulkRevocationComplete`), and the limits on downloads and guesses hold for
  concurrent requests (`DownloadsBounded`, `GuessesBounded`).

## 2. Modules

`DriveStore` declares the shared state and its queries. `Transfers`,
`Maintenance` and `ContentReuse` each extend it with the actions of one part of
the code. `StorageSystem` composes them and states the properties;
`StorageInvariant` states the inductive invariant; `MCStorage` adds the
symmetry sets for TLC. `StorageTypes_proofs` and `StorageSystem_proofs` hold the
proofs.

`DriveTree` is a specification of its own: the folder tree, where the storage
core only knows whether a file is live, trashed or below a trashed folder.
`MCTree` adds its symmetry sets, `DriveTree_proofs` holds its proofs.

`MediaQueue`, `DriveImport`, `Accounts` and `ShareAccess` are specifications of
their own too, each with an MC module and a module of proofs named after it
(`MediaQueue_proofs` and so on). They meet the others in few places, and
there each has the few rows it needs: the import has its own entries, objects
and staging files; the index has the life of a version; shares have whether their
entry is in the trash. `LeaseQueue` is the abstract specification `MediaQueue`
implements.

### State of the storage core

| Variable | Code |
|---|---|
| `sess` | rows of `upload_sessions`; the states `none`, `staged`, `lost` and `deleted` stand for a row that is not there; `shut` is the folder the upload goes to being in the trash |
| `obj` | rows of `storage_objects`: state and checksum |
| `file` | `drive_entries` joined with `files`; `buried` is a file with no `deleted_at` of its own below a trashed folder |
| `ver` | rows of `file_versions` |
| `clock` | the order of `file_versions.created_at` |
| `staging`, `payload` | `uploads/<key>.part` and `objects/../<id>` |
| `patch` | the body bytes written by the PATCH that holds the session's row lock |
| `fin`, `sweep`, `clone` | where each running finalize, cleanup, and link or copy handler is |
| `acked` | history: the bytes acknowledged to the client |

Identifiers are named after the request that mints them, so that one upload `u`
has session, staging key, object, version and (unless it replaces a file) file
`u`. The server uses random UUIDs, which are never reused.

A payload is a sequence of byte values. A SHA-256 digest is the content itself:
the model assumes that the hash is collision free and that nothing outside the
program changes the files.

### Actions and steps of the storage core

* `create_upload` is `CreateStage` (checks, staging file) followed by
  `CreateCommit` or `CreateFail`.
* `patch_upload` is `PatchOpen` (lock the row, compare the offset, cut the file
  at it), `PatchWrite` once for every byte, `PatchCommit` or `PatchFail`. The
  row lock is held all the time: whoever needs it is disabled while
  `patch[u] # NULL`, and the maintenance pass skips the row.
* `finalize_upload` is `FinalizeBegin` or `FinalizeResume`, `FinalizeReload`,
  `FinalizeLookup`, the two looks at the HDD and the rename of
  `promote_staging_file` (`FinalizeSource`, `FinalizeMoved`,
  `FinalizeDestination`, `FinalizeRename`), `FinalizeHash`, and
  `FinalizeComplete`, or `RejectReplacement` or `RejectNewFile` followed by
  `FinalizeUnlink`.
* `TargetToggles` trashes or restores the folder of an upload. A finalize finds
  the folder in the trash at `FinalizeLookup` and is refused, each time it is
  tried again, until the folder is restored.
* `cancel_upload`, `clean_expired_uploads`, `purge_one_trash_root` with
  `delete_unreferenced_objects`, and `remove_unreferenced_objects` are a
  marking transaction followed by one unlink step and one recording step for
  every row. `purge_expired_trash` is one transaction.
* `link_content` and `copy_one_entry` are a read and a later commit.

Every handler has a `Fail` action that may happen between any two of its steps.
It covers errors, disconnected clients and crashes: a crash is all handlers
failing, and nothing but the database and the HDD survives any of them.

### The tree

`DriveTree` has the committed rows of `drive_entries` (`entry`) and of `shares`
(`share`), and for every running handler (`req`) where it is, its arguments and
the rows its transaction has written and not committed (`writes`, `revokes`).

PostgreSQL runs at READ COMMITTED, so a statement of a handler sees the
committed rows and its own (`Seen`). A row another transaction has written
cannot be updated until that one ends (`Locked`); a purge holds its root with
`FOR UPDATE` (`Purging`); a row put below a folder keeps the folder from being
deleted (`Referenced`). The two unique indexes (`Indexed`) also count
uncommitted rows, because PostgreSQL waits for them. The parent trigger
(`ParentGuard`) sees only what its transaction sees and locks nothing.

A check and the update that follows are two steps. Reads that follow each other
with no write between them are one step when they look at different rows or when
the later one repeats the earlier; a statement that waits for a lock is disabled
until the lock is gone. A transaction with one statement that changes rows
commits in the step of that statement, except where what others do between the
statement and the commit matters (moves and trash): those end in `Commit`. A
share a trash has revoked and not committed is locked (`ShareLocked`): nobody
else revokes it until the trash ends.

| Code | Actions |
|---|---|
| `create_folder`, and the inserts of uploads and links | `CreateCheck`, `CreateInsert` |
| `rename_entry` | `RenameCheck`, `RenameUpdate` |
| `move_entry` | `MoveCheck`, `MoveContains`, `MoveUpdate`, `Commit` |
| `batch_entries` | `BatchMove` or `BatchTrash`, `BatchCheck` and `BatchMoveOne` or `TrashOne` for each id, `Commit` |
| `trash_entry` | `TrashEntry`, then as a batch of one |
| `restore_entry` | `RestoreCheck`, `RestoreUpdate` |
| `purge_one_trash_root`, `purge_expired_trash` | `PurgeLock`, `PurgeList`, `PurgeDelete` |
| `ensure_photos_folder` | `PhotosAdopt`, `PhotosInsert` |
| `create_share`, `revoke_share` | `ShareCheck`, `ShareInsert`, `RevokeShare` |

Every handler may fail between any two steps (`RequestFail`), which rolls its
transaction back. The ids of a batch are handled in any order. The retention
time of the trash is abstracted: a trashed root may be purged at any time, as a
purge on request does. The recursive queries are least fixed points over the
entries; on a cycle the code's queries would not end.

### The media index

`MediaQueue` has the job table (`job`, `attempts`, `lease`), what was published
(`rows`, `files`), the pause switch, who holds the advisory lock, and for every
worker process where it is, its job and the attempt number it claimed it with.

| Code | Actions |
|---|---|
| `run_worker` | `TryLock`, `CheckLock`, `PassFails`; `LoseLock` is the connection breaking at any time, which the worker notices only at `CheckLock` |
| `run_once` | `Backfill`, `FailExhausted`, `ClaimOne` or `ClaimNone`, `Heartbeat` |
| the four `process_..._job` | `StartStep` (`set_stage`) and `RunTool` for each step of `StepsOf`, with the failures each tool can have |
| `publish_and_complete` | `MarkPublishing`, `PublishDerivative` for each file, `Complete` |
| `record_failure` | `RecordFailure` |
| uploads, trash, restore, purge | `Arrive`, `Retire`, `Restore`, `Purge` |
| `media_admin.rs` | `SetPause`, `RetryFailed` |

`Arrive` takes any subset of a version's jobs: `finalize_upload` enqueues the jobs
of the file's current version, which need not be the one it completed, and a link
or copy enqueues none; `Backfill` has to make up for both. Times are left out: a
lease may expire at any moment and a retry is due at any moment.

`LeaseQueue` knows no workers, leases or attempts in flight. The mapping takes a
queued job to waiting, and a served result to the rows of a completed job.
`ImplementsQueue` is `LeaseQueue`'s specification under it: two workers that both
believe they hold the lock cannot make a job do anything one could not.

### The Google Drive import

`DriveImport` has one owner and one source folder with an optional folder in it;
a folder has one page or two, and its row in the list queue (`pages`) is `todo`,
`more` when the token of the second page is stored, `done`, or `cut` when the
token was refused. The contents of a file at Google are known by their md5, and an
edit may bring earlier contents back: an item keeps the md5 it was listed with
(`item.md5`), a link the md5 of the item that wrote it (`link`), and `data` is what
was downloaded. Exported files are listed without an md5 and never count as
unchanged. The worker is one sequential process (`worker`), whose every statement
outside a transaction is a step, and `Crash` may happen at any of them.

| Code | Actions |
|---|---|
| `sync_tick` at start-up and each tick | `RecoverDownloads`, `ResumeCommit`, `AbandonCommit`, `ResumeNothing`, `ScheduleCheck` and `ScheduleInsert` or `NotScheduled`, `TickRefused`, `TickFails` |
| `claim_item`, `download_claimed` | `ClaimItem`, `Deferred`, `Unauthorized`, `CreateStaging`, `DownloadBody`, `RateLimited`, `DownloadFails`, `StorageLow`, `FailItem`, `CountFailure` |
| `commit_staged`, `promote_and_finish`, `finish_ready` | `CommitStaged`, `Promote`, `Rename`, `FinishReady` |
| `list_one_page` | `ListPage`, `RememberFile`, `RememberFolder`, `PageDone`, `ListFails`, `ListRefused`, `NothingToList`; `FinishRuns` |
| requests of the owner | `Connect`, `SetPause`, `SelectSource`, `SyncCheck` and `SyncInsert`, `RemoveSource`, `Disconnect` |
| the drive | `TrashEntry`, `RestoreEntry`, `PurgeEntry` (rows only), then `MarkDeleting`, `UnlinkObject`, `DeleteObject` or `SweepFails`, object by object |
| Google | `RemoteEdit`, `MarkReauth` |

Both places that start a run (`ensure_scheduled_run`, `sync_source`) read for an
active run without a lock and insert later; `checked` remembers who has read.
Nothing forbids two active runs, and the model has them. `Deferred` is the
back-pressure of the indexer; it is not a bounded fault, because jobs stay queued
as long as no indexer runs.

A purge deletes the rows of the file and leaves its objects without a version. A
sweep marks such an object, unlinks it and deletes its row, whatever the import is
doing with it: it may come between the lookup of the object and its rename, or
between the rename and `finish_ready`, which leaves an object that is `deleting`
as it is and still records its item as stored.

`abandon_commit` gives up a committing item whose object row is gone. Its branches
for an object that is there without its key or its checksum are left out: a row
keeps both until `finish_ready`, so one worker never takes them.

A file in the trash does not stop the import: the next change makes a new entry
and links it. Taking the old one back then leaves the owner with both, by the
owner's own choice; the model therefore keeps apart a live entry that was in the
trash once (`restored`), and `NoSecondCopy` is about those that never were.

### Accounts and shares

`Accounts` has one `users` row with its sessions, device codes, devices and
credentials. A password is a number; a session remembers which one it stands on
(a history the code does not store). A handler that verifies a password is a
lookup, a verification without a lock, and a commit. Row locks of the refresh and
revoke transactions are modelled as waiting (`LockGranted`, `DeviceLocked`). A
revocation may fail at any of its statements (`RevokeFails`): an error, a dropped
connection, or PostgreSQL's deadlock detector when it and a refresh lock the device
and a credential in opposite order. It then rolls back, and the device stays as it
was.

`ShareAccess` has shares, the API keys that may have created them, and access
grants. `unlock_share` is `Fetch`, `Unlock`, `Verify` and `RecordPasswordFailure`
or `UnlockCommit`; a download is `Fetch`, `RequireGrant`, `Download`,
`ReserveDownload` and `Send`; a request with a key is `KeyLookup`, `KeyCounted`,
`CreateCheck` and `CreateInsert`.

## 3. Runs

| Run | Instance | Checks |
|---|---|---|
| `MCUpload` | 1 upload of 0 to 3 bytes of 2 values, PATCHes of at most 2 bytes, 2 finalizers, 2 sweepers | `ResumableOffset`, `ReadyIntact`, `Recoverable`, `NoCollision`, `CleanedMeansGone`, `RemovedOnlyUnreferenced` |
| `MCShare` | 2 uploads of 1 byte, the second may replace the first one's file, 1 link or copy, 1 finalizer, 1 sweeper | `TypeOK`, `StorageInv` (with which `ReadyIntact`, `Recoverable` and referential integrity hold) |
| `MCLiveness` | 1 upload, 1 link or copy of it, 1 finalizer, 1 sweeper, `LiveSpec` | `StagingReclaimed`, `ObjectsReclaimed`, `FinalizeSettles` |
| `MCTree` | 3 entries with 1 name, 1 share, 2 concurrent requests, batches of 2, `SerialSpec` | `TypeOK`, `Acyclic`, `ParentsExist`, `SharesResolve` |
| `MCMedia` | 1 image with its preview job, 2 workers, 2 attempts, 1 fault, 1 retry, `LiveSpec` | `TypeOK`, `CompletedIsServed`, `ImplementsQueue`, `IndexSettles` |
| `MCImport` | 2 runs, 1 file on the second page of a folder below the source, 2 contents, 1 fault | `TypeOK`, `ReadyHasPayload`, `NoSecondCopy`, `SkipIsCurrent`, `CompletedSawAll`, `CountsMatch` |
| `MCAccounts` | 2 sessions, 3 passwords, 1 device, 3 credentials, 2 requests at once | `TypeOK`, `SessionsCurrent`, `OneLiveCredential`, `CodeSpentOnce`, `SignInsBounded` |
| `MCShareAccess` | 1 share, 1 key, 2 grants, 2 requests at once, 2 guesses, 1 download | `TypeOK`, `RevocationRemovesGrants`, `BulkRevocationComplete`, `DownloadsBounded`, `GuessesBounded` |
| `MCLinkRace`, `MCRejectReplaced`, `MCMoveCycle`, `MCPurgeListed` | the smallest instance that shows the disagreement | one property each, violated |

Bounds. Three bytes with a limit of two make an upload need two PATCHes and
leave room for a tail; two byte values tell a repeated from a lost byte. Two
finalizers and two sweepers cover every pair of concurrent handlers of one
upload, and all their state is per upload, so more uploads matter only where
they share a file or an object: `MCShare` has a file with the versions of two
uploads and an object with two versions. Ids are used once, so every behaviour
ends when they are spent; deadlock is therefore not checked. `clock` is bounded
by the number of ids.

`MCLiveness` has a link or copy because one of a finalizing file can keep its
rejection from going through for ever, and folders that go to the trash and come
back because a finalize is refused meanwhile: `FinalizeSettles` names both cases,
and an upload is settled in every other.

In the tree three entries make a chain of folders, with something in the trash
in the middle of it; with one name a folder has at most one live child, but any
number of trashed ones. `MaxBatchEntries` is the code's limit of a batch, 2 here
(two entries into the third). `SerialSpec` leaves out the steps after which two
transactions would have uncommitted moves at the same moment; checks and commits
overlap freely, so a move may be decided on a tree that is gone. Nothing in the
code sees to this restriction: `MCMoveCycle` is the counterexample without it, and
`MCTree` shows that there is no other way to a cycle. An id is free again once its
row is purged and no handler knows it, so no behaviour ends and deadlock is checked.

In `MCMedia` two attempts let a job be taken over once and run out, and a fault
and a retry let a stale worker meet a new claim with the same attempt number.
Larger instances were checked once: two workers with two faults (788,000
states), every task of a video with one worker and liveness (781,000), an image
with both its jobs and two workers (4.2 million).

In `MCImport` two runs make a file be listed twice, with a change in between, or be
active together; the file is on the second page of a folder below the source, so a
listing takes three pages and a token. Two contents let an edit be taken back. One
fault is a crash or an error at any step; `FailureLimit` of 1 makes the limit
reachable. In `MCAccounts` three
passwords let a password be changed twice while a handler is busy, three
credentials let one token be rotated twice; with three sessions (5.4 million
states) nothing changes. In `MCShareAccess` both limits are reached by two
concurrent requests. `faults`, `retries`, runs and passwords are bounded by
the guards of the actions that raise them. In these four runs the requests that
repeat (sign-in, pause, trash) keep every state from being the last, and deadlock
is checked.

Fairness. `WorkerFairness` rests on `run_worker`, which runs a pass at start-up
and then every hour: a step that is possible again and again is taken in some
pass, though any one pass may fail at it. A PATCH ends with its body or its
connection, hence weak fairness of its end. `ClientRetries` is the protocol the
API asks of clients: repeat `POST /finalize` until it is answered; no error of a
statement or of the disk repeats for ever, while a refusal the rows themselves
cause does (see `FinalizeSettles`). `LiveSpec` of `MediaQueue` is weak fairness of
a worker's next step, because every tool has a timeout and the loops sleep for a
bounded time, and of the end of a lease nobody renews. Faults are finite in number
there, so what is shown is that the system recovers from them, and not that it
makes progress under faults that never stop. The owner is not fair: a paused queue
waits, and the property says so.

The import has no liveness property. `authorized_request` (`google_drive.rs:3236`)
bounds only the time to connect, so a worker may wait for headers for ever, and the
back-pressure of the indexer (`google_drive.rs:1850`) lasts as long as jobs stay
queued: the code guarantees the progress of no import.

### What the violation runs show

* `MCLinkRace`: a link or copy reads an object, a sweep marks it `deleting`
  (nothing references it any more), the link inserts its version, and the sweep
  unlinks the payload of a referenced object. `README.md` says objects are
  removed only when no version references them.
* `MCRejectReplaced`: a second upload replaces a file whose first upload is
  still finalizing, and completes; the rejection of the first deletes the whole
  file with the completed version.
* `MCMoveCycle`: two requests move each of two folders into the other; neither
  the handler's check nor the trigger sees the other's uncommitted row, and both
  commit. The contract of US-003 says that database constraints prevent cycles.
* `MCPurgeListed`: a purge has listed the subtree of a trashed folder; a batch
  move, which does not look at the folders above its source, takes an entry out of
  it; the purge deletes the entry from its new, active folder. US-007 says that
  only soft-deleted subtrees are purged, after their retention.

Further disagreements the models contain, which have no run of their own:

* A rename passes its check of the role, the folder is adopted as the Photos
  folder, and the rename changes it (`drive.rs:333`; `drive.md` says that folder
  cannot be renamed).
* A share inserted between the revocation of a subtree's shares and the commit of
  the trash stays valid (US-003 says that trashing revokes shares): while the entry
  is in the trash nobody can open it, after a restore the link works again.
* A file whose upload is still finalizing is copied; the checksum rejection then
  cannot delete the object (`ON DELETE RESTRICT`, `transfers.rs:1137`), and the
  mismatched upload is not removed, although `backup-client.md` says that it is.
* A second finalizer sees the source before and the destination after the first
  one's rename (`storage/mod.rs:291`) and reports `ObjectCollision`; the HTTP test
  expects both to succeed. No data is lost (`NoCollision` holds).
* A source that is removed, or a connection that is dropped, during a download
  takes the item with it. `commit_staged` still inserts the entry, its version
  and a pending object, and its update of the item matches no row;
  `promote_and_finish` finds no item, and no later pass does. The object stays
  pending and its staging file stays, although the log
  (`google_drive.rs:2064`) says that the file "is staged and will finish on the
  next pass". `ReadyHasPayload` still holds: the object never becomes ready.
* A disconnect between the rename and `finish_ready` leaves a readable file without
  a link, and the next import of the same folder makes a second one. `NoSecondCopy`
  therefore leaves out the runs of removed sources.
* A file is listed with contents A, edited, downloaded as B, and the edit is taken
  back: `content_unchanged` compares md5 with the A of the link, and the file is
  skipped while the drive holds B. `SkipIsCurrent` excludes exactly the versions
  edited between listing and download.
* A page token that `valid_page_token` refuses ends its folder without an error
  (`google_drive.rs:2778`), and the run completes without the files behind it.
* A purge of an item that is committing, with the sweep between `promote`'s lookup
  and its rename, leaves a payload whose row is gone; nothing removes it.
* `README.md` says of a share that reaching `max_downloads` disables access;
  `fetch_active_share` does not look at `download_count`, and previews go on.

## 4. Proofs

`StorageTypes_proofs` proves that every action preserves `TypeOK`.
`StorageSystem_proofs` proves, for any sets of uploads, requests and handlers,
any sizes and any number of bytes:

| Theorem | States |
|---|---|
| `TypeCorrectness` | `Spec => []TypeOK` |
| `StorageInvariance` | `Spec => []StorageInv` |
| `Resumability` | `Spec => []ResumableOffset` |
| `ReadyIntegrity` | `Spec => []ReadyIntact` |
| `Recoverability` | `Spec => []Recoverable` |
| `CollisionFreedom` | `Spec => []NoCollision` |
| `CleanedGone` | `Spec => []CleanedMeansGone` |
| `ReferentialIntegrity` | `Spec => []ReferencesHold`, which `StorageInv` contains |

The assumptions are those of `DriveStore`: the ids of uploads and of links and
copies are disjoint, sizes are naturals, and `NULL` is no id, content or
version.

None of the properties is inductive by itself. That the payload of a ready
object stays (`ReadyIntact`) depends on what a running sweeper still holds: an
object on its list must not become ready again (`SweeperInv`), which in turn
needs that its session is completed or deleted and never finalizing again
(`ObjectInv`, `SessionInv`). That completing stores the right digest depends on
the finalizer's local copy (`FinalizerInv`) and on the bytes being complete on
one side of the rename (`FinalizingInv`), which depends on the row lock of a
PATCH (`BytesInv`). `StorageInv` is the conjunction of these parts.

The proof has one lemma per action. Most actions change one upload and one
handler; a frame lemma (`Evolves`) lists what a step may do to an upload it does
not name, such as a cascade deleting a session, and carries the invariant of all
the others over it.

Model-checked only: the liveness properties (fairness is out of the prover's
reach) and the action property `RemovedOnlyUnreferenced`, which holds only
without links and copies.

### The tree

`DriveTree_proofs` proves, for any sets of entries, names, shares and requests:

| Theorem | States |
|---|---|
| `TreeTypeCorrectness` | `Spec => []TypeOK` |
| `ParentsAreFolders` | `Spec => []ParentsExist` |
| `SharesHaveEntries` | `Spec => []SharesResolve` |
| `TreeInvariance` | `SerialSpec => []TreeInv` |
| `SerialMovesAcyclic` | `SerialSpec => []Acyclic` |

`NULL` is no entry and no row, the names of Photos folders are names, and
`MaxBatchEntries` is a natural number; nothing else is assumed. The first three hold of
every behaviour. The last two say what a fix has to bring about and no more: any
number of moves may be under way, checked on trees that have changed since, as long
as no two transactions hold uncommitted moves together. `MCMoveCycle` is the
counterexample without the restriction, which the code does not enforce.

`ParentsExist` alone is not inductive, because a commit publishes rows written
earlier: `UncommittedInv` says that such a row belongs to one transaction and
keeps its kind and that its new parent is still there. `Acyclic` needs the same
of every transaction's own view (`NoCycle(Seen(r))`), because the trigger sees
that view and the commit publishes it. The argument about one edge is
`MoveKeepsTree`: the chain of parents is the least set closed upwards
(`AncestorsClosed`, `AncestorsLeast`), so an entry that is not in the chain above
its new parent stays out of every chain above itself; a file or a new row is in
no other entry's chain (`LeafAboveNothing`). `StepKinds` shows that every step
is quiet, inserts one row, writes one row, commits or purges, and there is one
lemma on rows and one on cycles for each. Only `CommitCycles` uses
`SerialMoves`.

### The media index

`MediaQueue_proofs` proves, for any sets of versions, images and workers, any
number of attempts, faults and retries, and any of the four tasks:

| Theorem | States |
|---|---|
| `QueueInvariant` | `Spec => []QueueInv` |
| `MediaTypes` | `Spec => []TypeOK` |
| `PreviewsAreServed` | `Spec => []CompletedIsServed` |
| `IndexerImplementsQueue` | `Spec => ImplementsQueue` |

`CompletedIsServed` is not inductive: the commit of a worker makes a job completed
on the strength of files it, or a worker before it, renamed earlier. `WorkerInv`
says of every worker, the stale ones too, that the files of its job are in place
except those still on its list, and `VersionInv` that a version that has not
arrived has no jobs, so that none is completed when it arrives. The refinement
maps the initial states (`InitRefines`) and every step (`StepRefines`): a step
that changes no job's state and no row of a completed job is a stutter, and each
of the others is one action of `LeaseQueue`, whose guard follows from the
comparison of the attempt number in the code's `WHERE` clauses. Fairness is no
part of `LeaseQueue`'s specification, so the whole refinement is proved.

### The Google Drive import

`DriveImport_proofs` proves, for any finite set of files on one page or two, any
number of runs, contents, failures and crashes:

| Theorem | States |
|---|---|
| `ImportTypes` | `Spec => []TypeOK` |
| `ReadyObjectsHavePayloads` | `Spec => []ReadyHasPayload` |
| `CompletedRunsSawAll` | `Spec => []CompletedSawAll` |
| `CountersMatchItems` | `Spec => []CountsMatch` |
| `ImportInvariant` | the whole inductive invariant |
| `OneCopyOfAFile` | `Spec => []NoSecondCopy` |
| `SkippedFilesAreCurrent` | `Spec => []SkipIsCurrent` |

Assumed of the constants: the set of files is finite (the counters count them), a
file is neither of the two folders nor in both, `NULL` is none of the values it
stands beside, and the limits are positive.

* `ReadyHasPayload` needs what the worker knows between the rename and
  `finish_ready` (`PayloadInv`): the payload is there as long as the object is
  pending or ready, because a sweep marks before it unlinks. That `finish_ready`
  asks for these two states is what the theorem rests on.
* `CompletedSawAll` needs `PagesInv`: what is on a page is recorded before its row
  advances, so a page cut short is listed again, a row with a token has its first
  page recorded and a done one both.
* `CountsMatch` needs `StartedInv` (items belong to runs that began) and the
  moment between the two statements of `fail_item`, where the failure is not yet
  counted (`CountInv`). `Number` is a cardinality; the lemmas move one file from
  one set of states to another.
* `NoSecondCopy` and `SkipIsCurrent` need all of `DriveInv`. `ControlInv` says that
  at most one item is committing and that the worker is on it or will resume it
  before it claims another; that the item in the worker's hand is in the state its
  step expects, or its source was removed meanwhile (`Orphaned`); and that what is
  not committed has no version. `RowsInv` and `LinkInv` tie entries, their current
  versions and links together. `MatchInv` says that a link has the md5 the item of
  the version it shows was listed with, once that is stored: `commit_staged` makes
  the new version current before `finish_ready` writes the link, and only a
  committing item stands in between. `CopyInv` says that the readable entry that
  was never in the trash, of a source that was not removed, is the linked one.

`TypesInvariant`, `PagesStep`, `RunsInvariant` and `DriveStep` are proved one after
the other, each from the ones before it.

### Accounts and devices

`Accounts_proofs` proves, for any sets of sessions, codes and credentials and any
finite set of concurrent requests:

| Theorem | States |
|---|---|
| `AccountsInvariant` | `Spec => []AccountsInv` |
| `AccountsTypes` | `Spec => []TypeOK` |
| `SessionsStayCurrent` | `Spec => []SessionsCurrent` |
| `TokenChainHolds` | `Spec => []OneLiveCredential` |
| `CodesAreSpentOnce` | `Spec => []CodeSpentOnce` |
| `SignInLimitHolds` | `Spec => []SignInsBounded` |

A rotation revokes one token and issues one, so the chain stays one only because
the token it revokes is still the live one: `RequestInv` says that what a refresh
read under its lock is still so, and `LocksExclusive` that `FOR UPDATE` gives a row
to one handler. `CodeInv` says that only a consumed code has tokens. `LimiterInv`
counts the failures together with the sign-ins that may still become one, which is
why the set of requests must be finite.

### Shares and keys

`ShareAccess_proofs` proves, for any sets of shares, keys and grants and any finite
set of concurrent requests:

| Theorem | States |
|---|---|
| `ShareInvariant` | `Spec => []ShareInv` |
| `ShareTypes` | `Spec => []TypeOK` |
| `RevokedSharesAreClosed` | `Spec => []RevocationRemovesGrants` |
| `BulkRevocationHolds` | `Spec => []BulkRevocationComplete` |
| `DownloadLimitHolds` | `Spec => []DownloadsBounded` |
| `GuessLimitHolds` | `Spec => []GuessesBounded` |

Both limits are about handlers on their way: `DownloadInv` adds the downloads that
are counted and not yet sent, `GuessInv` the wrong guesses that are not yet
recorded while the share is open, and those still being verified once it is
closed. `PasswordFailureLimit` is assumed to be more than 1 (`PASSWORD_FAILURE_LIMIT` is 5):
the first failure after a lapsed lock sets the count to 1 without looking at the
limit, so that with a limit of 1 it would not lock again and `TypeOK`, which says
that a share is locked exactly at the limit, would be false.

### Model-checked only

* The liveness properties `StagingReclaimed`, `ObjectsReclaimed`,
  `FinalizeSettles` and `IndexSettles`: fairness is out of the prover's reach.
* `RemovedOnlyUnreferenced`, which holds only without links and copies.

## 5. Not modelled

Hazards the models contain, or touch, and no property is about:

* `remove_object` fails after a rejection committed (`transfers.rs:1143`): the
  payload has no row any more and stays. The preview files of a purged version
  stay too; no code removes either.
* A worker that lost its lease renames its previews over its successor's
  (`preview.rs`): both come from the same immutable object.
* Passes with `LIMIT` and no cursor (`maintenance.rs:124`): more rows that fail
  for ever than the limit would hide the rows behind them. The models have no
  limit.
* `mark_reauth` for an old token after a reconnect (`google_drive.rs:3253`): the
  owner connects once more.
* A code is exchanged after its device was revoked: the tokens are refused
  wherever they are presented.
* An unlock with the right password that began before a share was locked clears
  the lock (`shares.rs:699`); a download is counted before its transfer, which may
  fail (`shares.rs:775`).

Left out:

* Quotas and free space: `create_upload`, `link_content` and the import are
  modelled as admitting any request, or as refusing it for no reason the model
  knows (`StorageLow`).
* Owners: all requests are of one account. Every query filters by owner, and no
  row changes its owner. The import's `fail_active_runs` is the exception: it
  fails the runs of every owner, which one owner cannot show.
* `report_missing_payloads`, which writes only `last_checked_at` and the log.
* `created_at` is ordered by commit, although PostgreSQL's `now()` is the start
  of the transaction.
* Two import workers at once: the advisory lock of the import is checked between
  ticks as the indexer's is, and a worker that lost it finishes its tick. The
  import has no leases to tell the two apart, and a model of both is left for
  later.
* A COMMIT whose answer is lost: a transaction happened and the handler knows, or
  it did not.
* The content of previews, the numeric side of face recognition and the
  clustering of faces; the steps and failures of the tools are modelled.
* The OAuth state, the settings and the naming of imported entries; shortcuts.
* The rate window of API keys, scopes and request logs.
* The copy of folder trees with its depth and entry limits.
* The library's queries, health, configuration, the range parser, the frontend,
  deployment scripts and the Windows client, which is a program of its own.

## 6. Plan

1. Proof of `RemovedOnlyUnreferenced` where there are no links and copies.
2. `Quota`: reservations of uploads, links and imports under the advisory lock.
3. A second import worker, and answers of COMMIT that are lost.
4. The copy of folder trees.
5. The Windows engine composed with an abstract upload API.
