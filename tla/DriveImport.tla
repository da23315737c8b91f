---------------------------- MODULE DriveImport -----------------------------
(***************************************************************************)
(* The Google Drive import (google_drive.rs): one account, one selected    *)
(* folder, the sync worker that lists the folder and copies its files page *)
(* by page and file by file, and the requests that select, remove, pause   *)
(* and disconnect while it works.                                          *)
(*                                                                         *)
(* The worker is a single task; each of its statements and transactions is *)
(* a step, and it may stop between any two of them.  The contents of a     *)
(* google file have the md5 the listing shows; an edit may bring earlier   *)
(* contents back.  What a listing shows is read when it is recorded: nobody *)
(* else reads it, so an edit in between is one right after.                *)
(*                                                                         *)
(* An item is a file of a run.  Its commit creates one storage object, one *)
(* version and perhaps one entry: all three carry the name of the item.    *)
(***************************************************************************)
EXTENDS Naturals, FiniteSets

CONSTANTS
    Runs,          \* bound: runs that can be started
    RootFiles,     \* the files in the selected folder
    NestedFiles,   \* the files in a folder inside it
    LaterFiles,    \* the files on the second page of the listing of their folder
    NativeFiles,   \* the files with a Google format that cannot be exported
    ExportFiles,   \* the files that are exported: listed without md5 and size
    Contents,      \* the contents a file can have, by their md5
    FailureLimit,  \* FAILURE_LIMIT
    MaxFaults,     \* bound: crashes, failed requests and failed statements
    NULL

Files == RootFiles \cup NestedFiles
Items == Runs \X Files
Folders == IF NestedFiles = {} THEN {"root"} ELSE {"root", "nested"}

ASSUME ImportAssumption ==
    /\ RootFiles \cap NestedFiles = {}
    /\ LaterFiles \subseteq Files
    /\ NativeFiles \subseteq Files /\ ExportFiles \subseteq Files
    /\ FailureLimit \in Nat \ {0}
    /\ MaxFaults \in Nat
    /\ NULL \notin Items /\ NULL \notin Runs
    /\ NULL \notin Runs \X Folders
    /\ NULL \notin Contents
    /\ NULL \notin [entry : Items, md5 : Contents \cup {NULL}]
    /\ IsFiniteSet(Files)
    /\ Files \cap {"root", "nested"} = {}

VARIABLES
    remote,    \* Google: the contents of each file
    conn,      \* the connection: none, active, reauth_required
    halted,    \* connection.paused
    source,    \* the selected folder: none, enabled, disabled
    run,       \* google_drive_runs: state and counters
    checked,   \* who has seen that the present source has no active run
    pages,     \* google_drive_list_queue, by run and folder: none, todo, more
               \* (a page token is stored), done, cut (done, the token refused)
    item,      \* google_drive_items
    object,    \* storage_objects: none, pending, ready, deleting
    unlinked,  \* deleting objects a sweep has unlinked and is about to delete
    entry,     \* drive_entries: none, live, trash, restored (live again)
    home,      \* the file an object is a version of, or NULL
    current,   \* files.current_version_id, by entry
    data,      \* the contents of the bytes of an object, NULL before the download
    staged,    \* staging files
    payload,   \* payload files
    link,      \* google_drive_links: an entry and the md5 listed for it, or NULL
    worker,    \* what the worker does
    faults     \* faults so far

settings == <<conn, halted, source, checked>>
drive == <<object, unlinked, entry, home, current, data>>
disk == <<staged, payload>>
vars == <<remote, conn, halted, source, run, checked, pages, item, object,
          unlinked, entry, home, current, data, staged, payload, link, worker,
          faults>>

NoRun == [state |-> "none", discovered |-> 0, downloaded |-> 0, skipped |-> 0, failed |-> 0]
NoItem == [state |-> "none", md5 |-> NULL, key |-> FALSE, object |-> FALSE]
Idle == [pc |-> "tick", item |-> NULL, page |-> NULL, left |-> {}, failures |-> 0]

Active(r) == run[r].state \in {"listing", "downloading"}
Open(i) == item[i].state \in {"pending", "downloading", "committing"}
FilesIn(folder) == IF folder = "root" THEN RootFiles ELSE NestedFiles
FoldersIn(folder) == IF folder = "root" THEN Folders \ {"root"} ELSE {}

\* What is on the page of a folder that is listed without or with a token.
OnPage(folder, row) ==
    IF row = "more" THEN FilesIn(folder) \cap LaterFiles
    ELSE (FilesIn(folder) \ LaterFiles) \cup FoldersIn(folder)

\* deleted_at IS NULL.
Live(e) == entry[e] \in {"live", "restored"}

\* The joins every query of the worker makes: source, connection, account.
Syncing == source = "enabled" /\ conn = "active" /\ ~halted

At(pc) == [worker EXCEPT !.pc = pc]
EndTick == [Idle EXCEPT !.failures = 0]
SetItem(i, record) == item' = [item EXCEPT ![i] = record]

\* The counters of run r move by one.
Counted(r, field) == [run EXCEPT ![r] = [run[r] EXCEPT ![field] = @ + 1]]

-----------------------------------------------------------------------------
(* sync_tick *)

\* recover_downloads: what was downloading when the worker stopped starts over.
RecoverDownloads ==
    LET stuck == {i \in Items : item[i].state = "downloading"}
    IN /\ worker.pc = "tick"
       /\ item' = [i \in Items |->
                     IF i \in stuck
                     THEN [item[i] EXCEPT !.state = "pending", !.key = FALSE] ELSE item[i]]
       /\ staged' = {i \in staged : i \in stuck => ~item[i].key}
       /\ worker' = At("resume")
       /\ UNCHANGED <<remote, settings, run, pages, drive, payload, link, faults>>

\* resume_commit looks at one item that is committing.
Resumable(i) == item[i].state = "committing"

\* Its object row is gone, after a purge: abandon_commit gives the item up.  A
\* row that is there keeps its staging key and checksum until the item is stored,
\* so the branches that give up an item with an object are never taken.
AbandonCommit ==
    /\ worker.pc = "resume"
    /\ \E i \in Items :
         /\ Resumable(i)
         /\ ~item[i].object
         /\ staged' = staged \ {i}
         /\ SetItem(i, [item[i] EXCEPT !.state = "failed", !.key = FALSE])
         /\ run' = Counted(i[1], "failed")
    /\ worker' = EndTick
    /\ UNCHANGED <<remote, settings, pages, drive, payload, link, faults>>

\* The object's row is there: its payload is looked for next.
ResumeCommit ==
    /\ worker.pc = "resume"
    /\ \E i \in Items :
         /\ Resumable(i)
         /\ item[i].object
         /\ worker' = [At("rename") EXCEPT !.item = i]
    /\ UNCHANGED <<remote, settings, run, pages, item, drive, disk, link, faults>>

ResumeNothing ==
    /\ worker.pc = "resume"
    /\ ~ \E i \in Items : Resumable(i)
    /\ worker' = At("schedule")
    /\ UNCHANGED <<remote, settings, run, pages, item, drive, disk, link, faults>>

\* start_run: a run and the first page of its folder.
StartRun(r) ==
    /\ run[r].state = "none"
    /\ run' = [run EXCEPT ![r] = [NoRun EXCEPT !.state = "listing"]]
    /\ pages' = [pages EXCEPT ![r] = [p \in Folders |-> IF p = "root" THEN "todo" ELSE "none"]]

\* ensure_scheduled_run reads for an active run, without a lock, and inserts one
\* in a transaction of its own; a day may have passed at any time.
ScheduleCheck ==
    /\ worker.pc = "schedule"
    /\ Syncing
    /\ ~ \E r \in Runs : Active(r)
    /\ checked' = checked \cup {"worker"}
    /\ worker' = At("start")
    /\ UNCHANGED <<remote, conn, halted, source, run, pages, item, drive, disk, link,
                   faults>>

ScheduleInsert ==
    /\ worker.pc = "start"
    /\ "worker" \in checked
    /\ checked' = checked \ {"worker"}
    /\ \/ \E r \in Runs : StartRun(r)
       \/ (\A r \in Runs : run[r].state # "none") /\ UNCHANGED <<run, pages>>
    /\ worker' = At("claim")
    /\ UNCHANGED <<remote, conn, halted, source, item, drive, disk, link, faults>>

NotScheduled ==
    /\ worker.pc = "schedule"
    /\ worker' = At("claim")
    /\ UNCHANGED <<remote, settings, run, pages, item, drive, disk, link, faults>>

Claimable(i) == item[i].state = "pending" /\ Active(i[1]) /\ Syncing

\* claim_item.
ClaimItem ==
    /\ worker.pc = "claim"
    /\ \E i \in Items :
         /\ Claimable(i)
         /\ SetItem(i, [item[i] EXCEPT !.state = "downloading"])
         /\ worker' = [At("download") EXCEPT !.item = i]
    /\ UNCHANGED <<remote, settings, run, pages, drive, disk, link, faults>>

\* The indexer has too much to do and there is something to download.  Nothing
\* bounds this: jobs stay queued as long as no indexer runs.
Deferred ==
    /\ worker.pc = "claim"
    /\ \E i \in Items : item[i].state = "pending" /\ Active(i[1])
    /\ worker' = [Idle EXCEPT !.failures = worker.failures]
    /\ UNCHANGED <<remote, settings, run, pages, item, drive, disk, link, faults>>

-----------------------------------------------------------------------------
(* download_claimed *)

\* The connection was removed or needs a new sign-in since the item was claimed:
\* worker_access_token has no token.
Unauthorized ==
    /\ worker.pc = "download"
    /\ conn # "active"
    /\ worker' = At("fail")
    /\ UNCHANGED <<remote, settings, run, pages, item, drive, disk, link, faults>>

\* The first part of stage_download: Google answers, which it has as long as it
\* likes for, then the staging file and its key.
CreateStaging ==
    LET i == worker.item
    IN /\ worker.pc = "download"
       /\ staged' = staged \cup {i}
       /\ item' = IF item[i].state = "none" THEN item
                  ELSE [item EXCEPT ![i] = [@ EXCEPT !.key = TRUE]]
       /\ worker' = At("body")
       /\ UNCHANGED <<remote, settings, run, pages, drive, payload, link, faults>>

\* The body has arrived, hashed and synced.
DownloadBody ==
    LET i == worker.item
    IN /\ worker.pc = "body"
       /\ data' = [data EXCEPT ![i] = remote[i[2]]]
       /\ worker' = At("commit")
       /\ UNCHANGED <<remote, settings, run, pages, item, object, unlinked, entry, home,
                      current, disk, link, faults>>

\* 429: release_item, and the worker backs off.
RateLimited ==
    LET i == worker.item
    IN /\ faults < MaxFaults
       /\ worker.pc = "download"
       /\ item' = IF item[i].state = "downloading"
                  THEN [item EXCEPT ![i] = [@ EXCEPT !.state = "pending", !.key = FALSE]]
                  ELSE item
       /\ faults' = faults + 1
       /\ worker' = [Idle EXCEPT !.failures = worker.failures]
       /\ UNCHANGED <<remote, settings, run, pages, drive, disk, link>>

\* Any other failure up to the commit: the parent or the remote file is missing,
\* no quota, the body stalls, commit_staged is refused.  The staging file goes.
DownloadFails ==
    /\ faults < MaxFaults
    /\ worker.pc \in {"download", "body", "commit"}
    /\ staged' = staged \ {worker.item}
    /\ faults' = faults + 1
    /\ worker' = At("fail")
    /\ UNCHANGED <<remote, settings, run, pages, item, drive, payload, link>>

\* Storage is low: the runs of every account fail first.
StorageLow ==
    /\ faults < MaxFaults
    /\ worker.pc = "body"
    /\ run' = [r \in Runs |-> IF Active(r) THEN [run[r] EXCEPT !.state = "failed"] ELSE run[r]]
    /\ staged' = staged \ {worker.item}
    /\ faults' = faults + 1
    /\ worker' = At("fail")
    /\ UNCHANGED <<remote, settings, pages, item, drive, payload, link>>

\* fail_item: the item first, the counter of its run in a statement of its own.
FailItem ==
    LET i == worker.item
    IN /\ worker.pc = "fail"
       /\ IF item[i].state \in {"pending", "downloading"}
          THEN /\ SetItem(i, [item[i] EXCEPT !.state = "failed", !.key = FALSE])
               /\ worker' = At("count")
          ELSE /\ worker' = EndTick
               /\ UNCHANGED item
       /\ UNCHANGED <<remote, settings, run, pages, drive, disk, link, faults>>

CountFailure ==
    /\ worker.pc = "count"
    /\ run' = IF run[worker.item[1]].state = "deleted" THEN run
              ELSE Counted(worker.item[1], "failed")
    /\ worker' = EndTick
    /\ UNCHANGED <<remote, settings, pages, item, drive, disk, link, faults>>

\* Fault: a linked file is not looked up.
AlwaysNewEntry(i) == i

\* The entry commit_staged writes to: the linked one while it is live.
TargetEntry(i) ==
    LET known == link[i[2]]
    IN IF known # NULL /\ Live(known.entry) THEN known.entry ELSE i

\* commit_staged: object, entry, version and item in one transaction.  Nobody
\* looks whether the item was still there to be updated.
CommitStaged ==
    LET i == worker.item
        e == TargetEntry(i)
    IN /\ worker.pc = "commit"
       /\ object' = [object EXCEPT ![i] = "pending"]
       /\ entry' = [entry EXCEPT ![e] = IF @ = "restored" THEN @ ELSE "live"]
       /\ home' = [home EXCEPT ![i] = e]
       /\ current' = [current EXCEPT ![e] = i]
       /\ item' = IF item[i].state = "downloading"
                  THEN [item EXCEPT ![i] = [@ EXCEPT !.state = "committing", !.object = TRUE]]
                  ELSE item
       /\ worker' = At("promote")
       /\ UNCHANGED <<remote, settings, run, pages, unlinked, data, disk, link, faults>>

\* promote_and_finish: the object of the item is looked up, if both are there.
Promote ==
    /\ worker.pc = "promote"
    /\ worker' = IF item[worker.item].object THEN At("rename") ELSE EndTick
    /\ UNCHANGED <<remote, settings, run, pages, item, drive, disk, link, faults>>

\* promote_staging_file, or nothing to promote: the payload is in place already.
\* A sweep may have marked and unlinked the object since it was looked up.
Rename ==
    LET i == worker.item
    IN /\ worker.pc = "rename"
       /\ i \in payload \cup staged
       /\ staged' = staged \ {i}
       /\ payload' = payload \cup {i}
       /\ worker' = At("ready")
       /\ UNCHANGED <<remote, settings, run, pages, item, drive, link, faults>>

\* Fault: the link records what Google has now instead of what was listed.
LinkLatest(i) == remote[i[2]]

\* Fault: the link keeps the size where the md5 belongs.
LinkSize(i) == 0

\* What the link remembers of the remote file.
LinkedMd5(i) == item[i].md5

\* Fault: the object becomes ready whatever a sweep has made of it.
ReadyAnyway(i) == object[i] # "none"

\* state IN ('pending', 'ready')
CanBeReady(i) == object[i] \in {"pending", "ready"}

\* finish_ready: object, link, item and counter in one transaction.  The entry
\* may have been purged (local_file_id is NULL then), the item removed, the object
\* be on its way out.  The index jobs it inserts arrive in MediaQueue.
FinishReady ==
    LET i == worker.item
    IN /\ worker.pc = "ready"
       /\ object' = IF CanBeReady(i) THEN [object EXCEPT ![i] = "ready"] ELSE object
       /\ link' = IF item[i].state # "none" /\ home[i] # NULL
                  THEN [link EXCEPT ![i[2]] = [entry |-> home[i], md5 |-> LinkedMd5(i)]]
                  ELSE link
       /\ IF item[i].state = "committing"
          THEN /\ SetItem(i, [item[i] EXCEPT !.state = "stored", !.key = FALSE])
               /\ run' = Counted(i[1], "downloaded")
          ELSE UNCHANGED <<item, run>>
       /\ worker' = EndTick
       /\ UNCHANGED <<remote, settings, pages, unlinked, entry, home, current, data,
                      disk, faults>>

-----------------------------------------------------------------------------
(* list_one_page and finish_runs *)

Listable(r, p) == pages[r][p] \in {"todo", "more"} /\ Active(r) /\ Syncing

\* There is nothing to download and a page to list.
ListTurn ==
    /\ worker.pc = "claim"
    /\ ~ \E i \in Items : Claimable(i)
    /\ \E r \in Runs, p \in Folders : Listable(r, p)

\* One page of a folder is fetched; what is on it is recorded next.
ListPage ==
    /\ ListTurn
    /\ \E r \in Runs, p \in Folders :
         /\ Listable(r, p)
         /\ worker' = [At("list") EXCEPT !.page = <<r, p>>,
                                        !.left = OnPage(p, pages[r][p])]
    /\ UNCHANGED <<remote, settings, run, pages, item, drive, disk, link, faults>>

NothingToList ==
    /\ worker.pc = "claim"
    /\ ~ \E i \in Items : Claimable(i)
    /\ ~ \E r \in Runs, p \in Folders : Listable(r, p)
    /\ worker' = At("finish")
    /\ UNCHANGED <<remote, settings, run, pages, item, drive, disk, link, faults>>

\* The md5 in the listing.
Listed(g) == IF g \in ExportFiles THEN NULL ELSE remote[g]

\* content_unchanged against the link of the file: md5 decides, and without md5
\* and size a file never counts as unchanged.
Unchanged(g) == link[g] # NULL /\ Listed(g) # NULL /\ link[g].md5 = Listed(g)

\* Fault: a file that is listed again counts again.
AlwaysInserted(r, g) == TRUE

\* ON CONFLICT (run_id, google_file_id) DO NOTHING RETURNING state.
Inserted(r, g) == item[<<r, g>>].state = "none"

\* remember_file, one transaction per file.
RememberFile ==
    LET r == worker.page[1]
    IN /\ worker.pc = "list"
       /\ run[r].state # "deleted"
       /\ \E g \in worker.left \cap Files :
            LET skip == g \in NativeFiles \/ Unchanged(g)
                new == [NoItem EXCEPT !.state = IF skip THEN "skipped" ELSE "pending",
                                      !.md5 = Listed(g)]
                counters == [run[r] EXCEPT !.discovered = @ + 1,
                                           !.skipped = IF skip THEN @ + 1 ELSE @]
            IN /\ worker' = [worker EXCEPT !.left = @ \ {g}]
               /\ item' = IF item[<<r, g>>].state = "none"
                          THEN [item EXCEPT ![<<r, g>>] = new] ELSE item
               /\ run' = IF Inserted(r, g) THEN [run EXCEPT ![r] = counters] ELSE run
       /\ UNCHANGED <<remote, settings, pages, drive, disk, link, faults>>

\* remember_folder queues the folder once per run.
RememberFolder ==
    LET r == worker.page[1]
    IN /\ worker.pc = "list"
       /\ run[r].state # "deleted"
       /\ \E p \in worker.left \cap Folders :
            /\ worker' = [worker EXCEPT !.left = @ \ {p}]
            /\ pages' = IF pages[r][p] = "none"
                        THEN [pages EXCEPT ![r] = [@ EXCEPT ![p] = "todo"]] ELSE pages
       /\ UNCHANGED <<remote, settings, run, item, drive, disk, link, faults>>

\* What the queue row becomes: a valid token for the next page is stored; a token
\* valid_page_token refuses ends the folder as no token does.
NextRow(p, row) ==
    IF row = "todo" /\ FilesIn(p) \cap LaterFiles # {} THEN {"more", "cut"}
    ELSE {"done"}

\* Fault: the page is done as soon as it has been fetched.
DoneEarly ==
    LET r == worker.page[1]
        p == worker.page[2]
    IN /\ worker.pc = "list"
       /\ IF run[r].state = "deleted" THEN UNCHANGED pages
          ELSE \E row \in NextRow(p, pages[r][p]) :
                 pages' = [pages EXCEPT ![r] = [@ EXCEPT ![p] = row]]
       /\ worker' = EndTick
       /\ UNCHANGED <<remote, settings, run, item, drive, disk, link, faults>>

\* The queue row advances after everything on the page is recorded.
PageDone ==
    LET r == worker.page[1]
        p == worker.page[2]
    IN /\ worker.pc = "list"
       /\ worker.left = {}
       /\ IF run[r].state = "deleted" THEN UNCHANGED pages
          ELSE \E row \in NextRow(p, pages[r][p]) :
                 pages' = [pages EXCEPT ![r] = [@ EXCEPT ![p] = row]]
       /\ worker' = EndTick
       /\ UNCHANGED <<remote, settings, run, item, drive, disk, link, faults>>

\* finish_runs: a run whose pages are all done waits for its items or is over.
FinishRuns ==
    LET listed(r) == Active(r) /\ \A p \in Folders : pages[r][p] \notin {"todo", "more"}
        over(r) == ~ \E i \in Items : i[1] = r /\ Open(i)
    IN /\ worker.pc = "finish"
       /\ run' = [r \in Runs |->
                    IF listed(r)
                    THEN [run[r] EXCEPT !.state = IF over(r) THEN "completed" ELSE "downloading"]
                    ELSE run[r]]
       /\ worker' = EndTick
       /\ UNCHANGED <<remote, settings, pages, item, drive, disk, link, faults>>

-----------------------------------------------------------------------------
(* When something goes wrong *)

\* The tick ends with an error; after FailureLimit of them in a row the active
\* runs of all accounts fail.
TickError ==
    LET failures == worker.failures + 1
    IN IF failures >= FailureLimit
       THEN /\ run' = [r \in Runs |->
                         IF Active(r) THEN [run[r] EXCEPT !.state = "failed"] ELSE run[r]]
            /\ worker' = Idle
       ELSE /\ worker' = [Idle EXCEPT !.failures = failures]
            /\ UNCHANGED run

\* The run of the page was removed: an insert violates its foreign key.
ListFails ==
    /\ worker.pc = "list"
    /\ worker.left # {}
    /\ run[worker.page[1]].state = "deleted"
    /\ TickError
    /\ UNCHANGED <<remote, settings, pages, item, drive, disk, link, faults>>

\* The source was removed between check and insert, or the payload and the staging
\* file of an item that is committing are both gone: its object is deleting.
TickRefused ==
    /\ \/ worker.pc = "start" /\ "worker" \notin checked
       \/ worker.pc = "rename" /\ worker.item \notin payload \cup staged
    /\ TickError
    /\ UNCHANGED <<remote, settings, pages, item, drive, disk, link, faults>>

\* A statement, a request or the mount fails.  Inside promote_and_finish the
\* error is logged and the tick counts as work; in resume_commit it does not.
TickFails ==
    /\ faults < MaxFaults
    /\ worker.pc # "tick"
    /\ \/ worker.pc \in {"promote", "rename", "ready"} /\ worker' = EndTick /\ UNCHANGED run
       \/ worker.pc # "promote" /\ TickError
    /\ faults' = faults + 1
    /\ UNCHANGED <<remote, settings, pages, item, drive, disk, link>>

\* The process stops and starts again.
Crash ==
    /\ faults < MaxFaults
    /\ worker # Idle
    /\ worker' = Idle
    /\ faults' = faults + 1
    /\ UNCHANGED <<remote, settings, run, pages, item, drive, disk, link>>

\* The refresh token is refused, to the worker or to a request that lists folders:
\* mark_reauth.  A download fails its item, a listing the tick.
MarkReauth ==
    /\ faults < MaxFaults
    /\ conn = "active"
    /\ conn' = "reauth_required"
    /\ \/ worker.pc = "download" /\ worker' = At("fail") /\ UNCHANGED run
       \/ ListTurn /\ TickError
       \/ UNCHANGED <<run, worker>>
    /\ faults' = faults + 1
    /\ UNCHANGED <<remote, halted, source, checked, pages, item, drive, disk, link>>

\* Google refuses the cached token for a page: it is dropped and the tick goes on
\* as if there were nothing to list.
ListRefused ==
    /\ faults < MaxFaults
    /\ ListTurn
    /\ worker' = At("finish")
    /\ faults' = faults + 1
    /\ UNCHANGED <<remote, settings, run, pages, item, drive, disk, link>>

-----------------------------------------------------------------------------
(* Requests *)

\* finish_callback: a new connection, or new tokens for the one there is.
Connect ==
    /\ conn' = "active"
    /\ halted' = FALSE
    /\ UNCHANGED <<remote, source, checked, run, pages, item, drive, disk, link, worker,
                   faults>>

SetPause ==
    /\ conn # "none"
    /\ halted' = ~halted
    /\ UNCHANGED <<remote, conn, source, checked, run, pages, item, drive, disk, link,
                   worker, faults>>

\* select_source adds the folder or takes it up again.
SelectSource ==
    /\ conn = "active"
    /\ source # "enabled"
    /\ source' = "enabled"
    /\ \E r \in Runs : StartRun(r)
    /\ UNCHANGED <<remote, conn, halted, checked, item, drive, disk, link, worker, faults>>

\* sync_source reads for an active run, without a lock, and inserts one: no index
\* keeps a second run from being started in between.
SyncCheck ==
    /\ source = "enabled"
    /\ ~ \E r \in Runs : Active(r)
    /\ "sync" \notin checked
    /\ checked' = checked \cup {"sync"}
    /\ UNCHANGED <<remote, conn, halted, source, run, pages, item, drive, disk, link,
                   worker, faults>>

SyncInsert ==
    /\ "sync" \in checked
    /\ checked' = checked \ {"sync"}
    /\ \E r \in Runs : StartRun(r)
    /\ UNCHANGED <<remote, conn, halted, source, item, drive, disk, link, worker, faults>>

\* The rows of the source go with it: runs, pages, items.  A run that is gone is
\* never started again, and nothing is started for a source that is gone.
Cascaded ==
    /\ run' = [r \in Runs |-> IF run[r].state = "none" THEN run[r]
                              ELSE [NoRun EXCEPT !.state = "deleted"]]
    /\ checked' = {}
    /\ pages' = [r \in Runs |-> [p \in Folders |-> "none"]]
    /\ item' = [i \in Items |-> NoItem]

\* remove_source: cancel, drop what is pending, keep the source only for the
\* sake of an item that is committing.
RemoveSource ==
    /\ source = "enabled"
    /\ IF \E i \in Items : item[i].state = "committing"
       THEN /\ source' = "disabled"
            /\ run' = [r \in Runs |->
                         IF Active(r) THEN [run[r] EXCEPT !.state = "cancelled"] ELSE run[r]]
            /\ item' = [i \in Items |->
                          IF item[i].state = "pending" THEN NoItem ELSE item[i]]
            /\ UNCHANGED <<checked, pages>>
       ELSE /\ source' = "none"
            /\ Cascaded
    /\ UNCHANGED <<remote, conn, halted, drive, disk, link, worker, faults>>

Disconnect ==
    /\ conn # "none"
    /\ conn' = "none"
    /\ halted' = FALSE
    /\ source' = "none"
    /\ Cascaded
    /\ UNCHANGED <<remote, drive, disk, link, worker, faults>>

\* The owner trashes an imported file, or takes it back.
TrashEntry(e) ==
    /\ Live(e)
    /\ entry' = [entry EXCEPT ![e] = "trash"]
    /\ UNCHANGED <<remote, settings, run, pages, item, object, unlinked, home, current,
                   data, disk, link, worker, faults>>

RestoreEntry(e) ==
    /\ entry[e] = "trash"
    /\ entry' = [entry EXCEPT ![e] = "restored"]
    /\ UNCHANGED <<remote, settings, run, pages, item, object, unlinked, home, current,
                   data, disk, link, worker, faults>>

\* It is deleted for good: its versions, the file, the entry and the link go; its
\* objects stay, without a version.
PurgeEntry(e) ==
    /\ entry[e] = "trash"
    /\ entry' = [entry EXCEPT ![e] = "none"]
    /\ home' = [i \in Items |-> IF home[i] = e THEN NULL ELSE home[i]]
    /\ current' = [current EXCEPT ![e] = NULL]
    /\ link' = [g \in Files |->
                  IF link[g] # NULL /\ link[g].entry = e THEN NULL ELSE link[g]]
    /\ UNCHANGED <<remote, settings, run, pages, item, object, unlinked, data, disk,
                   worker, faults>>

-----------------------------------------------------------------------------
(* delete_unreferenced_objects after a purge, remove_unreferenced_objects of  *)
(* every maintenance pass: object by object, whatever the import does with it *)

\* An object no file has a version of is marked.
MarkDeleting(i) ==
    /\ object[i] \in {"pending", "ready"}
    /\ home[i] = NULL
    /\ object' = [object EXCEPT ![i] = "deleting"]
    /\ UNCHANGED <<remote, settings, run, pages, item, unlinked, entry, home, current,
                   data, disk, link, worker, faults>>

\* Its payload goes first.
UnlinkObject(i) ==
    /\ object[i] = "deleting"
    /\ i \notin unlinked
    /\ payload' = payload \ {i}
    /\ unlinked' = unlinked \cup {i}
    /\ UNCHANGED <<remote, settings, run, pages, item, object, entry, home, current, data,
                   staged, link, worker, faults>>

\* Its row last; google_drive_items.storage_object_id is ON DELETE SET NULL.
DeleteObject(i) ==
    /\ i \in unlinked
    /\ object[i] = "deleting" /\ home[i] = NULL
    /\ object' = [object EXCEPT ![i] = "none"]
    /\ unlinked' = unlinked \ {i}
    /\ item' = [item EXCEPT ![i] = [@ EXCEPT !.object = FALSE]]
    /\ UNCHANGED <<remote, settings, run, pages, entry, home, current, data, disk, link,
                   worker, faults>>

\* The pass ends before: the object is deleting and another pass takes it up.
SweepFails(i) ==
    /\ i \in unlinked
    /\ unlinked' = unlinked \ {i}
    /\ UNCHANGED <<remote, settings, run, pages, item, object, entry, home, current, data,
                   disk, link, worker, faults>>

\* Google: somebody edits the file, or takes an edit back.
RemoteEdit(g) ==
    /\ \E c \in Contents \ {remote[g]} : remote' = [remote EXCEPT ![g] = c]
    /\ UNCHANGED <<settings, run, pages, item, drive, disk, link, worker, faults>>

-----------------------------------------------------------------------------
Init ==
    /\ remote \in [Files -> Contents]
    /\ conn = "none"
    /\ halted = FALSE
    /\ source = "none"
    /\ run = [r \in Runs |-> NoRun]
    /\ checked = {}
    /\ pages = [r \in Runs |-> [p \in Folders |-> "none"]]
    /\ item = [i \in Items |-> NoItem]
    /\ object = [i \in Items |-> "none"]
    /\ unlinked = {}
    /\ entry = [i \in Items |-> "none"]
    /\ home = [i \in Items |-> NULL]
    /\ current = [i \in Items |-> NULL]
    /\ data = [i \in Items |-> NULL]
    /\ staged = {}
    /\ payload = {}
    /\ link = [g \in Files |-> NULL]
    /\ worker = Idle
    /\ faults = 0

WorkerStep ==
    \/ RecoverDownloads \/ AbandonCommit \/ ResumeCommit \/ ResumeNothing
    \/ ScheduleCheck \/ ScheduleInsert \/ NotScheduled
    \/ ClaimItem \/ Deferred \/ Unauthorized \/ CreateStaging \/ DownloadBody
    \/ FailItem \/ CountFailure \/ CommitStaged \/ Promote \/ Rename \/ FinishReady
    \/ ListPage \/ NothingToList \/ RememberFile \/ RememberFolder \/ PageDone
    \/ ListFails \/ TickRefused
    \/ FinishRuns

Fault ==
    \/ RateLimited \/ DownloadFails \/ StorageLow \/ TickFails
    \/ Crash \/ MarkReauth \/ ListRefused

Request ==
    \/ Connect \/ SetPause \/ SelectSource \/ SyncCheck \/ SyncInsert \/ RemoveSource
    \/ Disconnect
    \/ \E e \in Items : TrashEntry(e) \/ RestoreEntry(e) \/ PurgeEntry(e)

Sweep ==
    \E i \in Items :
        MarkDeleting(i) \/ UnlinkObject(i) \/ DeleteObject(i) \/ SweepFails(i)

Next ==
    \/ WorkerStep
    \/ Fault
    \/ Request
    \/ Sweep
    \/ \E g \in Files : RemoteEdit(g)

Spec == Init /\ [][Next]_vars

-----------------------------------------------------------------------------
(* Properties *)

RunStates ==
    {"none", "listing", "downloading", "completed", "failed", "cancelled", "deleted"}
ItemStates ==
    {"none", "pending", "downloading", "committing", "stored", "skipped", "failed"}

\* Types of the tables and of the worker.
TypeOK ==
    /\ remote \in [Files -> Contents]
    /\ conn \in {"none", "active", "reauth_required"}
    /\ halted \in BOOLEAN
    /\ source \in {"none", "enabled", "disabled"}
    /\ run \in [Runs -> [state : RunStates, discovered : Nat, downloaded : Nat,
                         skipped : Nat, failed : Nat]]
    /\ checked \subseteq {"worker", "sync"}
    /\ pages \in [Runs -> [Folders -> {"none", "todo", "more", "done", "cut"}]]
    /\ item \in [Items -> [state : ItemStates, md5 : Contents \cup {NULL}, key : BOOLEAN,
                           object : BOOLEAN]]
    /\ object \in [Items -> {"none", "pending", "ready", "deleting"}]
    /\ unlinked \subseteq Items
    /\ entry \in [Items -> {"none", "live", "trash", "restored"}]
    /\ home \in [Items -> Items \cup {NULL}]
    /\ current \in [Items -> Items \cup {NULL}]
    /\ data \in [Items -> Contents \cup {NULL}]
    /\ staged \subseteq Items /\ payload \subseteq Items
    /\ link \in [Files -> [entry : Items, md5 : Contents \cup {NULL}] \cup {NULL}]
    /\ faults \in 0..MaxFaults

\* An object that is ready has its payload, wherever the worker was stopped
\* between the rename and the transaction of finish_ready, and whatever a purge
\* and the sweeps after it do to the object in between.
ReadyHasPayload == \A i \in Items : object[i] = "ready" => i \in payload

\* However often a file is listed, downloaded and taken up again after a crash,
\* no two live files with readable content come from it, as long as the source
\* that imported them has not been removed in between.  A copy that was in the
\* trash may have been replaced there, and does not count when it is restored.
NoSecondCopy ==
    \A e1, e2 \in Items :
        /\ e1 # e2 /\ e1[2] = e2[2]
        /\ run[e1[1]].state # "deleted" /\ run[e2[1]].state # "deleted"
        /\ entry[e1] = "live" /\ entry[e2] = "live"
        => \/ object[current[e1]] # "ready"
           \/ object[current[e2]] # "ready"

\* When the next listing would skip a file as unchanged, the drive really holds
\* what Google has, unless the version it shows was edited between its listing and
\* its download.  (Such a file is skipped when the edit is taken back, and the
\* drive keeps the edit.)
SkipIsCurrent ==
    \A g \in Files :
        /\ Unchanged(g)
        /\ Live(link[g].entry)
        => LET v == current[link[g].entry]
           IN item[v].state = "stored" /\ data[v] = item[v].md5
                => data[v] = remote[g]

\* A completed run has seen every file of the folder and of the folders in it,
\* and is done with each: a page that was interrupted is listed again.  Only what
\* is behind a page token that was refused is missing.
CompletedSawAll ==
    \A r \in Runs : run[r].state = "completed" =>
        \A p \in Folders : \A g \in FilesIn(p) :
            \/ item[<<r, g>>].state \in {"stored", "skipped", "failed"}
            \/ pages[r][p] = "cut" /\ g \in LaterFiles

Number(r, states) == Cardinality({g \in Files : item[<<r, g>>].state \in states})

\* The counts on the Google Drive screen, while a run goes on and when it has
\* completed: files found, downloaded and skipped are exact at every moment;
\* failures are never overstated.
CountsMatch ==
    \A r \in Runs : Active(r) \/ run[r].state = "completed" =>
        /\ run[r].discovered = Number(r, ItemStates \ {"none"})
        /\ run[r].downloaded = Number(r, {"stored"})
        /\ run[r].skipped = Number(r, {"skipped"})
        /\ run[r].failed <= Number(r, {"failed"})
=============================================================================
