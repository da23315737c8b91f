------------------------- MODULE DriveImport_proofs -------------------------
(***************************************************************************)
(* The safety properties of DriveImport for any number of runs, files,     *)
(* contents and faults.                                                    *)
(*                                                                         *)
(* The worker does one item at a time and looks for an interrupted commit  *)
(* before anything else: that at most one item is committing, and that     *)
(* nothing else is committed meanwhile, is what keeps the link of a file,  *)
(* its entry and its bytes together.                                       *)
(***************************************************************************)
EXTENDS DriveImport, FiniteSetTheorems, TLAPS

-----------------------------------------------------------------------------
(* Types of the tables and of the worker *)

\* The pcs at which the worker has an item in hand.
HasItem == {"download", "body", "commit", "fail", "count", "promote", "rename", "ready"}

Pcs == {"tick", "resume", "schedule", "start", "claim", "list", "finish"} \cup HasItem

WorkerType ==
    [pc : Pcs, item : Items \cup {NULL}, page : (Runs \X Folders) \cup {NULL},
     left : SUBSET (Files \cup Folders), failures : Nat]

ItemType == [state : ItemStates, md5 : Contents \cup {NULL}, key : BOOLEAN, object : BOOLEAN]

RunType ==
    [state : RunStates, discovered : Nat, downloaded : Nat, skipped : Nat, failed : Nat]

LinkType == [entry : Items, md5 : Contents \cup {NULL}]

WorkerTypes ==
    /\ worker \in WorkerType
    /\ worker.pc \in HasItem => worker.item \in Items
    /\ worker.pc = "list" =>
          /\ worker.page \in Runs \X Folders
          /\ worker.left \subseteq FilesIn(worker.page[2]) \cup FoldersIn(worker.page[2])

TypesInv == TypeOK /\ WorkerTypes

\* The types that are not the item table's or the worker's.
OtherTypes ==
    /\ remote \in [Files -> Contents]
    /\ conn \in {"none", "active", "reauth_required"}
    /\ halted \in BOOLEAN
    /\ source \in {"none", "enabled", "disabled"}
    /\ run \in [Runs -> RunType]
    /\ checked \subseteq {"worker", "sync"}
    /\ pages \in [Runs -> [Folders -> {"none", "todo", "more", "done", "cut"}]]
    /\ object \in [Items -> {"none", "pending", "ready", "deleting"}]
    /\ unlinked \subseteq Items
    /\ entry \in [Items -> {"none", "live", "trash", "restored"}]
    /\ home \in [Items -> Items \cup {NULL}]
    /\ current \in [Items -> Items \cup {NULL}]
    /\ data \in [Items -> Contents \cup {NULL}]
    /\ staged \subseteq Items /\ payload \subseteq Items
    /\ link \in [Files -> LinkType \cup {NULL}]
    /\ faults \in 0..MaxFaults

ItemTypes == item \in [Items -> ItemType]

\* The invariant by tables.
LEMMA TypeParts == TypesInv <=> OtherTypes /\ ItemTypes /\ WorkerTypes
BY DEF TypesInv, TypeOK, OtherTypes, ItemTypes, ItemType, RunType, LinkType

-----------------------------------------------------------------------------
(* The worker *)

\* Every step leaves the worker with an item or a page where it needs one.
LEMMA WorkerTypeSteps ==
    ASSUME TypesInv, Next
    PROVE  WorkerTypes'
<1> USE ImportAssumption
<1>t. WorkerTypes
  BY DEF TypesInv
<1>n. /\ NULL \in Items \cup {NULL} /\ NULL \in (Runs \X Folders) \cup {NULL}
      /\ {} \in SUBSET (Files \cup Folders) /\ 0 \in Nat
  OBVIOUS
<1>w. /\ worker.item \in Items \cup {NULL} /\ worker.page \in (Runs \X Folders) \cup {NULL}
      /\ worker.left \in SUBSET (Files \cup Folders) /\ worker.failures \in Nat
      /\ worker.pc \in Pcs
  BY <1>t DEF WorkerTypes, WorkerType
<1>1. ASSUME NEW pc \in Pcs \ {"list"}, worker' = At(pc),
             pc \in HasItem => worker.item \in Items
      PROVE  WorkerTypes'
  <2>1. /\ worker' \in WorkerType /\ worker'.pc = pc /\ worker'.item = worker.item
    BY <1>1, <1>t DEF At, WorkerTypes, WorkerType
  <2>2. QED
    BY <1>1, <2>1 DEF WorkerTypes
<1>2. ASSUME NEW pc \in HasItem, NEW i \in Items, worker' = [At(pc) EXCEPT !.item = i]
      PROVE  WorkerTypes'
  <2>1. /\ worker' \in WorkerType /\ worker'.pc = pc /\ worker'.item = i
    BY <1>2, <1>t DEF At, WorkerTypes, WorkerType, Pcs
  <2>2. QED
    BY <1>2, <2>1 DEF WorkerTypes, HasItem
<1>3. ASSUME NEW n \in Nat, worker' = [Idle EXCEPT !.failures = n]
      PROVE  WorkerTypes'
  <2>1. worker' \in WorkerType /\ worker'.pc = "tick"
    BY <1>3, <1>n DEF Idle, WorkerType, Pcs
  <2>2. QED
    BY <2>1 DEF WorkerTypes, HasItem
<1>4. ASSUME worker' = Idle \/ worker' = EndTick
      PROVE  WorkerTypes'
  <2>1. worker' \in WorkerType /\ worker'.pc = "tick"
    BY <1>4, <1>n DEF Idle, EndTick, WorkerType, Pcs
  <2>2. QED
    BY <2>1 DEF WorkerTypes, HasItem
<1>5. ASSUME UNCHANGED worker
      PROVE  WorkerTypes'
  BY <1>5, <1>t DEF WorkerTypes
<1>6. ASSUME TickError
      PROVE  WorkerTypes'
  <2>1. worker.failures + 1 \in Nat
    BY <1>w
  <2>2. QED
    BY <1>3, <1>4, <1>6, <2>1 DEF TickError
<1>7. ASSUME NEW x, worker' = [worker EXCEPT !.left = @ \ {x}]
      PROVE  WorkerTypes'
  <2>1. /\ worker' \in WorkerType /\ worker'.pc = worker.pc /\ worker'.item = worker.item
        /\ worker'.page = worker.page /\ worker'.left = worker.left \ {x}
    BY <1>7, <1>t DEF WorkerTypes, WorkerType
  <2>2. QED
    BY <1>t, <2>1 DEF WorkerTypes
<1>8. ASSUME NEW r \in Runs, NEW p \in Folders,
             worker' = [At("list") EXCEPT !.page = <<r, p>>, !.left = OnPage(p, pages[r][p])]
      PROVE  WorkerTypes'
  <2>1. /\ FilesIn(p) \cup FoldersIn(p) \subseteq Files \cup Folders
        /\ OnPage(p, pages[r][p]) \subseteq FilesIn(p) \cup FoldersIn(p)
    BY DEF OnPage, FilesIn, FoldersIn, Files
  <2>2. PICK left : left = OnPage(p, pages[r][p])
    OBVIOUS
  <2>3. /\ worker' \in WorkerType /\ worker'.pc = "list"
        /\ worker'.page = <<r, p>> /\ worker'.left = left
    BY <1>8, <1>t, <2>1, <2>2 DEF At, WorkerTypes, WorkerType, Pcs
  <2>4. QED
    BY <2>1, <2>2, <2>3 DEF WorkerTypes, HasItem
<1>p. /\ {"tick", "resume", "schedule", "start", "claim", "finish", "download", "body",
          "commit", "fail", "count", "promote", "rename", "ready"} \subseteq Pcs \ {"list"}
      /\ worker.pc \in HasItem => worker.item \in Items
  BY <1>t DEF Pcs, HasItem, WorkerTypes
<1>9. CASE WorkerStep
  <2>1. CASE RecoverDownloads \/ ResumeNothing \/ ScheduleCheck \/ ScheduleInsert
             \/ NotScheduled \/ NothingToList
    BY <1>1, <1>p, <2>1 DEF RecoverDownloads, ResumeNothing, ScheduleCheck, ScheduleInsert,
       NotScheduled,
          NothingToList, HasItem
  <2>2. CASE Unauthorized \/ CreateStaging \/ DownloadBody \/ CommitStaged
    BY <1>1, <1>p, <2>2 DEF Unauthorized, CreateStaging, DownloadBody, CommitStaged, HasItem
  <2>3. CASE FailItem \/ Promote \/ Rename
    BY <1>1, <1>4, <1>p, <2>3 DEF FailItem, Promote, Rename, HasItem
  <2>10. CASE Deferred
    BY <1>3, <1>w, <2>10 DEF Deferred
  <2>4. CASE ResumeCommit \/ ClaimItem
    BY <1>2, <2>4 DEF ResumeCommit, ClaimItem, HasItem
  <2>5. CASE AbandonCommit \/ CountFailure \/ FinishReady \/ PageDone \/ FinishRuns
    BY <1>4, <2>5 DEF AbandonCommit, CountFailure, FinishReady, PageDone, FinishRuns
  <2>6. CASE ListPage
    BY <1>8, <2>6 DEF ListPage
  <2>7. CASE RememberFile \/ RememberFolder
    BY <1>7, <2>7 DEF RememberFile, RememberFolder
  <2>8. CASE ListFails \/ TickRefused
    BY <1>6, <2>8 DEF ListFails, TickRefused
  <2>9. QED
    BY <1>9, <2>1, <2>2, <2>3, <2>4, <2>5, <2>6, <2>7, <2>8, <2>10 DEF WorkerStep
<1>10. CASE Fault
  <2>1. CASE RateLimited
    BY <1>3, <1>w, <2>1 DEF RateLimited
  <2>2. CASE DownloadFails \/ StorageLow
    BY <1>1, <1>p, <2>2 DEF DownloadFails, StorageLow, HasItem
  <2>3. CASE TickFails
    BY <1>4, <1>6, <2>3 DEF TickFails
  <2>4. CASE Crash
    BY <1>4, <2>4 DEF Crash
  <2>5. CASE MarkReauth
    BY <1>1, <1>5, <1>6, <1>p, <2>5 DEF MarkReauth, HasItem
  <2>6. CASE ListRefused
    BY <1>1, <1>p, <2>6 DEF ListRefused, HasItem
  <2>7. QED
    BY <1>10, <2>1, <2>2, <2>3, <2>4, <2>5, <2>6 DEF Fault
<1>11. CASE Request
  BY <1>5, <1>11 DEF Request, Connect, SetPause, SelectSource, SyncCheck, SyncInsert,
     RemoveSource,
        Disconnect, TrashEntry, RestoreEntry, PurgeEntry
<1>12. CASE Sweep \/ \E g \in Files : RemoteEdit(g)
  BY <1>5, <1>12 DEF Sweep, MarkDeleting, UnlinkObject, DeleteObject, SweepFails, RemoteEdit
<1>13. QED
  BY <1>9, <1>10, <1>11, <1>12 DEF Next

-----------------------------------------------------------------------------
(* The items *)

\* A table that changes in one row only.
LEMMA ItemFrame ==
    ASSUME ItemTypes, NEW i \in Items, NEW t \in ItemType, SetItem(i, t)
    PROVE  ItemTypes'
BY DEF ItemTypes, SetItem

\* An item the step does not make.
LEMMA NoItemType == NoItem \in ItemType /\ NoItem.state = "none"
<1>1. NULL \in Contents \cup {NULL}
  OBVIOUS
<1>2. "none" \in ItemStates
  BY DEF ItemStates
<1>3. QED
  BY <1>1, <1>2, Zenon DEF NoItem, ItemType

\* Every step keeps the items in their type.
LEMMA ItemTypeSteps ==
    ASSUME TypesInv, Next
    PROVE  ItemTypes'
<1> USE ImportAssumption
<1>t. ItemTypes /\ OtherTypes /\ WorkerTypes
  BY TypeParts
<1>p. worker.pc \in HasItem => worker.item \in Items
  BY <1>t DEF WorkerTypes
<1>s. {"none", "pending", "downloading", "committing", "stored", "skipped", "failed"}
         \subseteq ItemStates
  BY DEF ItemStates
<1>b. TRUE \in BOOLEAN /\ FALSE \in BOOLEAN
  OBVIOUS
<1>i. \A i \in Items : item[i] \in ItemType
  BY <1>t DEF ItemTypes
<1>0. CASE UNCHANGED item
  BY <1>0, <1>t DEF ItemTypes
<1>1. ASSUME NEW i \in Items, NEW s \in ItemStates, item[i].state # "none",
             SetItem(i, [item[i] EXCEPT !.state = s, !.key = FALSE])
      PROVE  ItemTypes'
  <2> DEFINE t == [item[i] EXCEPT !.state = s, !.key = FALSE]
  <2>1. t \in ItemType
    BY <1>i, <1>b, Zenon DEF ItemType
  <2>2. SetItem(i, t)
    BY <1>1
  <2> HIDE DEF t
  <2>4. QED
    BY <1>t, <2>1, <2>2, ItemFrame
<1>2. CASE AbandonCommit \/ FailItem \/ FinishReady
  <2>1. ASSUME AbandonCommit
        PROVE  ItemTypes'
    <3>1. PICK i \in Items :
             /\ Resumable(i)
             /\ SetItem(i, [item[i] EXCEPT !.state = "failed", !.key = FALSE])
      BY <2>1 DEF AbandonCommit
    <3>2. QED
      BY <1>1, <1>s, <3>1 DEF Resumable
  <2>2. ASSUME FailItem
        PROVE  ItemTypes'
    <3>1. worker.item \in Items
      BY <1>p, <2>2 DEF FailItem, HasItem
    <3>2. \/ UNCHANGED item
          \/ /\ item[worker.item].state \in {"pending", "downloading"}
             /\ SetItem(worker.item, [item[worker.item] EXCEPT !.state = "failed", !.key = FALSE])
      BY <2>2 DEF FailItem
    <3>3. QED
      BY <1>0, <1>1, <1>s, <3>1, <3>2
  <2>3. ASSUME FinishReady
        PROVE  ItemTypes'
    <3>1. worker.item \in Items
      BY <1>p, <2>3 DEF FinishReady, HasItem
    <3>2. \/ UNCHANGED item
          \/ /\ item[worker.item].state = "committing"
             /\ SetItem(worker.item, [item[worker.item] EXCEPT !.state = "stored", !.key = FALSE])
      BY <2>3 DEF FinishReady
    <3>3. QED
      BY <1>0, <1>1, <1>s, <3>1, <3>2
  <2>4. QED
    BY <1>2, <2>1, <2>2, <2>3
<1>3. CASE RateLimited
  <2>1. worker.item \in Items
    BY <1>p, <1>3 DEF RateLimited, HasItem
  <2>2. \/ UNCHANGED item
        \/ /\ item[worker.item].state = "downloading"
           /\ SetItem(worker.item, [item[worker.item] EXCEPT !.state = "pending", !.key = FALSE])
    BY <1>3 DEF RateLimited, SetItem
  <2>3. QED
    BY <1>0, <1>1, <1>s, <2>1, <2>2
<1>4. CASE ClaimItem
  <2>1. PICK i \in Items :
           item[i].state = "pending" /\ SetItem(i, [item[i] EXCEPT !.state = "downloading"])
    BY <1>4 DEF ClaimItem, Claimable
  <2> DEFINE t == [item[i] EXCEPT !.state = "downloading"]
  <2>2. t \in ItemType
    BY <1>i, <1>s, Zenon DEF ItemType
  <2>3. SetItem(i, t)
    BY <2>1
  <2> HIDE DEF t
  <2>5. QED
    BY <1>t, <2>2, <2>3, ItemFrame
<1>5. CASE CreateStaging
  <2>1. worker.item \in Items
    BY <1>p, <1>5 DEF CreateStaging, HasItem
  <2>i. PICK i \in Items : i = worker.item
    BY <2>1
  <2> DEFINE t == [item[i] EXCEPT !.key = TRUE]
  <2>2. t \in ItemType
    BY <1>i, <1>b, Zenon DEF ItemType
  <2>3. UNCHANGED item \/ (item[i].state # "none" /\ SetItem(i, t))
    BY <1>5, <2>i DEF CreateStaging, SetItem
  <2> HIDE DEF t
  <2>5. QED
    BY <1>0, <1>t, <2>2, <2>3, ItemFrame
<1>6. CASE CommitStaged
  <2>1. worker.item \in Items
    BY <1>p, <1>6 DEF CommitStaged, HasItem
  <2>i. PICK i \in Items : i = worker.item
    BY <2>1
  <2> DEFINE t == [item[i] EXCEPT !.state = "committing", !.object = TRUE]
  <2>2. t \in ItemType
    BY <1>i, <1>b, <1>s, Zenon DEF ItemType
  <2>3. UNCHANGED item \/ (item[i].state = "downloading" /\ SetItem(i, t))
    BY <1>6, <2>i DEF CommitStaged, SetItem
  <2> HIDE DEF t
  <2>5. QED
    BY <1>0, <1>t, <2>2, <2>3, ItemFrame
<1>7. CASE RememberFile
  <2>1. worker.page \in Runs \X Folders
    BY <1>7, <1>t DEF RememberFile, WorkerTypes
  <2>2. PICK r \in Runs : r = worker.page[1]
    BY <2>1
  <2>3. PICK g \in worker.left \cap Files, s \in {"skipped", "pending"} :
           \/ UNCHANGED item
           \/ SetItem(<<r, g>>, [NoItem EXCEPT !.state = s, !.md5 = Listed(g)])
    BY <1>7, <2>2 DEF RememberFile, SetItem
  <2>4. PICK n \in Contents \cup {NULL} : n = Listed(g)
    BY <1>t DEF OtherTypes, Listed
  <2> DEFINE t == [NoItem EXCEPT !.state = s, !.md5 = n]
  <2>5. t \in ItemType
    BY <1>s, NoItemType, Zenon DEF ItemType
  <2>6. UNCHANGED item \/ SetItem(<<r, g>>, t)
    BY <2>3, <2>4
  <2> HIDE DEF t
  <2>7. <<r, g>> \in Items
    BY DEF Items
  <2>8. QED
    BY <1>0, <1>t, <2>5, <2>6, <2>7, ItemFrame
<1>8. CASE RecoverDownloads
  <2>1. ASSUME NEW i \in Items
        PROVE  [item[i] EXCEPT !.state = "pending", !.key = FALSE] \in ItemType
    BY <1>i, <1>b, <1>s, Zenon DEF ItemType
  <2>2. QED
    BY <1>8, <1>i, <2>1 DEF RecoverDownloads, ItemTypes
<1>9. CASE RemoveSource \/ Disconnect
  BY <1>9, <1>i, <1>t, NoItemType DEF RemoveSource, Disconnect, Cascaded, ItemTypes
<1>10. CASE \E i \in Items : DeleteObject(i)
  <2>1. PICK i \in Items : DeleteObject(i)
    BY <1>10
  <2> DEFINE t == [item[i] EXCEPT !.object = FALSE]
  <2>2. t \in ItemType
    BY <1>i, <1>b, Zenon DEF ItemType
  <2>3. SetItem(i, t)
    BY <2>1 DEF DeleteObject, SetItem
  <2> HIDE DEF t
  <2>4. QED
    BY <1>t, <2>2, <2>3, ItemFrame
<1>11. CASE WorkerStep
  <2>1. CASE \/ Deferred \/ ResumeCommit \/ ResumeNothing \/ ScheduleCheck
             \/ ScheduleInsert \/ NotScheduled \/ Unauthorized
             \/ DownloadBody \/ CountFailure \/ Promote \/ Rename \/ ListPage \/ NothingToList
             \/ RememberFolder \/ PageDone \/ ListFails \/ TickRefused \/ FinishRuns
    <3>1. UNCHANGED item
      BY <2>1 DEF Deferred, ResumeCommit, ResumeNothing, ScheduleCheck, ScheduleInsert,
         NotScheduled, Unauthorized, DownloadBody,
            CountFailure, Promote, Rename, ListPage, NothingToList, RememberFolder, PageDone,
            ListFails, TickRefused, FinishRuns
    <3>2. QED
      BY <1>0, <3>1
  <2>2. QED
    BY <1>2, <1>4, <1>5, <1>6, <1>7, <1>8, <1>11, <2>1 DEF WorkerStep
<1>12. CASE Fault
  <2>1. CASE DownloadFails \/ StorageLow \/ TickFails \/ Crash \/ MarkReauth
             \/ ListRefused
    <3>1. UNCHANGED item
      BY <2>1 DEF DownloadFails, StorageLow, TickFails, Crash, MarkReauth, ListRefused
    <3>2. QED
      BY <1>0, <3>1
  <2>2. QED
    BY <1>3, <1>12, <2>1 DEF Fault
<1>13. CASE Request
  <2>1. CASE \/ Connect \/ SetPause \/ SelectSource \/ SyncCheck \/ SyncInsert
             \/ \E e \in Items : TrashEntry(e) \/ RestoreEntry(e) \/ PurgeEntry(e)
    <3>1. UNCHANGED item
      BY <2>1 DEF Connect, SetPause, SelectSource, SyncCheck, SyncInsert, TrashEntry,
            RestoreEntry, PurgeEntry
    <3>2. QED
      BY <1>0, <3>1
  <2>2. QED
    BY <1>9, <1>13, <2>1 DEF Request
<1>14. CASE Sweep \/ \E g \in Files : RemoteEdit(g)
  <2>1. \/ \E i \in Items : DeleteObject(i)
        \/ UNCHANGED item
    BY <1>14 DEF Sweep, MarkDeleting, UnlinkObject, SweepFails, RemoteEdit
  <2>2. QED
    BY <1>0, <1>10, <2>1
<1>15. QED
  BY <1>11, <1>12, <1>13, <1>14 DEF Next

-----------------------------------------------------------------------------
(* Runs and pages *)

RunTypes ==
    /\ run \in [Runs -> RunType]
    /\ pages \in [Runs -> [Folders -> {"none", "todo", "more", "done", "cut"}]]

\* A run that moves to another state keeps its counters.
LEMMA RunStateType ==
    ASSUME run \in [Runs -> RunType], NEW r \in Runs, NEW s \in RunStates
    PROVE  /\ [run[r] EXCEPT !.state = s] \in RunType
           /\ [run[r] EXCEPT !.state = s].state = s
           /\ [run[r] EXCEPT !.state = s].discovered = run[r].discovered
           /\ [run[r] EXCEPT !.state = s].downloaded = run[r].downloaded
           /\ [run[r] EXCEPT !.state = s].skipped = run[r].skipped
           /\ [run[r] EXCEPT !.state = s].failed = run[r].failed
BY DEF RunType

\* A run that starts or is gone.
LEMMA NewRunType ==
    ASSUME NEW s \in RunStates
    PROVE  /\ [NoRun EXCEPT !.state = s] \in RunType
           /\ [NoRun EXCEPT !.state = s].state = s
           /\ [NoRun EXCEPT !.state = s].discovered = 0
           /\ [NoRun EXCEPT !.state = s].downloaded = 0
           /\ [NoRun EXCEPT !.state = s].skipped = 0
           /\ [NoRun EXCEPT !.state = s].failed = 0
BY DEF NoRun, RunType

\* StartRun starts one run that was not there, at its first page.
LEMMA StartRunFacts ==
    ASSUME RunTypes, NEW r \in Runs, StartRun(r)
    PROVE  /\ RunTypes'
           /\ run[r].state = "none" /\ run'[r].state = "listing"
           /\ run'[r].discovered = 0 /\ run'[r].downloaded = 0
           /\ run'[r].skipped = 0 /\ run'[r].failed = 0
           /\ \A x \in Runs : x # r => run'[x] = run[x] /\ pages'[x] = pages[x]
           /\ \A p \in Folders : pages'[r][p] = IF p = "root" THEN "todo" ELSE "none"
<1>1. "listing" \in RunStates
  BY DEF RunStates
<1>2. PICK t \in RunType : t = [NoRun EXCEPT !.state = "listing"]
  BY <1>1, NewRunType
<1>3. /\ t.state = "listing" /\ t.discovered = 0 /\ t.downloaded = 0
      /\ t.skipped = 0 /\ t.failed = 0
  BY <1>1, <1>2, NewRunType
<1>4. run' = [run EXCEPT ![r] = t] /\ run[r].state = "none"
  BY <1>2 DEF StartRun
<1>5. run' \in [Runs -> RunType] /\ run'[r] = t /\ \A x \in Runs : x # r => run'[x] = run[x]
  BY <1>4 DEF RunTypes
<1>6. /\ pages' \in [Runs -> [Folders -> {"none", "todo", "more", "done", "cut"}]]
      /\ \A x \in Runs : x # r => pages'[x] = pages[x]
      /\ \A p \in Folders : pages'[r][p] = IF p = "root" THEN "todo" ELSE "none"
  BY DEF StartRun, RunTypes
<1>7. QED
  BY <1>3, <1>4, <1>5, <1>6 DEF RunTypes

\* A step that ends active runs: each run keeps its counters, and only an active one
\* its state not.
LEMMA EndRunsFacts ==
    ASSUME RunTypes, NEW s \in RunStates,
           run' = [r \in Runs |-> IF Active(r) THEN [run[r] EXCEPT !.state = s] ELSE run[r]]
    PROVE  /\ run' \in [Runs -> RunType]
           /\ \A r \in Runs :
                 \/ run'[r] = run[r]
                 \/ Active(r) /\ run'[r].state = s
BY RunStateType DEF RunTypes

\* A counter that moves.
LEMMA CountedFacts ==
    ASSUME RunTypes, NEW r \in Runs, NEW field \in {"downloaded", "failed"},
           run' = Counted(r, field)
    PROVE  /\ run' \in [Runs -> RunType]
           /\ \A x \in Runs : run'[x].state = run[x].state /\ (x # r => run'[x] = run[x])
           /\ run'[r].discovered = run[r].discovered /\ run'[r].skipped = run[r].skipped
           /\ run'[r].failed = IF field = "failed" THEN run[r].failed + 1 ELSE run[r].failed
           /\ run'[r].downloaded =
                 IF field = "downloaded" THEN run[r].downloaded + 1 ELSE run[r].downloaded
<1>1. CASE field = "failed"
  BY <1>1 DEF Counted, RunTypes, RunType
<1>2. CASE field = "downloaded"
  BY <1>2 DEF Counted, RunTypes, RunType
<1>3. QED
  BY <1>1, <1>2

\* remember_file: with a new item, skipped or pending, its run counts one more.
LEMMA RememberFacts ==
    ASSUME TypesInv, RememberFile
    PROVE  \E r \in Runs, g \in worker.left \cap Files, s \in {"skipped", "pending"} :
             /\ r = worker.page[1] /\ run[r].state # "deleted"
             /\ worker' = [worker EXCEPT !.left = @ \ {g}]
             /\ \/ item[<<r, g>>].state # "none" /\ run' = run /\ item' = item
                \/ /\ item[<<r, g>>].state = "none"
                   /\ SetItem(<<r, g>>, [NoItem EXCEPT !.state = s, !.md5 = Listed(g)])
                   /\ run' \in [Runs -> RunType]
                   /\ \A x \in Runs : x # r => run'[x] = run[x]
                   /\ run'[r].state = run[r].state
                   /\ run'[r].failed = run[r].failed
                   /\ run'[r].downloaded = run[r].downloaded
                   /\ run'[r].discovered = run[r].discovered + 1
                   /\ run'[r].skipped =
                         IF s = "skipped" THEN run[r].skipped + 1 ELSE run[r].skipped
<1>1. worker.page \in Runs \X Folders /\ run \in [Runs -> RunType]
  BY TypeParts DEF RememberFile, WorkerTypes, OtherTypes
<1>r. PICK r \in Runs : r = worker.page[1]
  BY <1>1
<1>2. PICK g \in worker.left \cap Files :
        LET skip == g \in NativeFiles \/ Unchanged(g)
            new == [NoItem EXCEPT !.state = IF skip THEN "skipped" ELSE "pending",
                                  !.md5 = Listed(g)]
            counters == [run[r] EXCEPT !.discovered = @ + 1,
                                       !.skipped = IF skip THEN @ + 1 ELSE @]
        IN /\ worker' = [worker EXCEPT !.left = @ \ {g}]
           /\ item' = IF item[<<r, g>>].state = "none"
                      THEN [item EXCEPT ![<<r, g>>] = new] ELSE item
           /\ run' = IF Inserted(r, g) THEN [run EXCEPT ![r] = counters] ELSE run
  BY <1>r DEF RememberFile
<1>3. run[r].state # "deleted"
  BY <1>r DEF RememberFile
<1>4. CASE item[<<r, g>>].state # "none"
  BY <1>2, <1>3, <1>4, <1>r DEF Inserted
<1>5. CASE item[<<r, g>>].state = "none"
  <2>1. CASE g \in NativeFiles \/ Unchanged(g)
    <3>n. PICK m \in Nat, n \in Nat : m = run[r].discovered + 1 /\ n = run[r].skipped + 1
      BY <1>1 DEF RunType
    <3> DEFINE c == [run[r] EXCEPT !.discovered = m, !.skipped = n]
    <3>1. /\ c \in RunType /\ c.state = run[r].state /\ c.failed = run[r].failed
          /\ c.downloaded = run[r].downloaded /\ c.discovered = m /\ c.skipped = n
      BY <1>1, Zenon DEF RunType
    <3>2. /\ run' = [run EXCEPT ![r] = c]
          /\ SetItem(<<r, g>>, [NoItem EXCEPT !.state = "skipped", !.md5 = Listed(g)])
          /\ worker' = [worker EXCEPT !.left = @ \ {g}]
      BY <1>2, <1>5, <2>1, <3>n DEF Inserted, SetItem
    <3> HIDE DEF c
    <3>3. run' \in [Runs -> RunType] /\ run'[r] = c /\ \A x \in Runs : x # r => run'[x] = run[x]
      BY <1>1, <3>1, <3>2
    <3>4. WITNESS r \in Runs, g \in worker.left \cap Files, "skipped" \in {"skipped", "pending"}
    <3>5. QED
      BY <1>3, <1>5, <1>r, <3>1, <3>2, <3>3, <3>n
  <2>2. CASE ~(g \in NativeFiles \/ Unchanged(g))
    <3>n. PICK m \in Nat, n \in Nat : m = run[r].discovered + 1 /\ n = run[r].skipped
      BY <1>1 DEF RunType
    <3> DEFINE c == [run[r] EXCEPT !.discovered = m, !.skipped = n]
    <3>1. /\ c \in RunType /\ c.state = run[r].state /\ c.failed = run[r].failed
          /\ c.downloaded = run[r].downloaded /\ c.discovered = m /\ c.skipped = n
      BY <1>1, Zenon DEF RunType
    <3>2. /\ run' = [run EXCEPT ![r] = c]
          /\ SetItem(<<r, g>>, [NoItem EXCEPT !.state = "pending", !.md5 = Listed(g)])
          /\ worker' = [worker EXCEPT !.left = @ \ {g}]
      BY <1>2, <1>5, <2>2, <3>n DEF Inserted, SetItem
    <3> HIDE DEF c
    <3>3. run' \in [Runs -> RunType] /\ run'[r] = c /\ \A x \in Runs : x # r => run'[x] = run[x]
      BY <1>1, <3>1, <3>2
    <3>4. WITNESS r \in Runs, g \in worker.left \cap Files, "pending" \in {"skipped", "pending"}
    <3>5. QED
      BY <1>3, <1>5, <1>r, <3>1, <3>2, <3>3, <3>n
  <2>3. QED
    BY <2>1, <2>2
<1>6. QED
  BY <1>4, <1>5

\* The rows of a removed source: no items, no pages, and no run that had begun.
LEMMA CascadeFacts ==
    ASSUME RunTypes, Cascaded
    PROVE  /\ RunTypes'
           /\ \A r \in Runs :
                 \/ run'[r] = run[r] /\ run[r].state = "none"
                 \/ run[r].state # "none" /\ run'[r].state = "deleted"
           /\ \A i \in Items : item'[i].state = "none"
<1>1. "deleted" \in RunStates
  BY DEF RunStates
<1>2. PICK t \in RunType : t = [NoRun EXCEPT !.state = "deleted"] /\ t.state = "deleted"
  BY <1>1, NewRunType
<1>3. run' = [r \in Runs |-> IF run[r].state = "none" THEN run[r] ELSE t]
  BY <1>2 DEF Cascaded
<1>4. /\ run' \in [Runs -> RunType]
      /\ \A r \in Runs :
            \/ run'[r] = run[r] /\ run[r].state = "none"
            \/ run[r].state # "none" /\ run'[r].state = "deleted"
  BY <1>2, <1>3 DEF RunTypes
<1>5. pages' \in [Runs -> [Folders -> {"none", "todo", "more", "done", "cut"}]]
  BY DEF Cascaded
<1>6. \A i \in Items : item'[i].state = "none"
  BY NoItemType DEF Cascaded
<1>7. QED
  BY <1>4, <1>5, <1>6 DEF RunTypes

\* finish_runs moves active runs to downloading or completed.
LEMMA FinishRunsFacts ==
    ASSUME RunTypes, FinishRuns
    PROVE  /\ run' \in [Runs -> RunType]
           /\ \A r \in Runs :
                 \/ run'[r] = run[r]
                 \/ /\ Active(r) /\ \A p \in Folders : pages[r][p] \notin {"todo", "more"}
                    /\ run'[r].discovered = run[r].discovered
                    /\ run'[r].downloaded = run[r].downloaded
                    /\ run'[r].skipped = run[r].skipped /\ run'[r].failed = run[r].failed
                    /\ \/ run'[r].state = "downloading"
                       \/ /\ run'[r].state = "completed"
                          /\ ~ \E i \in Items : i[1] = r /\ Open(i)
<1> DEFINE over(r) == ~ \E i \in Items : i[1] = r /\ Open(i)
           next(r) == IF over(r) THEN "completed" ELSE "downloading"
<1>1. \A r \in Runs : next(r) \in RunStates
  BY DEF RunStates
<1>2. \A r \in Runs :
         run'[r] = IF Active(r) /\ \A p \in Folders : pages[r][p] \notin {"todo", "more"}
                   THEN [run[r] EXCEPT !.state = next(r)] ELSE run[r]
  BY DEF FinishRuns
<1>3. run' = [r \in Runs |-> run'[r]]
  BY DEF FinishRuns
<1>4. ASSUME NEW r \in Runs
      PROVE  /\ run'[r] \in RunType
             /\ \/ run'[r] = run[r]
                \/ /\ Active(r) /\ \A p \in Folders : pages[r][p] \notin {"todo", "more"}
                   /\ run'[r].discovered = run[r].discovered
                   /\ run'[r].downloaded = run[r].downloaded
                   /\ run'[r].skipped = run[r].skipped /\ run'[r].failed = run[r].failed
                   /\ run'[r].state = next(r)
  <2>1. PICK s \in RunStates : s = next(r)
    BY <1>1
  <2>2. run'[r] = IF Active(r) /\ \A p \in Folders : pages[r][p] \notin {"todo", "more"}
                   THEN [run[r] EXCEPT !.state = s] ELSE run[r]
    BY <1>2, <2>1
  <2> HIDE DEF next
  <2>3. QED
    BY <2>1, <2>2, RunStateType DEF RunTypes
<1>5. run' \in [Runs -> RunType]
  <2> HIDE DEF next
  <2>1. QED
    BY <1>3, <1>4
<1>6. QED
  BY <1>4, <1>5

\* Every step keeps the runs and the list queue in their types.
LEMMA RunTypeSteps ==
    ASSUME TypesInv, Next
    PROVE  RunTypes'
<1>t. RunTypes /\ WorkerTypes
  BY TypeParts DEF OtherTypes, RunTypes
<1>i. \A i \in Items : i[1] \in Runs
  BY DEF Items
<1>s. {"failed", "cancelled"} \subseteq RunStates
  BY DEF RunStates
<1>0. CASE UNCHANGED <<run, pages>>
  BY <1>0, <1>t DEF RunTypes
<1>1. CASE \/ ScheduleCheck \/ ScheduleInsert \/ NotScheduled \/ SelectSource
           \/ SyncCheck \/ SyncInsert
  BY <1>0, <1>1, <1>t, StartRunFacts DEF ScheduleCheck, ScheduleInsert, NotScheduled,
     SelectSource, SyncCheck, SyncInsert
<1>2. ASSUME TickError, UNCHANGED pages
      PROVE  RunTypes'
  BY <1>0, <1>2, <1>s, <1>t, EndRunsFacts DEF TickError, RunTypes
<1>3. CASE ListFails \/ TickRefused \/ TickFails \/ MarkReauth
  BY <1>0, <1>2, <1>3 DEF ListFails, TickRefused, TickFails, MarkReauth
<1>4. CASE StorageLow
  BY <1>4, <1>s, <1>t, EndRunsFacts DEF StorageLow, RunTypes
<1>5. CASE AbandonCommit \/ CountFailure \/ FinishReady
  <2>1. worker.pc \in HasItem => worker.item[1] \in Runs
    BY <1>i, <1>t DEF WorkerTypes
  <2>2. /\ UNCHANGED pages
        /\ \/ UNCHANGED run
           \/ \E r \in Runs, field \in {"downloaded", "failed"} : run' = Counted(r, field)
    BY <1>5, <1>i, <2>1 DEF AbandonCommit, CountFailure, FinishReady, HasItem
  <2>3. QED
    BY <1>0, <1>t, <2>2, CountedFacts DEF RunTypes
<1>6. CASE RememberFile
  <2>1. UNCHANGED pages
    BY <1>6 DEF RememberFile
  <2>2. run' = run \/ run' \in [Runs -> RunType]
    BY <1>6, RememberFacts
  <2>3. QED
    BY <1>t, <2>1, <2>2 DEF RunTypes
<1>7. CASE FinishRuns
  BY <1>7, <1>t, FinishRunsFacts DEF FinishRuns, RunTypes
<1>8. CASE RemoveSource \/ Disconnect
  <2>1. \/ Cascaded
        \/ /\ run' = [r \in Runs |->
                         IF Active(r) THEN [run[r] EXCEPT !.state = "cancelled"] ELSE run[r]]
           /\ UNCHANGED pages
    BY <1>8 DEF RemoveSource, Disconnect
  <2>2. QED
    BY <1>s, <1>t, <2>1, CascadeFacts, EndRunsFacts DEF RunTypes
<1>9. CASE RememberFolder \/ PageDone
  <2>1. worker.page \in Runs \X Folders
    BY <1>9, <1>t DEF RememberFolder, PageDone, WorkerTypes
  <2>2. UNCHANGED run
    BY <1>9 DEF RememberFolder, PageDone
  <2>3. \/ UNCHANGED pages
        \/ \E r \in Runs, p \in Folders, s \in {"todo", "more", "done", "cut"} :
              pages' = [pages EXCEPT ![r] = [@ EXCEPT ![p] = s]]
    <3>1. CASE RememberFolder
      <4>1. worker.left \cap Folders \subseteq Folders
        OBVIOUS
      <4>2. \/ UNCHANGED pages
            \/ \E p \in Folders :
                  pages' = [pages EXCEPT ![worker.page[1]] = [@ EXCEPT ![p] = "todo"]]
        BY <3>1, <4>1 DEF RememberFolder
      <4>3. QED
        BY <2>1, <4>2
    <3>2. CASE PageDone
      <4>1. NextRow(worker.page[2], pages[worker.page[1]][worker.page[2]])
                \subseteq {"todo", "more", "done", "cut"}
        BY DEF NextRow
      <4>2. \/ UNCHANGED pages
            \/ \E s \in {"todo", "more", "done", "cut"} :
                  pages' = [pages EXCEPT ![worker.page[1]] = [@ EXCEPT ![worker.page[2]] = s]]
        <5> DEFINE Q == NextRow(worker.page[2], pages[worker.page[1]][worker.page[2]])
                   P(s) == pages' = [pages EXCEPT ![worker.page[1]] =
                                                     [@ EXCEPT ![worker.page[2]] = s]]
        <5>1. UNCHANGED pages \/ \E s \in Q : P(s)
          BY <3>2, Zenon DEF PageDone
        <5>2. Q \subseteq {"todo", "more", "done", "cut"}
          BY <4>1
        <5> HIDE DEF P, Q
        <5>3. UNCHANGED pages \/ \E s \in {"todo", "more", "done", "cut"} : P(s)
          BY <5>1, <5>2
        <5>4. QED
          BY <5>3 DEF P
      <4>3. worker.page[1] \in Runs /\ worker.page[2] \in Folders
        BY <2>1
      <4>4. CASE UNCHANGED pages
        BY <4>4
      <4>5. ASSUME NEW s \in {"todo", "more", "done", "cut"},
                   pages' = [pages EXCEPT ![worker.page[1]] =
                                             [@ EXCEPT ![worker.page[2]] = s]]
            PROVE  \E r \in Runs, p \in Folders, t \in {"todo", "more", "done", "cut"} :
                      pages' = [pages EXCEPT ![r] = [@ EXCEPT ![p] = t]]
        BY <4>3, <4>5, Zenon
      <4>6. QED
        BY <4>2, <4>4, <4>5
    <3>3. QED
      BY <1>9, <3>1, <3>2
  <2>4. CASE UNCHANGED pages
    BY <1>t, <2>2, <2>4 DEF RunTypes
  <2>5. ASSUME NEW r \in Runs, NEW p \in Folders,
               NEW s \in {"todo", "more", "done", "cut"},
               pages' = [pages EXCEPT ![r] = [@ EXCEPT ![p] = s]]
        PROVE  RunTypes'
    <3>1. pages \in [Runs -> [Folders -> {"none", "todo", "more", "done", "cut"}]]
      BY <1>t DEF RunTypes
    <3>2. [pages[r] EXCEPT ![p] = s] \in [Folders -> {"none", "todo", "more", "done", "cut"}]
      BY <3>1
    <3>3. pages' = [pages EXCEPT ![r] = [pages[r] EXCEPT ![p] = s]]
      BY <2>5
    <3>4. pages' \in [Runs -> [Folders -> {"none", "todo", "more", "done", "cut"}]]
      BY <3>1, <3>2, <3>3
    <3>5. QED
      BY <1>t, <2>2, <3>4 DEF RunTypes
  <2>6. QED
    BY <2>3, <2>4, <2>5
<1>10. CASE \/ RecoverDownloads \/ ResumeCommit \/ ResumeNothing \/ ClaimItem \/ Unauthorized
            \/ CreateStaging \/ DownloadBody \/ FailItem \/ CommitStaged \/ Promote \/ Rename
            \/ ListPage \/ NothingToList
  <2>1. UNCHANGED <<run, pages>>
    BY <1>10 DEF RecoverDownloads, ResumeCommit, ResumeNothing, ClaimItem, Unauthorized,
          CreateStaging, DownloadBody, FailItem, CommitStaged, Promote, Rename, ListPage,
          NothingToList
  <2>2. QED
    BY <1>0, <2>1
<1>11. CASE \/ Deferred \/ RateLimited \/ DownloadFails \/ Crash \/ ListRefused
            \/ Connect \/ SetPause
            \/ \E e \in Items : TrashEntry(e) \/ RestoreEntry(e) \/ PurgeEntry(e)
            \/ Sweep \/ \E g \in Files : RemoteEdit(g)
  <2>1. UNCHANGED <<run, pages>>
    BY <1>11 DEF Deferred, RateLimited, DownloadFails, Crash, ListRefused, Connect, SetPause,
          TrashEntry, RestoreEntry, PurgeEntry, Sweep, MarkDeleting, UnlinkObject,
          DeleteObject, SweepFails, RemoteEdit
  <2>2. QED
    BY <1>0, <2>1
<1>12. QED
  BY <1>1, <1>3, <1>4, <1>5, <1>6, <1>7, <1>8, <1>9, <1>10, <1>11
     DEF Next, WorkerStep, Fault, Request

-----------------------------------------------------------------------------
(* The drive, the disk and the settings *)

DriveTypes ==
    /\ object \in [Items -> {"none", "pending", "ready", "deleting"}]
    /\ unlinked \subseteq Items
    /\ entry \in [Items -> {"none", "live", "trash", "restored"}]
    /\ home \in [Items -> Items \cup {NULL}]
    /\ current \in [Items -> Items \cup {NULL}]
    /\ data \in [Items -> Contents \cup {NULL}]
    /\ link \in [Files -> LinkType \cup {NULL}]

SettingTypes ==
    /\ remote \in [Files -> Contents]
    /\ conn \in {"none", "active", "reauth_required"}
    /\ halted \in BOOLEAN
    /\ source \in {"none", "enabled", "disabled"}
    /\ checked \subseteq {"worker", "sync"}
    /\ staged \subseteq Items /\ payload \subseteq Items
    /\ faults \in 0..MaxFaults

\* The entry commit_staged writes to is the item's own or the linked one of its file.
LEMMA TargetFacts ==
    ASSUME TypesInv, NEW i \in Items
    PROVE  /\ TargetEntry(i) \in Items
           /\ \/ /\ link[i[2]] # NULL /\ Live(link[i[2]].entry)
                 /\ TargetEntry(i) = link[i[2]].entry
              \/ /\ ~(link[i[2]] # NULL /\ Live(link[i[2]].entry))
                 /\ TargetEntry(i) = i
<1>1. i[2] \in Files
  BY DEF Items
<1>2. link[i[2]] # NULL => link[i[2]].entry \in Items
  BY <1>1, TypeParts DEF OtherTypes, LinkType
<1>3. QED
  BY <1>2 DEF TargetEntry

\* Every step keeps the rows of the drive and the links in their types.
LEMMA DriveTypeSteps ==
    ASSUME TypesInv, Next
    PROVE  DriveTypes'
<1> USE ImportAssumption
<1>t. DriveTypes /\ WorkerTypes /\ remote \in [Files -> Contents] /\ ItemTypes
  BY TypeParts DEF OtherTypes, DriveTypes
<1>p. worker.pc \in HasItem => worker.item \in Items
  BY <1>t DEF WorkerTypes
<1>0. ASSUME UNCHANGED <<drive, link>>
      PROVE  DriveTypes'
  BY <1>0, <1>t DEF DriveTypes, drive
<1>1. CASE DownloadBody
  <2>1. PICK i \in Items : i = worker.item
    BY <1>1, <1>p DEF DownloadBody, HasItem
  <2>2. i[2] \in Files
    BY DEF Items
  <2>3. remote[i[2]] \in Contents \cup {NULL}
    BY <1>t, <2>2
  <2>4. /\ data' = [data EXCEPT ![i] = remote[i[2]]]
        /\ UNCHANGED <<object, unlinked, entry, home, current, link>>
    BY <1>1, <2>1 DEF DownloadBody
  <2>5. QED
    BY <1>t, <2>3, <2>4 DEF DriveTypes
<1>2. CASE CommitStaged
  <2>1. PICK i \in Items : i = worker.item
    BY <1>2, <1>p DEF CommitStaged, HasItem
  <2>2. PICK e \in Items : e = TargetEntry(i)
    BY TargetFacts
  <2>3. /\ object' = [object EXCEPT ![i] = "pending"]
        /\ entry' = [entry EXCEPT ![e] = IF @ = "restored" THEN @ ELSE "live"]
        /\ home' = [home EXCEPT ![i] = e] /\ current' = [current EXCEPT ![e] = i]
        /\ UNCHANGED <<unlinked, data, link>>
    BY <1>2, <2>1, <2>2 DEF CommitStaged
  <2>4. QED
    BY <1>t, <2>3 DEF DriveTypes
<1>3. CASE FinishReady
  <2>1. PICK i \in Items : i = worker.item
    BY <1>3, <1>p DEF FinishReady, HasItem
  <2>2. /\ object' \in {object, [object EXCEPT ![i] = "ready"]}
        /\ UNCHANGED <<unlinked, entry, home, current, data>>
        /\ \/ UNCHANGED link
           \/ /\ item[i].state # "none" /\ home[i] # NULL
              /\ link' = [link EXCEPT ![i[2]] = [entry |-> home[i], md5 |-> item[i].md5]]
    BY <1>3, <2>1 DEF FinishReady, LinkedMd5
  <2>3. item[i].md5 \in Contents \cup {NULL}
    BY <1>t DEF ItemTypes, ItemType
  <2>4. home[i] # NULL => home[i] \in Items
    BY <1>t DEF DriveTypes
  <2>5. link' \in [Files -> LinkType \cup {NULL}]
    BY <1>t, <2>2, <2>3, <2>4 DEF DriveTypes, LinkType
  <2>6. object' \in [Items -> {"none", "pending", "ready", "deleting"}]
    BY <1>t, <2>2 DEF DriveTypes
  <2>7. QED
    BY <1>t, <2>2, <2>5, <2>6 DEF DriveTypes
<1>4. ASSUME NEW e \in Items, TrashEntry(e) \/ RestoreEntry(e)
      PROVE  DriveTypes'
  <2>1. entry' \in [Items -> {"none", "live", "trash", "restored"}]
    BY <1>4, <1>t DEF TrashEntry, RestoreEntry, DriveTypes
  <2>2. UNCHANGED <<object, unlinked, home, current, data, link>>
    BY <1>4 DEF TrashEntry, RestoreEntry
  <2>3. QED
    BY <1>t, <2>1, <2>2 DEF DriveTypes
<1>5. ASSUME NEW e \in Items, PurgeEntry(e)
      PROVE  DriveTypes'
  <2>1. /\ entry' = [entry EXCEPT ![e] = "none"]
        /\ home' = [i \in Items |-> IF home[i] = e THEN NULL ELSE home[i]]
        /\ current' = [current EXCEPT ![e] = NULL]
        /\ link' = [g \in Files |->
                      IF link[g] # NULL /\ link[g].entry = e THEN NULL ELSE link[g]]
        /\ UNCHANGED <<object, unlinked, data>>
    BY <1>5 DEF PurgeEntry
  <2>2. QED
    BY <1>t, <2>1 DEF DriveTypes
<1>9. CASE Sweep
  <2>1. PICK i \in Items : MarkDeleting(i) \/ UnlinkObject(i) \/ DeleteObject(i) \/ SweepFails(i)
    BY <1>9 DEF Sweep
  <2>2. /\ \E s \in {"none", "deleting", object[i]} : object' = [object EXCEPT ![i] = s]
        /\ unlinked' \subseteq unlinked \cup {i}
        /\ UNCHANGED <<entry, home, current, data, link>>
    BY <1>t, <2>1 DEF MarkDeleting, UnlinkObject, DeleteObject, SweepFails, DriveTypes
  <2>3. QED
    BY <1>t, <2>2 DEF DriveTypes
<1>6. CASE \/ RecoverDownloads \/ AbandonCommit \/ ResumeCommit \/ ResumeNothing \/ Deferred
           \/ ScheduleCheck \/ ScheduleInsert \/ NotScheduled \/ ClaimItem \/ Unauthorized
           \/ CreateStaging
           \/ FailItem \/ CountFailure \/ Promote \/ Rename \/ ListPage \/ NothingToList
           \/ RememberFile \/ RememberFolder \/ PageDone \/ ListFails \/ TickRefused
           \/ FinishRuns
  <2>1. UNCHANGED <<drive, link>>
    BY <1>6 DEF RecoverDownloads, AbandonCommit, Deferred, ResumeCommit, ResumeNothing,
          ScheduleCheck, ScheduleInsert, NotScheduled, ClaimItem, Unauthorized,
          CreateStaging, FailItem,
          CountFailure, Promote, Rename, ListPage, NothingToList, RememberFile, RememberFolder,
          PageDone, ListFails, TickRefused, FinishRuns
  <2>2. QED
    BY <1>0, <2>1
<1>7. CASE \/ Fault \/ Connect \/ SetPause \/ SelectSource \/ SyncCheck \/ SyncInsert
           \/ RemoveSource
           \/ Disconnect \/ \E g \in Files : RemoteEdit(g)
  <2>1. UNCHANGED <<drive, link>>
    BY <1>7 DEF Fault, RateLimited, DownloadFails, StorageLow, TickFails, Crash,
          MarkReauth, ListRefused, Connect, SetPause, SelectSource, SyncCheck, SyncInsert,
          RemoveSource, Disconnect, RemoteEdit
  <2>2. QED
    BY <1>0, <2>1
<1>8. QED
  BY <1>1, <1>2, <1>3, <1>4, <1>5, <1>6, <1>7, <1>9 DEF Next, WorkerStep, Request

\* Every step keeps the settings, the files on disk and the bounds in their types.
LEMMA SettingTypeSteps ==
    ASSUME TypesInv, Next
    PROVE  SettingTypes'
<1> USE ImportAssumption
<1>t. SettingTypes /\ WorkerTypes
  BY TypeParts DEF OtherTypes, SettingTypes
<1>p. worker.pc \in HasItem => worker.item \in Items
  BY <1>t DEF WorkerTypes
<1>f. ASSUME faults < MaxFaults, faults' = faults + 1
      PROVE  faults' \in 0..MaxFaults
  BY <1>f, <1>t DEF SettingTypes
<1>1. CASE WorkerStep
  <2>1. /\ UNCHANGED <<remote, conn, halted, source, faults>>
        /\ checked' \subseteq checked \cup {"worker"}
    BY <1>1 DEF WorkerStep, RecoverDownloads, AbandonCommit, ResumeCommit, ResumeNothing,
          ScheduleCheck, ScheduleInsert, NotScheduled, ClaimItem, Deferred, Unauthorized,
          CreateStaging, DownloadBody, FailItem, CountFailure, CommitStaged, Promote, Rename,
          FinishReady, ListPage, NothingToList, RememberFile, RememberFolder, PageDone,
          ListFails, TickRefused, FinishRuns, settings
  <2>2. staged' \subseteq staged \cup Items /\ payload' \subseteq payload \cup Items
    <3>1. CASE RecoverDownloads \/ AbandonCommit \/ CreateStaging \/ Rename
      BY <1>p, <3>1 DEF RecoverDownloads, AbandonCommit, CreateStaging, Rename, HasItem, disk
    <3>2. CASE \/ ResumeCommit \/ ResumeNothing \/ ScheduleCheck \/ ScheduleInsert
               \/ NotScheduled \/ ClaimItem \/ Deferred \/ Unauthorized \/ DownloadBody
               \/ FailItem \/ CountFailure \/ CommitStaged \/ Promote \/ FinishReady
               \/ ListPage \/ NothingToList \/ RememberFile \/ RememberFolder \/ PageDone
               \/ ListFails \/ TickRefused \/ FinishRuns
      <4>1. UNCHANGED disk
        BY <3>2 DEF ResumeCommit, ResumeNothing, ScheduleCheck, ScheduleInsert, NotScheduled,
              ClaimItem, Deferred, Unauthorized, DownloadBody, FailItem, CountFailure,
              CommitStaged, Promote, FinishReady, ListPage, NothingToList, RememberFile,
              RememberFolder, PageDone, ListFails, TickRefused, FinishRuns
      <4>2. QED
        BY <4>1 DEF disk
    <3>3. QED
      BY <1>1, <3>1, <3>2 DEF WorkerStep
  <2>3. QED
    BY <1>t, <2>1, <2>2 DEF SettingTypes
<1>2. CASE Fault
  <2>1. /\ UNCHANGED <<remote, halted, source, checked, payload>>
        /\ conn' \in {conn, "reauth_required"} /\ staged' \subseteq staged
        /\ faults < MaxFaults /\ faults' = faults + 1
    BY <1>2 DEF Fault, RateLimited, DownloadFails, StorageLow, TickFails, Crash,
          MarkReauth, ListRefused, settings, disk
  <2>2. faults' \in 0..MaxFaults
    BY <1>f, <2>1
  <2>3. QED
    BY <1>t, <2>1, <2>2 DEF SettingTypes
<1>3. CASE Request
  <2>1. /\ UNCHANGED <<remote, staged, payload, faults>>
        /\ conn' \in {conn, "active", "none"}
        /\ source' \in {source, "enabled", "disabled", "none"}
        /\ checked' \subseteq checked \cup {"sync"}
    BY <1>3 DEF Request, Connect, SetPause, SelectSource, SyncCheck, SyncInsert, RemoveSource,
          Disconnect, Cascaded, TrashEntry, RestoreEntry, PurgeEntry, settings, disk
  <2>2. halted' \in {halted, FALSE, ~halted}
    BY <1>3 DEF Request, Connect, SetPause, SelectSource, SyncCheck, SyncInsert, RemoveSource,
          Disconnect, TrashEntry, RestoreEntry, PurgeEntry, settings
  <2>3. halted' \in BOOLEAN
    BY <1>t, <2>2 DEF SettingTypes
  <2>4. QED
    BY <1>t, <2>1, <2>3 DEF SettingTypes
<1>4. ASSUME NEW g \in Files, RemoteEdit(g)
      PROVE  SettingTypes'
  <2>1. remote' \in [Files -> Contents]
    BY <1>4, <1>t DEF RemoteEdit, SettingTypes
  <2>2. UNCHANGED <<conn, halted, source, checked, staged, payload, faults>>
    BY <1>4 DEF RemoteEdit, settings, disk
  <2>3. QED
    BY <1>t, <2>1, <2>2 DEF SettingTypes
<1>6. CASE Sweep
  <2>1. /\ UNCHANGED <<remote, conn, halted, source, checked, staged, faults>>
        /\ payload' \subseteq payload
    BY <1>6 DEF Sweep, MarkDeleting, UnlinkObject, DeleteObject, SweepFails, settings, disk
  <2>2. QED
    BY <1>t, <2>1 DEF SettingTypes
<1>5. QED
  BY <1>1, <1>2, <1>3, <1>4, <1>6 DEF Next

\* The types hold at first.
LEMMA TypesInit == Init => TypesInv
<1> USE ImportAssumption
<1> SUFFICES ASSUME Init
             PROVE  TypesInv
  OBVIOUS
<1>1. 0 \in 0..MaxFaults
  OBVIOUS
<1>2. DriveTypes /\ SettingTypes
  BY <1>1 DEF Init, DriveTypes, SettingTypes
<1>3. ItemTypes
  BY NoItemType DEF Init, ItemTypes
<1>4. RunTypes
  <2>1. NoRun \in RunType
    BY DEF NoRun, RunType, RunStates
  <2>2. QED
    BY <2>1 DEF Init, RunTypes
<1>5. WorkerTypes
  <2>1. worker \in WorkerType /\ worker.pc = "tick"
    BY DEF Init, Idle, WorkerType, Pcs
  <2>2. QED
    BY <2>1 DEF WorkerTypes, HasItem
<1>6. QED
  BY <1>2, <1>3, <1>4, <1>5, TypeParts DEF OtherTypes, DriveTypes, SettingTypes, RunTypes

\* Every step keeps the types.
LEMMA TypesStep == TypesInv /\ [Next]_vars => TypesInv'
<1> SUFFICES ASSUME TypesInv, [Next]_vars
             PROVE  TypesInv'
  OBVIOUS
<1>1. CASE UNCHANGED vars
  BY <1>1 DEF TypesInv, TypeOK, WorkerTypes, vars
<1>2. CASE Next
  <2>1. WorkerTypes' /\ ItemTypes' /\ RunTypes' /\ DriveTypes' /\ SettingTypes'
    BY <1>2, WorkerTypeSteps, ItemTypeSteps, RunTypeSteps, DriveTypeSteps, SettingTypeSteps
  <2>2. OtherTypes'
    BY <2>1 DEF OtherTypes, RunTypes, DriveTypes, SettingTypes
  <2>3. (OtherTypes /\ ItemTypes /\ WorkerTypes)' => TypesInv'
    BY TypeParts, PTL
  <2>4. QED
    BY <2>1, <2>2, <2>3
<1>3. QED
  BY <1>1, <1>2

\* The types hold for any number of runs, files, contents and faults.
LEMMA TypesInvariant == Spec => []TypesInv
BY TypesInit, TypesStep, PTL DEF Spec

\* The tables of the import in google_drive.rs, the drive's rows it writes, the disk and
\* the links keep their types.
THEOREM ImportTypes == Spec => []TypeOK
<1>1. TypesInv => TypeOK
  BY DEF TypesInv
<1>2. QED
  BY <1>1, TypesInvariant, PTL

-----------------------------------------------------------------------------
(* Ready objects have their payload *)

\* Where a step leaves the worker.
LEMMA Moves ==
    ASSUME TypesInv
    PROVE  /\ \A pc : /\ At(pc).pc = pc /\ At(pc).item = worker.item
                      /\ \A i : /\ [At(pc) EXCEPT !.item = i].pc = pc
                                /\ [At(pc) EXCEPT !.item = i].item = i
                      /\ \A q, l : /\ [At(pc) EXCEPT !.page = q, !.left = l].pc = pc
                                   /\ [At(pc) EXCEPT !.page = q, !.left = l].page = q
                                   /\ [At(pc) EXCEPT !.page = q, !.left = l].left = l
           /\ Idle.pc = "tick" /\ EndTick.pc = "tick"
           /\ \A n : [Idle EXCEPT !.failures = n].pc = "tick"
           /\ TickError => worker'.pc = "tick"
           /\ \A x : worker' = [worker EXCEPT !.left = @ \ {x}] =>
                 /\ worker'.pc = worker.pc /\ worker'.item = worker.item
                 /\ worker'.page = worker.page /\ worker'.left = worker.left \ {x}
<1>1. worker \in WorkerType
  BY DEF TypesInv, WorkerTypes
<1>2. \A pc : At(pc).pc = pc /\ At(pc).item = worker.item
  BY <1>1 DEF At, WorkerType
<1>3. \A pc, i : /\ [At(pc) EXCEPT !.item = i].pc = pc
                 /\ [At(pc) EXCEPT !.item = i].item = i
  BY <1>1 DEF At, WorkerType
<1>4. \A pc, q, l : /\ [At(pc) EXCEPT !.page = q, !.left = l].pc = pc
                    /\ [At(pc) EXCEPT !.page = q, !.left = l].page = q
                    /\ [At(pc) EXCEPT !.page = q, !.left = l].left = l
  BY <1>1 DEF At, WorkerType
<1>5. /\ Idle.pc = "tick" /\ EndTick.pc = "tick"
      /\ \A n : [Idle EXCEPT !.failures = n].pc = "tick"
  BY DEF Idle, EndTick
<1>6. TickError => worker'.pc = "tick"
  BY <1>5 DEF TickError
<1>7. \A x : worker' = [worker EXCEPT !.left = @ \ {x}] =>
                 /\ worker'.pc = worker.pc /\ worker'.item = worker.item
                 /\ worker'.page = worker.page /\ worker'.left = worker.left \ {x}
  BY <1>1 DEF WorkerType
<1>8. QED
  BY <1>2, <1>3, <1>4, <1>5, <1>6, <1>7

\* The step goes from one pc to another with the same item in hand.
From(a, b) == worker.pc = a /\ worker'.pc = b /\ worker'.item = worker.item

\* The control of sync_tick.
LEMMA Control ==
    ASSUME TypesInv
    PROVE  /\ RecoverDownloads => From("tick", "resume")
           /\ AbandonCommit => worker.pc = "resume" /\ worker'.pc = "tick"
           /\ ResumeCommit => worker.pc = "resume" /\ worker'.pc = "rename"
           /\ ResumeNothing => From("resume", "schedule")
           /\ ScheduleCheck => From("schedule", "start")
           /\ ScheduleInsert => From("start", "claim")
           /\ NotScheduled => From("schedule", "claim")
           /\ ClaimItem => worker.pc = "claim" /\ worker'.pc = "download"
           /\ Unauthorized => From("download", "fail")
           /\ CreateStaging => From("download", "body")
           /\ DownloadBody => From("body", "commit")
           /\ FailItem => From("fail", "count") \/ (worker.pc = "fail" /\ worker'.pc = "tick")
           /\ CountFailure => worker.pc = "count" /\ worker'.pc = "tick"
           /\ CommitStaged => From("commit", "promote")
           /\ Promote => From("promote", "rename")
                           \/ (worker.pc = "promote" /\ worker'.pc = "tick")
           /\ Rename => From("rename", "ready")
           /\ FinishReady => worker.pc = "ready" /\ worker'.pc = "tick"
           /\ ListPage => worker.pc = "claim" /\ worker'.pc = "list"
           /\ NothingToList => From("claim", "finish")
           /\ RememberFile \/ RememberFolder =>
                 From("list", "list") /\ worker'.page = worker.page
           /\ PageDone \/ ListFails => worker.pc = "list" /\ worker'.pc = "tick"
           /\ TickRefused => worker.pc \in {"start", "rename"} /\ worker'.pc = "tick"
           /\ FinishRuns => worker.pc = "finish" /\ worker'.pc = "tick"
           /\ Deferred => worker.pc = "claim" /\ worker'.pc = "tick"
           /\ RateLimited => worker.pc = "download" /\ worker'.pc = "tick"
           /\ DownloadFails => \E a \in {"download", "body", "commit"} : From(a, "fail")
           /\ StorageLow => From("body", "fail")
           /\ TickFails \/ Crash => worker'.pc = "tick"
           /\ MarkReauth => \/ From("download", "fail") /\ UNCHANGED run
                            \/ worker.pc = "claim" /\ worker'.pc = "tick"
                            \/ UNCHANGED <<run, worker>>
           /\ ListRefused => From("claim", "finish")
<1> USE Moves DEF From
<1>1. RecoverDownloads => From("tick", "resume")
  <2>1. RecoverDownloads => worker.pc = "tick" /\ worker' = At("resume")
    BY Zenon DEF RecoverDownloads
  <2>2. QED
    BY <2>1
<1>2. AbandonCommit => worker.pc = "resume" /\ worker'.pc = "tick"
  BY DEF AbandonCommit
<1>3. ResumeCommit => worker.pc = "resume" /\ worker'.pc = "rename"
  BY DEF ResumeCommit
<1>4. ResumeNothing => From("resume", "schedule")
  BY DEF ResumeNothing
<1>5. /\ ScheduleCheck => From("schedule", "start")
      /\ ScheduleInsert => From("start", "claim")
      /\ NotScheduled => From("schedule", "claim")
  BY DEF ScheduleCheck, ScheduleInsert, NotScheduled
<1>6. ClaimItem => worker.pc = "claim" /\ worker'.pc = "download"
  BY DEF ClaimItem
<1>7. Unauthorized => From("download", "fail")
  BY DEF Unauthorized
<1>8. CreateStaging => From("download", "body")
  BY DEF CreateStaging
<1>9. DownloadBody => From("body", "commit")
  BY DEF DownloadBody
<1>10. FailItem => From("fail", "count") \/ (worker.pc = "fail" /\ worker'.pc = "tick")
  BY DEF FailItem
<1>11. CountFailure => worker.pc = "count" /\ worker'.pc = "tick"
  BY DEF CountFailure
<1>12. CommitStaged => From("commit", "promote")
  BY DEF CommitStaged
<1>13. /\ Promote => From("promote", "rename") \/ (worker.pc = "promote" /\ worker'.pc = "tick")
       /\ Rename => From("rename", "ready")
  BY DEF Promote, Rename
<1>14. FinishReady => worker.pc = "ready" /\ worker'.pc = "tick"
  BY DEF FinishReady
<1>15. ListPage => worker.pc = "claim" /\ worker'.pc = "list"
  BY DEF ListPage, ListTurn
<1>16. NothingToList => From("claim", "finish")
  BY DEF NothingToList
<1>17. RememberFile => From("list", "list") /\ worker'.page = worker.page
  BY DEF RememberFile
<1>18. RememberFolder => From("list", "list") /\ worker'.page = worker.page
  BY DEF RememberFolder
<1>19. PageDone => worker.pc = "list" /\ worker'.pc = "tick"
  BY DEF PageDone
<1>20. /\ ListFails => worker.pc = "list" /\ worker'.pc = "tick"
       /\ TickRefused => worker.pc \in {"start", "rename"} /\ worker'.pc = "tick"
  BY DEF ListFails, TickRefused
<1>21. FinishRuns => worker.pc = "finish" /\ worker'.pc = "tick"
  BY DEF FinishRuns
<1>22. Deferred => worker.pc = "claim" /\ worker'.pc = "tick"
  BY DEF Deferred
<1>23. RateLimited => worker.pc = "download" /\ worker'.pc = "tick"
  BY DEF RateLimited
<1>24. DownloadFails => \E a \in {"download", "body", "commit"} : From(a, "fail")
  BY DEF DownloadFails
<1>25. StorageLow => From("body", "fail")
  BY DEF StorageLow
<1>26. TickFails \/ Crash => worker'.pc = "tick"
  BY DEF TickFails, Crash
<1>27. MarkReauth => \/ From("download", "fail") /\ UNCHANGED run
                     \/ worker.pc = "claim" /\ worker'.pc = "tick"
                     \/ UNCHANGED <<run, worker>>
  BY DEF MarkReauth, ListTurn
<1>28. ListRefused => From("claim", "finish")
  BY DEF ListRefused, ListTurn
<1>29. QED
  BY <1>1, <1>2, <1>3, <1>4, <1>5, <1>6, <1>7, <1>8, <1>9, <1>10, <1>11, <1>12, <1>13, <1>14,
     <1>15, <1>16, <1>17, <1>18, <1>19, <1>20, <1>21, <1>22, <1>23, <1>24, <1>25, <1>26, <1>27,
     <1>28, Zenon

\* At "ready" the payload of the worker's object is in place, unless a sweep has
\* taken the object.
PayloadInv ==
    /\ ReadyHasPayload
    /\ worker.pc = "ready" /\ object[worker.item] \in {"pending", "ready"} =>
          worker.item \in payload

\* Payloads only go with their objects.
LEMMA PayloadFrame ==
    ASSUME PayloadInv, UNCHANGED object, payload \subseteq payload',
           \/ worker'.pc # "ready" \/ worker' = worker \/ worker'.item \in payload'
    PROVE  PayloadInv'
BY DEF PayloadInv, ReadyHasPayload

\* Every step keeps ready objects and payloads together.
LEMMA PayloadStep == TypesInv /\ PayloadInv /\ [Next]_vars => PayloadInv'
<1> SUFFICES ASSUME TypesInv, PayloadInv, [Next]_vars
             PROVE  PayloadInv'
  OBVIOUS
<1>t. object \in [Items -> {"none", "pending", "ready", "deleting"}]
      /\ (worker.pc \in HasItem => worker.item \in Items)
  BY TypeParts DEF OtherTypes, WorkerTypes
<1>1. CASE UNCHANGED <<object, payload, worker>>
  BY <1>1, PayloadFrame
<1>2. CASE Rename
  <2>1. worker'.item \in payload' /\ payload \subseteq payload' /\ UNCHANGED object
    BY <1>2, Moves DEF Rename, drive
  <2>2. QED
    BY <2>1, PayloadFrame
<1>3. CASE CommitStaged
  <2>1. PICK i \in Items : i = worker.item
    BY <1>3, <1>t DEF CommitStaged, HasItem
  <2>2. object' = [object EXCEPT ![i] = "pending"] /\ payload' = payload
        /\ worker'.pc = "promote"
    BY <1>3, <2>1, Moves DEF CommitStaged, disk
  <2>3. QED
    BY <1>t, <2>2 DEF PayloadInv, ReadyHasPayload
<1>4. CASE FinishReady
  <2>1. PICK i \in Items : i = worker.item
    BY <1>4, <1>t DEF FinishReady, HasItem
  <2>2. /\ object' = IF object[i] \in {"pending", "ready"}
                     THEN [object EXCEPT ![i] = "ready"] ELSE object
        /\ payload' = payload /\ worker'.pc = "tick" /\ worker.pc = "ready"
    BY <1>4, <2>1, Moves DEF FinishReady, CanBeReady, disk
  <2>3. object[i] \in {"pending", "ready"} => i \in payload
    BY <2>1, <2>2 DEF PayloadInv
  <2>4. QED
    BY <1>t, <2>2, <2>3 DEF PayloadInv, ReadyHasPayload
<1>5. CASE Sweep
  <2>1. PICK i \in Items : MarkDeleting(i) \/ UnlinkObject(i) \/ DeleteObject(i) \/ SweepFails(i)
    BY <1>5 DEF Sweep
  <2>2. worker' = worker /\ (worker.pc = "ready" => worker.item \in Items)
    BY <1>t, <2>1 DEF MarkDeleting, UnlinkObject, DeleteObject, SweepFails, HasItem
  <2>3. CASE MarkDeleting(i) \/ DeleteObject(i)
    <3>1. /\ payload' = payload
          /\ object' = [object EXCEPT ![i] = "deleting"] \/ object' = [object EXCEPT ![i] = "none"]
      BY <2>3 DEF MarkDeleting, DeleteObject, disk
    <3>2. \A j \in Items : object'[j] = object[j] \/ object'[j] \notin {"pending", "ready"}
      BY <1>t, <3>1
    <3>3. QED
      BY <2>2, <3>1, <3>2 DEF PayloadInv, ReadyHasPayload
  <2>4. CASE UnlinkObject(i)
    <3>1. object' = object /\ object[i] = "deleting" /\ payload' = payload \ {i}
      BY <2>4 DEF UnlinkObject
    <3>2. QED
      BY <2>2, <3>1 DEF PayloadInv, ReadyHasPayload
  <2>5. CASE SweepFails(i)
    BY <1>1, <2>2, <2>5 DEF SweepFails, disk
  <2>6. QED
    BY <2>1, <2>3, <2>4, <2>5
<1>6. CASE \/ ResumeCommit \/ Promote \/ Deferred
           \/ RecoverDownloads \/ AbandonCommit \/ ResumeNothing \/ ScheduleCheck
           \/ ScheduleInsert \/ NotScheduled
           \/ ClaimItem \/ Unauthorized \/ CreateStaging \/ DownloadBody \/ FailItem
           \/ CountFailure \/ ListPage \/ NothingToList \/ PageDone \/ FinishRuns
  <2>1. UNCHANGED <<object, payload>>
    BY <1>6 DEF ResumeCommit, Promote, Deferred, RecoverDownloads, AbandonCommit,
       ResumeNothing, ScheduleCheck, ScheduleInsert, NotScheduled,
          ClaimItem, Unauthorized, CreateStaging, DownloadBody, FailItem, CountFailure,
          ListPage, NothingToList, PageDone, FinishRuns, drive, disk
  <2>2. worker'.pc # "ready"
    BY <1>6, Control DEF From
  <2>3. QED
    BY <2>1, <2>2, PayloadFrame
<1>7. CASE RememberFile \/ RememberFolder
  <2>1. UNCHANGED <<object, payload>> /\ worker'.pc = worker.pc /\ worker.pc = "list"
    BY <1>7, Moves DEF RememberFile, RememberFolder, drive, disk
  <2>2. QED
    BY <2>1, PayloadFrame
<1>8. CASE ListFails \/ TickRefused \/ Fault
  <2>1. UNCHANGED <<object, payload>>
    BY <1>8 DEF Fault, ListFails, TickRefused, RateLimited, DownloadFails, StorageLow,
          TickFails, Crash, MarkReauth, ListRefused, drive, disk
  <2>2. worker'.pc # "ready" \/ worker' = worker
    BY <1>8, Control DEF Fault, From
  <2>3. QED
    BY <2>1, <2>2, PayloadFrame
<1>9. CASE \/ Connect \/ SetPause \/ SelectSource \/ SyncCheck \/ SyncInsert
           \/ RemoveSource \/ Disconnect
           \/ \E e \in Items : TrashEntry(e) \/ RestoreEntry(e) \/ PurgeEntry(e)
           \/ \E g \in Files : RemoteEdit(g)
           \/ UNCHANGED vars
  <2>1. UNCHANGED <<object, payload, worker>>
    BY <1>9 DEF Connect, SetPause, SelectSource, SyncCheck, SyncInsert, RemoveSource,
       Disconnect,
          TrashEntry, RestoreEntry, PurgeEntry, RemoteEdit, drive, disk, vars
  <2>2. QED
    BY <1>1, <2>1
<1>10. QED
  BY <1>2, <1>3, <1>4, <1>5, <1>6, <1>7, <1>8, <1>9 DEF Next, WorkerStep, Request

\* finish_ready marks an object ready only behind its rename, and never one a
\* sweep has marked; a sweep unlinks what it has marked: a ready object of the import
\* has its payload.
THEOREM ReadyObjectsHavePayloads == Spec => []ReadyHasPayload
<1>1. Init => PayloadInv
  BY DEF Init, PayloadInv, ReadyHasPayload, Idle
<1>2. PayloadInv => ReadyHasPayload
  BY DEF PayloadInv
<1>3. QED
  BY <1>1, <1>2, TypesInvariant, PayloadStep, PTL DEF Spec

-----------------------------------------------------------------------------
(* What a step does to items and runs *)

\* The item is what it was, but for its staging key and its object.
Same(i) == item'[i].state = item[i].state /\ item'[i].md5 = item[i].md5

\* Item i moves from one state to another; the others stay.
Turns(i, a, b) ==
    /\ item[i].state = a /\ item'[i].state = b /\ item'[i].md5 = item[i].md5
    /\ \A j \in Items : j # i => Same(j)

\* A row that is set.
LEMMA TurnsFacts ==
    ASSUME TypesInv, NEW i \in Items, NEW t, SetItem(i, t), t.md5 = item[i].md5
    PROVE  Turns(i, item[i].state, t.state)
BY DEF TypesInv, TypeOK, SetItem, Turns, Same

\* The steps that change the state of an item.
LEMMA ItemSteps ==
    ASSUME TypesInv
    PROVE  /\ RecoverDownloads => \A i \in Items :
                 /\ item'[i].md5 = item[i].md5
                 /\ item'[i].state = IF item[i].state = "downloading" THEN "pending" ELSE item[i].state
           /\ AbandonCommit => \E i \in Items : Turns(i, "committing", "failed")
                                                /\ run' = Counted(i[1], "failed")
           /\ ClaimItem => \E i \in Items :
                 Turns(i, "pending", "downloading") /\ worker'.item = i /\ Active(i[1])
           /\ CreateStaging => \A i \in Items : Same(i)
           /\ RateLimited => \/ \A i \in Items : Same(i)
                             \/ Turns(worker.item, "downloading", "pending")
           /\ FailItem => \/ UNCHANGED item /\ worker'.pc = "tick"
                          \/ Turns(worker.item, "pending", "failed") /\ worker'.pc = "count"
                          \/ Turns(worker.item, "downloading", "failed") /\ worker'.pc = "count"
           /\ CommitStaged => \/ item[worker.item].state # "downloading" /\ UNCHANGED item
                              \/ Turns(worker.item, "downloading", "committing")
           /\ FinishReady =>
                 \/ item[worker.item].state # "committing" /\ UNCHANGED <<item, run>>
                 \/ /\ Turns(worker.item, "committing", "stored")
                    /\ run' = Counted(worker.item[1], "downloaded")
           /\ \A d \in Items : DeleteObject(d) => \A i \in Items : Same(i)
<1>t. /\ \A i \in Items : item[i] \in ItemType
      /\ worker.pc \in HasItem => worker.item \in Items
  BY TypeParts DEF ItemTypes, WorkerTypes
<1>e. ASSUME NEW i \in Items
      PROVE  /\ \A s : /\ [item[i] EXCEPT !.state = s, !.key = FALSE].md5 = item[i].md5
                       /\ [item[i] EXCEPT !.state = s, !.key = FALSE].state = s
                       /\ [item[i] EXCEPT !.state = s].md5 = item[i].md5
                       /\ [item[i] EXCEPT !.state = s].state = s
                       /\ [item[i] EXCEPT !.state = s, !.object = TRUE].md5 = item[i].md5
                       /\ [item[i] EXCEPT !.state = s, !.object = TRUE].state = s
             /\ [item[i] EXCEPT !.key = TRUE].md5 = item[i].md5
             /\ [item[i] EXCEPT !.key = TRUE].state = item[i].state
             /\ [item[i] EXCEPT !.object = FALSE].md5 = item[i].md5
             /\ [item[i] EXCEPT !.object = FALSE].state = item[i].state
  BY <1>t DEF ItemType
<1>f. ASSUME NEW i \in Items, NEW s, SetItem(i, [item[i] EXCEPT !.state = s, !.key = FALSE])
      PROVE  Turns(i, item[i].state, s)
  <2> DEFINE t == [item[i] EXCEPT !.state = s, !.key = FALSE]
  <2>1. t.state = s /\ t.md5 = item[i].md5
    BY <1>e
  <2>2. SetItem(i, t)
    BY <1>f
  <2> HIDE DEF t
  <2>3. QED
    BY <2>1, <2>2, TurnsFacts
<1>g. ASSUME NEW i \in Items, NEW s, SetItem(i, [item[i] EXCEPT !.state = s])
      PROVE  Turns(i, item[i].state, s)
  <2> DEFINE t == [item[i] EXCEPT !.state = s]
  <2>1. t.state = s /\ t.md5 = item[i].md5
    BY <1>e
  <2>2. SetItem(i, t)
    BY <1>g
  <2> HIDE DEF t
  <2>3. QED
    BY <2>1, <2>2, TurnsFacts
<1>h. ASSUME NEW i \in Items, NEW s, SetItem(i, [item[i] EXCEPT !.state = s, !.object = TRUE])
      PROVE  Turns(i, item[i].state, s)
  <2> DEFINE t == [item[i] EXCEPT !.state = s, !.object = TRUE]
  <2>1. t.state = s /\ t.md5 = item[i].md5
    BY <1>e
  <2>2. SetItem(i, t)
    BY <1>h
  <2> HIDE DEF t
  <2>3. QED
    BY <2>1, <2>2, TurnsFacts
<1>k. ASSUME NEW i \in Items, SetItem(i, [item[i] EXCEPT !.key = TRUE])
      PROVE  Turns(i, item[i].state, item[i].state)
  <2> DEFINE t == [item[i] EXCEPT !.key = TRUE]
  <2>1. t.state = item[i].state /\ t.md5 = item[i].md5
    BY <1>e
  <2>2. SetItem(i, t)
    BY <1>k
  <2> HIDE DEF t
  <2>3. QED
    BY <2>1, <2>2, TurnsFacts
<1>1. ASSUME RecoverDownloads, NEW i \in Items
      PROVE  /\ item'[i].md5 = item[i].md5
             /\ item'[i].state = IF item[i].state = "downloading" THEN "pending" ELSE item[i].state
  <2>1. item'[i] = IF item[i].state = "downloading"
                   THEN [item[i] EXCEPT !.state = "pending", !.key = FALSE] ELSE item[i]
    BY <1>1 DEF RecoverDownloads
  <2>2. QED
    BY <1>e, <2>1
<1>2. ASSUME AbandonCommit
      PROVE  \E i \in Items : Turns(i, "committing", "failed") /\ run' = Counted(i[1], "failed")
  <2>1. PICK i \in Items :
           /\ item[i].state = "committing" /\ run' = Counted(i[1], "failed")
           /\ SetItem(i, [item[i] EXCEPT !.state = "failed", !.key = FALSE])
    BY <1>2 DEF AbandonCommit, Resumable
  <2>2. QED
    BY <1>f, <2>1
<1>3. ASSUME ClaimItem
      PROVE  \E i \in Items :
                 Turns(i, "pending", "downloading") /\ worker'.item = i /\ Active(i[1])
  <2>1. PICK i \in Items :
           /\ item[i].state = "pending" /\ Active(i[1])
           /\ SetItem(i, [item[i] EXCEPT !.state = "downloading"])
           /\ worker' = [At("download") EXCEPT !.item = i]
    BY <1>3 DEF ClaimItem, Claimable
  <2>2. QED
    BY <1>g, <2>1, Moves
<1>4. ASSUME CreateStaging
      PROVE  \A i \in Items : Same(i)
  <2>1. PICK i \in Items : i = worker.item
    BY <1>4, <1>t DEF CreateStaging, HasItem
  <2>2. UNCHANGED item \/ SetItem(i, [item[i] EXCEPT !.key = TRUE])
    BY <1>4, <2>1 DEF CreateStaging, SetItem
  <2>3. QED
    BY <1>k, <2>2 DEF Same, Turns
<1>5. ASSUME RateLimited
      PROVE  \/ \A i \in Items : Same(i)
             \/ Turns(worker.item, "downloading", "pending")
  <2>1. PICK i \in Items : i = worker.item
    BY <1>5, <1>t DEF RateLimited, HasItem
  <2>2. \/ UNCHANGED item
        \/ /\ item[i].state = "downloading"
           /\ SetItem(i, [item[i] EXCEPT !.state = "pending", !.key = FALSE])
    BY <1>5, <2>1 DEF RateLimited, SetItem
  <2>3. QED
    BY <1>f, <2>1, <2>2 DEF Same
<1>6. ASSUME FailItem
      PROVE  \/ UNCHANGED item /\ worker'.pc = "tick"
             \/ Turns(worker.item, "pending", "failed") /\ worker'.pc = "count"
             \/ Turns(worker.item, "downloading", "failed") /\ worker'.pc = "count"
  <2>1. PICK i \in Items : i = worker.item
    BY <1>6, <1>t DEF FailItem, HasItem
  <2>2. \/ UNCHANGED item /\ worker'.pc = "tick"
        \/ /\ item[i].state \in {"pending", "downloading"} /\ worker'.pc = "count"
           /\ SetItem(i, [item[i] EXCEPT !.state = "failed", !.key = FALSE])
    BY <1>6, <2>1, Moves DEF FailItem
  <2>3. QED
    BY <1>f, <2>1, <2>2
<1>7. ASSUME CommitStaged
      PROVE  \/ item[worker.item].state # "downloading" /\ UNCHANGED item
             \/ Turns(worker.item, "downloading", "committing")
  <2>1. PICK i \in Items : i = worker.item
    BY <1>7, <1>t DEF CommitStaged, HasItem
  <2>2. \/ item[i].state # "downloading" /\ UNCHANGED item
        \/ /\ item[i].state = "downloading"
           /\ SetItem(i, [item[i] EXCEPT !.state = "committing", !.object = TRUE])
    BY <1>7, <2>1 DEF CommitStaged, SetItem
  <2>3. QED
    BY <1>h, <2>1, <2>2
<1>8. ASSUME FinishReady
      PROVE  \/ item[worker.item].state # "committing" /\ UNCHANGED <<item, run>>
             \/ /\ Turns(worker.item, "committing", "stored")
                /\ run' = Counted(worker.item[1], "downloaded")
  <2>1. PICK i \in Items : i = worker.item
    BY <1>8, <1>t DEF FinishReady, HasItem
  <2>2. \/ item[i].state # "committing" /\ UNCHANGED <<item, run>>
        \/ /\ item[i].state = "committing"
           /\ SetItem(i, [item[i] EXCEPT !.state = "stored", !.key = FALSE])
           /\ run' = Counted(i[1], "downloaded")
    BY <1>8, <2>1 DEF FinishReady
  <2>3. QED
    BY <1>f, <2>1, <2>2
<1>9. ASSUME NEW d \in Items, DeleteObject(d), NEW i \in Items
      PROVE  Same(i)
  <2>1. item'[i] = item[i] \/ item'[i] = [item[i] EXCEPT !.object = FALSE]
    BY <1>9 DEF DeleteObject, TypesInv, TypeOK
  <2>2. QED
    BY <1>e, <2>1 DEF Same
<1>10. QED
  BY <1>1, <1>2, <1>3, <1>4, <1>5, <1>6, <1>7, <1>8, <1>9

\* A new item: nothing was there, and its run is.
LEMMA NewItem ==
    ASSUME TypesInv, RememberFile
    PROVE  \E r \in Runs, g \in worker.left \cap Files :
             /\ r = worker.page[1] /\ run[r].state # "deleted" /\ worker'.left = worker.left \ {g}
             /\ \A x \in Runs : run'[x].state = run[x].state
             /\ \/ item[<<r, g>>].state # "none" /\ UNCHANGED <<run, item>>
                \/ /\ item[<<r, g>>].state = "none"
                   /\ item'[<<r, g>>].state \in {"skipped", "pending"}
                   /\ item'[<<r, g>>].md5 = Listed(g)
                   /\ \A i \in Items : i # <<r, g>> => Same(i)
<1>1. PICK r \in Runs, g \in worker.left \cap Files, s \in {"skipped", "pending"} :
             /\ r = worker.page[1] /\ run[r].state # "deleted"
             /\ worker' = [worker EXCEPT !.left = @ \ {g}]
             /\ \A x \in Runs : run'[x].state = run[x].state
             /\ \/ item[<<r, g>>].state # "none" /\ run' = run /\ item' = item
                \/ /\ item[<<r, g>>].state = "none"
                   /\ SetItem(<<r, g>>, [NoItem EXCEPT !.state = s, !.md5 = Listed(g)])
  BY RememberFacts, ZenonT(30)
<1>2. worker'.left = worker.left \ {g}
  BY <1>1, Moves
<1>3. <<r, g>> \in Items
  BY DEF Items
<1>4. CASE item[<<r, g>>].state # "none"
  BY <1>1, <1>2, <1>4
<1>5. CASE item[<<r, g>>].state = "none"
  <2> DEFINE t == [NoItem EXCEPT !.state = s, !.md5 = Listed(g)]
  <2>1. t.state = s /\ t.md5 = Listed(g)
    BY DEF NoItem
  <2>2. SetItem(<<r, g>>, t)
    BY <1>1, <1>5
  <2> HIDE DEF t
  <2>3. item'[<<r, g>>] = t /\ \A i \in Items : i # <<r, g>> => Same(i)
    BY <1>3, <2>2 DEF SetItem, Same, TypesInv, TypeOK
  <2>4. QED
    BY <1>1, <1>2, <1>5, <2>1, <2>3
<1>6. QED
  BY <1>4, <1>5

\* A run that has begun has begun for good, and is gone only with its source.
KeptRuns ==
    \A r \in Runs : /\ run[r].state # "none" => run'[r].state # "none"
                    /\ run[r].state = "deleted" <=> run'[r].state = "deleted"

\* Only remove_source and disconnect take runs away.
LEMMA RunsKept ==
    ASSUME TypesInv, Next
    PROVE  KeptRuns \/ (Cascaded /\ UNCHANGED <<remote, drive, link, worker>>)
<1>t. RunTypes /\ WorkerTypes
  BY TypeParts DEF OtherTypes, RunTypes
<1>i. \A i \in Items : i[1] \in Runs
  BY DEF Items
<1>s. {"failed", "cancelled"} \subseteq RunStates
  BY DEF RunStates
<1>0. ASSUME UNCHANGED run
      PROVE  KeptRuns
  BY <1>0 DEF KeptRuns
<1>1. CASE ScheduleCheck \/ ScheduleInsert \/ NotScheduled \/ SelectSource \/ SyncCheck
           \/ SyncInsert
  <2>1. UNCHANGED run \/ \E r \in Runs : StartRun(r)
    BY <1>1 DEF ScheduleCheck, ScheduleInsert, NotScheduled, SelectSource, SyncCheck, SyncInsert
  <2>2. ASSUME NEW r \in Runs, StartRun(r)
        PROVE  KeptRuns
    <3>1. /\ run[r].state = "none" /\ run'[r].state = "listing"
          /\ \A x \in Runs : x # r => run'[x] = run[x]
      BY <1>t, <2>2, StartRunFacts
    <3>2. QED
      BY <3>1 DEF KeptRuns
  <2>3. QED
    BY <1>0, <2>1, <2>2
<1>2. ASSUME NEW s \in {"failed", "cancelled"},
             run' = [r \in Runs |-> IF Active(r) THEN [run[r] EXCEPT !.state = s] ELSE run[r]]
      PROVE  KeptRuns
  BY <1>2, <1>s, <1>t, EndRunsFacts DEF KeptRuns, Active
<1>3. CASE ListFails \/ TickRefused \/ TickFails \/ MarkReauth
  <2>1. ASSUME TickError
        PROVE  KeptRuns
    BY <1>0, <1>2, <2>1 DEF TickError
  <2>2. QED
    BY <1>0, <1>3, <2>1 DEF ListFails, TickRefused, TickFails, MarkReauth
<1>4. CASE StorageLow
  BY <1>2, <1>4 DEF StorageLow
<1>5. CASE AbandonCommit \/ CountFailure \/ FinishReady
  <2>1. worker.pc \in HasItem => worker.item[1] \in Runs
    BY <1>i, <1>t DEF WorkerTypes
  <2>2. \/ UNCHANGED run
        \/ \E r \in Runs, field \in {"downloaded", "failed"} : run' = Counted(r, field)
    BY <1>5, <1>i, <2>1 DEF AbandonCommit, CountFailure, FinishReady, HasItem
  <2>3. QED
    BY <1>0, <1>t, <2>2, CountedFacts DEF KeptRuns
<1>6. CASE RememberFile
  BY <1>6, NewItem DEF KeptRuns
<1>7. CASE FinishRuns
  BY <1>7, <1>t, FinishRunsFacts DEF KeptRuns, Active
<1>8. CASE RemoveSource \/ Disconnect
  <2>1. \/ Cascaded
        \/ run' = [r \in Runs |->
                     IF Active(r) THEN [run[r] EXCEPT !.state = "cancelled"] ELSE run[r]]
    BY <1>8 DEF RemoveSource, Disconnect
  <2>2. UNCHANGED <<remote, drive, link, worker>>
    BY <1>8 DEF RemoveSource, Disconnect
  <2>3. QED
    BY <1>2, <2>1, <2>2
<1>9. CASE \/ RememberFolder \/ PageDone \/ RecoverDownloads \/ ResumeCommit \/ ResumeNothing
           \/ ClaimItem \/ Unauthorized \/ CreateStaging \/ DownloadBody \/ FailItem
           \/ CommitStaged \/ Promote \/ Rename \/ ListPage \/ NothingToList
  <2>1. UNCHANGED run
    BY <1>9 DEF RememberFolder, PageDone, RecoverDownloads, ResumeCommit, ResumeNothing,
          ClaimItem, Unauthorized, CreateStaging, DownloadBody, FailItem, CommitStaged,
          Promote, Rename, ListPage, NothingToList
  <2>2. QED
    BY <1>0, <2>1
<1>10. CASE \/ Deferred \/ RateLimited \/ DownloadFails \/ Crash \/ ListRefused
            \/ Connect \/ SetPause
            \/ \E e \in Items : TrashEntry(e) \/ RestoreEntry(e) \/ PurgeEntry(e)
            \/ Sweep \/ \E g \in Files : RemoteEdit(g)
  <2>1. UNCHANGED run
    BY <1>10 DEF Deferred, RateLimited, DownloadFails, Crash, ListRefused, Connect, SetPause,
          TrashEntry, RestoreEntry, PurgeEntry, Sweep, MarkDeleting, UnlinkObject,
          DeleteObject, SweepFails, RemoteEdit
  <2>2. QED
    BY <1>0, <2>1
<1>11. QED
  BY <1>1, <1>3, <1>4, <1>5, <1>6, <1>7, <1>8, <1>9, <1>10
     DEF Next, WorkerStep, Fault, Request

-----------------------------------------------------------------------------
(* A completed run has seen everything *)

Settled == {"stored", "skipped", "failed"}

\* An item goes only when its run ends, and is not taken up again once it is settled.
ItemKept(i) ==
    /\ item[i].state # "none" => item'[i].state # "none" \/ ~Active(i[1])'
    /\ item[i].state \in Settled =>
          item'[i].state \in Settled \/ run'[i[1]].state \in {"none", "deleted"}

\* The run is as it was, or it has ended without being completed.
RunKept(r) ==
    \/ run'[r].state = run[r].state
    \/ run'[r].state \notin {"listing", "downloading", "completed"}

\* Every step keeps the items.
LEMMA ItemsKept ==
    ASSUME TypesInv, Next
    PROVE  \A i \in Items : ItemKept(i)
<1>t. RunTypes /\ WorkerTypes
  BY TypeParts DEF OtherTypes, RunTypes
<1>h. worker.pc \in HasItem => worker.item \in Items
  BY <1>t DEF WorkerTypes
<1>r. \A i \in Items : i[1] \in Runs
  BY DEF Items
<1>0. ASSUME \A i \in Items : Same(i)
      PROVE  \A i \in Items : ItemKept(i)
  BY <1>0 DEF ItemKept, Same
<1>1. ASSUME NEW i \in Items, NEW a \in {"pending", "downloading", "committing"},
             NEW b \in ItemStates \ {"none"}, Turns(i, a, b)
      PROVE  \A j \in Items : ItemKept(j)
  BY <1>1 DEF Turns, Same, ItemKept, Settled
<1>2. CASE RecoverDownloads
  BY <1>2, ItemSteps DEF ItemKept, Settled
<1>3. CASE AbandonCommit \/ ClaimItem
  <2>1. \E i \in Items : Turns(i, "committing", "failed") \/ Turns(i, "pending", "downloading")
    BY <1>3, ItemSteps
  <2>2. QED
    BY <1>1, <2>1 DEF ItemStates
<1>4. CASE RateLimited \/ FailItem \/ CommitStaged \/ FinishReady
  <2>1. worker.item \in Items
    BY <1>4, <1>h DEF RateLimited, FailItem, CommitStaged, FinishReady, HasItem
  <2>2. PICK i \in Items : i = worker.item
    BY <2>1
  <2>3. \/ \A j \in Items : Same(j)
        \/ Turns(i, "downloading", "pending") \/ Turns(i, "pending", "failed")
        \/ Turns(i, "downloading", "failed") \/ Turns(i, "downloading", "committing")
        \/ Turns(i, "committing", "stored")
    BY <1>4, <2>2, ItemSteps DEF Same
  <2>4. QED
    BY <1>0, <1>1, <2>3 DEF ItemStates
<1>5. CASE RememberFile
  <2>1. PICK r \in Runs, g \in worker.left \cap Files :
             \/ item[<<r, g>>].state # "none" /\ UNCHANGED <<run, item>>
             \/ /\ item[<<r, g>>].state = "none"
                /\ \A i \in Items : i # <<r, g>> => Same(i)
    BY <1>5, NewItem
  <2>2. QED
    BY <2>1 DEF ItemKept, Same, Settled
<1>6. CASE RemoveSource \/ Disconnect
  <2>1. CASE Cascaded
    BY <1>r, <1>t, <2>1, CascadeFacts DEF ItemKept, Active
  <2>2. CASE ~Cascaded
    <3>1. /\ run' = [r \in Runs |->
                       IF Active(r) THEN [run[r] EXCEPT !.state = "cancelled"] ELSE run[r]]
          /\ item' = [i \in Items |-> IF item[i].state = "pending" THEN NoItem ELSE item[i]]
      BY <1>6, <2>2 DEF RemoveSource, Disconnect
    <3>2. \A r \in Runs : ~Active(r)'
      <4>1. "cancelled" \in RunStates
        BY DEF RunStates
      <4>2. QED
        BY <1>t, <3>1, <4>1, EndRunsFacts DEF Active
    <3>3. QED
      BY <1>r, <3>1, <3>2 DEF ItemKept, Settled
  <2>3. QED
    BY <2>1, <2>2
<1>7. CASE CreateStaging \/ \E d \in Items : DeleteObject(d)
  BY <1>0, <1>7, ItemSteps
<1>8. CASE \/ ResumeCommit \/ ResumeNothing \/ ScheduleCheck \/ ScheduleInsert
           \/ NotScheduled \/ Unauthorized
           \/ DownloadBody \/ CountFailure \/ Promote \/ Rename \/ ListPage \/ NothingToList
           \/ RememberFolder \/ PageDone \/ ListFails \/ TickRefused \/ FinishRuns
  <2>1. UNCHANGED item
    BY <1>8 DEF ResumeCommit, ResumeNothing, ScheduleCheck, ScheduleInsert, NotScheduled,
       Unauthorized, DownloadBody,
          CountFailure, Promote, Rename, ListPage, NothingToList, RememberFolder, PageDone,
          ListFails, TickRefused, FinishRuns
  <2>2. QED
    BY <1>0, <2>1 DEF Same
<1>9. CASE \/ Deferred \/ DownloadFails \/ StorageLow \/ TickFails \/ Crash \/ MarkReauth
           \/ ListRefused \/ Connect \/ SetPause \/ SelectSource \/ SyncCheck \/ SyncInsert
           \/ \E e \in Items : TrashEntry(e) \/ RestoreEntry(e) \/ PurgeEntry(e)
           \/ \E i \in Items : MarkDeleting(i) \/ UnlinkObject(i) \/ SweepFails(i)
           \/ \E g \in Files : RemoteEdit(g)
  <2>1. UNCHANGED item
    BY <1>9 DEF Deferred, DownloadFails, StorageLow, TickFails, Crash, MarkReauth, ListRefused,
          Connect, SetPause, SelectSource, SyncCheck, SyncInsert, TrashEntry, RestoreEntry,
          PurgeEntry, MarkDeleting, UnlinkObject, SweepFails, RemoteEdit
  <2>2. QED
    BY <1>0, <2>1 DEF Same
<1>10. QED
  BY <1>2, <1>3, <1>4, <1>5, <1>6, <1>7, <1>8, <1>9 DEF Next, WorkerStep, Fault, Request,
      Sweep

\* Only start_run and finish_runs take a run forward.
LEMMA RunsAdvance ==
    ASSUME TypesInv, Next
    PROVE  \/ ScheduleCheck \/ ScheduleInsert \/ NotScheduled \/ SelectSource
           \/ SyncCheck \/ SyncInsert \/ FinishRuns
           \/ \A r \in Runs : RunKept(r)
<1>t. RunTypes /\ WorkerTypes
  BY TypeParts DEF OtherTypes, RunTypes
<1>i. \A i \in Items : i[1] \in Runs
  BY DEF Items
<1>s. {"failed", "cancelled"} \subseteq RunStates
  BY DEF RunStates
<1> DEFINE Kept == \A r \in Runs : RunKept(r)
<1>0. ASSUME UNCHANGED run
      PROVE  Kept
  BY <1>0 DEF RunKept
<1>2. ASSUME NEW s \in {"failed", "cancelled"},
             run' = [r \in Runs |-> IF Active(r) THEN [run[r] EXCEPT !.state = s] ELSE run[r]]
      PROVE  Kept
  BY <1>2, <1>s, <1>t, EndRunsFacts DEF RunKept
<1>3. CASE ListFails \/ TickRefused \/ TickFails \/ MarkReauth
  <2>1. ASSUME TickError
        PROVE  Kept
    BY <1>0, <1>2, <2>1 DEF TickError
  <2>2. QED
    BY <1>0, <1>3, <2>1 DEF ListFails, TickRefused, TickFails, MarkReauth
<1>4. CASE StorageLow
  BY <1>2, <1>4 DEF StorageLow
<1>5. CASE AbandonCommit \/ CountFailure \/ FinishReady
  <2>1. worker.pc \in HasItem => worker.item[1] \in Runs
    BY <1>i, <1>t DEF WorkerTypes
  <2>2. \/ UNCHANGED run
        \/ \E r \in Runs, field \in {"downloaded", "failed"} : run' = Counted(r, field)
    BY <1>5, <1>i, <2>1 DEF AbandonCommit, CountFailure, FinishReady, HasItem
  <2>3. QED
    BY <1>0, <1>t, <2>2, CountedFacts DEF RunKept
<1>6. CASE RememberFile
  BY <1>6, NewItem DEF RunKept
<1>8. CASE RemoveSource \/ Disconnect
  <2>1. \/ Cascaded
        \/ run' = [r \in Runs |->
                     IF Active(r) THEN [run[r] EXCEPT !.state = "cancelled"] ELSE run[r]]
    BY <1>8 DEF RemoveSource, Disconnect
  <2>2. Cascaded => Kept
    BY <1>t, CascadeFacts DEF RunKept
  <2>3. QED
    BY <1>2, <2>1, <2>2
<1>9. CASE \/ RememberFolder \/ PageDone \/ RecoverDownloads \/ ResumeCommit \/ ResumeNothing
           \/ ClaimItem \/ Unauthorized \/ CreateStaging \/ DownloadBody \/ FailItem
           \/ CommitStaged \/ Promote \/ Rename \/ ListPage \/ NothingToList
  <2>1. UNCHANGED run
    BY <1>9 DEF RememberFolder, PageDone, RecoverDownloads, ResumeCommit, ResumeNothing,
          ClaimItem, Unauthorized, CreateStaging, DownloadBody, FailItem, CommitStaged,
          Promote, Rename, ListPage, NothingToList
  <2>2. QED
    BY <1>0, <2>1
<1>10. CASE \/ Deferred \/ RateLimited \/ DownloadFails \/ Crash \/ ListRefused
            \/ Connect \/ SetPause
            \/ \E e \in Items : TrashEntry(e) \/ RestoreEntry(e) \/ PurgeEntry(e)
            \/ Sweep \/ \E g \in Files : RemoteEdit(g)
  <2>1. UNCHANGED run
    BY <1>10 DEF Deferred, RateLimited, DownloadFails, Crash, ListRefused, Connect, SetPause,
          TrashEntry, RestoreEntry, PurgeEntry, Sweep, MarkDeleting, UnlinkObject,
          DeleteObject, SweepFails, RemoteEdit
  <2>2. QED
    BY <1>0, <2>1
<1>11. QED
  BY <1>3, <1>4, <1>5, <1>6, <1>8, <1>9, <1>10 DEF Next, WorkerStep, Fault, Request

\* What is on a page has been recorded: a file as an item, a folder in the queue.
Noted(r, x) ==
    /\ x \in Files => item[<<r, x>>].state # "none"
    /\ x \in Folders => pages[r][x] # "none"

\* What a page holds is recorded before its row advances: of the page being listed,
\* everything but what is left; of a folder that has advanced, its first page; of one
\* that is done, its second page too.
PageInv(r) ==
    Active(r) =>
        /\ pages[r]["root"] # "none"
        /\ \A p \in Folders : pages[r][p] \in {"more", "done", "cut"} =>
              \A x \in OnPage(p, "todo") : Noted(r, x)
        /\ \A p \in Folders : pages[r][p] = "done" =>
              \A x \in OnPage(p, "more") : Noted(r, x)
        /\ worker.pc = "list" /\ worker.page[1] = r =>
              \A p \in Folders : worker.page[2] = p =>
                  /\ pages[r][p] \in {"todo", "more"}
                  /\ \A row \in {"todo", "more"} : pages[r][p] = row =>
                        \A x \in OnPage(p, row) \ worker.left : Noted(r, x)

PagesInv ==
    /\ \A r \in Runs : PageInv(r)
    /\ CompletedSawAll
    /\ worker.pc = "list" => run[worker.page[1]].state \notin {"none", "completed"}

\* What is recorded stays recorded while the run goes on.
LEMMA NotedKept ==
    ASSUME NEW r \in Runs, \A i \in Items : ItemKept(i), Active(r)',
           \A q \in Folders : pages[r][q] # "none" => pages'[r][q] # "none"
    PROVE  \A x : Noted(r, x) => Noted(r, x)'
<1>1. \A g \in Files : <<r, g>> \in Items /\ <<r, g>>[1] = r
  BY DEF Items
<1>2. \A g \in Files : item[<<r, g>>].state # "none" => item'[<<r, g>>].state # "none"
  BY <1>1 DEF ItemKept
<1>3. QED
  BY <1>2 DEF Noted

\* A run the step does not start, whose pages it leaves alone.
LEMMA PageFrame ==
    ASSUME TypesInv, PagesInv, NEW r \in Runs, \A i \in Items : ItemKept(i),
           Active(r)' => Active(r) /\ pages'[r] = pages[r],
           worker'.pc # "list" \/ worker' = worker
    PROVE  PageInv(r)'
<1> SUFFICES ASSUME Active(r)'
             PROVE  PageInv(r)'
  BY DEF PageInv
<1>1. Active(r) /\ pages'[r] = pages[r]
  OBVIOUS
<1>2. \A x : Noted(r, x) => Noted(r, x)'
  BY <1>1, NotedKept
<1>3. PageInv(r)
  BY DEF PagesInv
<1>4. QED
  BY <1>1, <1>2, <1>3 DEF PageInv

\* A completed run stays complete.
LEMMA CompletedFrame ==
    ASSUME PagesInv, NEW r \in Runs, \A i \in Items : ItemKept(i), pages'[r] = pages[r],
           run'[r].state = "completed", run[r].state = "completed",
           NEW p \in Folders, NEW g \in FilesIn(p)
    PROVE  \/ item'[<<r, g>>].state \in Settled
           \/ pages'[r][p] = "cut" /\ g \in LaterFiles
<1>1. <<r, g>> \in Items /\ <<r, g>>[1] = r
  BY DEF Items, FilesIn, Files
<1>2. item[<<r, g>>].state \in Settled \/ (pages[r][p] = "cut" /\ g \in LaterFiles)
  BY DEF PagesInv, CompletedSawAll, Settled
<1>3. QED
  BY <1>1, <1>2 DEF ItemKept

\* The run of the page being listed has begun and is not over.
LEMMA ListedFrame ==
    ASSUME TypesInv, PagesInv, Next, worker.pc = "list", worker'.page = worker.page,
           \A r \in Runs : run'[r].state = "completed" => run[r].state = "completed"
    PROVE  run'[worker'.page[1]].state \notin {"none", "completed"}
<1>1. worker.page[1] \in Runs /\ run[worker.page[1]].state \notin {"none", "completed"}
  BY DEF PagesInv, TypesInv, WorkerTypes
<1>2. RunTypes
  BY TypeParts DEF OtherTypes, RunTypes
<1>3. run'[worker.page[1]].state # "none"
  BY <1>1, <1>2, RunsKept, CascadeFacts DEF KeptRuns
<1>4. QED
  BY <1>1, <1>3

\* The whole invariant, of a step that takes no run forward.
LEMMA PagesFrame ==
    ASSUME TypesInv, PagesInv, Next, \A r \in Runs : RunKept(r),
           \A r \in Runs : Active(r)' \/ run'[r].state = "completed" => pages'[r] = pages[r],
           worker'.pc # "list" \/ worker' = worker
    PROVE  PagesInv'
<1>1. \A i \in Items : ItemKept(i)
  BY ItemsKept
<1>2. \A r \in Runs : PageInv(r)'
  BY <1>1, PageFrame DEF RunKept, Active
<1>3. CompletedSawAll'
  BY <1>1, CompletedFrame DEF CompletedSawAll, Settled, RunKept
<1>4. worker'.pc = "list" => run'[worker'.page[1]].state \notin {"none", "completed"}
  BY ListedFrame DEF RunKept
<1>5. QED
  BY <1>2, <1>3, <1>4 DEF PagesInv

\* start_run queues the first page.
LEMMA StartedPages ==
    ASSUME TypesInv, PagesInv, Next, NEW r \in Runs, StartRun(r),
           worker'.pc # "list" \/ worker' = worker
    PROVE  PagesInv'
<1>t. RunTypes
  BY TypeParts DEF OtherTypes, RunTypes
<1>1. /\ run[r].state = "none" /\ run'[r].state = "listing"
      /\ \A x \in Runs : x # r => run'[x] = run[x] /\ pages'[x] = pages[x]
      /\ \A p \in Folders : pages'[r][p] = IF p = "root" THEN "todo" ELSE "none"
  BY <1>t, StartRunFacts
<1>2. \A i \in Items : ItemKept(i)
  BY ItemsKept
<1>3. \A x \in Runs : x # r => PageInv(x)'
  BY <1>1, <1>2, PageFrame DEF Active
<1>4. PageInv(r)'
  <2>1. /\ pages'[r]["root"] = "todo"
        /\ \A p \in Folders : pages'[r][p] \notin {"more", "done", "cut"}
    BY <1>1 DEF Folders
  <2>2. ~(worker'.pc = "list" /\ worker'.page[1] = r)
    BY <1>1 DEF PagesInv
  <2>3. QED
    BY <2>1, <2>2 DEF PageInv
<1>5. CompletedSawAll'
  BY <1>1, <1>2, CompletedFrame DEF CompletedSawAll, Settled
<1>6. worker'.pc = "list" => run'[worker'.page[1]].state \notin {"none", "completed"}
  BY <1>1, ListedFrame
<1>7. QED
  BY <1>3, <1>4, <1>5, <1>6 DEF PagesInv

\* What is on the pages of a folder.
LEMMA PageFacts ==
    \A p \in Folders : /\ FilesIn(p) \subseteq Files /\ FoldersIn(p) \subseteq Folders
                       /\ FilesIn(p) \ LaterFiles \subseteq OnPage(p, "todo")
                       /\ FoldersIn(p) \subseteq OnPage(p, "todo")
                       /\ OnPage(p, "more") = FilesIn(p) \cap LaterFiles
                       /\ \A row : OnPage(p, row) \subseteq FilesIn(p) \cup FoldersIn(p)
BY DEF OnPage, FilesIn, FoldersIn, Files, Folders

\* Where every row that is queued is done or cut, and the first one is, all are.
LEMMA AllListed ==
    ASSUME TypesInv, NEW r \in Runs, Active(r), PageInv(r),
           \A q \in Folders : pages[r][q] \notin {"todo", "more"},
           NEW p \in Folders, NEW g \in FilesIn(p)
    PROVE  item[<<r, g>>].state # "none" \/ (pages[r][p] = "cut" /\ g \in LaterFiles)
<1>1. pages[r] \in [Folders -> {"none", "todo", "more", "done", "cut"}]
  BY DEF TypesInv, TypeOK
<1>2. "root" \in Folders /\ pages[r]["root"] \in {"done", "cut"}
  BY <1>1 DEF PageInv, Folders
<1>3. pages[r][p] \in {"done", "cut"}
  <2>1. CASE p = "root"
    BY <1>2, <2>1
  <2>2. CASE p # "root"
    <3>1. p \in FoldersIn("root")
      BY <2>2 DEF FoldersIn
    <3>2. Noted(r, p)
      BY <1>2, <3>1, PageFacts DEF PageInv
    <3>3. QED
      BY <1>1, <3>2 DEF Noted
  <2>3. QED
    BY <2>1, <2>2
<1>4. g \in Files
  BY PageFacts
<1>5. CASE g \notin LaterFiles
  <2>1. g \in OnPage(p, "todo")
    BY <1>5, PageFacts
  <2>2. Noted(r, g)
    BY <1>3, <2>1 DEF PageInv
  <2>3. QED
    BY <1>4, <2>2 DEF Noted
<1>6. CASE g \in LaterFiles /\ pages[r][p] = "done"
  <2>1. g \in OnPage(p, "more")
    BY <1>6, PageFacts
  <2>2. Noted(r, g)
    BY <1>6, <2>1 DEF PageInv
  <2>3. QED
    BY <1>4, <2>2 DEF Noted
<1>7. QED
  BY <1>3, <1>5, <1>6

\* finish_runs completes a run whose every file has been seen and dealt with.
LEMMA FinishedPages ==
    ASSUME TypesInv, PagesInv, Next, FinishRuns
    PROVE  PagesInv'
<1>t. RunTypes
  BY TypeParts DEF OtherTypes, RunTypes
<1>1. /\ worker'.pc = "tick" /\ UNCHANGED <<pages, item>>
  BY Control DEF FinishRuns
<1>2. \A r \in Runs :
         \/ run'[r] = run[r]
         \/ /\ Active(r) /\ \A p \in Folders : pages[r][p] \notin {"todo", "more"}
            /\ \/ run'[r].state = "downloading"
               \/ /\ run'[r].state = "completed"
                  /\ ~ \E i \in Items : i[1] = r /\ Open(i)
  BY <1>t, FinishRunsFacts
<1>3. \A i \in Items : ItemKept(i)
  BY ItemsKept
<1>4. \A r \in Runs : Active(r)' => Active(r)
  BY <1>2 DEF Active
<1>5. \A r \in Runs : PageInv(r)'
  BY <1>1, <1>3, <1>4, PageFrame
<1>6. ASSUME NEW r \in Runs, run'[r].state = "completed", NEW p \in Folders, NEW g \in FilesIn(p)
      PROVE  \/ item'[<<r, g>>].state \in Settled
             \/ pages'[r][p] = "cut" /\ g \in LaterFiles
  <2>1. CASE run[r].state = "completed"
    BY <1>1, <1>3, <1>6, <2>1, CompletedFrame
  <2>2. CASE run[r].state # "completed"
    <3>1. /\ Active(r) /\ \A q \in Folders : pages[r][q] \notin {"todo", "more"}
          /\ ~ \E i \in Items : i[1] = r /\ Open(i)
      BY <1>2, <1>6, <2>2
    <3>2. item[<<r, g>>].state # "none" \/ (pages[r][p] = "cut" /\ g \in LaterFiles)
      BY <3>1, AllListed DEF PagesInv
    <3>3. <<r, g>> \in Items /\ <<r, g>>[1] = r
      BY PageFacts DEF Items
    <3>4. item[<<r, g>>].state \in ItemStates
      BY <3>3 DEF TypesInv, TypeOK
    <3>5. QED
      BY <1>1, <3>1, <3>2, <3>3, <3>4 DEF Open, ItemStates, Settled
  <2>3. QED
    BY <2>1, <2>2
<1>7. QED
  BY <1>1, <1>5, <1>6 DEF PagesInv, CompletedSawAll, Settled

\* A step that records what is on the page: PageInv of a run, by what it asks of items,
\* pages and the page being listed.
LEMMA ListedPage ==
    ASSUME TypesInv, PagesInv, NEW r \in Runs, Active(r), \A i \in Items : ItemKept(i), Active(r)',
           worker.pc = "list", worker'.page = worker.page, NEW x,
           worker'.left = worker.left \ {x},
           \A q \in Folders : \/ pages'[r][q] = pages[r][q]
                              \/ pages[r][q] = "none" /\ pages'[r][q] = "todo",
           worker.page[1] = r => Noted(r, x)'
    PROVE  PageInv(r)'
<1>1. \A y : Noted(r, y) => Noted(r, y)'
  BY NotedKept
<1>2. PageInv(r)
  BY DEF PagesInv
<1>3. "root" \in Folders
  BY DEF Folders
<1>4. pages'[r]["root"] # "none"
  BY <1>2, <1>3 DEF PageInv
<1>5. ASSUME NEW p \in Folders
      PROVE  /\ pages'[r][p] \in {"more", "done", "cut"} => \A y \in OnPage(p, "todo") : Noted(r, y)'
             /\ pages'[r][p] = "done" => \A y \in OnPage(p, "more") : Noted(r, y)'
  BY <1>1, <1>2 DEF PageInv
<1>6. ASSUME worker.page[1] = r, NEW p \in Folders, worker.page[2] = p
      PROVE  /\ pages'[r][p] \in {"todo", "more"}
             /\ \A row \in {"todo", "more"} : pages'[r][p] = row =>
                   \A y \in OnPage(p, row) \ worker'.left : Noted(r, y)'
  <2>1. /\ pages[r][p] \in {"todo", "more"}
        /\ \A row \in {"todo", "more"} : pages[r][p] = row =>
              \A y \in OnPage(p, row) \ worker.left : Noted(r, y)
    BY <1>2, <1>6 DEF PageInv
  <2>2. pages'[r][p] = pages[r][p]
    BY <2>1
  <2>3. ASSUME NEW row \in {"todo", "more"}, pages[r][p] = row,
               NEW y \in OnPage(p, row) \ worker'.left
        PROVE  Noted(r, y)'
    <3>1. y = x \/ y \in OnPage(p, row) \ worker.left
      BY <2>3
    <3>2. QED
      BY <1>1, <1>6, <2>1, <2>3, <3>1
  <2>4. QED
    BY <2>1, <2>2, <2>3
<1>7. QED
  BY <1>4, <1>5, <1>6 DEF PageInv

\* remember_file and remember_folder.
LEMMA RememberedPages ==
    ASSUME TypesInv, PagesInv, Next, RememberFile \/ RememberFolder
    PROVE  PagesInv'
<1>1. /\ worker.pc = "list" /\ worker'.pc = "list" /\ worker'.page = worker.page
  BY Control DEF From
<1>2. \A i \in Items : ItemKept(i)
  BY ItemsKept
<1>3. PICK r \in Runs, p \in Folders : worker.page = <<r, p>>
  BY <1>1 DEF TypesInv, WorkerTypes
<1>r. worker.page[1] = r
  BY <1>3
<1>4. \A y \in Runs : run'[y].state = run[y].state
  BY NewItem DEF RememberFolder
<1>5. \E x :
         /\ worker'.left = worker.left \ {x}
         /\ Noted(r, x)'
         /\ \A y \in Runs, q \in Folders :
               \/ pages'[y][q] = pages[y][q]
               \/ y = r /\ pages[y][q] = "none" /\ pages'[y][q] = "todo"
  <2>0. Files \cap Folders = {}
    BY ImportAssumption DEF Folders
  <2>1. CASE RememberFile
    <3>0. PICK y \in Runs, g \in worker.left \cap Files :
             /\ y = worker.page[1] /\ worker'.left = worker.left \ {g}
             /\ \/ item[<<y, g>>].state # "none" /\ UNCHANGED <<run, item>>
                \/ item'[<<y, g>>].state \in {"skipped", "pending"}
      BY <2>1, NewItem
    <3>1. worker'.left = worker.left \ {g} /\ item'[<<r, g>>].state # "none"
      BY <1>r, <3>0
    <3>2. UNCHANGED pages
      BY <2>1 DEF RememberFile
    <3>3. Noted(r, g)'
      BY <2>0, <3>1 DEF Noted
    <3>4. WITNESS g
    <3>5. QED
      BY <3>1, <3>2, <3>3
  <2>2. CASE RememberFolder
    <3>1. PICK q \in worker.left \cap Folders :
             /\ worker' = [worker EXCEPT !.left = @ \ {q}]
             /\ pages' = IF pages[r][q] = "none"
                         THEN [pages EXCEPT ![r] = [@ EXCEPT ![q] = "todo"]] ELSE pages
      BY <1>r, <2>2, Zenon DEF RememberFolder
    <3>2. worker'.left = worker.left \ {q}
      BY <3>1, Moves
    <3>3. pages \in [Runs -> [Folders -> {"none", "todo", "more", "done", "cut"}]]
      BY DEF TypesInv, TypeOK
    <3>4. /\ pages'[r][q] # "none"
          /\ \A y \in Runs, f \in Folders :
               \/ pages'[y][f] = pages[y][f]
               \/ y = r /\ pages[y][f] = "none" /\ pages'[y][f] = "todo"
      BY <3>1, <3>3
    <3>5. Noted(r, q)'
      BY <2>0, <3>4 DEF Noted
    <3>6. WITNESS q
    <3>7. QED
      BY <3>2, <3>4, <3>5
  <2>3. QED
    BY <2>1, <2>2
<1>6. PICK x :
         /\ worker'.left = worker.left \ {x}
         /\ Noted(r, x)'
         /\ \A y \in Runs, q \in Folders :
               \/ pages'[y][q] = pages[y][q]
               \/ y = r /\ pages[y][q] = "none" /\ pages'[y][q] = "todo"
  BY <1>5
<1>7. ASSUME NEW y \in Runs
      PROVE  PageInv(y)'
  <2>1. CASE ~Active(y)'
    BY <2>1 DEF PageInv
  <2>2. CASE Active(y)'
    <3>1. Active(y)
      BY <1>4, <2>2 DEF Active
    <3>2. worker.page[1] = y => Noted(y, x)'
      BY <1>6, <1>r
    <3>3. QED
      BY <1>1, <1>2, <1>6, <2>2, <3>1, <3>2, ListedPage
  <2>3. QED
    BY <2>1, <2>2
<1>8. ASSUME NEW y \in Runs, run'[y].state = "completed"
      PROVE  pages'[y] = pages[y]
  <2>1. y # r
    BY <1>1, <1>4, <1>8, <1>r DEF PagesInv
  <2>2. CASE RememberFile
    BY <2>2 DEF RememberFile
  <2>3. CASE RememberFolder
    <3>1. \/ pages' = pages
          \/ \E q \in Folders : pages' = [pages EXCEPT ![r] = [@ EXCEPT ![q] = "todo"]]
      BY <1>r, <2>3 DEF RememberFolder
    <3>2. QED
      BY <2>1, <3>1 DEF TypesInv, TypeOK
  <2>4. QED
    BY <2>2, <2>3
<1>9. CompletedSawAll'
  BY <1>2, <1>4, <1>8, CompletedFrame DEF CompletedSawAll, Settled
<1>10. run'[worker'.page[1]].state \notin {"none", "completed"}
  BY <1>1, <1>4, ListedFrame
<1>11. QED
  BY <1>7, <1>9, <1>10 DEF PagesInv

\* The queue row advances when nothing is left of its page.
LEMMA DonePages ==
    ASSUME TypesInv, PagesInv, Next, PageDone
    PROVE  PagesInv'
<1>1. worker.pc = "list" /\ worker'.pc = "tick"
  BY Control
<1>2. UNCHANGED <<run, item>> /\ worker.left = {}
  BY DEF PageDone
<1>3. PICK r \in Runs, p \in Folders : worker.page = <<r, p>>
  BY <1>1 DEF TypesInv, WorkerTypes
<1>p. worker.page[1] = r /\ worker.page[2] = p
  BY <1>3
<1>4. \/ pages' = pages /\ run[r].state = "deleted"
      \/ \E row \in NextRow(p, pages[r][p]) :
            pages' = [pages EXCEPT ![r] = [@ EXCEPT ![p] = row]]
  BY <1>p DEF PageDone
<1>5. pages \in [Runs -> [Folders -> {"none", "todo", "more", "done", "cut"}]]
  BY DEF TypesInv, TypeOK
<1>6. /\ \A y \in Runs : y # r => pages'[y] = pages[y]
      /\ \A q \in Folders : q # p => pages'[r][q] = pages[r][q]
      /\ pages'[r][p] = pages[r][p] \/ pages'[r][p] \in NextRow(p, pages[r][p])
      /\ run[r].state # "deleted" => pages'[r][p] \in NextRow(p, pages[r][p])
  BY <1>4, <1>5
<1>7. ASSUME NEW y \in Runs, Active(y)
      PROVE  PageInv(y)'
  <2>1. Active(y)' /\ PageInv(y)
    BY <1>2, <1>7 DEF PagesInv, Active
  <2>2. \A i \in Items : ItemKept(i)
    BY ItemsKept
  <2>3. CASE y # r
    BY <1>1, <1>6, <1>7, <2>2, <2>3, PageFrame
  <2>4. CASE y = r
    <3>1. /\ pages[r][p] \in {"todo", "more"}
          /\ \A row \in {"todo", "more"} : pages[r][p] = row =>
                \A x \in OnPage(p, row) : Noted(r, x)
      BY <1>1, <1>2, <1>p, <1>7, <2>1, <2>4 DEF PageInv
    <3>2. pages'[r][p] \in NextRow(p, pages[r][p])
      BY <1>6, <1>7, <2>4 DEF Active
    <3>3. /\ pages'[r][p] \in {"more", "cut", "done"}
          /\ pages[r][p] = "todo" /\ pages'[r][p] = "done" => OnPage(p, "more") = {}
      BY <3>2, PageFacts DEF NextRow
    <3>4. \A q \in Folders : pages[r][q] # "none" => pages'[r][q] # "none"
      BY <1>6, <3>3
    <3>5. \A x : Noted(r, x) => Noted(r, x)'
      BY <2>1, <2>2, <2>4, <3>4, NotedKept
    <3>6. \A x \in OnPage(p, "todo") : Noted(r, x)
      BY <1>7, <2>1, <2>4, <3>1 DEF PageInv
    <3>7. pages'[r][p] = "done" => \A x \in OnPage(p, "more") : Noted(r, x)
      BY <3>1, <3>3
    <3>8. /\ pages'[r]["root"] # "none"
          /\ \A q \in Folders : pages'[r][q] \in {"more", "done", "cut"} =>
                \A x \in OnPage(q, "todo") : Noted(r, x)'
          /\ \A q \in Folders : pages'[r][q] = "done" =>
                \A x \in OnPage(q, "more") : Noted(r, x)'
      <4>1. "root" \in Folders
        BY DEF Folders
      <4>2. QED
        BY <1>6, <1>7, <2>1, <2>4, <3>4, <3>5, <3>6, <3>7, <4>1 DEF PageInv
    <3>9. QED
      BY <1>1, <2>4, <3>8 DEF PageInv
  <2>5. QED
    BY <2>3, <2>4
<1>8. \A y \in Runs : PageInv(y)'
  BY <1>2, <1>7 DEF PageInv, Active
<1>9. CompletedSawAll'
  <2>1. \A y \in Runs : run'[y].state = "completed" => pages'[y] = pages[y]
    BY <1>1, <1>2, <1>6, <1>p DEF PagesInv
  <2>2. QED
    BY <1>2, <2>1 DEF PagesInv, CompletedSawAll
<1>10. QED
  BY <1>1, <1>8, <1>9 DEF PagesInv

\* A page that is fetched has everything left on it.
LEMMA FetchedPages ==
    ASSUME TypesInv, PagesInv, Next, ListPage
    PROVE  PagesInv'
<1>1. PICK r \in Runs, p \in Folders :
         /\ Active(r) /\ pages[r][p] \in {"todo", "more"}
         /\ worker' = [At("list") EXCEPT !.page = <<r, p>>, !.left = OnPage(p, pages[r][p])]
  BY DEF ListPage, Listable
<1>2. worker'.page = <<r, p>> /\ worker'.left = OnPage(p, pages[r][p])
  BY <1>1, Moves
<1>3. UNCHANGED <<run, pages, item>>
  BY DEF ListPage
<1>4. /\ worker'.page[2] = p /\ worker'.page[1] = r
  BY <1>2
<1>5. ASSUME NEW y \in Runs
      PROVE  PageInv(y)'
  <2>1. PageInv(y) /\ (Active(y)' <=> Active(y)) /\ \A x : Noted(y, x)' <=> Noted(y, x)
    BY <1>3 DEF PagesInv, Active, Noted
  <2>2. \A row \in {"todo", "more"} : pages'[r][p] = row => OnPage(p, row) \ worker'.left = {}
    BY <1>2, <1>3
  <2>3. QED
    BY <1>1, <1>3, <1>4, <2>1, <2>2 DEF PageInv
<1>6. run'[worker'.page[1]].state \notin {"none", "completed"}
  BY <1>1, <1>3, <1>4 DEF Active
<1>7. CompletedSawAll'
  BY <1>3 DEF PagesInv, CompletedSawAll
<1>8. QED
  BY <1>5, <1>6, <1>7 DEF PagesInv

\* Every step keeps the pages and what they hold together.
LEMMA PagesStep == TypesInv /\ PagesInv /\ [Next]_vars => PagesInv'
<1> SUFFICES ASSUME TypesInv, PagesInv, [Next]_vars
             PROVE  PagesInv'
  OBVIOUS
<1>1. CASE UNCHANGED vars
  BY <1>1 DEF PagesInv, PageInv, Noted, Active, CompletedSawAll, vars
<1> SUFFICES ASSUME Next
             PROVE  PagesInv'
  BY <1>1
<1>2. CASE FinishRuns
  BY <1>2, FinishedPages
<1>3. CASE ListPage \/ RememberFile \/ RememberFolder \/ PageDone
  BY <1>3, FetchedPages, RememberedPages, DonePages
<1>4. CASE ScheduleCheck \/ ScheduleInsert \/ NotScheduled \/ SelectSource \/ SyncCheck
           \/ SyncInsert
  <2>1. worker'.pc # "list" \/ worker' = worker
    BY <1>4, Control DEF From, SelectSource, SyncCheck, SyncInsert
  <2>2. (\E r \in Runs : StartRun(r)) \/ UNCHANGED <<run, pages>>
    BY <1>4 DEF ScheduleCheck, ScheduleInsert, NotScheduled, SelectSource, SyncCheck, SyncInsert
  <2>3. UNCHANGED <<run, pages>> => PagesInv'
    BY <2>1, PagesFrame DEF RunKept
  <2>4. QED
    BY <2>1, <2>2, <2>3, StartedPages
<1>5. ASSUME \A r \in Runs : RunKept(r)
      PROVE  PagesInv'
  <2>0. CASE UNCHANGED pages /\ (worker'.pc # "list" \/ worker' = worker)
    BY <1>5, <2>0, PagesFrame
  <2>1. CASE \/ RecoverDownloads \/ AbandonCommit \/ ResumeCommit \/ ResumeNothing
             \/ ClaimItem \/ Unauthorized \/ CreateStaging \/ DownloadBody \/ FailItem
             \/ CountFailure \/ CommitStaged \/ Promote \/ Rename \/ FinishReady
             \/ NothingToList
             \/ ListFails \/ TickRefused \/ Deferred
    <3>1. UNCHANGED pages
      BY <2>1 DEF RecoverDownloads, AbandonCommit, ResumeCommit, ResumeNothing, ClaimItem,
            Unauthorized, CreateStaging, DownloadBody, FailItem, CountFailure, CommitStaged,
            Promote, Rename, FinishReady, NothingToList, ListFails,
            TickRefused, Deferred
    <3>2. worker'.pc # "list"
      BY <2>1, Control DEF From
    <3>3. QED
      BY <2>0, <3>1, <3>2
  <2>2. CASE Fault
    <3>1. UNCHANGED pages
      BY <2>2 DEF Fault, RateLimited, DownloadFails, StorageLow, TickFails, Crash,
            MarkReauth, ListRefused
    <3>2. worker'.pc # "list" \/ worker' = worker
      BY <2>2, Control DEF Fault, From
    <3>3. QED
      BY <2>0, <3>1, <3>2
  <2>3. CASE RemoveSource \/ Disconnect
    <3>1. UNCHANGED worker /\ (UNCHANGED pages \/ Cascaded)
      BY <2>3 DEF RemoveSource, Disconnect
    <3>2. Cascaded => \A r \in Runs : ~Active(r)' /\ run'[r].state # "completed"
      BY CascadeFacts, TypeParts DEF OtherTypes, RunTypes, Active
    <3>3. QED
      BY <1>5, <2>0, <3>1, <3>2, PagesFrame
  <2>4. CASE \/ Connect \/ SetPause \/ \E g \in Files : RemoteEdit(g)
             \/ \E e \in Items : TrashEntry(e) \/ RestoreEntry(e) \/ PurgeEntry(e)
             \/ Sweep
    <3>1. UNCHANGED <<pages, worker>>
      BY <2>4 DEF Connect, SetPause, RemoteEdit, TrashEntry, RestoreEntry, PurgeEntry,
            Sweep, MarkDeleting, UnlinkObject, DeleteObject, SweepFails
    <3>2. QED
      BY <2>0, <3>1
  <2>5. QED
    BY <1>2, <1>3, <1>4, <2>1, <2>2, <2>3, <2>4 DEF Next, WorkerStep, Request
<1>6. QED
  BY <1>2, <1>4, <1>5, RunsAdvance

\* finish_runs completes a run only when no page is left in its queue and no item open, and
\* a page leaves the queue only behind the records of everything on it: however the worker
\* is stopped and restarted, a completed run has seen every file and is done with each, but
\* for the second page of a folder whose token valid_page_token refused.
THEOREM CompletedRunsSawAll == Spec => []CompletedSawAll
<1>1. Init => PagesInv
  BY DEF Init, PagesInv, PageInv, CompletedSawAll, Active, NoRun, Idle
<1>2. PagesInv => CompletedSawAll
  BY DEF PagesInv
<1>3. QED
  BY <1>1, <1>2, TypesInvariant, PagesStep, PTL DEF Spec

-----------------------------------------------------------------------------
(* Items, entries and the worker belong to runs that have begun *)

StartedInv ==
    /\ \A i \in Items : item[i].state # "none" => run[i[1]].state \notin {"none", "deleted"}
    /\ \A e \in Items : entry[e] # "none" => run[e[1]].state # "none"
    /\ worker.pc \in HasItem => run[worker.item[1]].state # "none"
    /\ \A i \in Items : run[i[1]].state = "completed" => ~Open(i)

\* Only remember_file makes an item, in the run of its page.
LEMMA ItemBirth ==
    ASSUME TypesInv, Next, NEW i \in Items, item'[i].state # "none", item[i].state = "none"
    PROVE  worker.pc = "list" /\ i[1] = worker.page[1] /\ run[i[1]].state # "deleted"
<1>t. RunTypes /\ WorkerTypes
  BY TypeParts DEF OtherTypes, RunTypes
<1>h. worker.pc \in HasItem => worker.item \in Items
  BY <1>t DEF WorkerTypes
<1>0. ASSUME NEW j \in Items, NEW a \in {"pending", "downloading", "committing"}, NEW b,
             Turns(j, a, b)
      PROVE  FALSE
  BY <1>0 DEF Turns, Same
<1>s. ~Same(i)
  BY DEF Same
<1>2. CASE RecoverDownloads
  BY <1>2, ItemSteps
<1>3. CASE AbandonCommit \/ ClaimItem
  <2>1. \E j \in Items : Turns(j, "committing", "failed") \/ Turns(j, "pending", "downloading")
    BY <1>3, ItemSteps
  <2>2. QED
    BY <1>0, <2>1
<1>4. CASE RateLimited \/ FailItem \/ CommitStaged \/ FinishReady
  <2>1. worker.item \in Items
    BY <1>4, <1>h DEF RateLimited, FailItem, CommitStaged, FinishReady, HasItem
  <2>2. PICK j \in Items : j = worker.item
    BY <2>1
  <2>3. \/ \A k \in Items : Same(k)
        \/ Turns(j, "downloading", "pending") \/ Turns(j, "pending", "failed")
        \/ Turns(j, "downloading", "failed") \/ Turns(j, "downloading", "committing")
        \/ Turns(j, "committing", "stored")
    BY <1>4, <2>2, ItemSteps DEF Same
  <2>4. QED
    BY <1>0, <1>s, <2>3
<1>5. CASE RememberFile
  <2>1. PICK r \in Runs, g \in worker.left \cap Files :
             /\ r = worker.page[1] /\ run[r].state # "deleted"
             /\ \/ item[<<r, g>>].state # "none" /\ UNCHANGED <<run, item>>
                \/ \A k \in Items : k # <<r, g>> => Same(k)
    BY <1>5, NewItem
  <2>2. i = <<r, g>>
    BY <1>s, <2>1 DEF Same
  <2>3. QED
    BY <1>5, <2>1, <2>2 DEF RememberFile
<1>6. CASE RemoveSource \/ Disconnect
  BY <1>6, <1>t, CascadeFacts, NoItemType DEF RemoveSource, Disconnect
<1>7. CASE CreateStaging \/ \E d \in Items : DeleteObject(d)
  BY <1>7, <1>s, ItemSteps
<1>8. CASE \/ ResumeCommit \/ ResumeNothing \/ ScheduleCheck \/ ScheduleInsert
           \/ NotScheduled \/ Unauthorized
           \/ DownloadBody \/ CountFailure \/ Promote \/ Rename \/ ListPage \/ NothingToList
           \/ RememberFolder \/ PageDone \/ ListFails \/ TickRefused \/ FinishRuns
  BY <1>8 DEF ResumeCommit, ResumeNothing, ScheduleCheck, ScheduleInsert, NotScheduled,
     Unauthorized, DownloadBody,
     CountFailure, Promote, Rename, ListPage, NothingToList, RememberFolder, PageDone,
     ListFails, TickRefused, FinishRuns
<1>9. CASE \/ Deferred \/ DownloadFails \/ StorageLow \/ TickFails \/ Crash \/ MarkReauth
           \/ ListRefused \/ Connect \/ SetPause \/ SelectSource \/ SyncCheck \/ SyncInsert
           \/ \E e \in Items : TrashEntry(e) \/ RestoreEntry(e) \/ PurgeEntry(e)
           \/ \E d \in Items : MarkDeleting(d) \/ UnlinkObject(d) \/ SweepFails(d)
           \/ \E g \in Files : RemoteEdit(g)
  BY <1>9 DEF Deferred, DownloadFails, StorageLow, TickFails, Crash, MarkReauth, ListRefused,
     Connect, SetPause, SelectSource, SyncCheck, SyncInsert, TrashEntry, RestoreEntry,
     PurgeEntry, MarkDeleting, UnlinkObject, SweepFails, RemoteEdit
<1>10. QED
  BY <1>2, <1>3, <1>4, <1>5, <1>6, <1>7, <1>8, <1>9 DEF Next, WorkerStep, Fault, Request,
     Sweep

\* The worker keeps its item, claims one or takes up a commit.
LEMMA ItemInHand ==
    ASSUME TypesInv, Next, worker'.pc \in HasItem
    PROVE  \/ worker.pc \in HasItem /\ worker'.item = worker.item
           \/ /\ ClaimItem /\ worker'.pc = "download"
              /\ worker'.item \in Items /\ Active(worker'.item[1])
           \/ /\ ResumeCommit /\ worker'.pc = "rename"
              /\ worker'.item \in Items /\ item[worker'.item].state = "committing"
<1>1. CASE ClaimItem
  BY <1>1, ItemSteps, Control
<1>2. CASE ResumeCommit
  <2>1. PICK i \in Items : item[i].state = "committing" /\ worker' = [At("rename") EXCEPT !.item = i]
    BY <1>2 DEF ResumeCommit, Resumable
  <2>2. worker'.item = i
    BY <2>1, Moves
  <2>3. QED
    BY <1>2, <2>1, <2>2, Control
<1>3. CASE \/ Deferred \/ RecoverDownloads \/ AbandonCommit \/ ResumeNothing
           \/ ScheduleCheck \/ ScheduleInsert \/ NotScheduled
           \/ CountFailure \/ FinishReady \/ ListPage \/ NothingToList
           \/ RememberFile \/ RememberFolder \/ PageDone \/ ListFails \/ TickRefused
           \/ FinishRuns
  BY <1>3, Control DEF From, HasItem
<1>4. CASE \/ Unauthorized \/ CreateStaging \/ DownloadBody \/ FailItem
           \/ CommitStaged \/ Promote \/ Rename
  BY <1>4, Control DEF From, HasItem
<1>5. CASE Fault
  BY <1>5, Control DEF Fault, From, HasItem
<1>6. CASE Request \/ Sweep \/ \E g \in Files : RemoteEdit(g)
  BY <1>6 DEF Request, Connect, SetPause, SelectSource, SyncCheck, SyncInsert, RemoveSource,
     Disconnect,
     TrashEntry, RestoreEntry, PurgeEntry, Sweep, MarkDeleting, UnlinkObject,
          DeleteObject, SweepFails, RemoteEdit
<1>7. QED
  BY <1>1, <1>2, <1>3, <1>4, <1>5, <1>6 DEF Next, WorkerStep

\* Only commit_staged makes an entry, that of its item.
LEMMA EntryBirth ==
    ASSUME TypesInv, Next, NEW e \in Items, entry'[e] # "none", entry[e] = "none"
    PROVE  CommitStaged /\ e = worker.item /\ worker.pc \in HasItem
<1>t. entry \in [Items -> {"none", "live", "trash", "restored"}]
  BY DEF TypesInv, TypeOK
<1>1. CASE CommitStaged
  <2>1. PICK i \in Items : i = worker.item /\ worker.pc \in HasItem
    BY <1>1 DEF CommitStaged, TypesInv, WorkerTypes, HasItem
  <2>2. PICK t \in Items : t = TargetEntry(i)
    BY TargetFacts
  <2>3. entry' = [entry EXCEPT ![t] = IF @ = "restored" THEN @ ELSE "live"]
    BY <1>1, <2>1, <2>2 DEF CommitStaged
  <2>4. e = t
    BY <1>t, <2>3
  <2>5. e = i
    BY <2>2, <2>4, TargetFacts DEF Live
  <2>6. QED
    BY <1>1, <2>1, <2>5
<1>2. CASE \E x \in Items : TrashEntry(x) \/ RestoreEntry(x) \/ PurgeEntry(x)
  <2>1. PICK x \in Items : TrashEntry(x) \/ RestoreEntry(x) \/ PurgeEntry(x)
    BY <1>2
  <2>2. entry[x] # "none" /\ \A y \in Items : y # x => entry'[y] = entry[y]
    BY <1>t, <2>1 DEF TrashEntry, RestoreEntry, PurgeEntry, Live
  <2>3. QED
    BY <2>2
<1>3. CASE WorkerStep /\ ~CommitStaged
  BY <1>3 DEF WorkerStep, Deferred, RecoverDownloads, AbandonCommit, ResumeCommit,
     ResumeNothing,
     ScheduleCheck, ScheduleInsert, NotScheduled, ClaimItem, Unauthorized, CreateStaging,
     DownloadBody, FailItem,
     CountFailure, Promote, Rename, FinishReady, ListPage, NothingToList, RememberFile,
     RememberFolder, PageDone, ListFails, TickRefused, FinishRuns, drive
<1>4. CASE Fault \/ Sweep \/ \E g \in Files : RemoteEdit(g)
  BY <1>4 DEF Fault, Sweep, MarkDeleting, UnlinkObject, DeleteObject, SweepFails,
     RateLimited, DownloadFails, StorageLow, TickFails, Crash,
     MarkReauth, ListRefused, RemoteEdit, drive
<1>5. CASE Connect \/ SetPause \/ SelectSource \/ SyncCheck \/ SyncInsert \/ RemoveSource
           \/ Disconnect
  BY <1>5 DEF Connect, SetPause, SelectSource, SyncCheck, SyncInsert, RemoveSource,
     Disconnect, drive
<1>6. QED
  BY <1>1, <1>2, <1>3, <1>4, <1>5 DEF Next, Request

\* Every step keeps runs under what belongs to them.
LEMMA StartedStep == TypesInv /\ PagesInv /\ StartedInv /\ [Next]_vars => StartedInv'
<1> SUFFICES ASSUME TypesInv, PagesInv, StartedInv, [Next]_vars
             PROVE  StartedInv'
  OBVIOUS
<1>1. CASE UNCHANGED vars
  BY <1>1 DEF StartedInv, Open, vars
<1> SUFFICES ASSUME Next
             PROVE  StartedInv'
  BY <1>1
<1>t. RunTypes /\ \A i \in Items : i[1] \in Runs
  BY TypeParts DEF OtherTypes, RunTypes, Items
<1>2. \A r \in Runs : run[r].state # "none" => run'[r].state # "none"
  BY <1>t, RunsKept, CascadeFacts DEF KeptRuns
<1>3. ASSUME NEW i \in Items, item'[i].state # "none"
      PROVE  run'[i[1]].state \notin {"none", "deleted"}
  <2>1. run[i[1]].state \notin {"none", "deleted"}
    <3>1. CASE item[i].state = "none"
      BY <1>3, <3>1, ItemBirth DEF PagesInv
    <3>2. CASE item[i].state # "none"
      BY <3>2 DEF StartedInv
    <3>3. QED
      BY <3>1, <3>2
  <2>2. KeptRuns
    BY <1>3, <1>t, RunsKept, CascadeFacts
  <2>3. QED
    BY <1>t, <2>1, <2>2 DEF KeptRuns
<1>4. ASSUME NEW e \in Items, entry'[e] # "none"
      PROVE  run'[e[1]].state # "none"
  <2>1. CASE entry[e] = "none"
    BY <1>2, <1>4, <1>t, <2>1, EntryBirth DEF StartedInv
  <2>2. CASE entry[e] # "none"
    BY <1>2, <1>t, <2>2 DEF StartedInv
  <2>3. QED
    BY <2>1, <2>2
<1>5. ASSUME worker'.pc \in HasItem
      PROVE  run'[worker'.item[1]].state # "none"
  <2>1. worker'.item \in Items /\ run[worker'.item[1]].state # "none"
    <3>1. worker.pc \in HasItem => worker.item \in Items
      BY DEF TypesInv, WorkerTypes
    <3>2. QED
      BY <1>5, <3>1, ItemInHand DEF StartedInv, Active
  <2>2. worker'.item[1] \in Runs
    BY <1>t, <2>1
  <2>3. QED
    BY <1>2, <2>1, <2>2
<1>6. ASSUME NEW i \in Items, run'[i[1]].state = "completed"
      PROVE  ~Open(i)'
  <2>1. item[i].state \in ItemStates
    BY DEF TypesInv, TypeOK
  <2>2. CASE run[i[1]].state = "completed"
    <3>1. CASE item[i].state = "none"
      BY <2>2, <3>1, ItemBirth DEF PagesInv, Open
    <3>2. CASE item[i].state # "none"
      <4>1. item[i].state \in Settled
        BY <2>1, <2>2, <3>2 DEF StartedInv, Open, ItemStates, Settled
      <4>2. item'[i].state \in Settled
        BY <1>6, <4>1, ItemsKept DEF ItemKept
      <4>3. QED
        BY <4>2 DEF Open, Settled
    <3>3. QED
      BY <3>1, <3>2
  <2>3. CASE run[i[1]].state # "completed"
    <3>1. FinishRuns
      <4>1. ASSUME NEW r \in Runs, StartRun(r)
            PROVE  FALSE
        BY <1>6, <1>t, <2>3, <4>1, StartRunFacts
      <4>2. CASE ScheduleCheck \/ NotScheduled \/ SyncCheck
        BY <1>6, <2>3, <4>2 DEF ScheduleCheck, NotScheduled, SyncCheck
      <4>3. CASE ScheduleInsert \/ SelectSource \/ SyncInsert
        BY <1>6, <2>3, <4>1, <4>3 DEF ScheduleInsert, SelectSource, SyncInsert
      <4>4. ~RunKept(i[1])
        BY <1>6, <2>3 DEF RunKept
      <4>5. QED
        BY <1>t, <4>2, <4>3, <4>4, RunsAdvance
    <3>2. ~ \E j \in Items : j[1] = i[1] /\ Open(j)
      BY <1>6, <1>t, <2>3, <3>1, FinishRunsFacts
    <3>3. UNCHANGED item
      BY <3>1 DEF FinishRuns
    <3>4. QED
      BY <3>2, <3>3 DEF Open
  <2>4. QED
    BY <2>2, <2>3
<1>7. QED
  BY <1>3, <1>4, <1>5, <1>6 DEF StartedInv

-----------------------------------------------------------------------------
(* The counters of a run *)

Shown(r) == Active(r) \/ run[r].state = "completed"

\* The counters of a run that is shown; between fail_item's two statements the failure is
\* counted one too low.
CountRun(r) ==
    Shown(r) =>
        /\ run[r].discovered = Number(r, ItemStates \ {"none"})
        /\ run[r].downloaded = Number(r, {"stored"})
        /\ run[r].skipped = Number(r, {"skipped"})
        /\ run[r].failed <= Number(r, {"failed"})
        /\ worker.pc = "count" /\ worker.item[1] = r => run[r].failed < Number(r, {"failed"})

CountInv == \A r \in Runs : CountRun(r)

\* The item counts for what it did.
SameKind(i) ==
    \/ Same(i)
    \/ /\ item[i].state \in {"pending", "downloading", "committing"}
       /\ item'[i].state \in {"pending", "downloading", "committing"}

\* A number of files is a natural number, and 0 where there are none.
LEMMA NumberType ==
    ASSUME NEW r, NEW CONSTANT S
    PROVE  /\ Number(r, S) \in Nat
           /\ (\A g \in Files : item[<<r, g>>].state \notin S) => Number(r, S) = 0
           /\ IsFiniteSet({g \in Files : item[<<r, g>>].state \in S})
<1> DEFINE F == {g \in Files : item[<<r, g>>].state \in S}
<1>1. IsFiniteSet(F)
  BY ImportAssumption, FS_Subset
<1>2. Cardinality(F) \in Nat
  BY <1>1, FS_CardinalityType
<1>3. (\A g \in Files : item[<<r, g>>].state \notin S) => Cardinality(F) = 0
  BY FS_EmptySet
<1>4. QED
  BY <1>1, <1>2, <1>3 DEF Number

\* What changes no item of the kind changes no number.
LEMMA NumberSame ==
    ASSUME NEW CONSTANT r, NEW CONSTANT S,
           \A g \in Files : item'[<<r, g>>].state \in S <=> item[<<r, g>>].state \in S
    PROVE  Number(r, S)' = Number(r, S)
<1>1. {g \in Files : item'[<<r, g>>].state \in S} = {g \in Files : item[<<r, g>>].state \in S}
  OBVIOUS
<1>2. QED
  BY <1>1 DEF Number

\* One item more.
LEMMA NumberGrows ==
    ASSUME NEW CONSTANT r, NEW CONSTANT S, NEW g \in Files,
           item[<<r, g>>].state \notin S, item'[<<r, g>>].state \in S,
           \A f \in Files : f # g =>
              (item'[<<r, f>>].state \in S <=> item[<<r, f>>].state \in S)
    PROVE  Number(r, S)' = Number(r, S) + 1
<1> DEFINE F == {f \in Files : item[<<r, f>>].state \in S}
           G == {f \in Files : item'[<<r, f>>].state \in S}
<1>1. IsFiniteSet(F)
  BY NumberType
<1>2. G = F \cup {g} /\ g \notin F
  OBVIOUS
<1>3. Cardinality(F \cup {g}) = Cardinality(F) + 1
  BY <1>1, <1>2, FS_AddElement
<1>4. QED
  BY <1>2, <1>3 DEF Number

\* The four numbers, of a run whose items count for what they did.
LEMMA NumbersSame ==
    ASSUME NEW CONSTANT r, \A g \in Files : SameKind(<<r, g>>)
    PROVE  /\ Number(r, ItemStates \ {"none"})' = Number(r, ItemStates \ {"none"})
           /\ Number(r, {"stored"})' = Number(r, {"stored"})
           /\ Number(r, {"skipped"})' = Number(r, {"skipped"})
           /\ Number(r, {"failed"})' = Number(r, {"failed"})
<1>1. ASSUME NEW CONSTANT S \in {ItemStates \ {"none"}, {"stored"}, {"skipped"}, {"failed"}}
      PROVE  Number(r, S)' = Number(r, S)
  <2>1. \A g \in Files : item'[<<r, g>>].state \in S <=> item[<<r, g>>].state \in S
    BY <1>1 DEF SameKind, Same, ItemStates
  <2>2. QED
    BY <2>1, NumberSame
<1>2. QED
  BY <1>1

\* A run nothing happens to.
LEMMA CountFrame ==
    ASSUME CountInv, NEW r \in Runs, \A g \in Files : SameKind(<<r, g>>),
           Shown(r)' =>
              /\ Shown(r)
              /\ run'[r].discovered = run[r].discovered
              /\ run'[r].downloaded = run[r].downloaded
              /\ run'[r].skipped = run[r].skipped /\ run'[r].failed = run[r].failed,
           \/ worker'.pc # "count" \/ worker'.item[1] # r
           \/ worker.pc = "count" /\ worker'.item = worker.item
    PROVE  CountRun(r)'
<1>1. /\ Number(r, ItemStates \ {"none"})' = Number(r, ItemStates \ {"none"})
      /\ Number(r, {"stored"})' = Number(r, {"stored"})
      /\ Number(r, {"skipped"})' = Number(r, {"skipped"})
      /\ Number(r, {"failed"})' = Number(r, {"failed"})
  BY NumbersSame
<1>2. CountRun(r)
  BY DEF CountInv
<1> SUFFICES ASSUME Shown(r)'
             PROVE  /\ run'[r].discovered = Number(r, ItemStates \ {"none"})'
                    /\ run'[r].downloaded = Number(r, {"stored"})'
                    /\ run'[r].skipped = Number(r, {"skipped"})'
                    /\ run'[r].failed <= Number(r, {"failed"})'
                    /\ worker'.pc = "count" /\ worker'.item[1] = r =>
                          run'[r].failed < Number(r, {"failed"})'
  BY DEF CountRun
<1>3. QED
  BY <1>1, <1>2 DEF CountRun

\* A step that leaves the items what they count for, and the runs what they are or ends them.
LEMMA CountsFrame ==
    ASSUME TypesInv, CountInv,
           \A r \in Runs : run'[r] = run[r] \/ ~Shown(r)',
           \A i \in Items : SameKind(i) \/ ~Shown(i[1])',
           worker'.pc # "count" \/ worker' = worker
    PROVE  CountInv'
<1>1. \A r \in Runs, g \in Files : <<r, g>> \in Items /\ <<r, g>>[1] = r
  BY DEF Items
<1>2. ASSUME NEW r \in Runs, Shown(r)'
      PROVE  CountRun(r)'
  <2>1. \A g \in Files : SameKind(<<r, g>>)
    BY <1>1, <1>2
  <2>2. run'[r] = run[r] /\ Shown(r)
    BY <1>2 DEF Shown, Active
  <2>3. QED
    BY <2>1, <2>2, CountFrame
<1>3. \A r \in Runs : ~Shown(r)' => CountRun(r)'
  BY DEF CountRun
<1>4. QED
  BY <1>2, <1>3 DEF CountInv

\* An item of run r turns and its run counts it: AbandonCommit and FinishReady.
LEMMA CountTurn ==
    ASSUME TypesInv, CountInv, NEW i \in Items, worker'.pc # "count",
           \/ Turns(i, "committing", "failed") /\ run' = Counted(i[1], "failed")
           \/ Turns(i, "committing", "stored") /\ run' = Counted(i[1], "downloaded")
    PROVE  CountInv'
<1>t. RunTypes
  BY TypeParts DEF OtherTypes, RunTypes
<1>1. PICK r \in Runs, g \in Files : i = <<r, g>> /\ r = i[1]
  BY DEF Items
<1>2. PICK field \in {"failed", "downloaded"}, kind \in {"failed", "stored"} :
         /\ run' = Counted(r, field) /\ Turns(i, "committing", kind)
         /\ field = "failed" <=> kind = "failed"
  BY <1>1
<1>3. /\ \A x \in Runs : run'[x].state = run[x].state /\ (x # r => run'[x] = run[x])
      /\ run'[r].discovered = run[r].discovered /\ run'[r].skipped = run[r].skipped
      /\ run'[r].failed = IF field = "failed" THEN run[r].failed + 1 ELSE run[r].failed
      /\ run'[r].downloaded =
            IF field = "downloaded" THEN run[r].downloaded + 1 ELSE run[r].downloaded
  BY <1>2, <1>t, CountedFacts
<1>4. ASSUME NEW x \in Runs, x # r
      PROVE  CountRun(x)'
  <2>1. \A f \in Files : <<x, f>> \in Items /\ <<x, f>> # i
    BY <1>1, <1>4 DEF Items
  <2>2. \A f \in Files : SameKind(<<x, f>>)
    BY <1>2, <2>1 DEF Turns, SameKind
  <2>3. run'[x] = run[x]
    BY <1>3, <1>4
  <2>4. Shown(x)' => Shown(x)
    BY <2>3 DEF Shown, Active
  <2>5. QED
    BY <2>2, <2>3, <2>4, CountFrame
<1>5. CountRun(r)'
  <2> SUFFICES ASSUME Shown(r)'
               PROVE  /\ run'[r].discovered = Number(r, ItemStates \ {"none"})'
                      /\ run'[r].downloaded = Number(r, {"stored"})'
                      /\ run'[r].skipped = Number(r, {"skipped"})'
                      /\ run'[r].failed <= Number(r, {"failed"})'
    BY DEF CountRun
  <2>1. \A f \in Files : <<r, f>> \in Items /\ (f # g => <<r, f>> # i)
    BY <1>1 DEF Items
  <2>2. /\ \A f \in Files : f # g => item'[<<r, f>>].state = item[<<r, f>>].state
        /\ item[<<r, g>>].state = "committing" /\ item'[<<r, g>>].state = kind
    BY <1>1, <1>2, <2>1 DEF Turns, Same
  <2>3. ASSUME NEW CONSTANT S, ("committing" \in S <=> kind \in S)
        PROVE  Number(r, S)' = Number(r, S)
    <3>1. \A f \in Files : item'[<<r, f>>].state \in S <=> item[<<r, f>>].state \in S
      BY <2>2, <2>3
    <3>2. QED
      BY <3>1, NumberSame
  <2>4. ASSUME NEW CONSTANT S, "committing" \notin S, kind \in S
        PROVE  Number(r, S)' = Number(r, S) + 1
    <3>1. \A f \in Files : f # g =>
              (item'[<<r, f>>].state \in S <=> item[<<r, f>>].state \in S)
      BY <2>2
    <3>2. QED
      BY <2>2, <2>4, <3>1, NumberGrows
  <2>5. CountRun(r) /\ Shown(r)
    BY <1>3 DEF CountInv, Shown, Active
  <2>6. /\ Number(r, ItemStates \ {"none"})' = Number(r, ItemStates \ {"none"})
        /\ Number(r, {"skipped"})' = Number(r, {"skipped"})
    BY <2>3 DEF ItemStates
  <2>7. CASE kind = "failed"
    <3>1. /\ Number(r, {"stored"})' = Number(r, {"stored"})
          /\ Number(r, {"failed"})' = Number(r, {"failed"}) + 1
      BY <2>3, <2>4, <2>7
    <3>2. Number(r, {"failed"}) \in Nat /\ run[r].failed \in Nat
      BY <1>t, NumberType DEF RunTypes, RunType
    <3>3. QED
      BY <1>2, <1>3, <2>5, <2>6, <2>7, <3>1, <3>2 DEF CountRun
  <2>8. CASE kind = "stored"
    <3>1. /\ Number(r, {"stored"})' = Number(r, {"stored"}) + 1
          /\ Number(r, {"failed"})' = Number(r, {"failed"})
      BY <2>3, <2>4, <2>8
    <3>2. QED
      BY <1>2, <1>3, <2>5, <2>6, <2>8, <3>1 DEF CountRun
  <2>9. QED
    BY <2>7, <2>8
<1>6. QED
  BY <1>4, <1>5 DEF CountInv

\* The first statement of fail_item: one failure more than is counted.
LEMMA CountFailItem ==
    ASSUME TypesInv, CountInv, FailItem
    PROVE  CountInv'
<1>t. RunTypes /\ UNCHANGED run
  BY TypeParts DEF OtherTypes, RunTypes, FailItem
<1>i. PICK i \in Items : i = worker.item
  BY DEF TypesInv, WorkerTypes, FailItem, HasItem
<1>1. CASE UNCHANGED item
  <2>1. worker'.pc # "count"
    BY <1>1, <1>i, ItemSteps DEF Turns
  <2>2. QED
    BY <1>1, <1>t, <2>1, CountsFrame DEF SameKind, Same
<1>2. CASE ~UNCHANGED item
  <2>1. PICK a \in {"pending", "downloading"} : Turns(i, a, "failed") /\ worker'.pc = "count"
    BY <1>2, <1>i, ItemSteps
  <2>2. worker'.item = i
    BY <1>i, <2>1, Control DEF From
  <2>3. PICK r \in Runs, g \in Files : i = <<r, g>> /\ r = i[1]
    BY DEF Items
  <2>4. ASSUME NEW x \in Runs, x # r
        PROVE  CountRun(x)'
    <3>1. \A f \in Files : <<x, f>> \in Items /\ <<x, f>> # i
      BY <2>3, <2>4 DEF Items
    <3>2. \A f \in Files : SameKind(<<x, f>>)
      BY <2>1, <3>1 DEF Turns, SameKind
    <3>3. (Shown(x)' => Shown(x)) /\ run'[x] = run[x] /\ worker'.item[1] # x
      BY <1>t, <2>2, <2>3, <2>4 DEF Shown, Active
    <3>4. QED
      BY <3>2, <3>3, CountFrame
  <2>5. CountRun(r)'
    <3> SUFFICES ASSUME Shown(r)'
                 PROVE  /\ run[r].discovered = Number(r, ItemStates \ {"none"})'
                        /\ run[r].downloaded = Number(r, {"stored"})'
                        /\ run[r].skipped = Number(r, {"skipped"})'
                        /\ run[r].failed < Number(r, {"failed"})'
                        /\ run[r].failed <= Number(r, {"failed"})'
      BY <1>t DEF CountRun
    <3>1. \A f \in Files : <<r, f>> \in Items /\ (f # g => <<r, f>> # i)
      BY <2>3 DEF Items
    <3>2. /\ \A f \in Files : f # g => item'[<<r, f>>].state = item[<<r, f>>].state
          /\ item[<<r, g>>].state = a /\ item'[<<r, g>>].state = "failed"
      BY <2>1, <2>3, <3>1 DEF Turns, Same
    <3>3. ASSUME NEW CONSTANT S \in {ItemStates \ {"none"}, {"stored"}, {"skipped"}}
          PROVE  Number(r, S)' = Number(r, S)
      <4>1. \A f \in Files : item'[<<r, f>>].state \in S <=> item[<<r, f>>].state \in S
        BY <3>2, <3>3 DEF ItemStates
      <4>2. QED
        BY <4>1, NumberSame
    <3>4. Number(r, {"failed"})' = Number(r, {"failed"}) + 1
      <4>1. \A f \in Files : f # g =>
                (item'[<<r, f>>].state \in {"failed"} <=> item[<<r, f>>].state \in {"failed"})
        BY <3>2
      <4>2. item[<<r, g>>].state \notin {"failed"} /\ item'[<<r, g>>].state \in {"failed"}
        BY <3>2
      <4>3. QED
        BY <4>1, <4>2, NumberGrows
    <3>5. CountRun(r) /\ Shown(r)
      BY <1>t DEF CountInv, Shown, Active
    <3>6. Number(r, {"failed"}) \in Nat /\ run[r].failed \in Nat
      BY <1>t, NumberType DEF RunTypes, RunType
    <3>7. run[r].failed < Number(r, {"failed"})' /\ run[r].failed <= Number(r, {"failed"})'
      BY <3>4, <3>5, <3>6 DEF CountRun
    <3>8. QED
      BY <3>3, <3>5, <3>7 DEF CountRun
  <2>6. QED
    BY <2>4, <2>5 DEF CountInv
<1>3. QED
  BY <1>1, <1>2

\* Its second statement counts it.
LEMMA CountCountFailure ==
    ASSUME TypesInv, CountInv, CountFailure
    PROVE  CountInv'
<1>t. RunTypes /\ UNCHANGED item /\ worker.pc = "count" /\ worker'.pc = "tick"
  BY Control, TypeParts DEF OtherTypes, RunTypes, CountFailure
<1>s. \A i \in Items : SameKind(i)
  BY <1>t DEF SameKind, Same
<1>r. PICK r \in Runs : r = worker.item[1]
  BY <1>t DEF TypesInv, WorkerTypes, HasItem, Items
<1>1. CASE UNCHANGED run
  BY <1>1, <1>s, <1>t, CountsFrame
<1>2. CASE ~UNCHANGED run
  <2>1. run' = Counted(r, "failed")
    BY <1>2, <1>r DEF CountFailure
  <2>2. /\ \A x \in Runs : run'[x].state = run[x].state /\ (x # r => run'[x] = run[x])
        /\ run'[r].discovered = run[r].discovered /\ run'[r].skipped = run[r].skipped
        /\ run'[r].failed = run[r].failed + 1
        /\ run'[r].downloaded = run[r].downloaded
    BY <1>t, <2>1, CountedFacts
  <2>3. \A x \in Runs, g \in Files : SameKind(<<x, g>>)
    BY <1>s DEF Items
  <2>4. ASSUME NEW x \in Runs, x # r
        PROVE  CountRun(x)'
    <3>1. (Shown(x)' => Shown(x)) /\ run'[x] = run[x]
      BY <2>2, <2>4 DEF Shown, Active
    <3>2. QED
      BY <1>t, <2>3, <3>1, CountFrame
  <2>5. CountRun(r)'
    <3> SUFFICES ASSUME Shown(r)'
                 PROVE  /\ run'[r].discovered = Number(r, ItemStates \ {"none"})'
                        /\ run'[r].downloaded = Number(r, {"stored"})'
                        /\ run'[r].skipped = Number(r, {"skipped"})'
                        /\ run'[r].failed <= Number(r, {"failed"})'
      BY <1>t DEF CountRun
    <3>1. /\ Number(r, ItemStates \ {"none"})' = Number(r, ItemStates \ {"none"})
          /\ Number(r, {"stored"})' = Number(r, {"stored"})
          /\ Number(r, {"skipped"})' = Number(r, {"skipped"})
          /\ Number(r, {"failed"})' = Number(r, {"failed"})
      BY <2>3, NumbersSame
    <3>2. CountRun(r) /\ Shown(r)
      BY <2>2 DEF CountInv, Shown, Active
    <3>3. run[r].failed < Number(r, {"failed"})
      BY <1>r, <1>t, <3>2 DEF CountRun
    <3>4. Number(r, {"failed"}) \in Nat /\ run[r].failed \in Nat
      BY <1>t, NumberType DEF RunTypes, RunType
    <3>5. QED
      BY <2>2, <3>1, <3>2, <3>3, <3>4 DEF CountRun
  <2>6. QED
    BY <2>4, <2>5 DEF CountInv
<1>3. QED
  BY <1>1, <1>2

\* remember_file counts each file once.
LEMMA CountRemember ==
    ASSUME TypesInv, CountInv, RememberFile
    PROVE  CountInv'
<1>w. worker'.pc = "list"
  BY Control DEF From
<1>1. PICK r \in Runs, g \in worker.left \cap Files, s \in {"skipped", "pending"} :
             \/ item[<<r, g>>].state # "none" /\ run' = run /\ item' = item
             \/ /\ item[<<r, g>>].state = "none"
                /\ SetItem(<<r, g>>, [NoItem EXCEPT !.state = s, !.md5 = Listed(g)])
                /\ \A x \in Runs : x # r => run'[x] = run[x]
                /\ run'[r].state = run[r].state
                /\ run'[r].failed = run[r].failed
                /\ run'[r].downloaded = run[r].downloaded
                /\ run'[r].discovered = run[r].discovered + 1
                /\ run'[r].skipped =
                      IF s = "skipped" THEN run[r].skipped + 1 ELSE run[r].skipped
  BY RememberFacts, ZenonT(30)
<1>2. CASE UNCHANGED <<run, item>>
  BY <1>2, <1>w, CountsFrame DEF SameKind, Same
<1>3. CASE ~UNCHANGED <<run, item>>
  <2>1. <<r, g>> \in Items
    BY DEF Items
  <2> DEFINE t == [NoItem EXCEPT !.state = s, !.md5 = Listed(g)]
  <2>2. t.state = s
    BY DEF NoItem
  <2>3. SetItem(<<r, g>>, t)
    BY <1>1, <1>3
  <2> HIDE DEF t
  <2>4. /\ item[<<r, g>>].state = "none" /\ item'[<<r, g>>].state = s
        /\ \A j \in Items : j # <<r, g>> => SameKind(j) /\ item'[j].state = item[j].state
    BY <1>1, <1>3, <2>1, <2>2, <2>3 DEF SetItem, SameKind, Same, TypesInv, TypeOK
  <2>5. ASSUME NEW x \in Runs, x # r
        PROVE  CountRun(x)'
    <3>1. \A f \in Files : <<x, f>> \in Items /\ <<x, f>> # <<r, g>>
      BY <2>5 DEF Items
    <3>2. \A f \in Files : SameKind(<<x, f>>)
      BY <2>4, <3>1
    <3>3. run'[x] = run[x]
      BY <1>1, <1>3, <2>5
    <3>4. Shown(x)' => Shown(x)
      BY <3>3 DEF Shown, Active
    <3>5. QED
      BY <1>w, <3>2, <3>3, <3>4, CountFrame
  <2>6. CountRun(r)'
    <3> SUFFICES ASSUME Shown(r)'
                 PROVE  /\ run'[r].discovered = Number(r, ItemStates \ {"none"})'
                        /\ run'[r].downloaded = Number(r, {"stored"})'
                        /\ run'[r].skipped = Number(r, {"skipped"})'
                        /\ run'[r].failed <= Number(r, {"failed"})'
      BY <1>w DEF CountRun
    <3>1. \A f \in Files : <<r, f>> \in Items /\ (f # g => <<r, f>> # <<r, g>>)
      BY DEF Items
    <3>2. \A f \in Files : f # g => item'[<<r, f>>].state = item[<<r, f>>].state
      BY <2>4, <3>1
    <3>3. ASSUME NEW CONSTANT S, "none" \notin S, s \notin S
          PROVE  Number(r, S)' = Number(r, S)
      <4>1. \A f \in Files : item'[<<r, f>>].state \in S <=> item[<<r, f>>].state \in S
        BY <2>4, <3>2, <3>3
      <4>2. QED
        BY <4>1, NumberSame
    <3>4. ASSUME NEW CONSTANT S, "none" \notin S, s \in S
          PROVE  Number(r, S)' = Number(r, S) + 1
      <4>1. \A f \in Files : f # g =>
                (item'[<<r, f>>].state \in S <=> item[<<r, f>>].state \in S)
        BY <3>2
      <4>2. QED
        BY <2>4, <3>4, <4>1, NumberGrows
    <3>5. CountRun(r) /\ Shown(r)
      BY <1>1, <1>3 DEF CountInv, Shown, Active
    <3>6. /\ Number(r, ItemStates \ {"none"})' = Number(r, ItemStates \ {"none"}) + 1
          /\ Number(r, {"stored"})' = Number(r, {"stored"})
          /\ Number(r, {"failed"})' = Number(r, {"failed"})
          /\ Number(r, {"skipped"})' =
                IF s = "skipped" THEN Number(r, {"skipped"}) + 1 ELSE Number(r, {"skipped"})
      BY <3>3, <3>4 DEF ItemStates
    <3>7. QED
      BY <1>1, <1>3, <3>5, <3>6 DEF CountRun
  <2>7. QED
    BY <2>5, <2>6 DEF CountInv
<1>4. QED
  BY <1>2, <1>3

\* A run starts at zero, with no items.
LEMMA CountStart ==
    ASSUME TypesInv, StartedInv, CountInv, NEW r \in Runs, StartRun(r), UNCHANGED item,
           worker'.pc # "count" \/ worker' = worker
    PROVE  CountInv'
<1>t. RunTypes
  BY TypeParts DEF OtherTypes, RunTypes
<1>1. /\ run[r].state = "none"
      /\ run'[r].discovered = 0 /\ run'[r].downloaded = 0
      /\ run'[r].skipped = 0 /\ run'[r].failed = 0
      /\ \A x \in Runs : x # r => run'[x] = run[x]
  BY <1>t, StartRunFacts
<1>2. \A x \in Runs, g \in Files : SameKind(<<x, g>>)
  BY DEF SameKind, Same
<1>3. ASSUME NEW x \in Runs, x # r
      PROVE  CountRun(x)'
  <2>1. run'[x] = run[x] /\ (Shown(x)' => Shown(x))
    BY <1>1, <1>3 DEF Shown, Active
  <2>2. QED
    BY <1>2, <2>1, CountFrame
<1>4. CountRun(r)'
  <2>1. \A g \in Files : item[<<r, g>>].state = "none"
    BY <1>1 DEF StartedInv, Items
  <2>2. /\ Number(r, ItemStates \ {"none"}) = 0 /\ Number(r, {"stored"}) = 0
        /\ Number(r, {"skipped"}) = 0 /\ Number(r, {"failed"}) = 0
    BY <2>1, NumberType
  <2>3. /\ Number(r, ItemStates \ {"none"})' = 0 /\ Number(r, {"stored"})' = 0
        /\ Number(r, {"skipped"})' = 0 /\ Number(r, {"failed"})' = 0
    BY <1>2, <2>2, NumbersSame
  <2>4. ~(worker'.pc = "count" /\ worker'.item[1] = r)
    BY <1>1 DEF StartedInv, HasItem
  <2>5. QED
    BY <1>1, <2>3, <2>4 DEF CountRun
<1>5. QED
  BY <1>3, <1>4 DEF CountInv

\* finish_runs counts nothing.
LEMMA CountFinish ==
    ASSUME TypesInv, CountInv, FinishRuns
    PROVE  CountInv'
<1>t. RunTypes /\ worker'.pc = "tick" /\ UNCHANGED item
  BY Control, TypeParts DEF OtherTypes, RunTypes, FinishRuns
<1>1. \A r \in Runs :
         \/ run'[r] = run[r]
         \/ /\ Active(r)
            /\ run'[r].discovered = run[r].discovered
            /\ run'[r].downloaded = run[r].downloaded
            /\ run'[r].skipped = run[r].skipped /\ run'[r].failed = run[r].failed
  BY <1>t, FinishRunsFacts
<1>2. \A x \in Runs, g \in Files : SameKind(<<x, g>>)
  BY <1>t DEF SameKind, Same
<1>3. ASSUME NEW r \in Runs
      PROVE  CountRun(r)'
  <2>1. Shown(r)' => Shown(r)
    BY <1>1 DEF Shown, Active
  <2>2. QED
    BY <1>1, <1>2, <1>t, <2>1, CountFrame
<1>4. QED
  BY <1>3 DEF CountInv

\* Every step keeps the counters.
LEMMA CountStep == TypesInv /\ PagesInv /\ StartedInv /\ CountInv /\ [Next]_vars => CountInv'
<1> SUFFICES ASSUME TypesInv, PagesInv, StartedInv, CountInv, [Next]_vars
             PROVE  CountInv'
  OBVIOUS
<1>t. RunTypes /\ (worker.pc \in HasItem => worker.item \in Items)
  BY TypeParts DEF OtherTypes, RunTypes, WorkerTypes
<1>0. ASSUME UNCHANGED run, \A i \in Items : SameKind(i), worker'.pc # "count" \/ worker' = worker
      PROVE  CountInv'
  BY <1>0, CountsFrame
<1>k. UNCHANGED item => \A i \in Items : SameKind(i)
  BY DEF SameKind, Same
<1>1. CASE UNCHANGED vars
  BY <1>0, <1>1, <1>k DEF vars
<1>2. CASE FinishRuns \/ RememberFile \/ FailItem \/ CountFailure
  BY <1>2, CountFinish, CountRemember, CountFailItem, CountCountFailure
<1>3. CASE AbandonCommit \/ FinishReady
  <2>1. worker'.pc = "tick"
    BY <1>3, Control
  <2>2. CASE AbandonCommit
    <3>1. PICK i \in Items : Turns(i, "committing", "failed") /\ run' = Counted(i[1], "failed")
      BY <2>2, ItemSteps
    <3>2. QED
      BY <2>1, <3>1, CountTurn
  <2>3. CASE FinishReady
    <3>1. PICK i \in Items : i = worker.item
      BY <1>t, <2>3 DEF FinishReady, HasItem
    <3>2. \/ UNCHANGED <<item, run>>
          \/ Turns(i, "committing", "stored") /\ run' = Counted(i[1], "downloaded")
      BY <2>3, <3>1, ItemSteps
    <3>3. QED
      BY <1>0, <1>k, <2>1, <3>2, CountTurn
  <2>4. QED
    BY <1>3, <2>2, <2>3
<1>4. CASE ScheduleCheck \/ ScheduleInsert \/ NotScheduled \/ SelectSource \/ SyncCheck
           \/ SyncInsert
  <2>1. worker'.pc # "count" \/ worker' = worker
    BY <1>4, Control DEF From, SelectSource, SyncCheck, SyncInsert
  <2>2. UNCHANGED item /\ ((\E r \in Runs : StartRun(r)) \/ UNCHANGED run)
    BY <1>4 DEF ScheduleCheck, ScheduleInsert, NotScheduled, SelectSource, SyncCheck, SyncInsert
  <2>3. QED
    BY <1>0, <1>k, <2>1, <2>2, CountStart
<1>5. CASE ListFails \/ TickRefused \/ TickFails \/ MarkReauth \/ StorageLow
  <2>1. UNCHANGED item
    BY <1>5 DEF ListFails, TickRefused, TickFails, MarkReauth, StorageLow
  <2>2. worker'.pc # "count" \/ worker' = worker
    BY <1>5, Control DEF From
  <2>3. \/ UNCHANGED run
        \/ run' = [r \in Runs |-> IF Active(r) THEN [run[r] EXCEPT !.state = "failed"] ELSE run[r]]
    BY <1>5 DEF ListFails, TickRefused, TickFails, MarkReauth, StorageLow, TickError
  <2>4. \A r \in Runs : run'[r] = run[r] \/ ~Shown(r)'
    <3>1. "failed" \in RunStates
      BY DEF RunStates
    <3>2. QED
      BY <1>t, <2>3, <3>1, EndRunsFacts DEF Shown, Active
  <2>5. QED
    BY <1>k, <2>1, <2>2, <2>4, CountsFrame
<1>6. CASE RemoveSource \/ Disconnect
  <2>1. UNCHANGED worker
    BY <1>6 DEF RemoveSource, Disconnect
  <2>r. \A i \in Items : i[1] \in Runs
    BY DEF Items
  <2>2. CASE Cascaded
    <3>1. \A r \in Runs : ~Shown(r)'
      BY <1>t, <2>2, CascadeFacts DEF Shown, Active
    <3>2. QED
      BY <2>1, <2>r, <3>1, CountsFrame
  <2>3. CASE ~Cascaded
    <3>1. /\ run' = [r \in Runs |->
                       IF Active(r) THEN [run[r] EXCEPT !.state = "cancelled"] ELSE run[r]]
          /\ item' = [i \in Items |-> IF item[i].state = "pending" THEN NoItem ELSE item[i]]
      BY <1>6, <2>3 DEF RemoveSource, Disconnect
    <3>2. \A r \in Runs : /\ run'[r] = run[r] \/ ~Shown(r)'
                          /\ Shown(r)' => run[r].state = "completed"
      <4>1. "cancelled" \in RunStates
        BY DEF RunStates
      <4>2. QED
        BY <1>t, <3>1, <4>1, EndRunsFacts DEF Shown, Active
    <3>3. ASSUME NEW i \in Items
          PROVE  SameKind(i) \/ ~Shown(i[1])'
      <4>1. item[i].state = "pending" \/ item'[i] = item[i]
        BY <3>1
      <4>2. run[i[1]].state = "completed" => item[i].state # "pending"
        BY DEF StartedInv, Open
      <4>3. QED
        BY <2>r, <3>2, <4>1, <4>2 DEF SameKind, Same
    <3>4. QED
      BY <2>1, <3>2, <3>3, CountsFrame
  <2>4. QED
    BY <2>2, <2>3
<1>7. CASE \/ RecoverDownloads \/ ClaimItem \/ CreateStaging \/ CommitStaged \/ RateLimited
  <2>1. UNCHANGED run
    BY <1>7 DEF RecoverDownloads, ClaimItem, CreateStaging, CommitStaged, RateLimited
  <2>2. worker'.pc # "count"
    BY <1>7, Control DEF From
  <2>3. ASSUME NEW i \in Items, NEW a \in {"pending", "downloading", "committing"},
               NEW b \in {"pending", "downloading", "committing"}, Turns(i, a, b)
        PROVE  \A j \in Items : SameKind(j)
    BY <2>3 DEF Turns, SameKind
  <2>4. CASE RecoverDownloads
    <3>1. \A i \in Items : SameKind(i)
      BY <2>4, ItemSteps DEF SameKind, Same
    <3>2. QED
      BY <1>0, <2>1, <2>2, <3>1
  <2>5. CASE ClaimItem
    <3>1. \E i \in Items : Turns(i, "pending", "downloading")
      BY <2>5, ItemSteps
    <3>2. QED
      BY <1>0, <2>1, <2>2, <2>3, <3>1
  <2>6. CASE CreateStaging
    <3>1. \A i \in Items : SameKind(i)
      BY <2>6, ItemSteps DEF SameKind
    <3>2. QED
      BY <1>0, <2>1, <2>2, <3>1
  <2>7. CASE CommitStaged \/ RateLimited
    <3>1. PICK i \in Items : i = worker.item
      BY <1>t, <2>7 DEF CommitStaged, RateLimited, HasItem
    <3>2. \/ \A j \in Items : Same(j)
          \/ Turns(i, "downloading", "committing") \/ Turns(i, "downloading", "pending")
      BY <2>7, <3>1, ItemSteps DEF Same
    <3>3. \A j \in Items : SameKind(j)
      BY <2>3, <3>2 DEF SameKind
    <3>4. QED
      BY <1>0, <2>1, <2>2, <3>3
  <2>8. QED
    BY <1>7, <2>4, <2>5, <2>6, <2>7
<1>8. CASE \/ ResumeCommit \/ ResumeNothing \/ Unauthorized \/ DownloadBody \/ Promote \/ Rename
           \/ ListPage \/ NothingToList \/ RememberFolder \/ PageDone
           \/ Deferred \/ DownloadFails \/ Crash \/ ListRefused
  <2>1. UNCHANGED <<run, item>>
    BY <1>8 DEF ResumeCommit, ResumeNothing, Unauthorized, DownloadBody, Promote, Rename,
       ListPage,
          NothingToList, RememberFolder, PageDone, Deferred, DownloadFails, Crash, ListRefused
  <2>2. worker'.pc # "count"
    BY <1>8, Control DEF From
  <2>3. QED
    BY <1>0, <1>k, <2>1, <2>2
<1>9. CASE \/ Connect \/ SetPause \/ \E g \in Files : RemoteEdit(g)
           \/ \E e \in Items : TrashEntry(e) \/ RestoreEntry(e) \/ PurgeEntry(e)
           \/ \E d \in Items : MarkDeleting(d) \/ UnlinkObject(d) \/ SweepFails(d)
  <2>1. UNCHANGED <<run, item, worker>>
    BY <1>9 DEF Connect, SetPause, RemoteEdit, TrashEntry, RestoreEntry, PurgeEntry,
       MarkDeleting,
          UnlinkObject, SweepFails
  <2>2. QED
    BY <1>0, <1>k, <2>1
<1>10. ASSUME NEW d \in Items, DeleteObject(d)
       PROVE  CountInv'
  <2>1. UNCHANGED <<run, worker>>
    BY <1>10 DEF DeleteObject
  <2>2. \A i \in Items : SameKind(i)
    BY <1>10, ItemSteps DEF SameKind
  <2>3. QED
    BY <1>0, <2>1, <2>2
<1>11. QED
  BY <1>1, <1>2, <1>3, <1>4, <1>5, <1>6, <1>7, <1>8, <1>9, <1>10
     DEF Next, WorkerStep, Fault, Request, Sweep

\* The runs, pages, items and counters together, as an invariant of the specification.
LEMMA RunsInvariant == Spec => [](TypesInv /\ PagesInv /\ StartedInv /\ CountInv)
<1>1. Init => PagesInv /\ StartedInv /\ CountInv
  BY DEF Init, PagesInv, PageInv, CompletedSawAll, StartedInv, CountInv, CountRun, Shown,
     Active, Open, NoRun, NoItem, Idle, HasItem
<1>2. QED
  BY <1>1, TypesInvariant, PagesStep, StartedStep, CountStep, PTL DEF Spec

\* Every insert of remember_file and every transaction of finish_ready moves an item and its
\* counter together, and fail_item's counter follows its item: what the screen shows of a run
\* is exact but for failures, which are never overstated.
THEOREM CountersMatchItems == Spec => []CountsMatch
<1>1. CountInv => CountsMatch
  BY DEF CountInv, CountRun, CountsMatch, Shown
<1>2. QED
  BY <1>1, RunsInvariant, PTL

-----------------------------------------------------------------------------
(* The item in hand *)

Committing(i) == item[i].state = "committing"

\* An item is late from its commit on, or when it was skipped or given up.
Late == {"committing", "stored", "skipped", "failed"}

\* Only commit_staged starts a commit; only the removal of the source takes an item back.
LEMMA ItemMoves ==
    ASSUME TypesInv, Next, NEW i \in Items
    PROVE  /\ Committing(i)' /\ ~Committing(i) =>
                 CommitStaged /\ i = worker.item /\ item[i].state = "downloading"
           /\ item[i].state \in Late => item'[i].state \in Late \/ Cascaded
<1>h. worker.pc \in HasItem => worker.item \in Items
  BY DEF TypesInv, WorkerTypes
<1>0. ASSUME Same(i)
      PROVE  /\ ~(Committing(i)' /\ ~Committing(i))
             /\ item[i].state \in Late => item'[i].state \in Late
  BY <1>0 DEF Committing, Same
<1>1. ASSUME NEW j \in Items, NEW a \in ItemStates, NEW b \in ItemStates \ {"committing"},
             Turns(j, a, b), a \in Late => b \in Late
      PROVE  /\ ~(Committing(i)' /\ ~Committing(i))
             /\ item[i].state \in Late => item'[i].state \in Late
  BY <1>1 DEF Turns, Same, Committing
<1>2. CASE RecoverDownloads
  BY <1>2, ItemSteps DEF Committing, Late
<1>3. CASE AbandonCommit \/ ClaimItem
  <2>1. \E j \in Items : Turns(j, "committing", "failed") \/ Turns(j, "pending", "downloading")
    BY <1>3, ItemSteps
  <2>2. QED
    BY <1>1, <2>1 DEF ItemStates, Late
<1>4. CASE RateLimited \/ FailItem \/ FinishReady
  <2>1. worker.item \in Items
    BY <1>4, <1>h DEF RateLimited, FailItem, FinishReady, HasItem
  <2>2. PICK j \in Items : j = worker.item
    BY <2>1
  <2>3. \/ Same(i)
        \/ Turns(j, "downloading", "pending") \/ Turns(j, "pending", "failed")
        \/ Turns(j, "downloading", "failed") \/ Turns(j, "committing", "stored")
    BY <1>4, <2>2, ItemSteps DEF Same
  <2>4. QED
    BY <1>0, <1>1, <2>3 DEF ItemStates, Late
<1>5. CASE CommitStaged
  BY <1>0, <1>5, ItemSteps DEF Turns, Same, Committing, Late
<1>6. CASE RememberFile
  <2>1. PICK r \in Runs, g \in worker.left \cap Files :
             \/ item[<<r, g>>].state # "none" /\ UNCHANGED <<run, item>>
             \/ /\ item[<<r, g>>].state = "none"
                /\ item'[<<r, g>>].state \in {"skipped", "pending"}
                /\ \A k \in Items : k # <<r, g>> => Same(k)
    BY <1>6, NewItem
  <2>2. QED
    BY <1>0, <2>1 DEF Same, Committing, Late
<1>7. CASE RemoveSource \/ Disconnect
  <2>1. Cascaded \/ item' = [j \in Items |-> IF item[j].state = "pending" THEN NoItem ELSE item[j]]
    BY <1>7 DEF RemoveSource, Disconnect
  <2>2. Cascaded => ~Committing(i)'
    BY CascadeFacts, TypeParts DEF OtherTypes, RunTypes, Committing
  <2>3. QED
    BY <1>0, <2>1, <2>2, NoItemType DEF Same, Committing, Late
<1>8. CASE CreateStaging \/ \E d \in Items : DeleteObject(d)
  BY <1>0, <1>8, ItemSteps
<1>9. CASE \/ ResumeCommit \/ ResumeNothing \/ ScheduleCheck \/ ScheduleInsert
           \/ NotScheduled \/ Unauthorized
           \/ DownloadBody \/ CountFailure \/ Promote \/ Rename \/ ListPage \/ NothingToList
           \/ RememberFolder \/ PageDone \/ ListFails \/ TickRefused \/ FinishRuns
  <2>1. UNCHANGED item
    BY <1>9 DEF ResumeCommit, ResumeNothing, ScheduleCheck, ScheduleInsert, NotScheduled,
       Unauthorized, DownloadBody,
          CountFailure, Promote, Rename, ListPage, NothingToList, RememberFolder, PageDone,
          ListFails, TickRefused, FinishRuns
  <2>2. QED
    BY <1>0, <2>1 DEF Same
<1>10. CASE \/ Deferred \/ DownloadFails \/ StorageLow \/ TickFails \/ Crash \/ MarkReauth
            \/ ListRefused \/ Connect \/ SetPause \/ SelectSource \/ SyncCheck \/ SyncInsert
            \/ \E e \in Items : TrashEntry(e) \/ RestoreEntry(e) \/ PurgeEntry(e)
            \/ \E d \in Items : MarkDeleting(d) \/ UnlinkObject(d) \/ SweepFails(d)
            \/ \E g \in Files : RemoteEdit(g)
  <2>1. UNCHANGED item
    BY <1>10 DEF Deferred, DownloadFails, StorageLow, TickFails, Crash, MarkReauth, ListRefused,
          Connect, SetPause, SelectSource, SyncCheck, SyncInsert, TrashEntry,
          RestoreEntry, PurgeEntry, MarkDeleting, UnlinkObject, SweepFails, RemoteEdit
  <2>2. QED
    BY <1>0, <2>1 DEF Same
<1>11. QED
  BY <1>2, <1>3, <1>4, <1>5, <1>6, <1>7, <1>8, <1>9, <1>10
     DEF Next, WorkerStep, Fault, Request, Sweep

\* The steps that change the rows of the drive or the links.
LEMMA DriveSteps ==
    ASSUME Next
    PROVE  \/ CommitStaged \/ FinishReady \/ DownloadBody
           \/ \E e \in Items : TrashEntry(e) \/ RestoreEntry(e) \/ PurgeEntry(e)
           \/ Sweep
           \/ UNCHANGED <<object, entry, home, current, data, link>>
<1>1. CASE WorkerStep /\ ~CommitStaged /\ ~FinishReady /\ ~DownloadBody
  BY <1>1 DEF WorkerStep, RecoverDownloads, AbandonCommit, ResumeCommit, ResumeNothing,
     ScheduleCheck, ScheduleInsert, NotScheduled, ClaimItem, Deferred, Unauthorized,
     CreateStaging, FailItem,
     CountFailure, Promote, Rename, ListPage, NothingToList, RememberFile,
     RememberFolder, PageDone, ListFails, TickRefused, FinishRuns, drive
<1>2. CASE Fault \/ \E g \in Files : RemoteEdit(g)
  BY <1>2 DEF Fault, RateLimited, DownloadFails, StorageLow, TickFails, Crash,
     MarkReauth, ListRefused, RemoteEdit, drive
<1>3. CASE Connect \/ SetPause \/ SelectSource \/ SyncCheck \/ SyncInsert \/ RemoveSource
           \/ Disconnect
  BY <1>3 DEF Connect, SetPause, SelectSource, SyncCheck, SyncInsert, RemoveSource,
     Disconnect, drive
<1>4. QED
  BY <1>1, <1>2, <1>3 DEF Next, Request

\* A sweep takes objects that are no version of a file, and nothing else.
LEMMA SweepRows ==
    ASSUME TypesInv, Sweep
    PROVE  /\ \A x \in Items : Same(x) /\ (object'[x] = "ready" => object[x] = "ready")
           /\ UNCHANGED <<remote, run, pages, entry, home, current, data, link, worker>>
<1>1. PICK i \in Items : MarkDeleting(i) \/ UnlinkObject(i) \/ DeleteObject(i) \/ SweepFails(i)
  BY DEF Sweep
<1>2. object \in [Items -> {"none", "pending", "ready", "deleting"}]
  BY DEF TypesInv, TypeOK
<1>3. CASE MarkDeleting(i)
  BY <1>2, <1>3 DEF MarkDeleting, Same
<1>4. CASE UnlinkObject(i) \/ SweepFails(i)
  BY <1>4 DEF UnlinkObject, SweepFails, Same
<1>5. CASE DeleteObject(i)
  <2>1. \A x \in Items : Same(x)
    BY <1>5, ItemSteps
  <2>2. QED
    BY <1>2, <1>5, <2>1 DEF DeleteObject
<1>6. QED
  BY <1>1, <1>3, <1>4, <1>5

\* Only commit_staged gives an object a home.
LEMMA HomeBirth ==
    ASSUME TypesInv, Next, NEW i \in Items, home'[i] # NULL
    PROVE  home'[i] = home[i] \/ (CommitStaged /\ i = worker.item)
<1>1. CASE CommitStaged
  <2>1. PICK j \in Items : j = worker.item
    BY <1>1 DEF CommitStaged, TypesInv, WorkerTypes, HasItem
  <2>2. home' = [home EXCEPT ![j] = TargetEntry(j)] /\ home \in [Items -> Items \cup {NULL}]
    BY <1>1, <2>1 DEF CommitStaged, TypesInv, TypeOK
  <2>3. QED
    BY <1>1, <2>1, <2>2
<1>2. CASE \E e \in Items : PurgeEntry(e)
  BY <1>2 DEF PurgeEntry
<1>3. CASE UNCHANGED home
  BY <1>3
<1>4. FinishReady \/ DownloadBody \/ (\E e \in Items : TrashEntry(e) \/ RestoreEntry(e))
        => UNCHANGED home
  BY DEF FinishReady, DownloadBody, TrashEntry, RestoreEntry
<1>5. Sweep => UNCHANGED home
  BY SweepRows
<1>6. QED
  BY <1>1, <1>2, <1>3, <1>4, <1>5, DriveSteps

\* While a commit is open the worker is on it, or on its way to it.
LEMMA CommitTurns ==
    ASSUME TypesInv, Next
    PROVE  /\ worker.pc \in {"tick", "resume"} =>
                 \/ worker'.pc \in {"tick", "resume"} \/ ResumeCommit \/ ResumeNothing
           /\ worker.pc \in {"promote", "rename", "ready"} =>
                 \/ worker'.pc = "tick"
                 \/ worker'.pc \in {"promote", "rename", "ready"} /\ worker'.item = worker.item
<1>1. CASE WorkerStep
  <2>1. CASE \/ RecoverDownloads \/ AbandonCommit \/ ResumeCommit \/ ResumeNothing
             \/ ScheduleCheck \/ ScheduleInsert \/ NotScheduled \/ ClaimItem \/ Deferred
             \/ Unauthorized \/ CreateStaging
    BY <2>1, Control DEF From
  <2>2. CASE \/ DownloadBody \/ FailItem \/ CountFailure \/ CommitStaged \/ Promote \/ Rename
             \/ FinishReady \/ ListPage \/ NothingToList
    BY <2>2, Control DEF From
  <2>3. CASE RememberFile \/ RememberFolder \/ PageDone \/ ListFails \/ TickRefused
             \/ FinishRuns
    BY <2>3, Control DEF From
  <2>4. QED
    BY <1>1, <2>1, <2>2, <2>3 DEF WorkerStep
<1>2. CASE Fault
  BY <1>2, Control DEF Fault, From
<1>3. CASE Request \/ Sweep \/ \E g \in Files : RemoteEdit(g)
  <2>1. UNCHANGED worker
    BY <1>3 DEF Request, Connect, SetPause, SelectSource, SyncCheck, SyncInsert,
       RemoveSource, Disconnect,
       TrashEntry, RestoreEntry, PurgeEntry, Sweep, MarkDeleting, UnlinkObject,
          DeleteObject, SweepFails, RemoteEdit
  <2>2. QED
    BY <2>1
<1>4. QED
  BY <1>1, <1>2, <1>3 DEF Next

\* The state of the item in hand.
Expected(pc) ==
    CASE pc \in {"promote", "rename", "ready"} -> "committing"
      [] pc = "count" -> "failed"
      [] OTHER -> "downloading"

\* The source was removed while the worker had the item in hand: it goes on with an item
\* that is gone, and no entry is left of a run that is not.
Orphaned ==
    /\ item[worker.item].state = "none" /\ run[worker.item[1]].state = "deleted"
    /\ \A e \in Items : entry[e] # "none" => run[e[1]].state = "deleted"

\* At most one item is committing, and the worker is on it or looks for it first.
CommitInv ==
    /\ \A i \in Items : Committing(i) =>
          \/ worker.pc \in {"tick", "resume"}
          \/ worker.pc \in {"promote", "rename", "ready"} /\ worker.item = i
    /\ \A i, j \in Items : Committing(i) /\ Committing(j) => i = j

HandInv == worker.pc \in HasItem => item[worker.item].state = Expected(worker.pc) \/ Orphaned

\* What has not been committed has no version yet.
HomeInv ==
    /\ \A i \in Items :
          item[i].state \notin Late /\ run[i[1]].state # "deleted" => home[i] = NULL
    /\ worker.pc \in {"download", "body", "commit"} => home[worker.item] = NULL

ControlInv == CommitInv /\ HandInv /\ HomeInv

\* One commit at a time: recovery comes before everything else.
LEMMA CommitStep ==
    ASSUME TypesInv, ControlInv, Next
    PROVE  CommitInv'
<1>1. ASSUME NEW i \in Items, Committing(i)', ~Committing(i)
      PROVE  CommitStaged /\ i = worker.item /\ worker.pc = "commit"
             /\ worker'.pc = "promote" /\ worker'.item = i
  <2>1. CommitStaged /\ i = worker.item
    BY <1>1, ItemMoves
  <2>2. QED
    BY <2>1, Control DEF From
<1>2. ASSUME NEW i \in Items, Committing(i)', Committing(i)
      PROVE  \/ worker'.pc \in {"tick", "resume"}
             \/ worker'.pc \in {"promote", "rename", "ready"} /\ worker'.item = i
  <2>1. CASE worker.pc \in {"tick", "resume"}
    <3>1. ~ResumeNothing
      BY <1>2 DEF ResumeNothing, Resumable, Committing
    <3>2. CASE ResumeCommit
      <4>1. PICK j \in Items : Resumable(j) /\ worker' = [At("rename") EXCEPT !.item = j]
        BY <3>2 DEF ResumeCommit
      <4>2. worker'.pc = "rename" /\ worker'.item = j
        BY <4>1, Moves
      <4>3. j = i
        BY <1>2, <4>1 DEF Resumable, Committing, ControlInv, CommitInv
      <4>4. QED
        BY <4>2, <4>3
    <3>3. QED
      BY <2>1, <3>1, <3>2, CommitTurns
  <2>2. CASE worker.pc \in {"promote", "rename", "ready"} /\ worker.item = i
    BY <2>2, CommitTurns
  <2>3. QED
    BY <1>2, <2>1, <2>2 DEF ControlInv, CommitInv
<1>3. ASSUME NEW i \in Items, NEW j \in Items, Committing(i)', Committing(j)', ~Committing(i)
      PROVE  i = j
  <2>1. worker.pc = "commit" /\ i = worker.item
    BY <1>1, <1>3
  <2>2. ~Committing(j)
    BY <2>1 DEF ControlInv, CommitInv
  <2>3. j = worker.item
    BY <1>1, <1>3, <2>2
  <2>4. QED
    BY <2>1, <2>3
<1>4. ASSUME NEW i \in Items, NEW j \in Items, Committing(i)', Committing(j)'
      PROVE  i = j
  BY <1>3, <1>4 DEF ControlInv, CommitInv
<1>5. ASSUME NEW i \in Items, Committing(i)'
      PROVE  \/ worker'.pc \in {"tick", "resume"}
             \/ worker'.pc \in {"promote", "rename", "ready"} /\ worker'.item = i
  BY <1>1, <1>2, <1>5
<1>6. QED
  BY <1>4, <1>5 DEF CommitInv

\* An item that is gone stays gone under the worker.
LEMMA OrphanStep ==
    ASSUME TypesInv, Next, worker.pc \in HasItem, Orphaned, worker'.item = worker.item
    PROVE  Orphaned'
<1>1. worker.item \in Items
  BY DEF TypesInv, WorkerTypes
<1>2. \A i \in Items : i[1] \in Runs
  BY DEF Items
<1>3. \A r \in Runs : run[r].state = "deleted" => run'[r].state = "deleted"
  BY RunsKept, CascadeFacts, TypeParts DEF KeptRuns, OtherTypes, RunTypes
<1>4. item'[worker.item].state = "none"
  <2>1. PICK i \in Items : i = worker.item
    BY <1>1
  <2>2. item[i].state = "none" /\ run[i[1]].state = "deleted"
    BY <2>1 DEF Orphaned
  <2>3. item'[i].state = "none"
    BY <2>2, ItemBirth
  <2>4. QED
    BY <2>1, <2>3
<1>5. ASSUME NEW e \in Items, entry'[e] # "none"
      PROVE  run'[e[1]].state = "deleted"
  <2>1. run[e[1]].state = "deleted"
    BY <1>5, EntryBirth DEF Orphaned
  <2>2. QED
    BY <1>2, <1>3, <2>1
<1>6. run'[worker.item[1]].state = "deleted"
  BY <1>1, <1>2, <1>3 DEF Orphaned
<1>7. QED
  BY <1>4, <1>5, <1>6 DEF Orphaned

\* A removed source leaves the worker with an orphan.
LEMMA OrphanBirth ==
    ASSUME TypesInv, StartedInv, worker.pc \in HasItem, Cascaded, UNCHANGED <<drive, worker>>
    PROVE  Orphaned'
<1>1. worker.item \in Items /\ \A i \in Items : i[1] \in Runs
  BY DEF TypesInv, WorkerTypes, Items
<1>2. /\ \A r \in Runs : run[r].state # "none" => run'[r].state = "deleted"
      /\ \A i \in Items : item'[i].state = "none"
  BY CascadeFacts, TypeParts DEF OtherTypes, RunTypes
<1>3. UNCHANGED <<entry, worker>>
  BY DEF drive
<1>4. \A e \in Items : entry'[e] # "none" => run'[e[1]].state = "deleted"
  BY <1>1, <1>2, <1>3 DEF StartedInv
<1>5. item'[worker'.item].state = "none" /\ run'[worker'.item[1]].state = "deleted"
  BY <1>1, <1>2, <1>3 DEF StartedInv
<1>6. QED
  BY <1>4, <1>5 DEF Orphaned

\* The cases of Expected.
LEMMA ExpectedFacts ==
    /\ \A pc \in {"download", "body", "commit", "fail"} : Expected(pc) = "downloading"
    /\ \A pc \in {"promote", "rename", "ready"} : Expected(pc) = "committing"
    /\ Expected("count") = "failed"
BY DEF Expected

\* The item in hand is where the worker takes it, unless it is gone.
LEMMA HandStep ==
    ASSUME TypesInv, StartedInv, ControlInv, Next
    PROVE  HandInv'
<1> SUFFICES ASSUME worker'.pc \in HasItem
             PROVE  item'[worker'.item].state = Expected(worker'.pc) \/ Orphaned'
  BY DEF HandInv, Expected
<1>h. worker.pc \in HasItem => worker.item \in Items
  BY DEF TypesInv, WorkerTypes
<1>1. CASE ClaimItem
  <2>1. PICK i \in Items : Turns(i, "pending", "downloading") /\ worker'.item = i
    BY <1>1, ItemSteps
  <2>2. worker'.pc = "download"
    BY <1>1, Control
  <2>3. QED
    BY <2>1, <2>2, ExpectedFacts DEF Turns
<1>2. CASE ResumeCommit
  <2>1. PICK i \in Items : item[i].state = "committing" /\ worker' = [At("rename") EXCEPT !.item = i]
    BY <1>2 DEF ResumeCommit, Resumable
  <2>2. worker'.item = i /\ worker'.pc = "rename"
    BY <2>1, Moves
  <2>u. UNCHANGED item
    BY <1>2 DEF ResumeCommit
  <2>3. QED
    BY <2>1, <2>2, <2>u, ExpectedFacts
<1> SUFFICES ASSUME worker.pc \in HasItem, worker'.item = worker.item
             PROVE  item'[worker'.item].state = Expected(worker'.pc) \/ Orphaned'
  BY <1>1, <1>2, ItemInHand
<1>3. CASE Orphaned
  BY <1>3, OrphanStep
<1> SUFFICES ASSUME item[worker.item].state = Expected(worker.pc)
             PROVE  item'[worker'.item].state = Expected(worker'.pc) \/ Orphaned'
  BY <1>3 DEF ControlInv, HandInv
<1>i. PICK i \in Items : i = worker.item
  BY <1>h
<1>4. CASE \/ Unauthorized \/ CreateStaging \/ DownloadBody \/ DownloadFails \/ StorageLow
  <2>1. Same(i)
    BY <1>4, ItemSteps DEF Same, Unauthorized, DownloadBody, DownloadFails, StorageLow
  <2>2. /\ worker.pc \in {"download", "body", "commit", "fail"}
        /\ worker'.pc \in {"download", "body", "commit", "fail"}
    BY <1>4, Control DEF From
  <2>3. QED
    BY <1>i, <2>1, <2>2, ExpectedFacts DEF Same
<1>5. CASE FailItem
  <2>1. Turns(i, "pending", "failed") \/ Turns(i, "downloading", "failed")
    BY <1>5, <1>i, ItemSteps DEF HasItem
  <2>2. worker'.pc = "count"
    BY <1>5, Control DEF From, HasItem
  <2>3. QED
    BY <1>i, <2>1, <2>2, ExpectedFacts DEF Turns
<1>6. CASE CommitStaged
  <2>1. worker.pc = "commit" /\ worker'.pc = "promote"
    BY <1>6, Control DEF From
  <2>2. Turns(i, "downloading", "committing")
    BY <1>6, <1>i, <2>1, ItemSteps, ExpectedFacts
  <2>3. QED
    BY <1>i, <2>1, <2>2, ExpectedFacts DEF Turns
<1>7. CASE Promote \/ Rename
  <2>1. /\ worker.pc \in {"promote", "rename"}
        /\ worker'.pc \in {"rename", "ready"}
    BY <1>7, Control DEF From, HasItem
  <2>2. UNCHANGED item
    BY <1>7 DEF Promote, Rename
  <2>3. QED
    BY <1>i, <2>1, <2>2, ExpectedFacts
<1>8. CASE MarkReauth
  <2>1. UNCHANGED item
    BY <1>8 DEF MarkReauth
  <2>2. \/ worker.pc = "download" /\ worker'.pc = "fail"
        \/ worker'.pc = worker.pc
    BY <1>8, Control DEF From, HasItem
  <2>3. QED
    BY <1>i, <2>1, <2>2, ExpectedFacts
<1>9. CASE RemoveSource \/ Disconnect
  <2>1. UNCHANGED <<drive, worker>>
    BY <1>9 DEF RemoveSource, Disconnect
  <2>2. CASE Cascaded
    BY <2>1, <2>2, OrphanBirth
  <2>3. CASE ~Cascaded
    <3>1. item' = [j \in Items |-> IF item[j].state = "pending" THEN NoItem ELSE item[j]]
      BY <1>9, <2>3 DEF RemoveSource, Disconnect
    <3>2. Expected(worker.pc) # "pending"
      BY ExpectedFacts DEF HasItem
    <3>3. QED
      BY <1>i, <2>1, <3>1, <3>2
  <2>4. QED
    BY <2>2, <2>3
<1>10. CASE Sweep
  <2>1. Same(i) /\ UNCHANGED worker
    BY <1>10, SweepRows
  <2>2. QED
    BY <1>i, <2>1 DEF Same
<1>11. CASE \/ Connect \/ SetPause \/ SelectSource \/ SyncCheck \/ SyncInsert
            \/ \E e \in Items : TrashEntry(e) \/ RestoreEntry(e) \/ PurgeEntry(e)
            \/ \E g \in Files : RemoteEdit(g)
  <2>1. UNCHANGED <<item, worker>>
    BY <1>11 DEF Connect, SetPause, SelectSource, SyncCheck, SyncInsert, TrashEntry,
       RestoreEntry, PurgeEntry, RemoteEdit
  <2>2. QED
    BY <2>1
<1>12. CASE \/ RecoverDownloads \/ AbandonCommit \/ ResumeNothing \/ ScheduleCheck
            \/ ScheduleInsert \/ NotScheduled
            \/ CountFailure \/ FinishReady \/ ListPage \/ NothingToList
            \/ RememberFile \/ RememberFolder \/ PageDone \/ ListFails \/ TickRefused
            \/ FinishRuns
            \/ Deferred \/ RateLimited \/ TickFails \/ Crash \/ ListRefused
  <2>1. worker'.pc \notin HasItem
    BY <1>12, Control DEF From, HasItem
  <2>2. QED
    BY <2>1
<1>13. QED
  BY <1>1, <1>2, <1>4, <1>5, <1>6, <1>7, <1>8, <1>9, <1>10, <1>11, <1>12
     DEF Next, WorkerStep, Fault, Request

\* Versions come with commits.
LEMMA HomeStep ==
    ASSUME TypesInv, StartedInv, ControlInv, Next
    PROVE  HomeInv'
<1>r. \A i \in Items : i[1] \in Runs
  BY DEF Items
<1>1. ASSUME NEW i \in Items, item'[i].state \notin Late, run'[i[1]].state # "deleted",
             home'[i] # NULL
      PROVE  FALSE
  <2>1. CASE home'[i] # home[i]
    <3>1. CommitStaged /\ i = worker.item
      BY <1>1, <2>1, HomeBirth
    <3>2. worker.pc = "commit"
      BY <3>1, Control DEF From
    <3>3. CASE Orphaned
      <4>1. worker'.item = worker.item
        BY <3>1, Control DEF From
      <4>2. Orphaned'
        BY <3>2, <3>3, <4>1, OrphanStep DEF HasItem
      <4>3. QED
        BY <1>1, <3>1, <4>1, <4>2 DEF Orphaned
    <3>4. CASE item[i].state = "downloading"
      <4>1. Turns(i, "downloading", "committing")
        BY <3>1, <3>4, ItemSteps
      <4>2. QED
        BY <1>1, <4>1 DEF Turns, Late
    <3>5. QED
      BY <3>1, <3>2, <3>3, <3>4, ExpectedFacts DEF ControlInv, HandInv, HasItem
  <2>2. CASE home'[i] = home[i]
    <3>1. CASE Cascaded
      <4>1. run[i[1]].state = "none"
        BY <1>1, <1>r, <3>1, CascadeFacts, TypeParts DEF OtherTypes, RunTypes
      <4>2. item[i].state = "none"
        BY <4>1 DEF StartedInv
      <4>3. QED
        BY <1>1, <2>2, <4>1, <4>2 DEF ControlInv, HomeInv, Late
    <3>2. CASE ~Cascaded
      <4>1. run[i[1]].state # "deleted"
        BY <1>1, <1>r, <3>2, RunsKept DEF KeptRuns
      <4>2. item[i].state \notin Late
        BY <1>1, <3>2, ItemMoves
      <4>3. QED
        BY <1>1, <2>2, <4>1, <4>2 DEF ControlInv, HomeInv
    <3>3. QED
      BY <3>1, <3>2
  <2>3. QED
    BY <2>1, <2>2
<1>2. ASSUME worker'.pc \in {"download", "body", "commit"}
      PROVE  home'[worker'.item] = NULL
  <2>h. worker'.item \in Items
    BY <1>2, WorkerTypeSteps DEF WorkerTypes, HasItem
  <2>1. ~CommitStaged
    BY <1>2, Control DEF From
  <2>2. \A i \in Items : home'[i] # NULL => home'[i] = home[i]
    BY <2>1, HomeBirth
  <2>3. CASE ClaimItem
    <3>1. PICK i \in Items : Turns(i, "pending", "downloading") /\ worker'.item = i /\ Active(i[1])
      BY <2>3, ItemSteps
    <3>2. home[i] = NULL
      BY <3>1 DEF ControlInv, HomeInv, Late, Active, Turns
    <3>3. QED
      BY <2>2, <3>1, <3>2
  <2>4. CASE ~ClaimItem
    <3>1. worker'.item = worker.item
      BY <1>2, <2>4, ItemInHand DEF HasItem
    <3>2. worker.pc \in {"download", "body", "commit"}
      <4>1. CASE WorkerStep
        <5>1. CASE \/ RecoverDownloads \/ AbandonCommit \/ ResumeCommit \/ ResumeNothing
                   \/ ScheduleCheck \/ ScheduleInsert \/ NotScheduled \/ Deferred
                   \/ Unauthorized \/ CreateStaging \/ DownloadBody
          BY <1>2, <5>1, Control DEF From
        <5>2. CASE \/ FailItem \/ CountFailure \/ CommitStaged \/ Promote \/ Rename
                   \/ FinishReady \/ ListPage \/ NothingToList
          BY <1>2, <5>2, Control DEF From
        <5>3. CASE RememberFile \/ RememberFolder \/ PageDone \/ ListFails \/ TickRefused
                   \/ FinishRuns
          BY <1>2, <5>3, Control DEF From
        <5>4. QED
          BY <2>4, <4>1, <5>1, <5>2, <5>3 DEF WorkerStep
      <4>2. CASE Fault
        BY <1>2, <4>2, Control DEF Fault, From
      <4>3. CASE Request \/ Sweep \/ \E g \in Files : RemoteEdit(g)
        <5>1. UNCHANGED worker
          BY <4>3 DEF Request, Connect, SetPause, SelectSource, SyncCheck, SyncInsert,
             RemoveSource,
             Disconnect, TrashEntry, RestoreEntry, PurgeEntry, Sweep, MarkDeleting,
             UnlinkObject,
          DeleteObject, SweepFails, RemoteEdit
        <5>2. QED
          BY <1>2, <5>1
      <4>4. QED
        BY <4>1, <4>2, <4>3 DEF Next
    <3>3. home[worker.item] = NULL
      BY <3>2 DEF ControlInv, HomeInv
    <3>4. QED
      BY <2>2, <2>h, <3>1, <3>3
  <2>5. QED
    BY <2>3, <2>4
<1>3. QED
  BY <1>1, <1>2 DEF HomeInv

\* The control of the import is an invariant, with the runs.
LEMMA ControlStep ==
    TypesInv /\ StartedInv /\ ControlInv /\ [Next]_vars => ControlInv'
<1> SUFFICES ASSUME TypesInv, StartedInv, ControlInv, [Next]_vars
             PROVE  ControlInv'
  OBVIOUS
<1>1. CASE UNCHANGED vars
  BY <1>1 DEF ControlInv, CommitInv, HandInv, HomeInv, Committing, Expected, Orphaned, vars
<1>2. CASE Next
  BY <1>2, CommitStep, HandStep, HomeStep DEF ControlInv
<1>3. QED
  BY <1>1, <1>2

-----------------------------------------------------------------------------
(* Entries, versions and links *)

\* An entry has a current version, and each is the other's; a version is of its own file.
RowsInv ==
    /\ \A e \in Items : current[e] # NULL => home[current[e]] = e
    /\ \A e \in Items : entry[e] # "none" <=> current[e] # NULL
    /\ \A i \in Items : home[i] # NULL => home[i][2] = i[2] /\ entry[home[i]] # "none"

\* A link is to an entry of its file; what is committing is the current version.
LinkInv ==
    /\ \A g \in Files : link[g] # NULL => link[g].entry[2] = g /\ entry[link[g].entry] # "none"
    /\ \A i \in Items : Committing(i) /\ home[i] # NULL => current[home[i]] = i

\* The rows commit_staged writes, row by row.
LEMMA CommitRows ==
    ASSUME TypesInv, ControlInv, LinkInv, CommitStaged
    PROVE  \E i \in Items, e \in Items :
             /\ i = worker.item /\ worker.pc = "commit" /\ home[i] = NULL
             /\ e[2] = i[2] /\ e = TargetEntry(i)
             /\ \A j \in Items : ~Committing(j) /\ (Committing(j)' => j = i)
             /\ \A x \in Items :
                   /\ object'[x] = IF x = i THEN "pending" ELSE object[x]
                   /\ home'[x] = IF x = i THEN e ELSE home[x]
                   /\ current'[x] = IF x = e THEN i ELSE current[x]
                   /\ x # e => entry'[x] = entry[x]
             /\ entry'[e] \in {"live", "restored"}
             /\ UNCHANGED <<remote, run, data, link>>
<1>1. PICK i \in Items : i = worker.item
  BY DEF CommitStaged, TypesInv, WorkerTypes, HasItem
<1>2. PICK e \in Items : e = TargetEntry(i)
  BY TargetFacts
<1>3. worker.pc = "commit" /\ home[i] = NULL
  BY <1>1 DEF CommitStaged, ControlInv, HomeInv
<1>4. e[2] = i[2]
  <2>1. i[2] \in Files
    BY DEF Items
  <2>2. QED
    BY <1>2, <2>1, TargetFacts DEF LinkInv
<1>5. \A j \in Items : ~Committing(j)
  BY <1>3 DEF ControlInv, CommitInv
<1>6. \A j \in Items : Committing(j)' => j = i
  BY <1>1, <1>5, ItemSteps DEF Turns, Same, Committing
<1>7. /\ object' = [object EXCEPT ![i] = "pending"]
      /\ entry' = [entry EXCEPT ![e] = IF @ = "restored" THEN @ ELSE "live"]
      /\ home' = [home EXCEPT ![i] = e] /\ current' = [current EXCEPT ![e] = i]
      /\ UNCHANGED <<remote, run, data, link>>
  BY <1>1, <1>2 DEF CommitStaged
<1>8. DriveTypes
  BY TypeParts DEF OtherTypes, DriveTypes
<1>9. /\ \A x \in Items :
            /\ object'[x] = IF x = i THEN "pending" ELSE object[x]
            /\ home'[x] = IF x = i THEN e ELSE home[x]
            /\ current'[x] = IF x = e THEN i ELSE current[x]
            /\ x # e => entry'[x] = entry[x]
      /\ entry'[e] \in {"live", "restored"}
  BY <1>7, <1>8 DEF DriveTypes
<1>10. WITNESS i \in Items, e \in Items
<1>11. QED
  BY <1>1, <1>2, <1>3, <1>4, <1>5, <1>6, <1>7, <1>9

\* The rows a purge takes.
LEMMA PurgeRows ==
    ASSUME TypesInv, NEW e \in Items, PurgeEntry(e)
    PROVE  /\ entry[e] = "trash" /\ entry'[e] = "none" /\ current'[e] = NULL
           /\ \A x \in Items :
                 /\ x # e => entry'[x] = entry[x] /\ current'[x] = current[x]
                 /\ home[x] = e => home'[x] = NULL
                 /\ home[x] # e => home'[x] = home[x]
           /\ \A g \in Files : \/ link'[g] = link[g] /\ (link[g] # NULL => link[g].entry # e)
                               \/ link'[g] = NULL /\ (link[g] # NULL => link[g].entry = e)
           /\ UNCHANGED <<remote, run, item, object, data, worker>>
<1>1. DriveTypes
  BY TypeParts DEF OtherTypes, DriveTypes
<1>2. /\ entry[e] = "trash" /\ entry' = [entry EXCEPT ![e] = "none"]
      /\ home' = [i \in Items |-> IF home[i] = e THEN NULL ELSE home[i]]
      /\ current' = [current EXCEPT ![e] = NULL]
      /\ link' = [g \in Files |->
                    IF link[g] # NULL /\ link[g].entry = e THEN NULL ELSE link[g]]
      /\ UNCHANGED <<remote, run, item, object, data, worker>>
  BY DEF PurgeEntry
<1>3. QED
  BY <1>1, <1>2 DEF DriveTypes

\* What trashing and restoring change.
LEMMA TrashRows ==
    ASSUME TypesInv, NEW e \in Items, TrashEntry(e) \/ RestoreEntry(e)
    PROVE  /\ \A x \in Items : /\ entry'[x] = "none" <=> entry[x] = "none"
                               /\ entry'[x] = "live" => entry[x] = "live"
           /\ UNCHANGED <<remote, run, item, object, home, current, data, link, worker>>
<1>1. DriveTypes
  BY TypeParts DEF OtherTypes, DriveTypes
<1>2. CASE TrashEntry(e)
  BY <1>1, <1>2 DEF TrashEntry, DriveTypes, Live
<1>3. CASE RestoreEntry(e)
  BY <1>1, <1>3 DEF RestoreEntry, DriveTypes
<1>4. QED
  BY <1>2, <1>3

\* Every step keeps entries and versions together.
LEMMA RowsStep ==
    ASSUME TypesInv, ControlInv, RowsInv, LinkInv, Next
    PROVE  RowsInv'
<1>t. DriveTypes
  BY TypeParts DEF OtherTypes, DriveTypes
<1>n. NULL \notin Items
  BY ImportAssumption
<1>0. ASSUME UNCHANGED <<home, current>>, \A x \in Items : entry'[x] = "none" <=> entry[x] = "none"
      PROVE  RowsInv'
  BY <1>0, <1>t DEF RowsInv, DriveTypes
<1>1. CASE CommitStaged
  <2>1. PICK i \in Items, e \in Items :
             /\ home[i] = NULL /\ e[2] = i[2]
             /\ \A x \in Items :
                   /\ home'[x] = IF x = i THEN e ELSE home[x]
                   /\ current'[x] = IF x = e THEN i ELSE current[x]
                   /\ x # e => entry'[x] = entry[x]
             /\ entry'[e] \in {"live", "restored"}
    BY <1>1, CommitRows
  <2>2. ASSUME NEW x \in Items, current'[x] # NULL
        PROVE  home'[current'[x]] = x
    <3>1. CASE x = e
      BY <2>1, <3>1
    <3>2. CASE x # e
      <4>1. current'[x] = current[x] /\ current[x] \in Items /\ home[current[x]] = x
        BY <1>t, <2>1, <2>2, <3>2 DEF RowsInv, DriveTypes
      <4>2. current[x] # i
        BY <1>n, <2>1, <4>1
      <4>3. QED
        BY <2>1, <4>1, <4>2
    <3>3. QED
      BY <3>1, <3>2
  <2>3. \A x \in Items : entry'[x] # "none" <=> current'[x] # NULL
    BY <1>n, <2>1 DEF RowsInv
  <2>4. ASSUME NEW x \in Items, home'[x] # NULL
        PROVE  home'[x][2] = x[2] /\ entry'[home'[x]] # "none"
    <3>1. CASE x = i
      BY <2>1, <3>1
    <3>2. CASE x # i
      <4>1. home'[x] = home[x] /\ home[x] \in Items /\ home[x][2] = x[2] /\ entry[home[x]] # "none"
        BY <1>t, <2>1, <2>4, <3>2 DEF RowsInv, DriveTypes
      <4>2. QED
        BY <2>1, <4>1
    <3>3. QED
      BY <3>1, <3>2
  <2>5. QED
    BY <2>2, <2>3, <2>4 DEF RowsInv
<1>2. ASSUME NEW e \in Items, PurgeEntry(e)
      PROVE  RowsInv'
  <2>1. /\ entry'[e] = "none" /\ current'[e] = NULL
        /\ \A x \in Items :
              /\ x # e => entry'[x] = entry[x] /\ current'[x] = current[x]
              /\ home[x] = e => home'[x] = NULL
              /\ home[x] # e => home'[x] = home[x]
    BY <1>2, PurgeRows
  <2>2. ASSUME NEW x \in Items, current'[x] # NULL
        PROVE  home'[current'[x]] = x
    <3>1. x # e /\ current'[x] = current[x]
      BY <2>1, <2>2
    <3>2. current[x] \in Items /\ home[current[x]] = x
      BY <1>t, <2>2, <3>1 DEF RowsInv, DriveTypes
    <3>3. QED
      BY <2>1, <3>1, <3>2
  <2>3. \A x \in Items : entry'[x] # "none" <=> current'[x] # NULL
    BY <2>1 DEF RowsInv
  <2>4. ASSUME NEW x \in Items, home'[x] # NULL
        PROVE  home'[x][2] = x[2] /\ entry'[home'[x]] # "none"
    <3>1. home[x] # e /\ home'[x] = home[x]
      BY <2>1, <2>4
    <3>2. home[x] \in Items /\ home[x][2] = x[2] /\ entry[home[x]] # "none"
      BY <1>t, <2>4, <3>1 DEF RowsInv, DriveTypes
    <3>3. QED
      BY <2>1, <3>1, <3>2
  <2>5. QED
    BY <2>2, <2>3, <2>4 DEF RowsInv
<1>3. ASSUME NEW e \in Items, TrashEntry(e) \/ RestoreEntry(e)
      PROVE  RowsInv'
  BY <1>0, <1>3, TrashRows
<1>4. CASE \/ FinishReady \/ DownloadBody \/ Sweep
           \/ UNCHANGED <<object, entry, home, current, data, link>>
  <2>1. UNCHANGED <<entry, home, current>>
    BY <1>4, SweepRows DEF FinishReady, DownloadBody
  <2>2. QED
    BY <1>0, <2>1
<1>5. QED
  BY <1>1, <1>2, <1>3, <1>4, DriveSteps

\* The rows finish_ready writes: with the item it links the entry of its version.
LEMMA FinishRows ==
    ASSUME TypesInv, ControlInv, FinishReady
    PROVE  \E i \in Items :
             /\ i = worker.item /\ worker'.pc = "tick"
             /\ Committing(i) \/ (item[i].state = "none" /\ Orphaned)
             /\ \A j \in Items : (Committing(j) => j = i) /\ ~Committing(j)'
             /\ \A x \in Items : x # i => object'[x] = object[x]
             /\ IF Committing(i) /\ home[i] # NULL
                THEN /\ link'[i[2]] # NULL
                     /\ link'[i[2]].entry = home[i] /\ link'[i[2]].md5 = item[i].md5
                     /\ \A g \in Files : g # i[2] => link'[g] = link[g]
                ELSE link' = link
             /\ UNCHANGED <<remote, entry, home, current, data>>
             /\ \A j \in Items : /\ item'[j].md5 = item[j].md5
                                 /\ j # i \/ ~Committing(i) => item'[j].state = item[j].state
             /\ \A r \in Runs : run'[r].state = run[r].state
<1>1. PICK i \in Items : i = worker.item
  BY DEF FinishReady, TypesInv, WorkerTypes, HasItem
<1>2. worker.pc = "ready" /\ worker'.pc = "tick"
  BY Control
<1>3. Committing(i) \/ (item[i].state = "none" /\ Orphaned)
  BY <1>1, <1>2, ExpectedFacts DEF ControlInv, HandInv, HasItem, Committing, Orphaned
<1>4. \A j \in Items : Committing(j) => j = i
  BY <1>1, <1>2 DEF ControlInv, CommitInv
<1>5. \/ ~Committing(i) /\ UNCHANGED <<item, run>>
      \/ Turns(i, "committing", "stored") /\ run' = Counted(i[1], "downloaded")
  BY <1>1, ItemSteps DEF Committing
<1>6. \A j \in Items : ~Committing(j)'
  BY <1>4, <1>5 DEF Turns, Same, Committing
<1>7. \A j \in Items : /\ item'[j].md5 = item[j].md5
                       /\ j # i \/ ~Committing(i) => item'[j].state = item[j].state
  BY <1>5 DEF Turns, Same, Committing
<1>8. \A r \in Runs : run'[r].state = run[r].state
  <2>1. i[1] \in Runs
    BY DEF Items
  <2>2. QED
    BY <1>5, <2>1, CountedFacts, TypeParts DEF OtherTypes, RunTypes
<1>9. /\ \A x \in Items : x # i => object'[x] = object[x]
      /\ UNCHANGED <<remote, entry, home, current, data>>
  BY <1>1 DEF FinishReady, TypesInv, TypeOK
<1>10. IF Committing(i) /\ home[i] # NULL
       THEN /\ link'[i[2]] # NULL
            /\ link'[i[2]].entry = home[i] /\ link'[i[2]].md5 = item[i].md5
            /\ \A g \in Files : g # i[2] => link'[g] = link[g]
       ELSE link' = link
  <2>1. link' = IF item[i].state # "none" /\ home[i] # NULL
                THEN [link EXCEPT ![i[2]] = [entry |-> home[i], md5 |-> item[i].md5]]
                ELSE link
    BY <1>1 DEF FinishReady, LinkedMd5
  <2>2. i[2] \in Files /\ link \in [Files -> LinkType \cup {NULL}]
    BY TypeParts DEF Items, OtherTypes
  <2>3. CASE Committing(i) /\ home[i] # NULL
    <3>1. link' = [link EXCEPT ![i[2]] = [entry |-> home[i], md5 |-> item[i].md5]]
      BY <2>1, <2>3 DEF Committing
    <3>2. home[i] \in Items /\ item[i].md5 \in Contents \cup {NULL}
      BY <2>3 DEF TypesInv, TypeOK
    <3>3. [entry |-> home[i], md5 |-> item[i].md5] # NULL
      BY <3>2, ImportAssumption
    <3>4. QED
      BY <2>2, <2>3, <3>1, <3>3
  <2>4. CASE ~(Committing(i) /\ home[i] # NULL)
    BY <1>3, <2>1, <2>4
  <2>5. QED
    BY <2>3, <2>4
<1>11. WITNESS i \in Items
<1>12. QED
  BY <1>1, <1>2, <1>3, <1>4, <1>6, <1>7, <1>8, <1>9, <1>10

\* Every step keeps links to entries of their file, and commits current.
LEMMA LinkStep ==
    ASSUME TypesInv, ControlInv, RowsInv, LinkInv, Next
    PROVE  LinkInv'
<1>t. DriveTypes
  BY TypeParts DEF OtherTypes, DriveTypes
<1>l. \A g \in Files : link[g] # NULL => link[g].entry \in Items
  BY <1>t DEF DriveTypes, LinkType
<1>0. ASSUME UNCHANGED <<link, home, current>>, ~CommitStaged,
             \A x \in Items : entry'[x] = "none" <=> entry[x] = "none"
      PROVE  LinkInv'
  <2>1. \A i \in Items : Committing(i)' => Committing(i)
    BY <1>0, ItemMoves
  <2>2. QED
    BY <1>0, <1>l, <2>1 DEF LinkInv
<1>1. CASE CommitStaged
  <2>1. PICK i \in Items, e \in Items :
             /\ \A j \in Items : Committing(j)' => j = i
             /\ \A x \in Items :
                   /\ home'[x] = IF x = i THEN e ELSE home[x]
                   /\ current'[x] = IF x = e THEN i ELSE current[x]
                   /\ x # e => entry'[x] = entry[x]
             /\ entry'[e] \in {"live", "restored"}
             /\ UNCHANGED link
    BY <1>1, CommitRows
  <2>2. QED
    BY <1>l, <2>1 DEF LinkInv
<1>2. ASSUME NEW e \in Items, PurgeEntry(e)
      PROVE  LinkInv'
  <2>1. /\ \A x \in Items :
              /\ x # e => entry'[x] = entry[x] /\ current'[x] = current[x]
              /\ home[x] = e => home'[x] = NULL
              /\ home[x] # e => home'[x] = home[x]
        /\ \A g \in Files : \/ link'[g] = link[g] /\ (link[g] # NULL => link[g].entry # e)
                            \/ link'[g] = NULL
        /\ UNCHANGED item
    BY <1>2, PurgeRows
  <2>2. ASSUME NEW g \in Files, link'[g] # NULL
        PROVE  link'[g].entry[2] = g /\ entry'[link'[g].entry] # "none"
    <3>1. link'[g] = link[g] /\ link[g].entry # e /\ link[g].entry \in Items
      BY <1>l, <2>1, <2>2
    <3>2. QED
      BY <2>1, <2>2, <3>1 DEF LinkInv
  <2>3. ASSUME NEW i \in Items, Committing(i)', home'[i] # NULL
        PROVE  current'[home'[i]] = i
    <3>1. home'[i] = home[i] /\ home[i] # e /\ Committing(i)
      BY <2>1, <2>3 DEF Committing
    <3>2. home[i] \in Items
      BY <1>t, <2>3, <3>1 DEF DriveTypes
    <3>3. QED
      BY <2>1, <2>3, <3>1, <3>2 DEF LinkInv
  <2>4. QED
    BY <2>2, <2>3 DEF LinkInv
<1>3. ASSUME NEW e \in Items, TrashEntry(e) \/ RestoreEntry(e)
      PROVE  LinkInv'
  <2>1. /\ \A x \in Items : entry'[x] = "none" <=> entry[x] = "none"
        /\ UNCHANGED <<item, link, home, current>>
    BY <1>3, TrashRows
  <2>2. QED
    BY <1>l, <2>1 DEF LinkInv, Committing
<1>4. CASE FinishReady
  <2>1. PICK i \in Items :
             /\ \A j \in Items : ~Committing(j)'
             /\ IF Committing(i) /\ home[i] # NULL
                THEN /\ link'[i[2]] # NULL
                     /\ link'[i[2]].entry = home[i]
                     /\ \A g \in Files : g # i[2] => link'[g] = link[g]
                ELSE link' = link
             /\ UNCHANGED <<entry, home, current>>
    BY <1>4, FinishRows
  <2>2. home[i] # NULL => home[i][2] = i[2] /\ entry[home[i]] # "none"
    BY DEF RowsInv
  <2>3. QED
    BY <2>1, <2>2 DEF LinkInv
<1>5. CASE DownloadBody \/ Sweep \/ UNCHANGED <<object, entry, home, current, data, link>>
  <2>1. UNCHANGED <<link, home, current, entry>>
    BY <1>5, SweepRows DEF DownloadBody
  <2>2. QED
    BY <1>0, <1>1, <2>1
<1>6. QED
  BY <1>1, <1>2, <1>3, <1>4, <1>5, DriveSteps

-----------------------------------------------------------------------------
(* What is skipped is current *)

\* What a link says of the remote file is what the item of the version it shows was
\* listed with, once that item is stored.
MatchInv ==
    \A g \in Files : link[g] # NULL =>
        \A v \in Items : v = current[link[g].entry] /\ item[v].state = "stored" =>
            link[g].md5 = item[v].md5

\* Links are to entries.
LEMMA LinkTypes ==
    ASSUME TypesInv
    PROVE  \A g \in Files : link[g] # NULL => link[g].entry \in Items
BY TypeParts DEF OtherTypes, LinkType

\* Only finish_ready stores an item; what is stored keeps the md5 it was listed with.
LEMMA StoredKept ==
    ASSUME TypesInv, Next, NEW i \in Items, item'[i].state = "stored", ~FinishReady
    PROVE  item[i].state = "stored" /\ item'[i].md5 = item[i].md5
<1>h. worker.pc \in HasItem => worker.item \in Items
  BY DEF TypesInv, WorkerTypes
<1>0. ASSUME Same(i)
      PROVE  item[i].state = "stored" /\ item'[i].md5 = item[i].md5
  BY <1>0 DEF Same
<1>1. ASSUME NEW j \in Items, NEW a, NEW b \in ItemStates \ {"stored"}, Turns(j, a, b)
      PROVE  item[i].state = "stored" /\ item'[i].md5 = item[i].md5
  BY <1>1 DEF Turns, Same
<1>2. CASE RecoverDownloads
  BY <1>2, ItemSteps
<1>3. CASE AbandonCommit \/ ClaimItem
  <2>1. \E j \in Items : Turns(j, "committing", "failed") \/ Turns(j, "pending", "downloading")
    BY <1>3, ItemSteps
  <2>2. QED
    BY <1>1, <2>1 DEF ItemStates
<1>4. CASE RateLimited \/ FailItem \/ CommitStaged
  <2>1. worker.item \in Items
    BY <1>4, <1>h DEF RateLimited, FailItem, CommitStaged, HasItem
  <2>2. PICK j \in Items : j = worker.item
    BY <2>1
  <2>3. \/ Same(i)
        \/ Turns(j, "downloading", "pending") \/ Turns(j, "pending", "failed")
        \/ Turns(j, "downloading", "failed") \/ Turns(j, "downloading", "committing")
    BY <1>4, <2>2, ItemSteps DEF Same
  <2>4. QED
    BY <1>0, <1>1, <2>3 DEF ItemStates
<1>5. CASE RememberFile
  <2>1. PICK r \in Runs, g \in worker.left \cap Files :
             \/ item[<<r, g>>].state # "none" /\ UNCHANGED <<run, item>>
             \/ /\ item[<<r, g>>].state = "none"
                /\ item'[<<r, g>>].state \in {"skipped", "pending"}
                /\ \A k \in Items : k # <<r, g>> => Same(k)
    BY <1>5, NewItem
  <2>2. Same(i)
    BY <2>1 DEF Same
  <2>3. QED
    BY <1>0, <2>2
<1>6. CASE RemoveSource \/ Disconnect
  <2>1. Cascaded \/ item' = [j \in Items |-> IF item[j].state = "pending" THEN NoItem ELSE item[j]]
    BY <1>6 DEF RemoveSource, Disconnect
  <2>2. ~Cascaded
    BY CascadeFacts, TypeParts DEF OtherTypes, RunTypes
  <2>3. QED
    BY <1>0, <2>1, <2>2, NoItemType DEF Same
<1>7. CASE CreateStaging \/ Sweep
  BY <1>0, <1>7, ItemSteps, SweepRows
<1>8. CASE \/ ResumeCommit \/ ResumeNothing \/ ScheduleCheck \/ ScheduleInsert \/ NotScheduled
           \/ Deferred \/ Unauthorized \/ DownloadBody \/ CountFailure \/ Promote \/ Rename
           \/ ListPage \/ NothingToList \/ RememberFolder \/ PageDone \/ ListFails
           \/ TickRefused \/ FinishRuns
  <2>1. UNCHANGED item
    BY <1>8 DEF ResumeCommit, ResumeNothing, ScheduleCheck, ScheduleInsert, NotScheduled,
       Deferred, Unauthorized, DownloadBody, CountFailure, Promote, Rename, ListPage,
       NothingToList, RememberFolder, PageDone, ListFails, TickRefused, FinishRuns
  <2>2. QED
    BY <1>0, <2>1 DEF Same
<1>9. CASE \/ DownloadFails \/ StorageLow \/ TickFails \/ Crash \/ MarkReauth
           \/ ListRefused \/ Connect \/ SetPause \/ SelectSource \/ SyncCheck \/ SyncInsert
           \/ \E e \in Items : TrashEntry(e) \/ RestoreEntry(e) \/ PurgeEntry(e)
           \/ \E g \in Files : RemoteEdit(g)
  <2>1. UNCHANGED item
    BY <1>9 DEF DownloadFails, StorageLow, TickFails, Crash, MarkReauth, ListRefused,
       Connect, SetPause, SelectSource, SyncCheck, SyncInsert, TrashEntry, RestoreEntry,
       PurgeEntry, RemoteEdit
  <2>2. QED
    BY <1>0, <2>1 DEF Same
<1>10. QED
  BY <1>2, <1>3, <1>4, <1>5, <1>6, <1>7, <1>8, <1>9 DEF Next, WorkerStep, Fault, Request

\* A link that is not new is the old one.
LEMMA LinkKept ==
    ASSUME TypesInv, ControlInv, Next, NEW g \in Files, link'[g] # NULL
    PROVE  \/ /\ link'[g] = link[g]
              /\ \A e \in Items : PurgeEntry(e) => link[g].entry # e
           \/ /\ FinishReady
              /\ \E i \in Items :
                    /\ g = i[2] /\ Committing(i) /\ home[i] # NULL
                    /\ link'[g].entry = home[i] /\ link'[g].md5 = item[i].md5
<1>1. CASE FinishReady
  <2>1. PICK i \in Items :
             IF Committing(i) /\ home[i] # NULL
             THEN /\ link'[i[2]].entry = home[i] /\ link'[i[2]].md5 = item[i].md5
                  /\ \A f \in Files : f # i[2] => link'[f] = link[f]
             ELSE link' = link
    BY <1>1, FinishRows
  <2>2. \A e \in Items : ~PurgeEntry(e)
    <3>1. worker.pc = "ready" /\ worker'.pc = "tick"
      BY <1>1, Control
    <3>2. QED
      BY <3>1 DEF PurgeEntry
  <2>3. QED
    BY <1>1, <2>1, <2>2
<1>2. CASE \E e \in Items : PurgeEntry(e)
  <2>1. PICK e \in Items : PurgeEntry(e)
    BY <1>2
  <2>2. \A x \in Items : PurgeEntry(x) => link'[g] = link[g] /\ (link[g] # NULL => link[g].entry # x)
    BY PurgeRows
  <2>3. QED
    BY <2>1, <2>2
<1>3. CASE ~FinishReady /\ ~ \E e \in Items : PurgeEntry(e)
  <2>1. UNCHANGED link
    BY <1>3, DriveSteps, SweepRows DEF CommitStaged, DownloadBody, TrashEntry, RestoreEntry
  <2>2. QED
    BY <1>3, <2>1
<1>4. QED
  BY <1>1, <1>2, <1>3

\* The current version of an entry that is linked, after the step.
LEMMA CurrentKept ==
    ASSUME TypesInv, ControlInv, RowsInv, LinkInv, Next, NEW g \in Files, link[g] # NULL,
           \A e \in Items : PurgeEntry(e) => link[g].entry # e
    PROVE  /\ link[g].entry \in Items /\ current[link[g].entry] \in Items
           /\ \/ current'[link[g].entry] = current[link[g].entry]
              \/ /\ CommitStaged /\ worker.pc = "commit" /\ worker.item \in Items
                 /\ worker.item[2] = g /\ current'[link[g].entry] = worker.item
<1>1. PICK x \in Items : x = link[g].entry
  BY LinkTypes
<1>2. x[2] = g /\ entry[x] # "none"
  BY <1>1 DEF LinkInv
<1>3. current[x] \in Items
  BY <1>2 DEF RowsInv, TypesInv, TypeOK
<1>4. CASE CommitStaged
  <2>1. PICK i \in Items, e \in Items :
             /\ i = worker.item /\ worker.pc = "commit" /\ e[2] = i[2]
             /\ current'[x] = IF x = e THEN i ELSE current[x]
    BY <1>4, CommitRows
  <2>2. QED
    BY <1>1, <1>2, <1>3, <1>4, <2>1
<1>5. CASE \E e \in Items : PurgeEntry(e)
  <2>1. PICK e \in Items : PurgeEntry(e)
    BY <1>5
  <2>2. x # e /\ (x # e => current'[x] = current[x])
    BY <1>1, <2>1, PurgeRows
  <2>3. QED
    BY <1>1, <1>3, <2>2
<1>6. CASE ~CommitStaged /\ ~ \E e \in Items : PurgeEntry(e)
  <2>1. UNCHANGED current
    BY <1>6, DriveSteps, SweepRows DEF FinishReady, DownloadBody, TrashEntry, RestoreEntry
  <2>2. QED
    BY <1>1, <1>3, <2>1
<1>7. QED
  BY <1>4, <1>5, <1>6

\* Every step keeps links and versions together: a version becomes current before its item
\* is stored, and is linked with it.
LEMMA MatchStep ==
    ASSUME TypesInv, ControlInv, RowsInv, LinkInv, MatchInv, Next
    PROVE  MatchInv'
<1> SUFFICES ASSUME NEW g \in Files, link'[g] # NULL, NEW v \in Items,
                    v = current'[link'[g].entry], item'[v].state = "stored"
             PROVE  link'[g].md5 = item'[v].md5
  BY DEF MatchInv
<1>1. CASE FinishReady
  <2>1. PICK i \in Items :
             /\ IF Committing(i) /\ home[i] # NULL
                THEN /\ link'[i[2]].entry = home[i] /\ link'[i[2]].md5 = item[i].md5
                     /\ \A f \in Files : f # i[2] => link'[f] = link[f]
                ELSE link' = link
             /\ UNCHANGED <<home, current>>
             /\ \A j \in Items : /\ item'[j].md5 = item[j].md5
                                 /\ j # i \/ ~Committing(i) => item'[j].state = item[j].state
    BY <1>1, FinishRows
  <2>2. CASE Committing(i) /\ home[i] # NULL /\ g = i[2]
    <3>1. v = i
      BY <2>1, <2>2 DEF LinkInv
    <3>2. QED
      BY <2>1, <2>2, <3>1
  <2>3. CASE ~(Committing(i) /\ home[i] # NULL /\ g = i[2])
    <3>1. link'[g] = link[g]
      BY <2>1, <2>3
    <3>2. PICK e \in Items : e = link[g].entry /\ e[2] = g
      BY <3>1, LinkTypes DEF LinkInv
    <3>3. v = current[e]
      BY <2>1, <3>1, <3>2
    <3>4. home[v] = e
      BY <3>3, ImportAssumption DEF RowsInv
    <3>5. home[v] # NULL /\ v[2] = g
      BY <3>2, <3>4, ImportAssumption DEF RowsInv
    <3>6. v # i \/ ~Committing(i)
      BY <2>3, <3>5
    <3>7. item'[v].state = item[v].state /\ item'[v].md5 = item[v].md5
      BY <2>1, <3>6
    <3>8. QED
      BY <3>1, <3>2, <3>3, <3>7 DEF MatchInv
  <2>4. QED
    BY <2>2, <2>3
<1>2. CASE ~FinishReady
  <2>1. item[v].state = "stored" /\ item'[v].md5 = item[v].md5
    BY <1>2, StoredKept
  <2>2. link'[g] = link[g] /\ \A e \in Items : PurgeEntry(e) => link[g].entry # e
    BY <1>2, LinkKept
  <2>3. \/ current'[link[g].entry] = current[link[g].entry]
        \/ worker.pc = "commit" /\ current'[link[g].entry] = worker.item
    BY <2>2, CurrentKept
  <2>4. ~(worker.pc = "commit" /\ v = worker.item)
    BY <2>1, ExpectedFacts DEF ControlInv, HandInv, HasItem, Orphaned
  <2>5. QED
    BY <2>1, <2>2, <2>3, <2>4 DEF MatchInv
<1>3. QED
  BY <1>1, <1>2

-----------------------------------------------------------------------------
(* One copy of a file *)

\* A readable entry that was never in the trash is the linked one; what is committing goes
\* to the linked entry, if that was never in the trash either.
CopyInv ==
    /\ \A i \in Items :
          /\ Committing(i) /\ home[i] # NULL
          /\ link[i[2]] # NULL /\ entry[link[i[2]].entry] = "live"
          => link[i[2]].entry = home[i]
    /\ \A e \in Items :
          entry[e] = "live" /\ run[e[1]].state # "deleted" /\ object[current[e]] = "ready"
          => link[e[2]] # NULL /\ link[e[2]].entry = e

\* An entry of a run that is not deleted was one before the step.
LEMMA EntryRun ==
    ASSUME TypesInv, StartedInv, Next, NEW e \in Items, entry[e] # "none",
           run'[e[1]].state # "deleted"
    PROVE  run[e[1]].state # "deleted"
<1>1. e[1] \in Runs /\ run[e[1]].state # "none"
  BY DEF Items, StartedInv
<1>2. QED
  BY <1>1, RunsKept, CascadeFacts, TypeParts DEF KeptRuns, OtherTypes, RunTypes

\* Every step keeps readable entries linked.
LEMMA CopyStep ==
    ASSUME TypesInv, StartedInv, ControlInv, RowsInv, LinkInv, CopyInv, Next
    PROVE  CopyInv'
<1>f. \A i \in Items : i[2] \in Files
  BY DEF Items
<1>l. \A g \in Files : link[g] # NULL => link[g].entry \in Items
  BY LinkTypes
<1>c. \A e \in Items : entry[e] # "none" => current[e] \in Items /\ home[current[e]] = e
  BY DEF RowsInv, TypesInv, TypeOK
<1>0. ASSUME UNCHANGED <<home, current, link>>, ~CommitStaged,
             \A x \in Items : /\ entry'[x] = "live" => entry[x] = "live"
                              /\ object'[x] = "ready" => object[x] = "ready"
      PROVE  CopyInv'
  <2>1. \A i \in Items : Committing(i)' => Committing(i)
    BY <1>0, ItemMoves
  <2>2. \A i \in Items :
           /\ Committing(i)' /\ home'[i] # NULL
           /\ link'[i[2]] # NULL /\ entry'[link'[i[2]].entry] = "live"
           => link'[i[2]].entry = home'[i]
    BY <1>0, <1>f, <1>l, <2>1 DEF CopyInv
  <2>3. ASSUME NEW e \in Items, entry'[e] = "live", run'[e[1]].state # "deleted",
               object'[current'[e]] = "ready"
        PROVE  link'[e[2]] # NULL /\ link'[e[2]].entry = e
    <3>1. entry[e] = "live" /\ run[e[1]].state # "deleted"
      BY <1>0, <2>3, EntryRun
    <3>2. object[current[e]] = "ready"
      BY <1>0, <1>c, <2>3, <3>1
    <3>3. QED
      BY <1>0, <2>3, <3>1, <3>2 DEF CopyInv
  <2>4. QED
    BY <2>2, <2>3 DEF CopyInv
<1>1. CASE CommitStaged
  <2>1. PICK i \in Items, e \in Items :
             /\ e = TargetEntry(i)
             /\ \A j \in Items : Committing(j)' => j = i
             /\ \A x \in Items :
                   /\ object'[x] = IF x = i THEN "pending" ELSE object[x]
                   /\ home'[x] = IF x = i THEN e ELSE home[x]
                   /\ current'[x] = IF x = e THEN i ELSE current[x]
                   /\ x # e => entry'[x] = entry[x]
             /\ UNCHANGED <<run, link>>
    BY <1>1, CommitRows
  <2>2. ASSUME NEW j \in Items, Committing(j)', link'[j[2]] # NULL,
               entry'[link'[j[2]].entry] = "live"
        PROVE  link'[j[2]].entry = home'[j]
    <3>1. j = i /\ home'[j] = e
      BY <2>1, <2>2
    <3>2. PICK x \in Items : x = link[i[2]].entry
      BY <1>f, <1>l, <2>1, <2>2, <3>1
    <3>3. x # e => entry[x] = "live"
      BY <2>1, <2>2, <3>1, <3>2
    <3>4. x # e => TargetEntry(i) = x
      BY <2>1, <2>2, <3>1, <3>2, <3>3, TargetFacts DEF Live
    <3>5. QED
      BY <2>1, <3>1, <3>2, <3>4
  <2>3. ASSUME NEW x \in Items, entry'[x] = "live", run'[x[1]].state # "deleted",
               object'[current'[x]] = "ready"
        PROVE  link'[x[2]] # NULL /\ link'[x[2]].entry = x
    <3>1. x # e
      BY <2>1, <2>3
    <3>2. entry[x] = "live" /\ current'[x] = current[x] /\ current[x] \in Items
      BY <1>c, <2>1, <2>3, <3>1
    <3>3. object[current[x]] = "ready"
      BY <2>1, <2>3, <3>2
    <3>4. QED
      BY <2>1, <2>3, <3>2, <3>3 DEF CopyInv
  <2>4. QED
    BY <2>2, <2>3 DEF CopyInv
<1>2. ASSUME NEW e \in Items, PurgeEntry(e)
      PROVE  CopyInv'
  <2>1. /\ entry'[e] = "none"
        /\ \A x \in Items :
              /\ x # e => entry'[x] = entry[x] /\ current'[x] = current[x]
              /\ home[x] = e => home'[x] = NULL
              /\ home[x] # e => home'[x] = home[x]
        /\ \A g \in Files : \/ link'[g] = link[g] /\ (link[g] # NULL => link[g].entry # e)
                            \/ link'[g] = NULL /\ (link[g] # NULL => link[g].entry = e)
        /\ UNCHANGED <<run, item, object>>
    BY <1>2, PurgeRows
  <2>2. ASSUME NEW i \in Items, Committing(i)', home'[i] # NULL, link'[i[2]] # NULL,
               entry'[link'[i[2]].entry] = "live"
        PROVE  link'[i[2]].entry = home'[i]
    <3>1. Committing(i) /\ home'[i] = home[i]
      BY <2>1, <2>2 DEF Committing
    <3>2. PICK x \in Items : x = link[i[2]].entry /\ x # e /\ link'[i[2]] = link[i[2]]
      BY <1>f, <1>l, <2>1, <2>2
    <3>3. entry[x] = "live"
      BY <2>1, <2>2, <3>2
    <3>4. QED
      BY <2>2, <3>1, <3>2, <3>3 DEF CopyInv
  <2>3. ASSUME NEW x \in Items, entry'[x] = "live", run'[x[1]].state # "deleted",
               object'[current'[x]] = "ready"
        PROVE  link'[x[2]] # NULL /\ link'[x[2]].entry = x
    <3>1. x # e
      BY <2>1, <2>3
    <3>2. entry[x] = "live" /\ current'[x] = current[x]
      BY <2>1, <2>3, <3>1
    <3>3. current[x] \in Items /\ home[current[x]] = x
      BY <1>c, <3>2
    <3>4. object[current[x]] = "ready"
      BY <2>1, <2>3, <3>1, <3>2, <3>3
    <3>5. link[x[2]] # NULL /\ link[x[2]].entry = x
      BY <2>1, <2>3, <3>2, <3>4 DEF CopyInv
    <3>6. QED
      BY <1>f, <2>1, <3>1, <3>5
  <2>4. QED
    BY <2>2, <2>3 DEF CopyInv
<1>3. ASSUME NEW e \in Items, TrashEntry(e) \/ RestoreEntry(e)
      PROVE  CopyInv'
  <2>1. /\ \A x \in Items : entry'[x] = "live" => entry[x] = "live"
        /\ UNCHANGED <<run, item, object, home, current, link>>
    BY <1>3, TrashRows
  <2>2. QED
    BY <1>f, <1>l, <2>1 DEF CopyInv, Committing
<1>4. CASE FinishReady
  <2>1. PICK i \in Items :
             /\ Committing(i) \/ Orphaned
             /\ \A j \in Items : ~Committing(j)'
             /\ \A x \in Items : x # i => object'[x] = object[x]
             /\ IF Committing(i) /\ home[i] # NULL
                THEN /\ link'[i[2]] # NULL
                     /\ link'[i[2]].entry = home[i]
                     /\ \A g \in Files : g # i[2] => link'[g] = link[g]
                ELSE link' = link
             /\ UNCHANGED <<entry, home, current>>
             /\ \A r \in Runs : run'[r].state = run[r].state
    BY <1>4, FinishRows
  <2>2. ASSUME NEW x \in Items, entry'[x] = "live", run'[x[1]].state # "deleted",
               object'[current'[x]] = "ready"
        PROVE  link'[x[2]] # NULL /\ link'[x[2]].entry = x
    <3>1. entry[x] = "live" /\ run[x[1]].state # "deleted"
      BY <2>1, <2>2 DEF Items
    <3>2. PICK c \in Items : c = current[x] /\ home[c] = x
      BY <1>c, <3>1
    <3>3. Committing(i)
      BY <2>1, <3>1 DEF Orphaned
    <3>4. CASE c = i
      <4>1. home[i] # NULL /\ x[2] = i[2]
        BY <3>2, <3>4, ImportAssumption DEF RowsInv
      <4>2. QED
        BY <2>1, <3>2, <3>3, <3>4, <4>1
    <3>5. CASE c # i
      <4>1. object[c] = "ready"
        BY <2>1, <2>2, <3>2, <3>5
      <4>2. link[x[2]] # NULL /\ link[x[2]].entry = x
        BY <3>1, <3>2, <4>1 DEF CopyInv
      <4>3. ASSUME home[i] # NULL, x[2] = i[2]
            PROVE  FALSE
        <5>1. x = home[i]
          BY <3>1, <3>3, <4>2, <4>3 DEF CopyInv
        <5>2. current[home[i]] = i
          BY <3>3, <4>3 DEF LinkInv
        <5>3. QED
          BY <3>2, <3>5, <5>1, <5>2
      <4>4. QED
        BY <1>f, <2>1, <4>2, <4>3
    <3>6. QED
      BY <3>4, <3>5
  <2>3. QED
    BY <2>1, <2>2 DEF CopyInv
<1>5. CASE DownloadBody \/ Sweep \/ UNCHANGED <<object, entry, home, current, data, link>>
  <2>1. /\ UNCHANGED <<link, home, current, entry>>
        /\ \A x \in Items : object'[x] = "ready" => object[x] = "ready"
    BY <1>5, SweepRows DEF DownloadBody
  <2>2. QED
    BY <1>0, <1>1, <2>1
<1>6. QED
  BY <1>1, <1>2, <1>3, <1>4, <1>5, DriveSteps

-----------------------------------------------------------------------------
(* The invariant of the drive *)

DriveInv == ControlInv /\ RowsInv /\ LinkInv /\ MatchInv /\ CopyInv

\* Every step keeps it.
LEMMA DriveStep == TypesInv /\ StartedInv /\ DriveInv /\ [Next]_vars => DriveInv'
<1> SUFFICES ASSUME TypesInv, StartedInv, DriveInv, [Next]_vars
             PROVE  DriveInv'
  OBVIOUS
<1>d. ControlInv /\ RowsInv /\ LinkInv /\ MatchInv /\ CopyInv
  BY DEF DriveInv
<1>1. CASE UNCHANGED vars
  <2>1. ControlInv'
    BY <1>1, <1>d, ControlStep
  <2>2. RowsInv' /\ LinkInv' /\ MatchInv' /\ CopyInv'
    BY <1>1, <1>d DEF RowsInv, LinkInv, MatchInv, CopyInv, Committing, vars
  <2>3. QED
    BY <2>1, <2>2 DEF DriveInv
<1>2. CASE Next
  <2>1. ControlInv'
    BY <1>d, ControlStep
  <2>2. RowsInv' /\ LinkInv' /\ MatchInv' /\ CopyInv'
    BY <1>2, <1>d, RowsStep, LinkStep, MatchStep, CopyStep
  <2>3. QED
    BY <2>1, <2>2 DEF DriveInv
<1>3. QED
  BY <1>1, <1>2

\* It holds at first.
LEMMA DriveInit == Init => DriveInv
<1> SUFFICES ASSUME Init
             PROVE  DriveInv
  OBVIOUS
<1>1. /\ \A i \in Items : item[i].state = "none" /\ ~Committing(i)
      /\ worker.pc = "tick"
  BY DEF Init, NoItem, Idle, Committing
<1>2. ControlInv
  BY <1>1 DEF Init, ControlInv, CommitInv, HandInv, HomeInv, HasItem
<1>3. RowsInv /\ LinkInv /\ CopyInv
  BY <1>1 DEF Init, RowsInv, LinkInv, CopyInv
<1>4. MatchInv
  BY DEF Init, MatchInv
<1>5. QED
  BY <1>2, <1>3, <1>4 DEF DriveInv

\* The whole inductive invariant of the import: types, pages, counters, the item in hand,
\* entries with their versions and links, and what the links say of them.
THEOREM ImportInvariant ==
    Spec => [](TypesInv /\ PagesInv /\ StartedInv /\ CountInv /\ DriveInv)
BY DriveInit, DriveStep, RunsInvariant, PTL DEF Spec

\* Recovery resumes the one commit that was cut short before anything else is claimed, and
\* commit_staged writes to the linked entry: the import of a file never leaves two readable
\* copies of it, wherever the worker is stopped and whatever is trashed or purged meanwhile.
\* Entries whose source has been removed do not count: a disconnect between the rename and
\* finish_ready leaves a readable file without a link, and the next import makes another.
THEOREM OneCopyOfAFile == Spec => []NoSecondCopy
<1>1. DriveInv => NoSecondCopy
  <2> SUFFICES ASSUME DriveInv, NEW e1 \in Items, NEW e2 \in Items,
                      e1 # e2, e1[2] = e2[2],
                      run[e1[1]].state # "deleted", run[e2[1]].state # "deleted",
                      entry[e1] = "live", entry[e2] = "live",
                      object[current[e1]] = "ready", object[current[e2]] = "ready"
               PROVE  FALSE
    BY DEF NoSecondCopy
  <2>1. link[e1[2]].entry = e1 /\ link[e2[2]].entry = e2
    BY DEF DriveInv, CopyInv
  <2>2. QED
    BY <2>1
<1>2. QED
  BY <1>1, ImportInvariant, PTL

\* The link of a file has the md5 its version was listed with, however commits, purges and
\* removals interleave: what the next listing skips as unchanged is what Google has, if
\* the file was not edited between that listing and the download.
THEOREM SkippedFilesAreCurrent == Spec => []SkipIsCurrent
<1>1. TypesInv /\ DriveInv => SkipIsCurrent
  <2> SUFFICES ASSUME TypesInv, DriveInv, NEW g \in Files, Unchanged(g),
                      item[current[link[g].entry]].state = "stored",
                      data[current[link[g].entry]] = item[current[link[g].entry]].md5
               PROVE  data[current[link[g].entry]] = remote[g]
    BY DEF SkipIsCurrent
  <2>1. link[g] # NULL /\ link[g].md5 = remote[g] /\ link[g].entry \in Items
    BY LinkTypes DEF Unchanged, Listed
  <2>2. PICK e \in Items : e = link[g].entry /\ entry[e] # "none"
    BY <2>1 DEF DriveInv, LinkInv
  <2>3. PICK v \in Items : v = current[e]
    BY <2>2 DEF DriveInv, RowsInv, TypesInv, TypeOK
  <2>4. link[g].md5 = item[v].md5
    BY <2>1, <2>2, <2>3 DEF DriveInv, MatchInv
  <2>5. QED
    BY <2>1, <2>2, <2>3, <2>4
<1>2. QED
  BY <1>1, ImportInvariant, PTL
=============================================================================
