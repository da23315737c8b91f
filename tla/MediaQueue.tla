----------------------------- MODULE MediaQueue -----------------------------
(***************************************************************************)
(* The media indexer: the job table, the worker processes that claim jobs  *)
(* under a lease and publish previews, and the owner's controls            *)
(* (media_indexer.rs, media_admin.rs, storage/preview.rs).                 *)
(*                                                                         *)
(* One worker is meant to run.  The advisory lock that sees to it lives on *)
(* a database connection the worker looks at only between two passes, so a *)
(* worker that loses it finishes its job beside its successor; the lease   *)
(* and the attempt number of the job have to keep the two apart.           *)
(*                                                                         *)
(* Time is left out: a lease may expire and a retry become due at any      *)
(* moment.  An attempt number is the claim's token.                        *)
(***************************************************************************)
EXTENDS Naturals, Sequences, FiniteSets

CONSTANTS
    Versions,      \* file versions
    Images,        \* the ones with an image type; the others are videos
    Tasks,         \* bound: the tasks an instance looks at
    Workers,       \* worker processes
    MaxAttempts,   \* MAX_ATTEMPTS
    MaxFaults,     \* bound: crashes, lost connections, failed statements
    MaxRetries,    \* bound: retry_failed requests
    NULL

ASSUME MediaAssumption ==
    /\ Images \subseteq Versions
    /\ Tasks \subseteq {"image_preview", "video_thumbnail", "video_preview", "face_index"}
    /\ MaxAttempts \in Nat \ {0}
    /\ MaxFaults \in Nat
    /\ MaxRetries \in Nat
    /\ NULL \notin Workers
    /\ NULL \notin Versions \X STRING

VARIABLES
    version,   \* of each version: new, live (current, in no trash), retired, gone
    job,       \* media_index_jobs: the state of each job
    attempts,  \* its attempts
    lease,     \* its lease: none, live, expired
    rows,      \* media_derivatives, and the face observations of a version
    files,     \* the preview files
    paused,    \* media_index_control.paused
    lock,      \* who holds the advisory lock, or NULL
    worker,    \* what each worker does
    faults,    \* faults so far
    retries    \* retry_failed requests so far

queue == <<job, attempts, lease>>
vars == <<version, job, attempts, lease, rows, files, paused, lock, worker,
          faults, retries>>

-----------------------------------------------------------------------------
(* Jobs and what they produce *)

\* media_index_task and its callers: the tasks of a version.
TasksOf(v) ==
    IF v \in Images THEN {"image_preview", "face_index"}
    ELSE {"video_thumbnail", "video_preview", "face_index"}

\* UNIQUE (file_version_id, task, recipe_version), one recipe per task.
Jobs == {j \in Versions \X Tasks : j[2] \in TasksOf(j[1])}

JobsOf(v) == {j \in Jobs : j[1] = v}

\* The preview files of a job, in no order that matters.
Variants(j) ==
    CASE j[2] = "image_preview"   -> {<<j, "viewer">>, <<j, "card">>}
      [] j[2] = "video_thumbnail" -> {<<j, "video_poster">>}
      [] j[2] = "video_preview"   -> {<<j, "video_preview">>}
      [] OTHER                    -> {}

\* The rows its last transaction writes.
Rows(j) == IF j[2] = "face_index" THEN {<<j, "faces">>} ELSE Variants(j)

\* ORDER BY CASE job.task in claim_one.
Priority(j) ==
    CASE j[2] = "image_preview"   -> 0
      [] j[2] = "video_thumbnail" -> 1
      [] j[2] = "video_preview"   -> 2
      [] OTHER                    -> 3

JobStates ==
    {"none", "queued", "running", "retry_wait", "completed", "unsupported", "failed"}

Settled(j) == job[j] \in {"completed", "unsupported", "failed"}

-----------------------------------------------------------------------------
(* What the tools may answer *)

FailureClasses == {"unsupported", "permanent", "retryable"}

\* map_decode_tool_error and map_face_tool_error.
ToolFailure(error) ==
    IF error \in {"TimedOut", "ResourceLimit"} THEN "unsupported" ELSE "permanent"

\* thumbnail_to_png: libvips, and ffmpeg after it for the types it can read.
ThumbnailErrors == {"TimedOut", "Failed", "ResourceLimit", "InvalidOutput"}

\* extract_video_frame.
FrameErrors == {"TimedOut", "Failed", "InvalidOutput"}

\* transcode_video_preview.
TranscodeErrors == {"TimedOut", "Failed", "InvalidOutput"}

\* extract_face_frames fails with its first error when no sample worked.
FaceFrameErrors == {"TimedOut", "Failed", "InvalidOutput"}

\* encode_webp.
WebpErrors == {"TimedOut", "Failed", "InvalidOutput"}

Failures(errors) == {ToolFailure(e) : e \in errors}

\* prepare_source and copy_source: a source that is gone or does not match its
\* row, a source that is too large, a temporary file that cannot be written.
CopyFailures == {"permanent", "unsupported", "retryable"}

\* The steps of each job; in front of every step but the first is a set_stage
\* (two in a row in front of the first image are one).
ImageSteps ==
    LET raster == Failures(ThumbnailErrors \cup WebpErrors) \cup {"retryable"}
    IN <<CopyFailures, raster, raster>>

VideoSteps ==
    <<CopyFailures, Failures(FrameErrors) \cup {"retryable"},
      Failures(WebpErrors) \cup {"retryable"}>>

VideoPreviewSteps ==
    <<CopyFailures, Failures(TranscodeErrors) \cup {"retryable"}>>

FaceSteps ==
    <<CopyFailures,
      Failures(ThumbnailErrors \cup FaceFrameErrors) \cup {"retryable"},
      {"unsupported", "permanent", "retryable"}>>

StepsOf(j) ==
    CASE j[2] = "image_preview"   -> ImageSteps
      [] j[2] = "video_thumbnail" -> VideoSteps
      [] j[2] = "video_preview"   -> VideoPreviewSteps
      [] OTHER                    -> FaceSteps

-----------------------------------------------------------------------------
(* Workers *)

At(pc) == [pc |-> pc, job |-> NULL, token |-> 0, step |-> 0, todo |-> {},
           why |-> "", beats |-> FALSE]

\* The pcs between a claim and the end of process_job; the heartbeat task runs.
Processing == {"tool", "stage", "check", "mark", "rename", "commit"}

Pcs == {"wait", "idle", "backfill", "exhaust", "claim", "fail"} \cup Processing

Goes(w, pc) == worker' = [worker EXCEPT ![w] = [worker[w] EXCEPT !.pc = pc]]

Becomes(w, record) == worker' = [worker EXCEPT ![w] = record]

\* process_job returns Err: the heartbeat ends, record_failure is next.
Failing(w, class) == [worker[w] EXCEPT !.pc = "fail", !.why = class, !.beats = FALSE]

\* WHERE id = .. AND state = 'running' AND attempts = ..
Owns(w) ==
    LET j == worker[w].job IN job[j] = "running" /\ attempts[j] = worker[w].token

-----------------------------------------------------------------------------
(* run_worker *)

TryLock(w) ==
    /\ worker[w].pc = "wait"
    /\ lock = NULL
    /\ lock' = w
    /\ Becomes(w, At("idle"))
    /\ UNCHANGED <<version, queue, rows, files, paused, faults, retries>>

\* SELECT 1 on the connection of the lock, then run_once or back to the start.
CheckLock(w) ==
    /\ worker[w].pc = "idle"
    /\ Goes(w, IF lock = w THEN "backfill" ELSE "wait")
    /\ UNCHANGED <<version, queue, rows, files, paused, lock, faults, retries>>

\* The jobs backfill_batch finds missing; each of its statements takes at most
\* 100 versions, so any part of them.
Missing == {j \in Jobs : version[j[1]] = "live" /\ job[j] = "none"}

Backfill(w) ==
    /\ worker[w].pc = "backfill"
    /\ \E js \in SUBSET Missing :
         /\ js = {} => Missing = {}
         /\ job' = [j \in Jobs |-> IF j \in js THEN "queued" ELSE job[j]]
    /\ Goes(w, "exhaust")
    /\ UNCHANGED <<version, attempts, lease, rows, files, paused, lock, faults, retries>>

Exhausted(j) == job[j] = "running" /\ lease[j] = "expired" /\ attempts[j] >= MaxAttempts

\* fail_exhausted_leases.
FailExhausted(w) ==
    /\ worker[w].pc = "exhaust"
    /\ job' = [j \in Jobs |-> IF Exhausted(j) THEN "failed" ELSE job[j]]
    /\ lease' = [j \in Jobs |-> IF Exhausted(j) THEN "none" ELSE lease[j]]
    /\ Goes(w, "claim")
    /\ UNCHANGED <<version, attempts, rows, files, paused, lock, faults, retries>>

\* Fault: one attempt too many.
ClaimableOnceMore(j) ==
    /\ attempts[j] <= MaxAttempts
    /\ \/ job[j] \in {"queued", "retry_wait"}
       \/ job[j] = "running" /\ lease[j] = "expired"

\* Fault: the lease of a lost worker is never looked at.
ClaimableWaiting(j) == attempts[j] < MaxAttempts /\ job[j] \in {"queued", "retry_wait"}

\* The WHERE of claim_one.
Claimable(j) ==
    /\ attempts[j] < MaxAttempts
    /\ \/ job[j] \in {"queued", "retry_wait"}
       \/ job[j] = "running" /\ lease[j] = "expired"

ClaimOne(w) ==
    /\ worker[w].pc = "claim"
    /\ ~paused
    /\ \E j \in Jobs :
         /\ Claimable(j)
         /\ \A k \in Jobs : Claimable(k) => Priority(j) <= Priority(k)
         /\ job' = [job EXCEPT ![j] = "running"]
         /\ attempts' = [attempts EXCEPT ![j] = @ + 1]
         /\ lease' = [lease EXCEPT ![j] = "live"]
         /\ Becomes(w, [At("tool") EXCEPT !.job = j, !.token = attempts[j] + 1,
                                          !.step = 1, !.beats = TRUE])
    /\ UNCHANGED <<version, rows, files, paused, lock, faults, retries>>

ClaimNone(w) ==
    /\ worker[w].pc = "claim"
    /\ paused \/ ~ \E j \in Jobs : Claimable(j)
    /\ Becomes(w, At("idle"))
    /\ UNCHANGED <<version, queue, rows, files, paused, lock, faults, retries>>

-----------------------------------------------------------------------------
(* process_job *)

\* The heartbeat task: it renews the lease, even one that has expired, while the
\* claim is still its own, and ends when it is not.
Heartbeat(w) ==
    /\ worker[w].pc \in Processing
    /\ worker[w].beats
    /\ \/ /\ Owns(w)
          /\ lease' = [lease EXCEPT ![worker[w].job] = "live"]
          /\ UNCHANGED worker
       \/ /\ ~Owns(w)
          /\ Becomes(w, [worker[w] EXCEPT !.beats = FALSE])
          /\ UNCHANGED lease
    /\ UNCHANGED <<version, job, attempts, rows, files, paused, lock, faults, retries>>

\* A step ends well: on to the next one, or to publishing.
StepDone(w) ==
    LET j == worker[w].job
        last == worker[w].step = Len(StepsOf(j))
    IN IF last
       THEN [worker[w] EXCEPT !.pc = "check", !.todo = Variants(j)]
       ELSE [worker[w] EXCEPT !.pc = "stage", !.step = @ + 1]

RunTool(w) ==
    /\ worker[w].pc = "tool"
    /\ \/ Becomes(w, StepDone(w))
       \/ \E class \in StepsOf(worker[w].job)[worker[w].step] :
            Becomes(w, Failing(w, class))
    /\ UNCHANGED <<version, queue, rows, files, paused, lock, faults, retries>>

\* set_stage fails when it updates no row.
SetStage(w, next) ==
    /\ IF Owns(w)
       THEN /\ lease' = [lease EXCEPT ![worker[w].job] = "live"]
            /\ Goes(w, next)
       ELSE /\ Becomes(w, Failing(w, "retryable"))
            /\ UNCHANGED lease
    /\ UNCHANGED <<version, job, attempts, rows, files, paused, lock, faults, retries>>

StartStep(w) ==
    /\ worker[w].pc = "stage"
    /\ SetStage(w, "tool")

\* owns_lease, in front of every variant and of the face transaction.
OwnsLease(w) ==
    LET j == worker[w].job
        next == IF j[2] = "face_index" THEN "commit" ELSE "mark"
    IN /\ worker[w].pc = "check"
       /\ worker[w].todo # {} \/ j[2] = "face_index"
       /\ IF Owns(w) /\ lease[j] = "live"
          THEN Goes(w, next)
          ELSE Becomes(w, Failing(w, "retryable"))
       /\ UNCHANGED <<version, queue, rows, files, paused, lock, faults, retries>>

MarkPublishing(w) ==
    /\ worker[w].pc = "mark"
    /\ SetStage(w, "rename")

\* publish_derivative writes beside the file and renames over it; an error
\* leaves the file as it was.
PublishDerivative(w) ==
    /\ worker[w].pc = "rename"
    /\ \/ \E x \in worker[w].todo :
            /\ files' = files \cup {x}
            /\ Becomes(w, [worker[w] EXCEPT !.todo = @ \ {x},
                             !.pc = IF worker[w].todo = {x} THEN "commit" ELSE "check"])
       \/ /\ Becomes(w, Failing(w, "retryable"))
          /\ UNCHANGED files
    /\ UNCHANGED <<version, queue, rows, paused, lock, faults, retries>>

\* Fault: the rows are written after the first variant is published.
CompleteEarly(w) ==
    LET j == worker[w].job
    IN /\ worker[w].pc \in {"commit", "mark"}
       /\ Owns(w)
       /\ job' = [job EXCEPT ![j] = "completed"]
       /\ lease' = [lease EXCEPT ![j] = "none"]
       /\ rows' = rows \cup Rows(j)
       /\ Becomes(w, At("idle"))
       /\ UNCHANGED <<version, attempts, files, paused, lock, faults, retries>>

\* The transaction of publish_and_complete and of process_face_job: the job is
\* completed under its token and its rows are written, or nothing is.
Complete(w) ==
    LET j == worker[w].job
    IN /\ worker[w].pc = "commit"
       /\ IF Owns(w)
          THEN /\ job' = [job EXCEPT ![j] = "completed"]
               /\ lease' = [lease EXCEPT ![j] = "none"]
               /\ rows' = rows \cup Rows(j)
               /\ Becomes(w, At("idle"))
          ELSE /\ Becomes(w, Failing(w, "retryable"))
               /\ UNCHANGED <<job, lease, rows>>
       /\ UNCHANGED <<version, attempts, files, paused, lock, faults, retries>>

\* The state record_failure gives the job.
FailureState(w) ==
    CASE worker[w].why = "unsupported" -> "unsupported"
      [] worker[w].why = "permanent" -> "failed"
      [] worker[w].token >= MaxAttempts -> "failed"
      [] OTHER -> "retry_wait"

\* Fault: the failure is recorded whoever owns the job now.
RecordAnyway(w) ==
    LET j == worker[w].job
    IN /\ worker[w].pc = "fail"
       /\ job' = [job EXCEPT ![j] = IF @ = "none" THEN @ ELSE FailureState(w)]
       /\ lease' = [lease EXCEPT ![j] = "none"]
       /\ Becomes(w, At("idle"))
       /\ UNCHANGED <<version, attempts, rows, files, paused, lock, faults, retries>>

RecordFailure(w) ==
    LET j == worker[w].job
    IN /\ worker[w].pc = "fail"
       /\ IF Owns(w)
          THEN /\ job' = [job EXCEPT ![j] = FailureState(w)]
               /\ lease' = [lease EXCEPT ![j] = "none"]
          ELSE UNCHANGED <<job, lease>>
       /\ Becomes(w, At("idle"))
       /\ UNCHANGED <<version, attempts, rows, files, paused, lock, faults, retries>>

-----------------------------------------------------------------------------
(* Faults and time *)

LeaseExpires(j) ==
    /\ lease[j] = "live"
    /\ lease' = [lease EXCEPT ![j] = "expired"]
    /\ UNCHANGED <<version, job, attempts, rows, files, paused, lock, worker, faults, retries>>

\* The connection that holds the lock drops; its worker does not notice yet.
LoseLock ==
    /\ faults < MaxFaults
    /\ lock # NULL
    /\ lock' = NULL
    /\ faults' = faults + 1
    /\ UNCHANGED <<version, queue, rows, files, paused, worker, retries>>

\* The process stops anywhere and starts again.
Crash(w) ==
    /\ faults < MaxFaults
    /\ worker[w].pc # "wait"
    /\ Becomes(w, At("wait"))
    /\ lock' = IF lock = w THEN NULL ELSE lock
    /\ faults' = faults + 1
    /\ UNCHANGED <<version, queue, rows, files, paused, retries>>

\* A mount is missing or a statement of the pass fails, record_failure included.
PassFails(w) ==
    /\ faults < MaxFaults
    /\ worker[w].pc \in {"backfill", "exhaust", "claim", "fail"}
    /\ Becomes(w, At("idle"))
    /\ faults' = faults + 1
    /\ UNCHANGED <<version, queue, rows, files, paused, lock, retries>>

-----------------------------------------------------------------------------
(* The rest of the application *)

SetVersion(v, state) == version' = [version EXCEPT ![v] = state]

\* A version becomes current.  finalize and link enqueue all its jobs, an import
\* all but the face job; none is there when another version was current by the
\* time finalize looked, or when the task is newer than the version.
Arrive(v, js) ==
    /\ version[v] = "new"
    /\ SetVersion(v, "live")
    /\ job' = [j \in Jobs |-> IF j \in js THEN "queued" ELSE job[j]]
    /\ UNCHANGED <<attempts, lease, rows, files, paused, lock, worker, faults, retries>>

\* The file is trashed or gets a newer version; or it is restored.
Retire(v) ==
    /\ version[v] = "live"
    /\ SetVersion(v, "retired")
    /\ UNCHANGED <<queue, rows, files, paused, lock, worker, faults, retries>>

Restore(v) ==
    /\ version[v] = "retired"
    /\ SetVersion(v, "live")
    /\ UNCHANGED <<queue, rows, files, paused, lock, worker, faults, retries>>

\* The version is purged: ON DELETE CASCADE takes its jobs and rows; nothing
\* takes its preview files.
Purge(v) ==
    /\ version[v] = "retired"
    /\ SetVersion(v, "gone")
    /\ job' = [j \in Jobs |-> IF j[1] = v THEN "none" ELSE job[j]]
    /\ attempts' = [j \in Jobs |-> IF j[1] = v THEN 0 ELSE attempts[j]]
    /\ lease' = [j \in Jobs |-> IF j[1] = v THEN "none" ELSE lease[j]]
    /\ rows' = {x \in rows : x[1][1] # v}
    /\ UNCHANGED <<files, paused, lock, worker, faults, retries>>

SetPause(value) ==
    /\ paused # value
    /\ paused' = value
    /\ UNCHANGED <<version, queue, rows, files, lock, worker, faults, retries>>

\* retry_failed, for one job or for all of them.
RetryFailed(js) ==
    /\ retries < MaxRetries
    /\ js # {}
    /\ \A j \in js : job[j] = "failed"
    /\ job' = [j \in Jobs |-> IF j \in js THEN "queued" ELSE job[j]]
    /\ attempts' = [j \in Jobs |-> IF j \in js THEN 0 ELSE attempts[j]]
    /\ retries' = retries + 1
    /\ UNCHANGED <<version, lease, rows, files, paused, lock, worker, faults>>

-----------------------------------------------------------------------------
Init ==
    /\ version = [v \in Versions |-> "new"]
    /\ job = [j \in Jobs |-> "none"]
    /\ attempts = [j \in Jobs |-> 0]
    /\ lease = [j \in Jobs |-> "none"]
    /\ rows = {}
    /\ files = {}
    /\ paused = FALSE
    /\ lock = NULL
    /\ worker = [w \in Workers |-> At("wait")]
    /\ faults = 0
    /\ retries = 0

\* What a worker does when nothing goes wrong around it.
WorkerStep(w) ==
    \/ TryLock(w) \/ CheckLock(w) \/ Backfill(w) \/ FailExhausted(w)
    \/ ClaimOne(w) \/ ClaimNone(w) \/ RunTool(w) \/ StartStep(w) \/ OwnsLease(w)
    \/ MarkPublishing(w) \/ PublishDerivative(w) \/ Complete(w) \/ RecordFailure(w)

Next ==
    \/ \E w \in Workers : WorkerStep(w) \/ Heartbeat(w) \/ Crash(w) \/ PassFails(w)
    \/ \E j \in Jobs : LeaseExpires(j)
    \/ LoseLock
    \/ \E v \in Versions :
         \/ \E js \in SUBSET JobsOf(v) : Arrive(v, js)
         \/ Retire(v) \/ Restore(v) \/ Purge(v)
    \/ \E value \in BOOLEAN : SetPause(value)
    \/ \E js \in {{j} : j \in Jobs} \cup {{j \in Jobs : job[j] = "failed"}} :
         RetryFailed(js)

Spec == Init /\ [][Next]_vars

\* A worker keeps running: every tool has a timeout and every loop sleeps for a
\* bounded time; a lease that nobody renews runs out.
LiveSpec ==
    /\ Spec
    /\ \A w \in Workers : WF_vars(WorkerStep(w))
    /\ \A j \in Jobs : WF_vars(LeaseExpires(j))

-----------------------------------------------------------------------------
(* Properties *)

\* Types of the tables and of the workers' local state.  A job holds a lease exactly
\* while it runs, so the lease of a lost worker is always there to expire.
TypeOK ==
    /\ version \in [Versions -> {"new", "live", "retired", "gone"}]
    /\ job \in [Jobs -> JobStates]
    /\ attempts \in [Jobs -> 0..MaxAttempts]
    /\ lease \in [Jobs -> {"none", "live", "expired"}]
    /\ \A j \in Jobs : job[j] = "running" <=> lease[j] # "none"
    /\ rows \subseteq UNION {Rows(j) : j \in Jobs}
    /\ files \subseteq UNION {Variants(j) : j \in Jobs}
    /\ paused \in BOOLEAN
    /\ lock \in Workers \cup {NULL}
    /\ worker \in [Workers -> [pc : Pcs, job : Jobs \cup {NULL}, token : 0..MaxAttempts,
                     step : 0..3, todo : SUBSET UNION {Variants(j) : j \in Jobs},
                     why : FailureClasses \cup {""}, beats : BOOLEAN]]
    /\ faults \in 0..MaxFaults
    /\ retries \in 0..MaxRetries

\* A completed job has all its rows, and every row a client can be served from
\* has its preview file, whichever worker wrote it and whoever else was at work.
CompletedIsServed ==
    /\ \A j \in Jobs : job[j] = "completed" => Rows(j) \subseteq rows
    /\ \A j \in Jobs : \A x \in Variants(j) : x \in rows => x \in files

\* The job table as the abstract queue sees it.
Status(j) ==
    CASE job[j] \in {"queued", "retry_wait"} -> "waiting"
      [] job[j] = "completed" -> "done"
      [] OTHER -> job[j]

Abstract ==
    INSTANCE LeaseQueue WITH
        Jobs <- Jobs,
        MaxAttempts <- MaxAttempts,
        status <- [j \in Jobs |-> Status(j)],
        tries <- attempts,
        results <- {j \in Jobs : Rows(j) \cap rows # {}}

\* The workers, leases and controls together are a queue that finishes a job at
\* most once, publishes its rows all at once in that very step, takes it at most
\* MaxAttempts times and never leaves a final state but for failed by a retry.
ImplementsQueue == Abstract!Spec

\* A version that stays in the drive gets each of its jobs settled unless the
\* owner pauses indexing: after a crash, a lost lock, a lost lease, and also when
\* the job was never enqueued.
IndexSettles ==
    \A j \in Jobs :
        version[j[1]] = "live" ~> Settled(j) \/ paused \/ version[j[1]] # "live"
=============================================================================
