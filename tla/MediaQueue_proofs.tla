------------------------- MODULE MediaQueue_proofs --------------------------
(***************************************************************************)
(* The safety properties of MediaQueue for any number of versions, workers *)
(* and attempts, and that it implements LeaseQueue.                        *)
(*                                                                         *)
(* Preview files are never taken away, so that a worker has published what *)
(* its job needs stays true whatever becomes of its claim: that is all     *)
(* CompletedIsServed needs.  That two workers with the same job do not     *)
(* both finish it is the token's doing and shows in the refinement, where  *)
(* every step of a worker that owns its job is a step of a running job.    *)
(***************************************************************************)
EXTENDS MediaQueue, TLAPS

-----------------------------------------------------------------------------
(* The inductive invariant *)

\* A worker between claim and record_failure has a job; it is at one of the
\* job's steps; what it does not have to publish any more is published.
WorkerInv(w) ==
    /\ worker[w].pc \in Processing \cup {"fail"} => worker[w].job \in Jobs
    /\ worker[w].pc \in {"tool", "stage"} =>
          worker[w].step \in 1 .. Len(StepsOf(worker[w].job))
    /\ worker[w].pc \in {"check", "mark", "rename"} =>
          Variants(worker[w].job) \subseteq files \cup worker[w].todo
    /\ worker[w].pc = "commit" => Variants(worker[w].job) \subseteq files

\* A version that has not arrived has no jobs.
VersionInv(j) == version[j[1]] = "new" => job[j] = "none"

QueueInv ==
    /\ TypeOK
    /\ \A w \in Workers : WorkerInv(w)
    /\ \A j \in Jobs : VersionInv(j)
    /\ CompletedIsServed

-----------------------------------------------------------------------------
(* Jobs, rows and steps *)

\* A job's rows and files name their job; a face job has no files.
LEMMA RowsNameJobs ==
    ASSUME NEW j \in Jobs
    PROVE  /\ Rows(j) # {}
           /\ \A x \in Rows(j) : x[1] = j
           /\ \A x \in Variants(j) : x[1] = j
           /\ j[2] = "face_index" => Variants(j) = {}
           /\ j[2] # "face_index" => Rows(j) = Variants(j)
           /\ j[1] \in Versions
<1>1. j[1] \in Versions /\ j[2] \in TasksOf(j[1])
  BY DEF Jobs
<1>2. j[2] \in {"image_preview", "video_thumbnail", "video_preview", "face_index"}
  BY <1>1 DEF TasksOf
<1>3. CASE j[2] = "image_preview"
  <2>1. Variants(j) = {<<j, "viewer">>, <<j, "card">>}
    BY <1>3 DEF Variants
  <2>2. QED
    BY <1>1, <1>3, <2>1 DEF Rows
<1>4. CASE j[2] = "video_thumbnail"
  <2>1. Variants(j) = {<<j, "video_poster">>}
    BY <1>4 DEF Variants
  <2>2. QED
    BY <1>1, <1>4, <2>1 DEF Rows
<1>5. CASE j[2] = "video_preview"
  <2>1. Variants(j) = {<<j, "video_preview">>}
    BY <1>5 DEF Variants
  <2>2. QED
    BY <1>1, <1>5, <2>1 DEF Rows
<1>6. CASE j[2] = "face_index"
  BY <1>1, <1>6 DEF Rows, Variants
<1>7. QED
  BY <1>2, <1>3, <1>4, <1>5, <1>6

\* A tool's failure is one of the three classes.
LEMMA FailureType ==
    ASSUME NEW errors
    PROVE  Failures(errors) \subseteq FailureClasses
BY DEF Failures, ToolFailure, FailureClasses

\* A job has two or three steps; each may fail in the classes record_failure knows.
LEMMA StepsType ==
    ASSUME NEW j
    PROVE  /\ Len(StepsOf(j)) \in {2, 3}
           /\ \A i \in 1 .. Len(StepsOf(j)) : StepsOf(j)[i] \subseteq FailureClasses
<1>1. CopyFailures \subseteq FailureClasses
  BY DEF CopyFailures, FailureClasses
<1>2. ASSUME NEW errors
      PROVE  Failures(errors) \cup {"retryable"} \subseteq FailureClasses
  BY FailureType DEF FailureClasses
<1>3. ASSUME NEW a \in SUBSET FailureClasses, NEW b \in SUBSET FailureClasses,
             NEW c \in SUBSET FailureClasses
      PROVE  /\ Len(<<a, b, c>>) = 3 /\ Len(<<a, b>>) = 2
             /\ \A i \in 1 .. 3 : <<a, b, c>>[i] \subseteq FailureClasses
             /\ \A i \in 1 .. 2 : <<a, b>>[i] \subseteq FailureClasses
  OBVIOUS
<1> DEFINE raster == Failures(ThumbnailErrors \cup WebpErrors) \cup {"retryable"}
           frame == Failures(FrameErrors) \cup {"retryable"}
           webp == Failures(WebpErrors) \cup {"retryable"}
           video == Failures(TranscodeErrors) \cup {"retryable"}
           sample == Failures(ThumbnailErrors \cup FaceFrameErrors) \cup {"retryable"}
<1>4. /\ raster \in SUBSET FailureClasses /\ frame \in SUBSET FailureClasses
      /\ webp \in SUBSET FailureClasses /\ video \in SUBSET FailureClasses
      /\ sample \in SUBSET FailureClasses
  BY <1>2, Zenon
<1>5. /\ ImageSteps = <<CopyFailures, raster, raster>>
      /\ VideoSteps = <<CopyFailures, frame, webp>>
      /\ VideoPreviewSteps = <<CopyFailures, video>>
      /\ FaceSteps = <<CopyFailures, sample, FailureClasses>>
  BY DEF ImageSteps, VideoSteps, VideoPreviewSteps, FaceSteps, FailureClasses
<1> HIDE DEF raster, frame, webp, video, sample
<1>6. CASE StepsOf(j) = ImageSteps
  BY <1>1, <1>3, <1>4, <1>5, <1>6
<1>7. CASE StepsOf(j) = VideoSteps
  BY <1>1, <1>3, <1>4, <1>5, <1>7
<1>8. CASE StepsOf(j) = VideoPreviewSteps
  BY <1>1, <1>3, <1>4, <1>5, <1>8
<1>9. CASE StepsOf(j) = FaceSteps
  BY <1>1, <1>3, <1>4, <1>5, <1>9
<1>10. QED
  BY <1>6, <1>7, <1>8, <1>9 DEF StepsOf

-----------------------------------------------------------------------------
(* Workers *)

PreviewFiles == UNION {Variants(j) : j \in Jobs}

WorkerType ==
    [pc : Pcs, job : Jobs \cup {NULL}, token : 0..MaxAttempts, step : 0..3,
     todo : SUBSET PreviewFiles, why : FailureClasses \cup {""}, beats : BOOLEAN]

\* What the steps of one worker leave of all workers.
Workforce ==
    /\ worker \in [Workers -> WorkerType]
    /\ \A w \in Workers : WorkerInv(w)

\* A worker without a job.
LEMMA AtType ==
    ASSUME NEW pc \in Pcs
    PROVE  At(pc) \in WorkerType /\ At(pc).pc = pc
<1>1. 0 \in 0..MaxAttempts /\ 0 \in 0..3 /\ {} \in SUBSET PreviewFiles
  BY MediaAssumption
<1>2. QED
  BY <1>1, Zenon DEF At, WorkerType

\* The worker a step moves is the only one that changes; files only grow.
LEMMA WorkforceFrame ==
    ASSUME QueueInv, NEW w \in Workers, NEW t \in WorkerType, Becomes(w, t),
           files \subseteq files',
           t.pc \in Processing \cup {"fail"} => t.job \in Jobs,
           t.pc \in {"tool", "stage"} => t.step \in 1 .. Len(StepsOf(t.job)),
           t.pc \in {"check", "mark", "rename"} =>
              Variants(t.job) \subseteq files' \cup t.todo,
           t.pc = "commit" => Variants(t.job) \subseteq files'
    PROVE  Workforce'
<1>1. worker \in [Workers -> WorkerType]
  BY DEF QueueInv, TypeOK, WorkerType, PreviewFiles
<1>2. /\ worker' \in [Workers -> WorkerType]
      /\ worker'[w] = t
      /\ \A x \in Workers : x # w => worker'[x] = worker[x]
  BY <1>1 DEF Becomes
<1>3. WorkerInv(w)'
  BY <1>2 DEF WorkerInv
<1>4. ASSUME NEW x \in Workers, x # w
      PROVE  WorkerInv(x)'
  <2>1. worker'[x] = worker[x] /\ WorkerInv(x)
    BY <1>2, <1>4 DEF QueueInv
  <2>2. QED
    BY <2>1 DEF WorkerInv
<1>5. QED
  BY <1>2, <1>3, <1>4 DEF Workforce

\* A worker that goes back to waiting or idling.
LEMMA WorkforceAt ==
    ASSUME QueueInv, NEW w \in Workers, NEW pc \in {"wait", "idle"},
           Becomes(w, At(pc)), files' = files
    PROVE  Workforce'
<1>1. At(pc) \in WorkerType /\ At(pc).pc = pc
  BY AtType DEF Pcs
<1>2. QED
  BY <1>1, WorkforceFrame DEF Processing

\* A worker whose process_job failed.
LEMMA WorkforceFails ==
    ASSUME QueueInv, NEW w \in Workers, NEW class \in FailureClasses,
           Becomes(w, Failing(w, class)), files' = files,
           worker[w].pc \in Processing
    PROVE  Workforce'
<1>1. worker[w] \in WorkerType
  BY DEF QueueInv, TypeOK, WorkerType, PreviewFiles
<1> DEFINE t == Failing(w, class)
<1>2. t \in WorkerType /\ t.pc = "fail" /\ t.job = worker[w].job
  BY <1>1, Zenon DEF Failing, WorkerType, Pcs
<1> HIDE DEF t
<1>3. t.job \in Jobs
  BY <1>2 DEF QueueInv, WorkerInv
<1>4. Becomes(w, t)
  BY DEF t
<1>5. QED
  BY <1>2, <1>3, <1>4, WorkforceFrame

\* A worker that only moves on.
LEMMA WorkforceGoes ==
    ASSUME QueueInv, NEW w \in Workers, NEW pc \in Pcs, Goes(w, pc), files' = files,
           pc \in Processing \cup {"fail"} => worker[w].pc \in Processing,
           pc \in {"tool", "stage"} => worker[w].pc \in {"tool", "stage"},
           pc \in {"check", "mark", "rename"} => worker[w].pc \in {"check", "mark", "rename"},
           pc = "commit" => Variants(worker[w].job) \subseteq files
    PROVE  Workforce'
<1>1. worker[w] \in WorkerType
  BY DEF QueueInv, TypeOK, WorkerType, PreviewFiles
<1> DEFINE t == [worker[w] EXCEPT !.pc = pc]
<1>2. /\ t \in WorkerType /\ t.pc = pc /\ t.job = worker[w].job
      /\ t.step = worker[w].step /\ t.todo = worker[w].todo
  BY <1>1, Zenon DEF WorkerType
<1>3. Becomes(w, t)
  BY Zenon DEF Goes, Becomes
<1> HIDE DEF t
<1>4. WorkerInv(w)
  BY DEF QueueInv
<1>5. QED
  BY <1>2, <1>3, <1>4, WorkforceFrame DEF WorkerInv, Processing

\* Every step of a worker, and every fault that hits it.
LEMMA WorkerSteps ==
    ASSUME QueueInv, NEW w \in Workers,
           WorkerStep(w) \/ Heartbeat(w) \/ Crash(w) \/ PassFails(w)
    PROVE  Workforce'
<1> USE MediaAssumption
<1>t. worker[w] \in WorkerType /\ WorkerInv(w)
  BY DEF QueueInv, TypeOK, WorkerType, PreviewFiles
<1>1. CASE TryLock(w) \/ ClaimNone(w) \/ RecordFailure(w) \/ Crash(w) \/ PassFails(w)
  BY <1>1, WorkforceAt DEF TryLock, ClaimNone, RecordFailure, Crash, PassFails
<1>2. CASE CheckLock(w) \/ Backfill(w) \/ FailExhausted(w)
  <2>1. files' = files /\ \E pc \in {"backfill", "wait", "exhaust", "claim"} : Goes(w, pc)
    BY <1>2 DEF CheckLock, Backfill, FailExhausted
  <2>2. QED
    BY <2>1, WorkforceGoes DEF Pcs, Processing
<1>3. CASE ClaimOne(w)
  <2>1. PICK j \in Jobs :
           /\ Claimable(j)
           /\ Becomes(w, [At("tool") EXCEPT !.job = j, !.token = attempts[j] + 1,
                                            !.step = 1, !.beats = TRUE])
    BY <1>3 DEF ClaimOne
  <2> DEFINE n == attempts[j] + 1
             t == [At("tool") EXCEPT !.job = j, !.token = n, !.step = 1, !.beats = TRUE]
  <2>2. n \in 0..MaxAttempts /\ 1 \in 0..3
    <3>1. attempts[j] \in 0..MaxAttempts /\ attempts[j] < MaxAttempts
      BY <2>1 DEF Claimable, QueueInv, TypeOK
    <3>2. QED
      BY <3>1
  <2>3. At("tool") \in WorkerType
    BY AtType DEF Pcs, Processing
  <2> HIDE DEF n
  <2>4. t \in WorkerType /\ t.pc = "tool" /\ t.job = j /\ t.step = 1
    <3>1. At("tool").pc = "tool"
      BY AtType DEF Pcs, Processing
    <3>2. QED
      BY <2>2, <2>3, <3>1, Zenon DEF WorkerType
  <2>5. Becomes(w, t)
    BY <2>1 DEF n
  <2> HIDE DEF t
  <2>6. 1 \in 1 .. Len(StepsOf(j))
    BY StepsType
  <2>7. files' = files
    BY <1>3 DEF ClaimOne
  <2>8. QED
    BY <2>4, <2>5, <2>6, <2>7, WorkforceFrame
<1>4. CASE RunTool(w)
  <2>0. worker[w].pc = "tool" /\ files' = files
    BY <1>4 DEF RunTool
  <2>1. worker[w].job \in Jobs /\ worker[w].step \in 1 .. Len(StepsOf(worker[w].job))
    BY <1>t, <2>0 DEF WorkerInv, Processing
  <2>2. ASSUME NEW class \in StepsOf(worker[w].job)[worker[w].step],
               Becomes(w, Failing(w, class))
        PROVE  Workforce'
    <3>1. class \in FailureClasses
      BY <2>1, <2>2, StepsType
    <3>2. QED
      BY <2>0, <2>2, <3>1, WorkforceFails DEF Processing
  <2>3. ASSUME Becomes(w, StepDone(w))
        PROVE  Workforce'
    <3>1. CASE worker[w].step = Len(StepsOf(worker[w].job))
      <4> DEFINE j == worker[w].job
                 t == [worker[w] EXCEPT !.pc = "check", !.todo = Variants(j)]
      <4>1. Variants(j) \in SUBSET PreviewFiles
        BY <2>1 DEF PreviewFiles
      <4>2. /\ t \in WorkerType /\ t.pc = "check" /\ t.job = j /\ t.todo = Variants(j)
        BY <1>t, <4>1, Zenon DEF WorkerType, Pcs, Processing
      <4>3. Becomes(w, t)
        BY <2>3, <3>1 DEF StepDone
      <4> HIDE DEF t
      <4>4. QED
        BY <2>0, <2>1, <4>2, <4>3, WorkforceFrame
    <3>2. CASE worker[w].step # Len(StepsOf(worker[w].job))
      <4> DEFINE n == worker[w].step + 1
                 t == [worker[w] EXCEPT !.pc = "stage", !.step = n]
      <4>1. n \in 0..3 /\ n \in 1 .. Len(StepsOf(worker[w].job))
        <5>1. ASSUME NEW l \in {2, 3}, NEW s \in 1 .. l, s # l
              PROVE  s + 1 \in 0..3 /\ s + 1 \in 1 .. l
          BY <5>1
        <5>2. Len(StepsOf(worker[w].job)) \in {2, 3}
          BY StepsType
        <5>3. QED
          BY <2>1, <3>2, <5>1, <5>2
      <4>2. Becomes(w, t)
        BY <2>3, <3>2 DEF StepDone
      <4> HIDE DEF n
      <4>3. t \in WorkerType /\ t.pc = "stage" /\ t.job = worker[w].job /\ t.step = n
        BY <1>t, <4>1, Zenon DEF WorkerType, Pcs, Processing
      <4> HIDE DEF t
      <4>4. QED
        BY <2>0, <2>1, <4>1, <4>2, <4>3, WorkforceFrame
    <3>3. QED
      BY <3>1, <3>2
  <2>4. QED
    BY <1>4, <2>2, <2>3 DEF RunTool
<1>5. CASE StartStep(w)
  <2>1. worker[w].pc = "stage" /\ files' = files
        /\ (Goes(w, "tool") \/ Becomes(w, Failing(w, "retryable")))
    BY <1>5 DEF StartStep, SetStage
  <2>2. QED
    BY <2>1, WorkforceGoes, WorkforceFails DEF Pcs, Processing, FailureClasses
<1>6. CASE OwnsLease(w)
  <2>1. /\ worker[w].pc = "check" /\ files' = files
        /\ \/ worker[w].job[2] = "face_index" /\ Goes(w, "commit")
           \/ worker[w].job[2] # "face_index" /\ Goes(w, "mark")
           \/ Becomes(w, Failing(w, "retryable"))
    BY <1>6 DEF OwnsLease
  <2>2. worker[w].job \in Jobs
    BY <1>t, <2>1 DEF WorkerInv, Processing
  <2>3. worker[w].job[2] = "face_index" => Variants(worker[w].job) \subseteq files
    BY <2>2, RowsNameJobs
  <2>4. QED
    BY <2>1, <2>3, WorkforceGoes, WorkforceFails DEF Pcs, Processing, FailureClasses
<1>7. CASE MarkPublishing(w)
  <2>1. worker[w].pc = "mark" /\ files' = files
        /\ (Goes(w, "rename") \/ Becomes(w, Failing(w, "retryable")))
    BY <1>7 DEF MarkPublishing, SetStage
  <2>2. QED
    BY <2>1, WorkforceGoes, WorkforceFails DEF Pcs, Processing, FailureClasses
<1>8. CASE PublishDerivative(w)
  <2>1. worker[w].pc = "rename"
    BY <1>8 DEF PublishDerivative
  <2>2. CASE Becomes(w, Failing(w, "retryable")) /\ UNCHANGED files
    BY <2>1, <2>2, WorkforceFails DEF Processing, FailureClasses
  <2>3. ASSUME NEW x \in worker[w].todo, files' = files \cup {x},
               Becomes(w, [worker[w] EXCEPT !.todo = @ \ {x},
                             !.pc = IF worker[w].todo = {x} THEN "commit" ELSE "check"])
        PROVE  Workforce'
    <3> DEFINE pc == IF worker[w].todo = {x} THEN "commit" ELSE "check"
               todo == worker[w].todo \ {x}
               t == [worker[w] EXCEPT !.todo = todo, !.pc = pc]
    <3>1. /\ worker[w].job \in Jobs
          /\ Variants(worker[w].job) \subseteq files \cup worker[w].todo
      BY <1>t, <2>1 DEF WorkerInv, Processing
    <3>2. todo \in SUBSET PreviewFiles /\ pc \in Pcs
      BY <1>t DEF WorkerType, Pcs, Processing
    <3>3. Becomes(w, t)
      BY <2>3
    <3>4. /\ Variants(worker[w].job) \subseteq files' \cup todo
          /\ pc = "commit" => Variants(worker[w].job) \subseteq files'
          /\ pc \in {"commit", "check"}
      BY <2>3, <3>1
    <3> HIDE DEF pc, todo
    <3>5. t \in WorkerType /\ t.pc = pc /\ t.job = worker[w].job /\ t.todo = todo
      BY <1>t, <3>2, Zenon DEF WorkerType
    <3> HIDE DEF t
    <3>6. QED
      BY <2>3, <3>1, <3>3, <3>4, <3>5, WorkforceFrame
  <2>4. QED
    BY <1>8, <2>2, <2>3 DEF PublishDerivative
<1>9. CASE Complete(w)
  <2>1. worker[w].pc = "commit" /\ files' = files
        /\ (Becomes(w, At("idle")) \/ Becomes(w, Failing(w, "retryable")))
    BY <1>9 DEF Complete
  <2>2. QED
    BY <2>1, WorkforceAt, WorkforceFails DEF Processing, FailureClasses
<1>10. CASE Heartbeat(w)
  <2>1. files' = files /\ worker[w].pc \in Processing
        /\ (UNCHANGED worker \/ Becomes(w, [worker[w] EXCEPT !.beats = FALSE]))
    BY <1>10 DEF Heartbeat
  <2>2. CASE UNCHANGED worker
    BY <2>1, <2>2 DEF QueueInv, TypeOK, Workforce, WorkerType, PreviewFiles, WorkerInv
  <2>3. CASE Becomes(w, [worker[w] EXCEPT !.beats = FALSE])
    <3> DEFINE t == [worker[w] EXCEPT !.beats = FALSE]
    <3>1. /\ t \in WorkerType /\ t.pc = worker[w].pc /\ t.job = worker[w].job
          /\ t.step = worker[w].step /\ t.todo = worker[w].todo
      BY <1>t, Zenon DEF WorkerType
    <3>2. Becomes(w, t)
      BY <2>3
    <3> HIDE DEF t
    <3>3. QED
      BY <1>t, <2>1, <3>1, <3>2, WorkforceFrame DEF WorkerInv
  <2>4. QED
    BY <2>1, <2>2, <2>3
<1>11. QED
  BY <1>1, <1>2, <1>3, <1>4, <1>5, <1>6, <1>7, <1>8, <1>9, <1>10 DEF WorkerStep

-----------------------------------------------------------------------------
(* Tables and files *)

Tables ==
    /\ version \in [Versions -> {"new", "live", "retired", "gone"}]
    /\ job \in [Jobs -> JobStates]
    /\ attempts \in [Jobs -> 0..MaxAttempts]
    /\ lease \in [Jobs -> {"none", "live", "expired"}]
    /\ \A j \in Jobs : job[j] = "running" <=> lease[j] # "none"
    /\ rows \subseteq UNION {Rows(j) : j \in Jobs}
    /\ files \subseteq PreviewFiles
    /\ \A j \in Jobs : VersionInv(j)
    /\ CompletedIsServed

\* The invariant speaks of the tables.
LEMMA InvTables == QueueInv => Tables
BY DEF QueueInv, TypeOK, Tables, PreviewFiles

\* A step that renews or lets expire what leases there are, or publishes files.
LEMMA TablesFrame ==
    ASSUME Tables, UNCHANGED <<version, job, attempts, rows>>,
           lease' \in [Jobs -> {"none", "live", "expired"}],
           \A j \in Jobs : lease'[j] = "none" <=> lease[j] = "none",
           files \subseteq files', files' \subseteq PreviewFiles
    PROVE  Tables'
BY DEF Tables, VersionInv, CompletedIsServed

\* A step that moves jobs and completes none.
LEMMA JobsFrame ==
    ASSUME Tables, UNCHANGED <<rows, files>>,
           version' \in [Versions -> {"new", "live", "retired", "gone"}],
           job' \in [Jobs -> JobStates],
           attempts' \in [Jobs -> 0..MaxAttempts],
           lease' \in [Jobs -> {"none", "live", "expired"}],
           \A j \in Jobs : job'[j] = "running" <=> lease'[j] # "none",
           \A j \in Jobs : version'[j[1]] = "new" => job'[j] = "none",
           \A j \in Jobs : job'[j] = "completed" => job[j] = "completed"
    PROVE  Tables'
BY DEF Tables, VersionInv, CompletedIsServed

\* A worker that owns its job finds it running.
LEMMA OwnedJob ==
    ASSUME QueueInv, NEW w \in Workers, worker[w].pc \in Processing \cup {"fail"}
    PROVE  /\ worker[w].job \in Jobs
           /\ Owns(w) => /\ job[worker[w].job] = "running"
                         /\ lease[worker[w].job] # "none"
                         /\ attempts[worker[w].job] = worker[w].token
BY DEF QueueInv, WorkerInv, TypeOK, Owns

\* The transaction that completes a job writes the rows of files that are there.
LEMMA CompleteTables ==
    ASSUME QueueInv, NEW w \in Workers, Complete(w), Owns(w)
    PROVE  Tables'
<1>1. worker[w].pc = "commit"
  BY DEF Complete
<1>2. worker[w].job \in Jobs /\ Variants(worker[w].job) \subseteq files
      /\ job[worker[w].job] = "running"
  BY <1>1, OwnedJob DEF QueueInv, WorkerInv, Processing
<1>j. PICK j \in Jobs : j = worker[w].job
  BY <1>2
<1>3. /\ job' = [job EXCEPT ![j] = "completed"]
      /\ lease' = [lease EXCEPT ![j] = "none"]
      /\ rows' = rows \cup Rows(j)
      /\ UNCHANGED <<version, attempts, files>>
  BY <1>j DEF Complete
<1>t. Tables
  BY InvTables
<1>4. /\ job' \in [Jobs -> JobStates] /\ lease' \in [Jobs -> {"none", "live", "expired"}]
      /\ job'[j] = "completed" /\ lease'[j] = "none"
      /\ \A k \in Jobs : k # j => job'[k] = job[k] /\ lease'[k] = lease[k]
  BY <1>3, <1>t DEF Tables, JobStates
<1>5. rows' \subseteq UNION {Rows(k) : k \in Jobs}
  BY <1>3, <1>t DEF Tables
<1>6. \A k \in Jobs : VersionInv(k)'
  <2>1. version[j[1]] # "new"
    BY <1>2, <1>j, <1>t DEF Tables, VersionInv
  <2>2. QED
    BY <1>3, <1>4, <1>t, <2>1 DEF Tables, VersionInv
<1>7. ASSUME NEW k \in Jobs, job'[k] = "completed"
      PROVE  Rows(k) \subseteq rows'
  BY <1>3, <1>4, <1>7, <1>t DEF Tables, CompletedIsServed
<1>8. ASSUME NEW k \in Jobs, NEW x \in Variants(k), x \in rows'
      PROVE  x \in files'
  <2>1. CASE x \in rows
    BY <1>3, <1>8, <1>t, <2>1 DEF Tables, CompletedIsServed
  <2>2. CASE x \in Rows(j)
    <3>1. k = j
      BY <1>8, <2>2, RowsNameJobs
    <3>2. x \in Variants(j)
      BY <1>8, <3>1
    <3>3. QED
      BY <1>2, <1>3, <1>j, <3>2
  <2>3. QED
    BY <1>3, <1>8, <2>1, <2>2
<1>9. QED
  BY <1>3, <1>4, <1>5, <1>6, <1>7, <1>8, <1>t DEF Tables, CompletedIsServed

\* Steps of the workers.
LEMMA WorkerTables ==
    ASSUME QueueInv, NEW w \in Workers,
           WorkerStep(w) \/ Heartbeat(w) \/ Crash(w) \/ PassFails(w)
    PROVE  Tables'
<1> USE MediaAssumption
<1>t. Tables
  BY InvTables
<1>1. CASE UNCHANGED <<version, queue, rows, files>>
  BY <1>1, <1>t, TablesFrame DEF queue, Tables
<1>2. ASSUME UNCHANGED <<version, job, attempts, rows, files>>, Owns(w),
             worker[w].pc \in Processing,
             lease' = [lease EXCEPT ![worker[w].job] = "live"]
      PROVE  Tables'
  <2>1. worker[w].job \in Jobs /\ lease[worker[w].job] # "none"
    BY <1>2, OwnedJob
  <2>2. /\ lease' \in [Jobs -> {"none", "live", "expired"}]
        /\ \A j \in Jobs : lease'[j] = "none" <=> lease[j] = "none"
    BY <1>2, <1>t, <2>1 DEF Tables
  <2>3. QED
    BY <1>2, <1>t, <2>2, TablesFrame DEF Tables
<1>3. CASE Backfill(w)
  <2>1. PICK js \in SUBSET Missing :
           job' = [j \in Jobs |-> IF j \in js THEN "queued" ELSE job[j]]
    BY <1>3 DEF Backfill
  <2>2. UNCHANGED <<version, attempts, lease, rows, files>>
    BY <1>3 DEF Backfill
  <2>3. \A j \in js : j \in Jobs /\ version[j[1]] = "live" /\ job[j] = "none"
    BY DEF Missing
  <2>4. /\ job' \in [Jobs -> JobStates]
        /\ \A j \in Jobs : job'[j] = job[j] \/ (j \in js /\ job'[j] = "queued")
    BY <1>t, <2>1 DEF Tables, JobStates
  <2>5. QED
    BY <1>t, <2>2, <2>3, <2>4, JobsFrame DEF Tables, VersionInv
<1>4. CASE FailExhausted(w)
  <2>1. /\ job' \in [Jobs -> JobStates] /\ lease' \in [Jobs -> {"none", "live", "expired"}]
        /\ \A j \in Jobs :
              \/ job'[j] = job[j] /\ lease'[j] = lease[j]
              \/ job[j] = "running" /\ job'[j] = "failed" /\ lease'[j] = "none"
    BY <1>4, <1>t DEF FailExhausted, Exhausted, Tables, JobStates
  <2>2. UNCHANGED <<version, attempts, rows, files>>
    BY <1>4 DEF FailExhausted
  <2>3. QED
    BY <1>t, <2>1, <2>2, JobsFrame DEF Tables, VersionInv
<1>5. CASE ClaimOne(w)
  <2>1. PICK j \in Jobs :
           /\ Claimable(j)
           /\ job' = [job EXCEPT ![j] = "running"]
           /\ attempts' = [attempts EXCEPT ![j] = @ + 1]
           /\ lease' = [lease EXCEPT ![j] = "live"]
    BY <1>5 DEF ClaimOne
  <2>2. UNCHANGED <<version, rows, files>>
    BY <1>5 DEF ClaimOne
  <2>3. attempts[j] \in 0..MaxAttempts /\ attempts[j] < MaxAttempts /\ job[j] # "none"
    BY <1>t, <2>1 DEF Claimable, Tables
  <2>4. attempts[j] + 1 \in 0..MaxAttempts
    BY <2>3
  <2>5. /\ job' \in [Jobs -> JobStates] /\ lease' \in [Jobs -> {"none", "live", "expired"}]
        /\ attempts' \in [Jobs -> 0..MaxAttempts]
        /\ job'[j] = "running" /\ lease'[j] = "live"
        /\ \A k \in Jobs : k # j => job'[k] = job[k] /\ lease'[k] = lease[k]
    BY <1>t, <2>1, <2>4 DEF Tables, JobStates
  <2>6. QED
    BY <1>t, <2>2, <2>3, <2>5, JobsFrame DEF Tables, VersionInv
<1>6. CASE RecordFailure(w) /\ Owns(w)
  <2>1. worker[w].job \in Jobs /\ job[worker[w].job] = "running"
    BY <1>6, OwnedJob DEF RecordFailure
  <2>j. PICK j \in Jobs : j = worker[w].job
    BY <2>1
  <2>2. /\ job' = [job EXCEPT ![j] = FailureState(w)]
        /\ lease' = [lease EXCEPT ![j] = "none"]
        /\ UNCHANGED <<version, attempts, rows, files>>
    BY <1>6, <2>j DEF RecordFailure
  <2>3. FailureState(w) \in {"unsupported", "failed", "retry_wait"}
    BY DEF FailureState
  <2>4. /\ job' \in [Jobs -> JobStates] /\ lease' \in [Jobs -> {"none", "live", "expired"}]
        /\ job'[j] \in {"unsupported", "failed", "retry_wait"} /\ lease'[j] = "none"
        /\ \A k \in Jobs : k # j => job'[k] = job[k] /\ lease'[k] = lease[k]
    BY <1>t, <2>2, <2>3 DEF Tables, JobStates
  <2>5. QED
    BY <1>t, <2>1, <2>2, <2>4, <2>j, JobsFrame DEF Tables, VersionInv
<1>7. CASE Complete(w) /\ Owns(w)
  BY <1>7, CompleteTables
<1>8. CASE PublishDerivative(w) /\ files' # files
  <2>1. worker[w].pc = "rename"
    BY <1>8 DEF PublishDerivative
  <2>2. worker[w].todo \subseteq PreviewFiles
    BY DEF QueueInv, TypeOK, PreviewFiles
  <2>3. files \subseteq files' /\ files' \subseteq files \cup worker[w].todo
        /\ UNCHANGED <<version, queue, rows>>
    BY <1>8 DEF PublishDerivative
  <2>4. QED
    BY <1>t, <2>2, <2>3, TablesFrame DEF Tables, queue
<1>9. CASE Heartbeat(w)
  BY <1>1, <1>2, <1>9 DEF Heartbeat, queue
<1>10. CASE StartStep(w) \/ MarkPublishing(w)
  BY <1>1, <1>2, <1>10 DEF StartStep, MarkPublishing, SetStage, queue, Processing
<1>11. CASE (RecordFailure(w) \/ Complete(w)) /\ ~Owns(w)
  BY <1>1, <1>11 DEF RecordFailure, Complete, queue
<1>12. CASE \/ TryLock(w) \/ CheckLock(w) \/ ClaimNone(w) \/ RunTool(w) \/ OwnsLease(w)
            \/ Crash(w) \/ PassFails(w)
  BY <1>1, <1>12 DEF TryLock, CheckLock, ClaimNone, RunTool, OwnsLease, Crash, PassFails
<1>13. CASE PublishDerivative(w) /\ files' = files
  BY <1>1, <1>13 DEF PublishDerivative
<1>14. QED
  BY <1>3, <1>4, <1>5, <1>6, <1>7, <1>8, <1>9, <1>10, <1>11, <1>12, <1>13
     DEF WorkerStep

\* Purging a version takes its jobs with their rows, and no others.
LEMMA PurgeTables ==
    ASSUME QueueInv, NEW v \in Versions, Purge(v)
    PROVE  Tables'
<1> USE MediaAssumption
<1>t. Tables
  BY InvTables
<1>1. /\ version' = [version EXCEPT ![v] = "gone"]
      /\ job' = [j \in Jobs |-> IF j[1] = v THEN "none" ELSE job[j]]
      /\ attempts' = [j \in Jobs |-> IF j[1] = v THEN 0 ELSE attempts[j]]
      /\ lease' = [j \in Jobs |-> IF j[1] = v THEN "none" ELSE lease[j]]
      /\ rows' = {x \in rows : x[1][1] # v} /\ files' = files
  BY DEF Purge, SetVersion
<1>2. /\ version' \in [Versions -> {"new", "live", "retired", "gone"}]
      /\ \A x \in Versions : version'[x] = "new" => version[x] = "new"
  BY <1>1, <1>t DEF Tables
<1>3. /\ job' \in [Jobs -> JobStates]
      /\ lease' \in [Jobs -> {"none", "live", "expired"}]
      /\ \A j \in Jobs :
            \/ job'[j] = "none" /\ lease'[j] = "none"
            \/ j[1] # v /\ job'[j] = job[j] /\ lease'[j] = lease[j]
  BY <1>1, <1>t DEF Tables, JobStates
<1>4. attempts' \in [Jobs -> 0..MaxAttempts]
  <2>1. 0 \in 0..MaxAttempts
    OBVIOUS
  <2>2. QED
    BY <1>1, <1>t, <2>1 DEF Tables
<1>5. rows' \subseteq rows /\ \A j \in Jobs : j[1] # v /\ Rows(j) \subseteq rows => Rows(j) \subseteq rows'
  BY <1>1, RowsNameJobs
<1>6. CompletedIsServed'
  BY <1>1, <1>3, <1>5, <1>t DEF Tables, CompletedIsServed
<1>7. \A j \in Jobs : VersionInv(j)'
  BY <1>2, <1>3, <1>t, RowsNameJobs DEF Tables, VersionInv
<1>8. QED
  BY <1>1, <1>2, <1>3, <1>4, <1>5, <1>6, <1>7, <1>t DEF Tables

\* Steps of the clock, of the drive and of the owner.
LEMMA OtherTables ==
    ASSUME QueueInv, Next, ~ \E w \in Workers :
              WorkerStep(w) \/ Heartbeat(w) \/ Crash(w) \/ PassFails(w)
    PROVE  Tables'
<1> USE MediaAssumption
<1>t. Tables
  BY InvTables
<1>1. ASSUME NEW j \in Jobs, LeaseExpires(j)
      PROVE  Tables'
  <2>1. /\ lease' \in [Jobs -> {"none", "live", "expired"}]
        /\ \A k \in Jobs : lease'[k] = "none" <=> lease[k] = "none"
    BY <1>1, <1>t DEF LeaseExpires, Tables
  <2>2. QED
    BY <1>1, <1>t, <2>1, TablesFrame DEF LeaseExpires, Tables
<1>2. CASE LoseLock \/ \E value \in BOOLEAN : SetPause(value)
  BY <1>2, <1>t, TablesFrame DEF LoseLock, SetPause, queue, Tables
<1>3. ASSUME NEW v \in Versions, NEW js \in SUBSET JobsOf(v), Arrive(v, js)
      PROVE  Tables'
  <2>1. /\ version[v] = "new" /\ version' = [version EXCEPT ![v] = "live"]
        /\ job' = [j \in Jobs |-> IF j \in js THEN "queued" ELSE job[j]]
        /\ UNCHANGED <<attempts, lease, rows, files>>
    BY <1>3 DEF Arrive, SetVersion
  <2>2. /\ version' \in [Versions -> {"new", "live", "retired", "gone"}]
        /\ version'[v] = "live" /\ \A x \in Versions : x # v => version'[x] = version[x]
    BY <1>t, <2>1 DEF Tables
  <2>3. \A j \in js : j \in Jobs /\ j[1] = v /\ job[j] = "none"
    BY <1>t, <2>1 DEF JobsOf, Tables, VersionInv
  <2>4. /\ job' \in [Jobs -> JobStates]
        /\ \A j \in Jobs : job'[j] = job[j] \/ (j \in js /\ job'[j] = "queued")
    BY <1>t, <2>1 DEF Tables, JobStates
  <2>5. \A j \in Jobs : version'[j[1]] = "new" => job'[j] = "none"
    BY <1>t, <2>2, <2>3, <2>4, RowsNameJobs DEF Tables, VersionInv
  <2>6. QED
    BY <1>t, <2>1, <2>2, <2>3, <2>4, <2>5, JobsFrame DEF Tables
<1>4. ASSUME NEW v \in Versions, Retire(v) \/ Restore(v)
      PROVE  Tables'
  <2>1. /\ version' \in [Versions -> {"new", "live", "retired", "gone"}]
        /\ \A x \in Versions : version'[x] = "new" => version[x] = "new"
        /\ UNCHANGED <<job, attempts, lease, rows, files>>
    BY <1>4, <1>t DEF Retire, Restore, SetVersion, queue, Tables
  <2>2. QED
    BY <1>t, <2>1, JobsFrame, RowsNameJobs DEF Tables, VersionInv
<1>5. ASSUME NEW js \in SUBSET Jobs, RetryFailed(js)
      PROVE  Tables'
  <2>1. /\ \A j \in js : job[j] = "failed"
        /\ job' = [j \in Jobs |-> IF j \in js THEN "queued" ELSE job[j]]
        /\ attempts' = [j \in Jobs |-> IF j \in js THEN 0 ELSE attempts[j]]
        /\ UNCHANGED <<version, lease, rows, files>>
    BY <1>5 DEF RetryFailed
  <2>2. /\ job' \in [Jobs -> JobStates]
        /\ \A j \in Jobs : job'[j] = job[j] \/ (job[j] = "failed" /\ job'[j] = "queued")
    BY <1>t, <2>1 DEF Tables, JobStates
  <2>3. attempts' \in [Jobs -> 0..MaxAttempts]
    <3>1. 0 \in 0..MaxAttempts
      OBVIOUS
    <3>2. QED
      BY <1>t, <2>1, <3>1 DEF Tables
  <2>4. QED
    BY <1>t, <2>1, <2>2, <2>3, JobsFrame DEF Tables, VersionInv
<1>6. \A js \in {{j} : j \in Jobs} \cup {{j \in Jobs : job[j] = "failed"}} : js \in SUBSET Jobs
  OBVIOUS
<1>7. QED
  BY <1>1, <1>2, <1>3, <1>4, <1>5, <1>6, PurgeTables DEF Next

-----------------------------------------------------------------------------
(* The invariant *)

\* The owner's switch, the advisory lock and the two bounds.
Controls ==
    /\ paused \in BOOLEAN
    /\ lock \in Workers \cup {NULL}
    /\ faults \in 0..MaxFaults
    /\ retries \in 0..MaxRetries

\* The invariant is what the tables, the workers and the controls say.
LEMMA InvParts == QueueInv <=> Tables /\ Workforce /\ Controls
BY DEF QueueInv, TypeOK, Tables, Workforce, Controls, WorkerType, PreviewFiles

\* Every step keeps the controls in their types.
LEMMA ControlSteps ==
    ASSUME QueueInv, Next
    PROVE  Controls'
<1> USE MediaAssumption
<1>c. Controls
  BY InvParts
<1>1. ASSUME NEW w \in Workers, WorkerStep(w) \/ Heartbeat(w)
      PROVE  Controls'
  <2>1. UNCHANGED <<paused, faults, retries>> /\ lock' \in {lock, w}
    BY <1>1 DEF WorkerStep, Heartbeat, TryLock, CheckLock, Backfill, FailExhausted,
          ClaimOne, ClaimNone, RunTool, StartStep, SetStage, OwnsLease, MarkPublishing,
          PublishDerivative, Complete, RecordFailure
  <2>2. QED
    BY <1>c, <2>1 DEF Controls
<1>2. ASSUME NEW w \in Workers, Crash(w) \/ PassFails(w)
      PROVE  Controls'
  <2>1. UNCHANGED <<paused, retries>> /\ lock' \in {lock, NULL}
        /\ faults < MaxFaults /\ faults' = faults + 1
    BY <1>2 DEF Crash, PassFails
  <2>2. faults' \in 0..MaxFaults
    BY <1>c, <2>1 DEF Controls
  <2>3. QED
    BY <1>c, <2>1, <2>2 DEF Controls
<1>3. CASE LoseLock
  <2>1. faults' \in 0..MaxFaults
    BY <1>3, <1>c DEF LoseLock, Controls
  <2>2. QED
    BY <1>3, <1>c, <2>1 DEF LoseLock, Controls
<1>4. ASSUME NEW js, RetryFailed(js)
      PROVE  Controls'
  <2>1. retries' \in 0..MaxRetries
    BY <1>4, <1>c DEF RetryFailed, Controls
  <2>2. QED
    BY <1>4, <1>c, <2>1 DEF RetryFailed, Controls
<1>5. ASSUME NEW value \in BOOLEAN, SetPause(value)
      PROVE  Controls'
  BY <1>5, <1>c DEF SetPause, Controls
<1>6. ASSUME UNCHANGED <<paused, lock, faults, retries>>
      PROVE  Controls'
  BY <1>6, <1>c DEF Controls
<1>7. ASSUME NEW j, LeaseExpires(j)
      PROVE  Controls'
  BY <1>6, <1>7 DEF LeaseExpires
<1>8. ASSUME NEW v, NEW js, Arrive(v, js) \/ Retire(v) \/ Restore(v) \/ Purge(v)
      PROVE  Controls'
  BY <1>6, <1>8 DEF Arrive, Retire, Restore, Purge
<1>9. QED
  BY <1>1, <1>2, <1>3, <1>4, <1>5, <1>7, <1>8 DEF Next

\* The steps of no worker leave the workers and the files alone.
LEMMA WorkersFrame ==
    ASSUME QueueInv, UNCHANGED <<worker, files>>
    PROVE  Workforce'
BY InvParts DEF Workforce, WorkerInv

\* At first nothing is there and every worker waits for the lock.
LEMMA InitInv == Init => QueueInv
<1> USE MediaAssumption
<1> SUFFICES ASSUME Init
             PROVE  QueueInv
  OBVIOUS
<1>1. 0 \in 0..MaxAttempts /\ 0 \in 0..MaxFaults /\ 0 \in 0..MaxRetries
  OBVIOUS
<1>2. Tables
  BY <1>1 DEF Init, Tables, VersionInv, CompletedIsServed, JobStates, PreviewFiles
<1>3. Workforce
  <2>1. At("wait") \in WorkerType /\ At("wait").pc = "wait"
    BY AtType DEF Pcs
  <2>2. /\ worker \in [Workers -> WorkerType]
        /\ \A w \in Workers : worker[w].pc = "wait"
    BY <2>1 DEF Init
  <2>3. QED
    BY <2>2 DEF Workforce, WorkerInv, Processing
<1>4. Controls
  BY <1>1 DEF Init, Controls
<1>5. QED
  BY <1>2, <1>3, <1>4, InvParts

\* Every step keeps the invariant.
LEMMA StepInv == QueueInv /\ [Next]_vars => QueueInv'
<1> SUFFICES ASSUME QueueInv, [Next]_vars
             PROVE  QueueInv'
  OBVIOUS
<1>i. Tables /\ Workforce /\ Controls
  BY InvParts
<1>1. CASE UNCHANGED vars
  BY <1>1 DEF QueueInv, TypeOK, WorkerInv, VersionInv, CompletedIsServed, vars
<1>2. ASSUME NEW w \in Workers, Next,
             WorkerStep(w) \/ Heartbeat(w) \/ Crash(w) \/ PassFails(w)
      PROVE  Tables' /\ Workforce' /\ Controls'
  BY <1>2, WorkerTables, WorkerSteps, ControlSteps
<1>3. ASSUME Next, ~ \E w \in Workers :
                WorkerStep(w) \/ Heartbeat(w) \/ Crash(w) \/ PassFails(w)
      PROVE  Tables' /\ Workforce' /\ Controls'
  <2>1. UNCHANGED <<worker, files>>
    BY <1>3 DEF Next, LeaseExpires, LoseLock, Arrive, Retire, Restore, Purge, SetPause,
          RetryFailed
  <2>2. QED
    BY <1>3, <2>1, OtherTables, WorkersFrame, ControlSteps
<1>4. (Tables /\ Workforce /\ Controls)' => QueueInv'
  BY InvParts, PTL
<1>5. QED
  BY <1>1, <1>2, <1>3, <1>4

\* The invariant holds for any number of versions, workers, attempts and faults.
THEOREM QueueInvariant == Spec => []QueueInv
BY InitInv, StepInv, PTL DEF Spec

\* The tables and the workers of media_indexer.rs keep their types; a job of
\* media_index_jobs has a lease exactly while it is running.
THEOREM MediaTypes == Spec => []TypeOK
<1>1. QueueInv => TypeOK
  BY DEF QueueInv
<1>2. QED
  BY <1>1, QueueInvariant, PTL

\* A completed job has all its rows and every row of media_derivatives its preview
\* file, with any number of workers at the same jobs.
THEOREM PreviewsAreServed == Spec => []CompletedIsServed
<1>1. QueueInv => CompletedIsServed
  BY DEF QueueInv
<1>2. QED
  BY <1>1, QueueInvariant, PTL

-----------------------------------------------------------------------------
(* The refinement of LeaseQueue *)

\* The mapping's status and results.
AbstractStatus == [j \in Jobs |-> Status(j)]
AbstractResults == {j \in Jobs : Rows(j) \cap rows # {}}

\* A job whose row does not change has the status it had; the others, the one of
\* their new state.
LEMMA StatusSteps ==
    ASSUME NEW j \in Jobs
    PROVE  /\ job'[j] = job[j] => Status(j)' = Status(j)
           /\ job'[j] \in {"queued", "retry_wait"} => Status(j)' = "waiting"
           /\ job'[j] = "completed" => Status(j)' = "done"
           /\ job'[j] \in {"none", "running", "unsupported", "failed"} =>
                 Status(j)' = job'[j]
BY DEF Status

\* The same of the state the step starts from.
LEMMA StatusNow ==
    ASSUME NEW j \in Jobs
    PROVE  /\ job[j] \in {"queued", "retry_wait"} => Status(j) = "waiting"
           /\ job[j] \in {"none", "running", "unsupported", "failed"} => Status(j) = job[j]
BY DEF Status

\* A step that leaves jobs, attempts and rows alone is none of the queue.
LEMMA AbstractStutter ==
    ASSUME UNCHANGED <<job, attempts, rows>>
    PROVE  UNCHANGED Abstract!vars
BY DEF Abstract!vars, Status

\* New jobs, from backfill_batch or from an arriving version.
LEMMA RefinesEnqueue ==
    ASSUME NEW js \in SUBSET Jobs, \A j \in js : job[j] = "none",
           job' = [j \in Jobs |-> IF j \in js THEN "queued" ELSE job[j]],
           UNCHANGED <<attempts, rows>>
    PROVE  Abstract!Enqueue(js)
<1>1. \A j \in js : Status(j) = "none"
  BY StatusNow
<1>2. \A j \in Jobs : Status(j)' = IF j \in js THEN "waiting" ELSE Status(j)
  BY StatusSteps
<1>3. QED
  BY <1>1, <1>2 DEF Abstract!Enqueue

\* Running jobs that end without a result.
LEMMA RefinesBury ==
    ASSUME NEW js \in SUBSET Jobs, NEW end \in {"failed", "unsupported"},
           \A j \in js : job[j] = "running",
           \A j \in Jobs : job'[j] = IF j \in js THEN end ELSE job[j],
           UNCHANGED <<attempts, rows>>
    PROVE  Abstract!Bury(js, end)
<1>1. \A j \in js : Status(j) = "running"
  BY StatusNow
<1>2. \A j \in Jobs : Status(j)' = IF j \in js THEN end ELSE Status(j)
  BY StatusSteps
<1>3. QED
  BY <1>1, <1>2 DEF Abstract!Bury

\* claim_one takes one job that waits or whose lease ran out.
LEMMA RefinesTake ==
    ASSUME QueueInv, NEW w \in Workers, ClaimOne(w)
    PROVE  \E j \in Jobs : Abstract!Take(j)
<1>1. PICK j \in Jobs :
         /\ Claimable(j)
         /\ job' = [job EXCEPT ![j] = "running"]
         /\ attempts' = [attempts EXCEPT ![j] = @ + 1]
  BY DEF ClaimOne
<1>2. rows' = rows /\ job \in [Jobs -> JobStates]
  BY DEF ClaimOne, QueueInv, TypeOK
<1>3. Status(j) \in {"waiting", "running"} /\ attempts[j] < MaxAttempts
  BY <1>1, StatusNow DEF Claimable
<1>4. \A k \in Jobs : Status(k)' = IF k = j THEN "running" ELSE Status(k)
  BY <1>1, <1>2, StatusSteps
<1>5. Abstract!Take(j)
  BY <1>1, <1>2, <1>3, <1>4 DEF Abstract!Take
<1>6. QED
  BY <1>5

\* The transaction of publish_and_complete makes the job's rows visible and the job
\* completed, and it does so for a job that is running.
LEMMA RefinesFinish ==
    ASSUME QueueInv, NEW w \in Workers, Complete(w), Owns(w)
    PROVE  \E j \in Jobs : Abstract!Finish(j)
<1>1. worker[w].job \in Jobs /\ job[worker[w].job] = "running"
  BY OwnedJob DEF Complete, Processing
<1>j. PICK j \in Jobs : j = worker[w].job
  BY <1>1
<1>2. /\ job' = [job EXCEPT ![j] = "completed"] /\ rows' = rows \cup Rows(j)
      /\ attempts' = attempts /\ job \in [Jobs -> JobStates]
  BY <1>j DEF Complete, QueueInv, TypeOK
<1>3. Status(j) = "running"
  BY <1>1, <1>j, StatusNow
<1>4. \A k \in Jobs : Status(k)' = IF k = j THEN "done" ELSE Status(k)
  BY <1>2, StatusSteps
<1>5. \A k \in Jobs : Rows(k) \cap rows' # {} <=> (Rows(k) \cap rows # {} \/ k = j)
  BY <1>2, RowsNameJobs
<1>6. AbstractResults' = AbstractResults \cup {j}
  BY <1>5 DEF AbstractResults
<1>7. Abstract!Finish(j)
  BY <1>2, <1>3, <1>4, <1>6 DEF Abstract!Finish, AbstractResults
<1>8. QED
  BY <1>7

\* record_failure gives the job back while it has attempts left and buries it
\* otherwise.
LEMMA RefinesFailure ==
    ASSUME QueueInv, NEW w \in Workers, RecordFailure(w), Owns(w)
    PROVE  Abstract!Next
<1>1. worker[w].job \in Jobs /\ job[worker[w].job] = "running"
      /\ attempts[worker[w].job] = worker[w].token
  BY OwnedJob DEF RecordFailure
<1>j. PICK j \in Jobs : j = worker[w].job
  BY <1>1
<1>e. PICK end : end = FailureState(w)
  OBVIOUS
<1>2. /\ job' = [job EXCEPT ![j] = end] /\ rows' = rows
      /\ attempts' = attempts /\ job \in [Jobs -> JobStates]
  BY <1>e, <1>j DEF RecordFailure, QueueInv, TypeOK
<1>3. CASE end \in {"failed", "unsupported"}
  <2>1. Abstract!Bury({j}, end)
    BY <1>1, <1>2, <1>3, <1>j, RefinesBury
  <2>2. QED
    BY <1>3, <2>1 DEF Abstract!Next
<1>4. CASE end = "retry_wait"
  <2>1. attempts[j] < MaxAttempts
    <3>1. ~(worker[w].token >= MaxAttempts)
      BY <1>4, <1>e DEF FailureState
    <3>2. attempts[j] \in 0..MaxAttempts
      BY DEF QueueInv, TypeOK
    <3>3. QED
      BY <1>1, <1>j, <3>1, <3>2, MediaAssumption
  <2>2. Status(j) = "running"
    BY <1>1, <1>j, StatusNow
  <2>3. \A k \in Jobs : Status(k)' = IF k = j THEN "waiting" ELSE Status(k)
    BY <1>2, <1>4, StatusSteps
  <2>4. Abstract!GiveBack(j)
    BY <1>2, <2>1, <2>2, <2>3 DEF Abstract!GiveBack
  <2>5. QED
    BY <2>4 DEF Abstract!Next
<1>5. QED
  BY <1>3, <1>4, <1>e DEF FailureState

\* A purge takes the jobs of a version with their results.
LEMMA RefinesDrop ==
    ASSUME QueueInv, NEW v \in Versions, Purge(v)
    PROVE  Abstract!Drop(JobsOf(v))
<1>1. /\ job' = [j \in Jobs |-> IF j[1] = v THEN "none" ELSE job[j]]
      /\ attempts' = [j \in Jobs |-> IF j[1] = v THEN 0 ELSE attempts[j]]
      /\ rows' = {x \in rows : x[1][1] # v}
  BY DEF Purge
<1>2. \A j \in Jobs : Status(j)' = IF j \in JobsOf(v) THEN "none" ELSE Status(j)
  BY <1>1, StatusSteps DEF JobsOf
<1>3. \A j \in Jobs : Rows(j) \cap rows' # {} <=> (Rows(j) \cap rows # {} /\ j[1] # v)
  BY <1>1, RowsNameJobs
<1>4. AbstractResults' = AbstractResults \ JobsOf(v)
  BY <1>3 DEF AbstractResults, JobsOf
<1>5. attempts' = [j \in Jobs |-> IF j \in JobsOf(v) THEN 0 ELSE attempts[j]]
  BY <1>1 DEF JobsOf
<1>6. QED
  BY <1>2, <1>4, <1>5 DEF Abstract!Drop, AbstractResults

\* retry_failed puts failed jobs back with all their attempts.
LEMMA RefinesRetry ==
    ASSUME NEW js \in SUBSET Jobs, RetryFailed(js)
    PROVE  Abstract!Retry(js)
<1>1. /\ \A j \in js : job[j] = "failed"
      /\ job' = [j \in Jobs |-> IF j \in js THEN "queued" ELSE job[j]]
      /\ attempts' = [j \in Jobs |-> IF j \in js THEN 0 ELSE attempts[j]]
      /\ rows' = rows
  BY DEF RetryFailed
<1>2. \A j \in js : Status(j) = "failed"
  BY <1>1, StatusNow
<1>3. \A j \in Jobs : Status(j)' = IF j \in js THEN "waiting" ELSE Status(j)
  BY <1>1, StatusSteps
<1>4. QED
  BY <1>1, <1>2, <1>3 DEF Abstract!Retry

\* Every step of a worker is one of the queue's or none.
LEMMA WorkerRefines ==
    ASSUME QueueInv, NEW w \in Workers,
           WorkerStep(w) \/ Heartbeat(w) \/ Crash(w) \/ PassFails(w)
    PROVE  Abstract!Next \/ UNCHANGED Abstract!vars
<1>1. CASE Backfill(w)
  <2>1. PICK js \in SUBSET Missing :
           job' = [j \in Jobs |-> IF j \in js THEN "queued" ELSE job[j]]
    BY <1>1 DEF Backfill
  <2>2. js \in SUBSET Jobs /\ \A j \in js : job[j] = "none"
    BY DEF Missing
  <2>3. UNCHANGED <<attempts, rows>>
    BY <1>1 DEF Backfill
  <2>4. Abstract!Enqueue(js)
    BY <2>1, <2>2, <2>3, RefinesEnqueue
  <2>5. QED
    BY <2>2, <2>4 DEF Abstract!Next
<1>2. CASE FailExhausted(w)
  <2> DEFINE js == {j \in Jobs : Exhausted(j)}
  <2>1. \A j \in js : job[j] = "running"
    BY DEF Exhausted
  <2>2. \A j \in Jobs : job'[j] = IF j \in js THEN "failed" ELSE job[j]
    BY <1>2 DEF FailExhausted
  <2>3. UNCHANGED <<attempts, rows>>
    BY <1>2 DEF FailExhausted
  <2>p. PICK buried \in SUBSET Jobs : buried = js
    OBVIOUS
  <2>4. Abstract!Bury(buried, "failed")
    BY <2>1, <2>2, <2>3, <2>p, RefinesBury
  <2>5. QED
    BY <2>4 DEF Abstract!Next
<1>3. CASE ClaimOne(w)
  BY <1>3, RefinesTake DEF Abstract!Next
<1>4. CASE Complete(w) /\ Owns(w)
  BY <1>4, RefinesFinish DEF Abstract!Next
<1>5. CASE RecordFailure(w) /\ Owns(w)
  BY <1>5, RefinesFailure
<1>6. CASE (RecordFailure(w) \/ Complete(w)) /\ ~Owns(w)
  BY <1>6, AbstractStutter DEF RecordFailure, Complete
<1>7. CASE \/ TryLock(w) \/ CheckLock(w) \/ ClaimNone(w) \/ RunTool(w) \/ OwnsLease(w)
           \/ StartStep(w) \/ MarkPublishing(w) \/ PublishDerivative(w)
           \/ Heartbeat(w) \/ Crash(w) \/ PassFails(w)
  <2>1. UNCHANGED <<job, attempts, rows>>
    BY <1>7 DEF TryLock, CheckLock, ClaimNone, RunTool, OwnsLease, StartStep,
          MarkPublishing, SetStage, PublishDerivative, Heartbeat, Crash, PassFails, queue
  <2>2. QED
    BY <2>1, AbstractStutter
<1>8. QED
  BY <1>1, <1>2, <1>3, <1>4, <1>5, <1>6, <1>7 DEF WorkerStep

\* Every step at all is.
LEMMA StepRefines ==
    QueueInv /\ [Next]_vars => [Abstract!Next]_(Abstract!vars)
<1> SUFFICES ASSUME QueueInv, [Next]_vars
             PROVE  Abstract!Next \/ UNCHANGED Abstract!vars
  OBVIOUS
<1>1. CASE UNCHANGED vars
  BY <1>1, AbstractStutter DEF vars
<1>2. ASSUME NEW v \in Versions, NEW js \in SUBSET JobsOf(v), Arrive(v, js)
      PROVE  Abstract!Next
  <2>1. js \in SUBSET Jobs
    BY DEF JobsOf
  <2>2. \A j \in js : job[j] = "none"
    BY <1>2 DEF JobsOf, QueueInv, VersionInv, Arrive
  <2>3. Abstract!Enqueue(js)
    BY <1>2, <2>1, <2>2, RefinesEnqueue DEF Arrive
  <2>4. QED
    BY <2>1, <2>3 DEF Abstract!Next
<1>3. ASSUME NEW v \in Versions, Purge(v)
      PROVE  Abstract!Next
  <2>1. JobsOf(v) \in SUBSET Jobs
    BY DEF JobsOf
  <2>2. QED
    BY <1>3, <2>1, RefinesDrop DEF Abstract!Next
<1>4. ASSUME NEW js \in {{j} : j \in Jobs} \cup {{j \in Jobs : job[j] = "failed"}},
             RetryFailed(js)
      PROVE  Abstract!Next
  <2>1. js \in SUBSET Jobs
    BY <1>4
  <2>2. QED
    BY <1>4, <2>1, RefinesRetry DEF Abstract!Next
<1>5. ASSUME NEW v \in Versions, Retire(v) \/ Restore(v)
      PROVE  UNCHANGED Abstract!vars
  BY <1>5, AbstractStutter DEF Retire, Restore, queue
<1>6. ASSUME NEW j \in Jobs, LeaseExpires(j)
      PROVE  UNCHANGED Abstract!vars
  BY <1>6, AbstractStutter DEF LeaseExpires
<1>7. ASSUME NEW value \in BOOLEAN, SetPause(value)
      PROVE  UNCHANGED Abstract!vars
  BY <1>7, AbstractStutter DEF SetPause, queue
<1>8. CASE LoseLock
  BY <1>8, AbstractStutter DEF LoseLock, queue
<1>9. QED
  BY <1>1, <1>2, <1>3, <1>4, <1>5, <1>6, <1>7, <1>8, WorkerRefines DEF Next

\* The queue starts empty.
LEMMA InitRefines == Init => Abstract!Init
BY DEF Init, Abstract!Init, Status

\* media_indexer.rs implements the queue: with any number of workers that each
\* believe they hold the advisory lock, and whatever lease runs out under them, a job
\* is taken at most MAX_ATTEMPTS times between two retries, finishes once, and its
\* rows appear in the transaction that finishes it.
THEOREM IndexerImplementsQueue == Spec => ImplementsQueue
<1>1. Spec => []QueueInv
  BY QueueInvariant
<1>2. QED
  BY <1>1, InitRefines, StepRefines, PTL DEF Spec, ImplementsQueue, Abstract!Spec
=============================================================================
