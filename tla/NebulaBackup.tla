---------------------------- MODULE NebulaBackup ----------------------------
(***************************************************************************)
(* One NebulaBackup object: the job that takes the backup, the status that *)
(* follows it, and the cleaning of the backup data when the object is      *)
(* deleted (pkg/controller/nebulabackup).                                  *)
(*                                                                         *)
(* A pass works on the copy bk it read from the informer cache, and never  *)
(* refreshes it; status writes read the object again (retry.OnError in     *)
(* kube/nebulabackup.go).  The controller runs only when the object is in  *)
(* its queue: a pass that returns an error or a ReconcileError is queued   *)
(* again, one that returns nil only by the watch event of a change.        *)
(* Job commands, secrets and containers are data that no property needs.   *)
(***************************************************************************)
EXTENDS Integers

CONSTANTS
    AutoRemoveFinished, \* spec.autoRemoveFinished
    Edits,              \* do users change spec.cleanBackupData?
    JobFailures,        \* may jobs fail, the cluster or the secret be missing?
    CacheLag,           \* does the informer cache lag behind?
    MaxFaults           \* bound on failed calls, lost answers, restarts, outages

ASSUME SwitchAssumption ==
    {AutoRemoveFinished, Edits, JobFailures, CacheLag} \subseteq BOOLEAN
ASSUME BoundAssumption == MaxFaults \in Nat

\* The error that a Failed condition reports: its reason and its message
Errors   == [clean : BOOLEAN, kind : {"none", "call", "job"}]
NoError  == [clean |-> FALSE, kind |-> "none"]
JobState == {"none", "active", "complete", "failed"}
Object == [exists : BOOLEAN, deleting : BOOLEAN, finalizer : BOOLEAN,
           cleanData : BOOLEAN, named : BOOLEAN, running : BOOLEAN,
           complete : BOOLEAN, clean : {"unset", "False", "True"},
           failed : Errors,
           phase : {"", "Running", "Complete", "Failed"}]
Steps == {"idle", "finalizer", "job", "cluster", "flags", "create", "running", "log",
          "name", "complete", "remove", "detect", "fail", "autoremove",
          "ensure", "unnamed", "cleanjob", "cleancluster", "cleanflags", "cleancreate",
          "cleanfalse", "cleantrue", "cleandetect", "removefinalizer"}

VARIABLES
    obj,      \* the NebulaBackup at the API server
    cache,    \* the informer's copy of it
    queued,   \* is it in the work queue?
    pc, bk,   \* the next step of the pass, its copy of the object
    seen,     \* the job as the pass read it
    err,      \* the error the pass reports
    job,      \* the backup job object
    pod,      \* its pod, which may outlive it
    logged,   \* has the pod printed the name of the backup?
    cleanJob, \* the clean job
    data,     \* is there data of this backup in the object storage?
    cluster,  \* the NebulaCluster: ready, unready or gone
    faults,   \* faults so far
    late      \* history: was the object deleted after a named, complete backup?

pass == <<bk, seen, err>>
env  == <<pod, logged, data, cluster, late>>
vars == <<obj, cache, queued, pc, pass, job, cleanJob, faults, env>>

TypeOK ==
    /\ obj \in Object /\ cache \in Object /\ bk \in Object
    /\ queued \in BOOLEAN /\ pc \in Steps /\ err \in Errors
    /\ {seen, job, cleanJob} \subseteq JobState
    /\ pod \in {"none", "running", "succeeded", "failed"}
    /\ {logged, data, late} \subseteq BOOLEAN
    /\ cluster \in {"ready", "unready", "gone"} /\ faults \in 0 .. MaxFaults

New(cleanData) ==
    [exists |-> TRUE, deleting |-> FALSE, finalizer |-> FALSE,
     cleanData |-> cleanData, named |-> FALSE, running |-> FALSE,
     complete |-> FALSE, clean |-> "unset", failed |-> NoError, phase |-> ""]

Init ==
    /\ \E c \in BOOLEAN : obj = New(c) /\ cache = New(c) /\ bk = New(c)
    /\ queued = TRUE /\ pc = "idle" /\ err = NoError /\ seen = "none"
    /\ job = "none" /\ cleanJob = "none" /\ pod = "none" /\ cluster = "ready"
    /\ logged = FALSE /\ data = FALSE /\ late = FALSE /\ faults = 0

-----------------------------------------------------------------------------
(***************************************************************************)
(* Writes and the ends of a pass.                                          *)
(***************************************************************************)
\* A write at the API server, seen by the controller through its cache
Write(o) ==
    /\ obj' = o
    /\ IF CacheLag THEN UNCHANGED <<cache, queued>>
       ELSE cache' = o /\ queued' = (queued \/ o # obj)

\* The pass fails with an error that is not a ReconcileError
Fails(kind) == pc' = "fail" /\ err' = [clean |-> bk.deleting, kind |-> kind]

\* The pass goes on behind a call, whose answer may also be lost
Then(next) ==
    \/ pc' = next /\ UNCHANGED <<faults, err>>
    \/ faults < MaxFaults /\ faults' = faults + 1 /\ Fails("call")

Requeue == pc' = "idle" /\ queued' = TRUE /\ UNCHANGED <<obj, cache, faults, err>>
Goto(next) == pc' = next /\ UNCHANGED <<obj, cache, queued, faults, err>>

\* UpdateNebulaBackupStatus
UpdateStatus(o, next) == obj.exists /\ Write(o) /\ Then(next)

\* ... followed by a ReconcileError: the job is running
UpdateStatusAndWait(o) ==
    /\ obj.exists
    /\ obj' = o /\ cache' = IF CacheLag THEN cache ELSE o
    /\ \/ pc' = "idle" /\ queued' = TRUE /\ UNCHANGED <<faults, err>>
       \/ /\ faults < MaxFaults /\ faults' = faults + 1 /\ Fails("call")
          /\ queued' = (queued \/ (~CacheLag /\ o # obj))

-----------------------------------------------------------------------------
(***************************************************************************)
(* The pass of an object that is not deleted.                              *)
(***************************************************************************)
Reconcile ==
    /\ pc = "idle" /\ queued
    /\ queued' = FALSE /\ bk' = cache
    /\ pc' = CASE ~cache.exists  -> "idle"
               [] cache.deleting -> IF cache.cleanData THEN "ensure"
                                    ELSE "removefinalizer"
               [] OTHER          -> "finalizer"
    /\ UNCHANGED <<obj, cache, seen, err, job, cleanJob, faults, env>>

\* UpdateFinalizer reads the cache too: a write based on an old version
\* conflicts.  A deleted object goes with its last finalizer
SetFinalizer(b) ==
    Write([obj EXCEPT !.finalizer = b, !.exists = b \/ ~obj.deleting])

Finished(o) == o.complete \/ o.failed # NoError

\* mutant: only complete backups are skipped
AddFinalizerSkipComplete ==
    LET next == IF bk.complete THEN "idle" ELSE "job" IN
    /\ pc = "finalizer"
    /\ IF bk.cleanData = bk.finalizer THEN Goto(next)
       ELSE \/ cache = obj /\ obj.exists /\ SetFinalizer(bk.cleanData)
               /\ pc' = next /\ UNCHANGED <<faults, err>>
            \/ (cache # obj \/ ~obj.exists) /\ Requeue
    /\ UNCHANGED <<bk, seen, job, cleanJob, env>>

\* addFinalizer, and the conditions by which UpdateNebulaBackup skips Sync
AddFinalizer ==
    LET next == IF Finished(bk) THEN "idle" ELSE "job" IN
    /\ pc = "finalizer"
    /\ IF bk.cleanData = bk.finalizer THEN Goto(next)
       ELSE \/ cache = obj /\ obj.exists /\ SetFinalizer(bk.cleanData)
               /\ pc' = next /\ UNCHANGED <<faults, err>>
            \/ (cache # obj \/ ~obj.exists) /\ Requeue
    /\ UNCHANGED <<bk, seen, job, cleanJob, env>>

\* syncBackupJob: GetJob
SyncBackupJob ==
    /\ pc = "job"
    /\ seen' = job
    /\ Goto(IF job = "none" THEN "cluster" ELSE "log")
    /\ UNCHANGED <<bk, job, cleanJob, env>>

\* GetNebulaCluster and IsReady, for the backup job and for the clean job
GetCluster ==
    /\ pc \in {"cluster", "cleancluster"}
    /\ \/ cluster = "ready"
          /\ Goto(IF pc = "cluster" THEN "flags" ELSE "cleanflags")
       \/ cluster = "unready" /\ Requeue
       \/ cluster = "gone" /\ Fails("call") /\ UNCHANGED <<obj, cache, queued, faults>>
    /\ UNCHANGED <<bk, seen, job, cleanJob, env>>

\* getStorageFlags: the secret of the object storage may be missing
GetStorageFlags ==
    /\ pc \in {"flags", "cleanflags"}
    /\ \/ Goto(IF pc = "flags" THEN "create" ELSE "cleancreate")
       \/ JobFailures /\ Fails("call") /\ UNCHANGED <<obj, cache, queued, faults>>
    /\ UNCHANGED <<bk, seen, job, cleanJob, env>>

\* runBackupJob; an existing job is no error
RunBackupJob ==
    /\ pc = "create"
    /\ job' = IF job = "none" THEN "active" ELSE job
    /\ Then("running")
    /\ UNCHANGED <<obj, cache, queued, bk, seen, cleanJob, env>>

StatusRunning ==
    /\ pc = "running"
    /\ UpdateStatusAndWait([obj EXCEPT !.running = TRUE, !.phase = "Running"])
    /\ UNCHANGED <<bk, seen, job, cleanJob, env>>

\* findMatchedBackupName
NameFound == pod # "none" /\ logged

\* The name of the backup is looked for in the log of the pod; a pod that is
\* not found, or a list call that fails, reads as an empty log; only the stream
\* of a log can fail with an error (GetPodLog)
GetPodLog ==
    /\ pc = "log"
    /\ \/ bk.named /\ Goto("complete")
       \/ ~bk.named /\ Goto(IF NameFound THEN "name" ELSE "complete")
       \/ ~bk.named /\ job = "active" /\ pod = "none" /\ Requeue
       \/ /\ ~bk.named /\ faults < MaxFaults /\ faults' = faults + 1
          /\ \/ pc' = "complete" /\ UNCHANGED err
             \/ pod # "none" /\ Fails("call")
          /\ UNCHANGED <<obj, cache, queued>>
    /\ UNCHANGED <<bk, seen, job, cleanJob, env>>

\* An update of the name alone clears the phase (updateBackupStatus)
StatusName ==
    /\ pc = "name"
    /\ UpdateStatus([obj EXCEPT !.named = TRUE, !.phase = ""], "complete")
    /\ UNCHANGED <<bk, seen, job, cleanJob, env>>


StatusComplete ==
    /\ pc = "complete"
    /\ IF seen = "complete"
       THEN UpdateStatus([obj EXCEPT !.complete = TRUE, !.phase = "Complete"],
                         IF AutoRemoveFinished THEN "remove" ELSE "detect")
       ELSE Goto("detect")
    /\ UNCHANGED <<bk, seen, job, cleanJob, env>>

\* DeleteJob; a job that is gone is an error
RemoveJob ==
    /\ pc = "remove"
    /\ IF job = "none"
       THEN Fails("call") /\ UNCHANGED <<job, faults>>
       ELSE job' = "none" /\ Then("idle")
    /\ UNCHANGED <<obj, cache, queued, bk, seen, cleanJob, env>>

\* mutant: a job that is still running is not waited for
DetectFailureOnce ==
    /\ pc = "detect"
    /\ IF pod = "failed" \/ job = "failed"
       THEN Fails("job") /\ UNCHANGED <<obj, cache, queued, faults>>
       ELSE Goto("idle")
    /\ UNCHANGED <<bk, seen, job, cleanJob, env>>

\* isPodOrJobFailure of the backup job
DetectFailure ==
    /\ pc = "detect"
    /\ IF pod = "failed" \/ job = "failed"
       THEN Fails("job") /\ UNCHANGED <<obj, cache, queued, faults>>
       ELSE Requeue
    /\ UNCHANGED <<bk, seen, job, cleanJob, env>>

\* UpdateNebulaBackup records the failure; an error here is only logged
StatusFailed ==
    /\ pc = "fail"
    /\ pc' = IF AutoRemoveFinished THEN "autoremove" ELSE "idle"
    /\ \/ obj.exists /\ Write([obj EXCEPT !.failed = err, !.phase = "Failed"])
          /\ UNCHANGED faults
       \/ ~obj.exists /\ UNCHANGED <<obj, cache, queued, faults>>
       \/ /\ faults < MaxFaults /\ faults' = faults + 1
          /\ UNCHANGED <<obj, cache, queued>>
    /\ UNCHANGED <<pass, job, cleanJob, env>>

\* ... and removes the job of the failed pass, an error of which is only
\* logged; then it returns nil
AutoRemove ==
    /\ pc = "autoremove" /\ pc' = "idle"
    /\ \/ /\ IF bk.deleting THEN cleanJob' = "none" /\ UNCHANGED job
                            ELSE job' = "none" /\ UNCHANGED cleanJob
          /\ UNCHANGED faults
       \/ faults < MaxFaults /\ faults' = faults + 1 /\ UNCHANGED <<job, cleanJob>>
    /\ UNCHANGED <<obj, cache, queued, pass, env>>

-----------------------------------------------------------------------------
(***************************************************************************)
(* Clean, the pass of an object that is deleted.                           *)
(***************************************************************************)

\* ensureBackupJobFinished; a failed GetJob dereferences nil (CallFails)
EnsureFinished ==
    LET next == IF bk.named THEN "cleanjob" ELSE "unnamed" IN
    /\ pc = "ensure"
    /\ \/ job # "active" /\ Goto(next) /\ UNCHANGED job
       \/ job = "active" /\ ~bk.named /\ Requeue /\ UNCHANGED job
       \/ job = "active" /\ bk.named /\ job' = "none" /\ Then(next)
          /\ UNCHANGED <<obj, cache, queued>>
    /\ UNCHANGED <<bk, seen, cleanJob, env>>

\* mutant: a failed clean job counts as done
SyncCleanJobFinished ==
    /\ pc = "cleanjob"
    /\ Goto(CASE cleanJob = "none"   -> "cleancluster"
              [] cleanJob = "active" -> "cleandetect"
              [] OTHER               -> "cleantrue")
    /\ UNCHANGED <<bk, seen, job, cleanJob, env>>

\* Clean: GetJob of the clean job
SyncCleanJob ==
    /\ pc = "cleanjob"
    /\ Goto(CASE cleanJob = "none"     -> "cleancluster"
              [] cleanJob = "complete" -> "cleantrue"
              [] OTHER                 -> "cleandetect")
    /\ UNCHANGED <<bk, seen, job, cleanJob, env>>

RunCleanJob ==
    /\ pc = "cleancreate"
    /\ cleanJob' = IF cleanJob = "none" THEN "active" ELSE cleanJob
    /\ Then("cleanfalse")
    /\ UNCHANGED <<obj, cache, queued, bk, seen, job, env>>

StatusCleaning ==
    /\ pc = "cleanfalse"
    /\ UpdateStatusAndWait([obj EXCEPT !.clean = "False"])
    /\ UNCHANGED <<bk, seen, job, cleanJob, env>>

\* The Clean condition is set when there is nothing to clean, or it is cleaned
StatusClean ==
    /\ pc \in {"unnamed", "cleantrue"}
    /\ UpdateStatus([obj EXCEPT !.clean = "True"], "removefinalizer")
    /\ UNCHANGED <<bk, seen, job, cleanJob, env>>

DetectCleanFailure ==
    /\ pc = "cleandetect"
    /\ IF cleanJob = "failed"
       THEN Fails("job") /\ UNCHANGED <<obj, cache, queued, faults>>
       ELSE Requeue
    /\ UNCHANGED <<bk, seen, job, cleanJob, env>>

\* removeFinalizer judges by the copy read at the start of the pass
RemoveFinalizer ==
    /\ pc = "removefinalizer"
    /\ IF bk.cleanData /\ bk.finalizer /\ bk.clean = "True"
       THEN \/ cache = obj /\ obj.exists /\ SetFinalizer(FALSE)
               /\ pc' = "idle" /\ UNCHANGED <<faults, err>>
            \/ (cache # obj \/ ~obj.exists) /\ Requeue
       ELSE Goto("idle")
    /\ UNCHANGED <<bk, seen, job, cleanJob, env>>

-----------------------------------------------------------------------------
(***************************************************************************)
(* Failures of the operator.                                               *)
(***************************************************************************)
\* A call fails without effect.  An error of the finalizer update is returned
\* and requeued, a nil job in ensureBackupJobFinished is a panic
CallFails ==
    /\ faults < MaxFaults /\ faults' = faults + 1
    /\ pc \notin {"idle", "fail", "autoremove", "log"}
    /\ IF pc \in {"finalizer", "removefinalizer", "ensure"}
       THEN pc' = "idle" /\ queued' = TRUE /\ UNCHANGED err
       ELSE Fails("call") /\ UNCHANGED queued
    /\ UNCHANGED <<obj, cache, bk, seen, job, cleanJob, env>>

\* The operator restarts and lists all objects
Restart ==
    /\ faults < MaxFaults /\ faults' = faults + 1
    /\ pc' = "idle" /\ cache' = obj /\ queued' = TRUE
    /\ UNCHANGED <<obj, pass, job, cleanJob, env>>

-----------------------------------------------------------------------------
(***************************************************************************)
(* Users, Kubernetes and the backup tool.                                  *)
(***************************************************************************)
DeleteObject ==
    /\ obj.exists /\ ~obj.deleting
    /\ Write(IF obj.finalizer THEN [obj EXCEPT !.deleting = TRUE]
             ELSE [obj EXCEPT !.exists = FALSE])
    /\ late' = (obj.complete /\ obj.named /\ obj.finalizer)
    /\ UNCHANGED <<pc, pass, job, cleanJob, faults, pod, logged, data, cluster>>

SetCleanBackupData ==
    /\ Edits /\ obj.exists /\ ~obj.deleting
    /\ Write([obj EXCEPT !.cleanData = ~@])
    /\ UNCHANGED <<pc, pass, job, cleanJob, faults, env>>

CacheSync ==
    /\ cache # obj
    /\ cache' = obj /\ queued' = TRUE
    /\ UNCHANGED <<obj, pc, pass, job, cleanJob, faults, env>>

PodStart ==
    /\ job = "active" /\ pod = "none"
    /\ pod' = "running" /\ logged' = FALSE
    /\ UNCHANGED <<obj, cache, queued, pc, pass, job, cleanJob, faults, data, cluster, late>>

\* br prints the name of the backup, then uploads
PodUploads ==
    /\ pod = "running"
    /\ logged' = TRUE /\ data' = TRUE
    /\ UNCHANGED <<obj, cache, queued, pc, pass, job, cleanJob, faults, pod, cluster, late>>

PodEnds ==
    /\ pod = "running"
    /\ \/ logged /\ pod' = "succeeded"
       \/ JobFailures /\ pod' = "failed"
    /\ UNCHANGED <<obj, cache, queued, pc, pass, job, cleanJob, faults, logged, data, cluster, late>>

\* A job has one pod and is not repeated (buildBackupJob)
JobEnds ==
    /\ job = "active" /\ pod \in {"succeeded", "failed"}
    /\ job' = IF pod = "succeeded" THEN "complete" ELSE "failed"
    /\ UNCHANGED <<obj, cache, queued, pc, pass, cleanJob, faults, env>>

\* The pods of a job that was deleted are collected in the background
PodGone ==
    /\ job = "none" /\ pod # "none"
    /\ pod' = "none"
    /\ UNCHANGED <<obj, cache, queued, pc, pass, job, cleanJob, faults, logged, data, cluster, late>>

CleanJobEnds ==
    /\ cleanJob = "active"
    /\ \/ cleanJob' = "complete" /\ data' = FALSE
       \/ JobFailures /\ cleanJob' = "failed" /\ UNCHANGED data
    /\ UNCHANGED <<obj, cache, queued, pc, pass, job, faults, pod, logged, cluster, late>>

\* The jobs are owned by the object
OwnerGone ==
    /\ ~obj.exists /\ {job, cleanJob} # {"none"}
    /\ job' = "none" /\ cleanJob' = "none"
    /\ UNCHANGED <<obj, cache, queued, pc, pass, faults, env>>

ClusterChanges ==
    /\ \/ cluster = "ready" /\ faults < MaxFaults
          /\ cluster' = "unready" /\ faults' = faults + 1
       \/ cluster = "ready" /\ JobFailures /\ cluster' = "gone" /\ UNCHANGED faults
    /\ UNCHANGED <<obj, cache, queued, pc, pass, job, cleanJob, pod, logged, data, late>>

ClusterRecovers ==
    /\ cluster = "unready" /\ cluster' = "ready"
    /\ UNCHANGED <<obj, cache, queued, pc, pass, job, cleanJob, faults, pod, logged, data, late>>

-----------------------------------------------------------------------------
Clean == \/ EnsureFinished \/ SyncCleanJob \/ RunCleanJob \/ StatusCleaning
         \/ StatusClean \/ DetectCleanFailure \/ RemoveFinalizer
Sync  == \/ AddFinalizer \/ SyncBackupJob \/ GetCluster \/ GetStorageFlags \/ RunBackupJob
         \/ StatusRunning \/ GetPodLog \/ StatusName \/ StatusComplete
         \/ RemoveJob \/ DetectFailure \/ StatusFailed \/ AutoRemove
\* The object may vanish under a pass: its status writes then fail
ObjectVanished ==
    /\ pc \in {"running", "name", "complete", "unnamed", "cleantrue", "cleanfalse"}
    /\ ~obj.exists
    /\ Fails("call")
    /\ UNCHANGED <<obj, cache, queued, bk, seen, job, cleanJob, faults, env>>

Pass  == Reconcile \/ Sync \/ Clean \/ ObjectVanished
World == PodStart \/ PodUploads \/ PodEnds \/ JobEnds \/ PodGone \/ CleanJobEnds
         \/ OwnerGone \/ ClusterRecovers \/ CacheSync
Next  == Pass \/ CallFails \/ Restart \/ DeleteObject \/ SetCleanBackupData
         \/ ClusterChanges \/ World

Fairness ==
    /\ WF_vars(Pass) /\ WF_vars(CacheSync) /\ WF_vars(PodStart)
    /\ WF_vars(PodUploads /\ ~logged) /\ WF_vars(PodEnds) /\ WF_vars(JobEnds)
    /\ WF_vars(PodGone) /\ WF_vars(CleanJobEnds) /\ WF_vars(OwnerGone)
    /\ WF_vars(ClusterRecovers)
Spec == Init /\ [][Next]_vars /\ Fairness

-----------------------------------------------------------------------------
(***************************************************************************)
(* Properties.                                                             *)
(***************************************************************************)
\* The backup job is created although the backup is recorded as finished
Reruns == job = "none" /\ job' = "active" /\ Finished(obj)

\* A backup that is recorded as finished is not taken again, whatever was
\* removed or lost since (nebula_backup_control.go UpdateNebulaBackup)
NoRerun == [][~Reruns]_vars

\* A backup is Complete only when its data is there, until it is deleted
\* (nebula_backup_manager.go syncBackupJob)
CompleteHasData == obj.complete /\ ~obj.deleting => data

\* An object that was deleted after its backup was complete and named leaves
\* no data behind (nebula_backup_manager.go Clean, removeFinalizer)
CleanedWhenGone == late /\ ~obj.exists /\ obj.cleanData => ~data

\* Every backup is eventually recorded as complete or failed, or deleted
\* (nebula_backup_controller.go Reconcile)
BackupSettles == <>(Finished(obj) \/ ~obj.exists)

\* A deleted object eventually goes (nebula_backup_control.go removeFinalizer)
DeleteCompletes == obj.deleting ~> ~obj.exists

\* Nothing of the backup is left when an object that asks for cleaning is gone
DataGone == ~obj.exists /\ obj.cleanData /\ pod # "running" => ~data

\* The clean job starts when the backup has ended
\* (nebula_backup_manager.go ensureBackupJobFinished)
CleanAfterBackup ==
    [][cleanJob = "none" /\ cleanJob' = "active" => pod # "running"]_vars

\* The phase is inferred from the conditions (nebulabackup_types.go)
PhaseInferred == obj.running => obj.phase # ""
=============================================================================
