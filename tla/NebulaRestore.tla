---------------------------- MODULE NebulaRestore ----------------------------
(***************************************************************************)
(* One NebulaRestore: a cluster is created whose pods wait in an init agent *)
(* while the operator places the files of the backup, first those of metad, *)
(* then those of storaged (pkg/controller/nebularestore).                   *)
(*                                                                          *)
(* A pass works on the copy nr it read from the cache and never refreshes   *)
(* it; status writes read the object again and merge (updateRestoreStatus). *)
(* File contents, addresses and the walk over incremental backups are data: *)
(* a pod has the files of the backup or not.  The agent of a running pod is *)
(* its sidecar, which answers like the init agent.                          *)
(***************************************************************************)
EXTENDS Integers, FiniteSets

CONSTANTS
    Metads, Storageds,  \* the pods of the restored cluster
    Names,              \* names that rand.String may generate
    AutoRemoveFailed,   \* spec.autoRemoveFailed
    OtherNamespace,     \* spec.config.clusterNamespace is another namespace
    Errors,             \* may calls fail?
    Evictions,          \* may pods fail (and be replaced) before they run?
    StaleReads,         \* may a pass start from an outdated copy?
    MaxFaults           \* bound on restarts, failed calls, evictions, stale reads

Pods == Metads \union Storageds
Restore == [name : Names \union {""}, metaDownload : BOOLEAN, metad : BOOLEAN,
            partitions : BOOLEAN, storageDownload : BOOLEAN, storaged : BOOLEAN,
            checkpoints : BOOLEAN, complete : BOOLEAN,
            failed : {"no", "Unknown", "True"}]
Cluster == [exists : BOOLEAN, stage : {"", "1", "2"}, metadDone : BOOLEAN,
            storagedDone : BOOLEAN, named : BOOLEAN, initAgents : BOOLEAN,
            graphd : BOOLEAN]
\* files: the backup is downloaded; applied: RestoreMeta or the playback ran on
\* it; checkpoint: the download directory is there
PodState == [phase : {"none", "init", "main", "ready", "failed"}, files : BOOLEAN,
             applied : BOOLEAN, checkpoint : BOOLEAN]
Steps == {"idle", "pods", "original", "name", "stage", "create", "load", "metad",
          "downloadMeta", "stopMeta", "statusMetaDownload", "metadReady", "restoreMeta",
          "statusMetad", "annotateMetad", "storaged", "downloadStorage",
          "statusStorageDownload", "playback", "stopStorage", "statusStoraged",
          "annotateStoraged", "ready", "removeCheckpoints", "removeInit",
          "release", "statusComplete", "fail", "remove"}

VARIABLES
    obj, old,  \* the NebulaRestore, and the version before that
    queued,    \* is it in the work queue?
    pc, nr,    \* the next step of the pass and its copy of the object
    name,      \* the name of the restored cluster
    left,      \* pods that the step still has to treat
    paths,     \* did this pass download checkpoints?
    cluster, pod,
    faults

local == <<nr, name, left, paths>>
world == <<cluster, pod>>
vars  == <<obj, old, queued, pc, local, world, faults>>

TypeOK ==
    /\ {obj, old, nr} \subseteq Restore /\ {queued, paths} \subseteq BOOLEAN
    /\ pc \in Steps /\ name \in Names \union {""} /\ left \subseteq Pods
    /\ cluster \in [Names -> Cluster] /\ pod \in [Names -> [Pods -> PodState]]
    /\ faults \in 0 .. MaxFaults

NoCluster == [exists |-> FALSE, stage |-> "", metadDone |-> FALSE,
              storagedDone |-> FALSE, named |-> FALSE, initAgents |-> FALSE,
              graphd |-> FALSE]
NewPod == [phase |-> "none", files |-> FALSE, applied |-> FALSE, checkpoint |-> FALSE]
NewRestore ==
    [name |-> "", metaDownload |-> FALSE, metad |-> FALSE, partitions |-> FALSE,
     storageDownload |-> FALSE, storaged |-> FALSE, checkpoints |-> FALSE,
     complete |-> FALSE, failed |-> "no"]

Init ==
    /\ obj = NewRestore /\ old = NewRestore /\ nr = NewRestore
    /\ queued = TRUE /\ pc = "idle" /\ name = "" /\ left = {} /\ paths = FALSE
    /\ cluster = [n \in Names |-> NoCluster]
    /\ pod = [n \in Names |-> [p \in Pods |-> NewPod]] /\ faults = 0

-----------------------------------------------------------------------------
(***************************************************************************)
(* Steps of a pass.                                                        *)
(***************************************************************************)
Fault == faults < MaxFaults /\ faults' = faults + 1
Goto(step) == pc' = step /\ UNCHANGED <<obj, old, queued, local, world, faults>>

\* mutant: the pass ends without an error
RequeueNot == pc' = "idle" /\ UNCHANGED <<obj, old, queued, local, world, faults>>

\* A ReconcileError
Requeue == pc' = "idle" /\ queued' = TRUE /\ UNCHANGED <<obj, old, local, world, faults>>

\* updateRestoreStatus replaces Partitions and Checkpoints whenever their
\* number differs: an update that does not give them removes them
Merge(o, parts, checkpoints) ==
    [o EXCEPT !.partitions = parts, !.checkpoints = checkpoints]

\* UpdateNebulaRestoreStatus, whose changes are watch events
Update(o) ==
    /\ obj' = o /\ queued' = (queued \/ o # obj)
    /\ old' = IF o = obj THEN old ELSE obj
StatusThen(o, step) ==
    /\ Update(o) /\ pc' = step /\ UNCHANGED <<local, world, faults>>

\* Reconcile and the conditions by which UpdateNebulaRestore skips the object
Reconcile ==
    /\ pc = "idle" /\ queued
    /\ \/ nr' = obj /\ queued' = FALSE /\ UNCHANGED faults
       \/ StaleReads /\ old # obj /\ Fault /\ nr' = old /\ queued' = TRUE
    /\ pc' = IF nr'.complete \/ nr'.failed = "True" THEN "idle"
             ELSE IF nr'.name = "" THEN "original" ELSE "pods"
    /\ name' = "" /\ left' = {} /\ paths' = FALSE
    /\ UNCHANGED <<obj, old, world>>

\* ListPods in the namespace of the NebulaRestore; a list call that fails ends
\* the pass without an error.  A failed pod is recorded with status Unknown, an
\* error of which is only logged; the pass goes on when no container of it tells
\* a reason
CheckPods ==
    /\ pc = "pods"
    /\ \/ /\ ~OtherNamespace /\ \E p \in Pods : pod[nr.name][p].phase = "failed"
          /\ Update(Merge([obj EXCEPT !.failed = "Unknown"], FALSE, FALSE))
          /\ pc' = "original" /\ UNCHANGED <<local, world, faults>>
       \/ /\ ~OtherNamespace /\ \E p \in Pods : pod[nr.name][p].phase = "failed"
          /\ obj' = Merge([obj EXCEPT !.failed = "Unknown"], FALSE, FALSE)
          /\ old' = IF obj' = obj THEN old ELSE obj
          /\ pc' = "idle" /\ queued' = TRUE /\ UNCHANGED <<local, world, faults>>
       \/ /\ ~OtherNamespace /\ \E p \in Pods : pod[nr.name][p].phase = "failed"
          /\ Errors /\ Fault
          /\ \/ pc' = "original" /\ UNCHANGED queued
             \/ pc' = "idle" /\ queued' = TRUE
          /\ UNCHANGED <<obj, old, local, world>>
       \/ /\ OtherNamespace \/ \A p \in Pods : pod[nr.name][p].phase # "failed"
          /\ Goto("original")
       \/ Errors /\ Fault /\ pc' = "idle" /\ UNCHANGED <<obj, old, queued, local, world>>

GetOriginal == pc = "original" /\ Goto("name")

\* getRestoredName
GetRestoredName ==
    /\ pc = "name"
    /\ IF nr.name # "" THEN name' = nr.name /\ UNCHANGED <<obj, old, queued>>
       ELSE \E n \in {m \in Names : ~cluster[m].exists} :
                name' = n /\ Update(Merge([obj EXCEPT !.name = n], FALSE, FALSE))
    /\ pc' = "stage" /\ UNCHANGED <<nr, left, paths, world, faults>>

\* IsReady
Ready(n) ==
    /\ cluster[n].exists /\ \A p \in Pods : pod[n][p].phase = "ready"
    /\ cluster[n].graphd

\* In stage 2 the leaders are balanced when the cluster is ready.  A cluster that
\* cannot be read counts as one that is not in stage 2
Stage ==
    /\ pc = "stage"
    /\ \/ cluster[name].stage = "2" /\ Ready(name) /\ Goto("release")
       \/ cluster[name].stage = "2" /\ ~Ready(name) /\ Requeue
       \/ cluster[name].stage # "2" /\ Goto("create")
       \/ /\ cluster[name].stage = "2" /\ Errors /\ Fault
          /\ pc' = "create" /\ UNCHANGED <<obj, old, queued, local, world>>

\* The annotations and the settings of the restore are removed
Release ==
    /\ pc = "release"
    /\ cluster' = [cluster EXCEPT ![name] = [@ EXCEPT !.stage = "", !.named = FALSE,
                        !.metadDone = FALSE, !.storagedDone = FALSE]]
    /\ pc' = "statusComplete" /\ UNCHANGED <<obj, old, queued, local, pod, faults>>

StatusComplete ==
    /\ pc = "statusComplete"
    /\ StatusThen(Merge([obj EXCEPT !.complete = TRUE], FALSE, FALSE), "idle")

\* genNebulaCluster and CreateNebulaCluster; an existing cluster is kept
Create ==
    /\ pc = "create"
    /\ cluster' = IF cluster[name].exists THEN cluster
                  ELSE [cluster EXCEPT ![name] = [NoCluster EXCEPT !.exists = TRUE,
                            !.stage = "1", !.named = TRUE, !.initAgents = TRUE]]
    /\ pc' = "load" /\ UNCHANGED <<obj, old, queued, local, pod, faults>>

\* initRestoreAgent, loadCluster, loadBakMetas, checkTopology
Load == pc = "load" /\ Goto(IF nr.metad THEN "annotateMetad" ELSE "metad")

-----------------------------------------------------------------------------
\* endpointsConnected
Connected(set) == \A p \in set : pod[name][p].phase \in {"init", "main", "ready"}

ConnectMetad ==
    /\ pc = "metad"
    /\ IF ~Connected(Metads) THEN Requeue
       ELSE /\ pc' = IF nr.metaDownload THEN "metadReady" ELSE "downloadMeta"
            /\ left' = Metads
            /\ UNCHANGED <<obj, old, queued, nr, name, paths, world, faults>>

\* downloadMetaData treats one endpoint after the other ...
DownloadMeta ==
    /\ pc = "downloadMeta" /\ left # {}
    /\ pod' = [pod EXCEPT ![name][CHOOSE p \in left : TRUE].files = TRUE]
    /\ pc' = "stopMeta" /\ UNCHANGED <<obj, old, queued, local, cluster, faults>>

\* ... and lets it go on with StopAgent
StopMeta ==
    LET p == CHOOSE q \in left : TRUE IN
    /\ pc = "stopMeta"
    /\ pod' = [pod EXCEPT ![name][p].phase = IF @ = "init" THEN "main" ELSE @]
    /\ left' = left \ {p}
    /\ pc' = IF left' = {} THEN "statusMetaDownload" ELSE "downloadMeta"
    /\ UNCHANGED <<obj, old, queued, nr, name, paths, cluster, faults>>

StatusMetaDownload ==
    /\ pc = "statusMetaDownload"
    /\ StatusThen(Merge([obj EXCEPT !.metaDownload = TRUE], FALSE, FALSE), "metadReady")

MetadReady ==
    /\ pc = "metadReady"
    /\ IF ~\A p \in Metads : pod[name][p].phase = "ready" THEN Requeue
       ELSE /\ pc' = "restoreMeta" /\ left' = Metads
            /\ UNCHANGED <<obj, old, queued, nr, name, paths, world, faults>>

\* mutant: only one metad is restored
RestoreMetaFirst ==
    /\ pc = "restoreMeta"
    /\ pod' = [pod EXCEPT ![name][CHOOSE p \in Metads : TRUE].applied = TRUE]
    /\ pc' = "statusMetad" /\ UNCHANGED <<obj, old, queued, local, cluster, faults>>

\* The pods of the cluster when those of set have applied the files they have
Loaded(set) ==
    [p \in Pods |-> IF p \in set
                      THEN [pod[name][p] EXCEPT !.applied = @ \/ pod[name][p].files]
                      ELSE pod[name][p]]

\* restoreMeta on one metad after the other
RestoreMeta ==
    LET p == CHOOSE q \in left : TRUE IN
    /\ pc = "restoreMeta"
    /\ pod' = [pod EXCEPT ![name] = Loaded({p})]
    /\ left' = left \ {p}
    /\ pc' = IF left' = {} THEN "statusMetad" ELSE pc
    /\ UNCHANGED <<obj, old, queued, nr, name, paths, cluster, faults>>

StatusMetad ==
    /\ pc = "statusMetad"
    /\ StatusThen(Merge([obj EXCEPT !.metad = TRUE], TRUE, FALSE), "annotateMetad")

\* updateClusterAnnotations
AnnotateMetad ==
    /\ pc = "annotateMetad"
    /\ cluster' = [cluster EXCEPT ![name].metadDone = TRUE]
    /\ pc' = IF nr.storaged THEN "annotateStoraged" ELSE "storaged"
    /\ UNCHANGED <<obj, old, queued, local, pod, faults>>

ConnectStoraged ==
    /\ pc = "storaged"
    /\ IF ~Connected(Storageds) THEN Requeue
       ELSE /\ pc' = IF nr.storageDownload THEN "playback" ELSE "downloadStorage"
            /\ left' = IF nr.partitions \/ nr.storageDownload THEN Storageds ELSE {}
            /\ UNCHANGED <<obj, old, queued, nr, name, paths, world, faults>>

\* downloadStorageData: workers of a group, for the parts that Partitions lists
DownloadStorage ==
    /\ pc = "downloadStorage"
    /\ IF left = {}
       THEN pc' = "statusStorageDownload" /\ UNCHANGED <<left, paths, pod>>
       ELSE \E p \in left :
              /\ pod' = [pod EXCEPT ![name][p] = [@ EXCEPT !.files = TRUE, !.checkpoint = TRUE]]
              /\ left' = left \ {p} /\ paths' = TRUE /\ UNCHANGED pc
    /\ UNCHANGED <<obj, old, queued, nr, name, cluster, faults>>

StatusStorageDownload ==
    /\ pc = "statusStorageDownload"
    /\ StatusThen(Merge([obj EXCEPT !.storageDownload = TRUE], FALSE, FALSE), "playback")

\* playBackStorageData on all hosts ...
Playback ==
    /\ pc = "playback"
    /\ pod' = [pod EXCEPT ![name] = Loaded(Storageds)]
    /\ left' = Storageds /\ pc' = "stopStorage"
    /\ UNCHANGED <<obj, old, queued, nr, name, paths, cluster, faults>>

\* ... then their agents are stopped
StopStorage ==
    /\ pc = "stopStorage"
    /\ \E p \in left :
          /\ pod' = [pod EXCEPT ![name][p].phase = IF @ = "init" THEN "main" ELSE @]
          /\ left' = left \ {p}
    /\ pc' = IF left' = {} THEN "statusStoraged" ELSE pc
    /\ UNCHANGED <<obj, old, queued, nr, name, paths, cluster, faults>>

StatusStoraged ==
    /\ pc = "statusStoraged"
    /\ StatusThen(Merge([obj EXCEPT !.storaged = TRUE], FALSE, paths), "annotateStoraged")

AnnotateStoraged ==
    /\ pc = "annotateStoraged"
    /\ cluster' = [cluster EXCEPT ![name].storagedDone = TRUE]
    /\ pc' = "ready" /\ UNCHANGED <<obj, old, queued, local, pod, faults>>

ClusterReady ==
    /\ pc = "ready"
    /\ IF Ready(name) /\ Connected(Storageds) THEN Goto("removeCheckpoints") ELSE Requeue

\* removeDownloadCheckpoints, for the paths that the status lists
RemoveCheckpoints ==
    /\ pc = "removeCheckpoints"
    /\ pod' = IF ~nr.checkpoints THEN pod
              ELSE [pod EXCEPT ![name] = [p \in Pods |-> [@[p] EXCEPT !.checkpoint = FALSE]]]
    /\ pc' = "removeInit" /\ UNCHANGED <<obj, old, queued, local, cluster, faults>>

\* removeInitAgentContainer leaves only the annotation of stage 2
RemoveInitAgentContainer ==
    /\ pc = "removeInit"
    /\ cluster' = [cluster EXCEPT ![name] = [@ EXCEPT !.stage = "2", !.initAgents = FALSE,
                        !.named = FALSE, !.metadDone = FALSE, !.storagedDone = FALSE]]
    /\ pc' = "idle" /\ queued' = TRUE /\ UNCHANGED <<obj, old, local, pod, faults>>

-----------------------------------------------------------------------------
(***************************************************************************)
(* Failures.                                                               *)
(***************************************************************************)
\* An error of Sync; all but one are no ReconcileError: the name of a metad that
\* is not known yet is waited for, and all metads are restored again
CallFails ==
    /\ Errors /\ pc \notin {"idle", "pods", "stage", "fail", "remove"} /\ Fault
    /\ \/ pc' = "fail" /\ UNCHANGED queued
       \/ pc = "restoreMeta" /\ pc' = "idle" /\ queued' = TRUE
    /\ UNCHANGED <<obj, old, local, world>>

\* The restore is marked as failed; an error of that is only logged
StatusFailed ==
    /\ pc = "fail" /\ pc' = "remove"
    /\ \/ Update(Merge([obj EXCEPT !.failed = "True"], FALSE, FALSE)) /\ UNCHANGED faults
       \/ Errors /\ Fault /\ UNCHANGED <<obj, old, queued>>
    /\ UNCHANGED <<local, world>>

\* deleteRestoredCluster, in the namespace of the NebulaRestore; errors are
\* only logged
RemoveCluster ==
    /\ pc = "remove" /\ pc' = "idle"
    /\ \/ /\ UNCHANGED faults
          /\ IF AutoRemoveFailed /\ ~OtherNamespace /\ obj.name # ""
             THEN /\ cluster' = [cluster EXCEPT ![obj.name] = NoCluster]
                  /\ pod' = [pod EXCEPT ![obj.name] = [p \in Pods |-> NewPod]]
             ELSE UNCHANGED <<cluster, pod>>
       \/ Errors /\ AutoRemoveFailed /\ Fault /\ UNCHANGED <<cluster, pod>>
    /\ UNCHANGED <<obj, old, queued, local>>

\* The operator restarts and lists all objects
Restart ==
    /\ pc # "idle" /\ Fault /\ pc' = "idle" /\ queued' = TRUE /\ old' = obj
    /\ nr' = NewRestore /\ name' = "" /\ left' = {} /\ paths' = FALSE
    /\ UNCHANGED <<obj, world>>

\* The cluster controller starts storaged when metad is restored, and graphd
\* when storaged is.  To start takes longer than the rest of the pass that let
\* them, which would use the Partitions and Checkpoints of its old copy
PodStarts(n, p) ==
    /\ cluster[n].exists /\ pod[n][p].phase = "none"
    /\ p \in Metads \/ cluster[n].metadDone \/ ~cluster[n].named
    /\ pc = "storaged" => nr.metad
    /\ pod' = [pod EXCEPT ![n][p].phase =
                  IF cluster[n].initAgents THEN "init" ELSE "main"]
    /\ UNCHANGED <<obj, old, queued, pc, local, cluster, faults>>

GraphdStarts(n) ==
    /\ cluster[n].exists /\ ~cluster[n].graphd
    /\ cluster[n].storagedDone \/ ~cluster[n].named
    /\ pc = "ready" => nr.storaged
    /\ cluster' = [cluster EXCEPT ![n].graphd = TRUE]
    /\ UNCHANGED <<obj, old, queued, pc, local, pod, faults>>

PodReady(n, p) ==
    /\ pod[n][p].phase = "main"
    /\ pod' = [pod EXCEPT ![n][p].phase = "ready"]
    /\ UNCHANGED <<obj, old, queued, pc, local, cluster, faults>>

\* A pod fails before it was released, and is replaced
PodFails(n, p) ==
    /\ Evictions /\ pod[n][p].phase = "init" /\ Fault
    /\ pod' = [pod EXCEPT ![n][p].phase = "failed"]
    /\ UNCHANGED <<obj, old, queued, pc, local, cluster>>
PodReplaced(n, p) ==
    /\ pod[n][p].phase = "failed"
    /\ pod' = [pod EXCEPT ![n][p].phase = "none"]
    /\ UNCHANGED <<obj, old, queued, pc, local, cluster, faults>>

-----------------------------------------------------------------------------
Stage1 ==
    \/ Create \/ Load \/ ConnectMetad \/ DownloadMeta \/ StopMeta \/ StatusMetaDownload
    \/ MetadReady \/ RestoreMeta \/ StatusMetad \/ AnnotateMetad \/ ConnectStoraged
    \/ DownloadStorage \/ StatusStorageDownload \/ Playback \/ StopStorage
    \/ StatusStoraged \/ AnnotateStoraged \/ ClusterReady \/ RemoveCheckpoints
    \/ RemoveInitAgentContainer
Stage2 == Release \/ StatusComplete
Pass == \/ Reconcile \/ CheckPods \/ GetOriginal \/ GetRestoredName \/ Stage
        \/ Stage1 \/ Stage2 \/ StatusFailed \/ RemoveCluster
PodSteps == \E n \in Names : GraphdStarts(n) \/ \E p \in Pods :
                PodStarts(n, p) \/ PodReady(n, p) \/ PodReplaced(n, p)
Next == Pass \/ CallFails \/ Restart \/ PodSteps
        \/ \E n \in Names, p \in Pods : PodFails(n, p)

Spec == Init /\ [][Next]_vars /\ WF_vars(Pass) /\ WF_vars(PodSteps)

-----------------------------------------------------------------------------
(***************************************************************************)
(* Properties.                                                             *)
(***************************************************************************)
\* A complete restore has loaded the backup into every metad and storaged
\* (nebula_restore_manager.go syncRestoreProcess)
CompleteHasData ==
    obj.complete => \A p \in Pods : pod[obj.name][p].applied

\* A pod leaves its init agent only with the files of the backup, and a
\* storaged only after the playback: nothing runs on an empty directory
\* (nebula_restore_manager.go downloadMetaData, playBackStorageData)
NoEmptyStart ==
    \A n \in Names, p \in Pods : cluster[n].initAgents /\ pod[n][p].phase \in {"main", "ready"}
        => pod[n][p].files /\ (p \in Storageds => pod[n][p].applied)

\* No storaged starts before the metads are restored, whatever is retried,
\* evicted or read late: it would register at an empty metad
\* (nebula_cluster_control.go updateNebulaCluster)
StoragedAfterMetad ==
    \A n \in Names, p \in Storageds : pod[n][p].phase # "none"
        => \A q \in Metads : pod[n][q].applied

\* The download directories are gone when the restore is complete
\* (nebula_restore_manager.go removeDownloadCheckpoints)
NoCheckpointsLeft ==
    obj.complete => \A p \in Pods : ~pod[obj.name][p].checkpoint

\* A restore that failed is not taken up again: the cluster it left changes no
\* more (nebula_restore_control.go UpdateNebulaRestore)
FailedIsFinal == [][obj.failed = "True" /\ pc = "idle" => pc' = "idle"]_vars

\* One restore creates one cluster (nebula_restore_manager.go getRestoredName)
OneCluster == Cardinality({n \in Names : cluster[n].exists}) <= 1

\* Every restore ends as complete or failed (nebula_restore_controller.go)
RestoreSettles == <>(obj.complete \/ obj.failed = "True")

\* The cluster of a failed restore is removed (nebula_restore_control.go)
FailedClusterGone ==
    AutoRemoveFailed
        => (obj.failed = "True" ~> \A n \in Names : ~cluster[n].exists)
=============================================================================
