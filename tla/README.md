# TLA+ models of nebula-operator

nebula-operator runs NebulaGraph clusters on Kubernetes. A `NebulaCluster` has
metad (metadata), storaged (data) and graphd (queries); the operator turns its
spec into StatefulSets, services and config maps, and carries out what a
StatefulSet cannot: moving partitions before a storage replica is removed,
transferring leaders before a pod is updated, replacing local volumes of lost
nodes, backup, restore and autoscaling.

The operator keeps no memory between two reconcile passes. All it knows is in
the status of the custom resource, in annotations and in metad. A pass may stop
at every call (an error, a restart, a wait expressed as a `ReconcileError`), and
the next one starts from the status that was saved, or from an older one in the
informer cache. Most models therefore make every call to metad or the API server
one step and let users, Kubernetes, metad and failures act in between.

## Inventory

| Component | State it keeps | Operations | Hard behaviour | What makes it correct |
|---|---|---|---|---|
| NebulaCluster controller (`pkg/controller/nebulacluster`) | the status of the object; a private copy during a pass | one pass: metad, storaged, graphd, exporter, console, then meta reconciler and PVC reclaimer; write status; requeue | passes cut off anywhere, reads from a lagging cache, whole-status overwrites, users changing the spec | every pass continues what earlier passes began; it sleeps only when nothing is left to do |
| Storaged scaling (`storaged_scaler.go`, `data_balancer.go`, `pvc_deleter.go`) | `phase`, `hostsAdded`, `balancedSpaces`, `removedSpaces`, `lastBalanceJob` | register hosts, balance each space, remove hosts from each space, drop hosts, balance leaders, mark claims, resize | a job outlives the pass that submitted it; answers get lost; spaces are created meanwhile | no data on a host that is dropped or a pod that is removed; every scaling ends, complete |
| PVC reclaimer, meta reconciler (`component/reclaimer`) | annotations and labels of claims | delete marked claims without pods; label claims | check, then act, while pods are created | the volume of a replica with data is never deleted |
| Storaged failover (`storaged_failover.go`) | `failureHosts` with times, flags and claim UIDs | record, confirm, recover, restart, wait, delete pod and claim, balance | heartbeats, clocks, StatefulSet and scheduler run on their own; passes get lost after a deletion | only the volume of a host that stayed offline is replaced; every host comes back |
| Storaged rolling update (`storaged_updater.go`) | StatefulSet partition, pod annotation `transLeaderBeginTime`, `balancedSpaces`, `lastBalancedTime` | next pod, leader transfer (sequential or concurrent), partition, leader balance, restart of one pod | leader counts change while leaders move; a timeout of 30 minutes; templates change in the middle | pods without leaders, or after the timeout, one by one; Running means done |
| Async groups (`pkg/util/async`) | two channels | add workers, launch, wait, expire | launcher, workers and collector interleave | a fork and join with at most n active |
| Metad, graphd (`metad_*.go`, `graphd_*.go`) | `phase`, `failureHosts`, StatefulSet partition | create, update, failover, suspend | storaged and graphd wait for metad's version | update order metad, storaged, graphd; metad keeps a majority with data |
| Flags (`component/helper.go`) | config map, template hash, last-applied annotation | write config map, put dynamic flags to pods, roll static ones | containers start between two writes; one failed put of several | flags reach every pod, without needless replacement |
| Zones (`storaged_cluster.go`, `pkg/scheduler/nodezone`) | config map of zones, zones of metad's hosts, annotations of pods | filter, permit, bind; record, add hosts to zones, update the mappings | cycles against listers that lag; several writes that fail in between | replicas of a group in different zones; a host in the zone of its pod |
| Webhook (`pkg/webhook`) | none (reads the object) | validate create, update | judges by a status that lags behind the spec | no change while a scaling is under way |
| Backup, cron backup (`nebulabackup`, `cronbackup`) | conditions, jobs, finalizers | start job, watch, clean, schedule, expire | job deleted or finished between reads; deletion during backup; a timer as the only wake-up | no backup is repeated, lost or left behind; slots are met |
| Restore (`nebularestore`) | conditions as stages, checkpoints in the status | create cluster, download, remap hosts, restart services | resumption between two stages; replaced pods | nothing starts before its data |
| Autoscaler (`pkg/controller/autoscaler`) | recommendations, scale events in memory | desired replicas from metrics, stabilise, limit rate | memory lost on restart; metrics missing; lost answers | within limits; no shrinking on little evidence; it settles |
| Metad client (`pkg/nebula`) | connection to the leader | admin calls with retry on leader change | lost answers, repeated requests | a call that failed may have happened |
| Provisioner, ngctl, exporter, console, certificates, charts | – | I/O and object construction | – | not modelled (exporter and console: only their existence) |

Interactions: passes call metad and the API server; metad runs balance jobs
on its own; the StatefulSet controller, scheduler, kubelet and
pvc-protection controller react to what a pass wrote; the webhook reads what
passes wrote. The hazards found in reading the code are listed, with their lines
and the properties that address them, in `PROJECT.json`.

## Modules

| Module | Content | For TLC | Proofs |
|---|---|---|---|
| `StoragedScale` | scaling of storaged, with metad's jobs, the StatefulSet, the reclaimer and the webhook | `MCStoragedScale`, `MCStoragedScaleLive` | invariants in `StoragedScaleInv`; `StoragedScaleProofs` |
| `StoragedFailover` | failover of storaged | `MCStoragedFailover` | `StoragedFailoverProofs` |
| `StoragedUpdate` | rolling update and restart of storaged | `MCUpdates` | `UpdateProofs` |
| `AsyncGroup`, `ForkJoin` | the async groups, and what they promise | `MCUpdates` | `BackupProofs` |
| `ClusterLifecycle` | the pass over all components, suspension, staged restore, deletion | `MCClusterLifecycle` | `ClusterLifecycleProofs` |
| `ComponentFailover` | failover of metad and graphd | `MCComponentFailover` | `ComponentFailoverProofs` |
| `ClusterRollout` | how versions of the components wait for each other | `MCRollout` | `UpdateProofs` |
| `DynamicFlags` | config map and flags of one component | `MCRollout` | `UpdateProofs` |
| `NodeZone` | scheduler plugin and the operator's zone records | `MCNodeZone`, `MCRollout` | `NodeZoneProofs` |
| `NebulaBackup`, `CronBackup` | the backup controllers | `MCBackups` | `BackupProofs` |
| `NebulaRestore` | the restore controller, the agents and the pods of the restored cluster | `MCBackups` | `BackupProofs` |
| `Autoscaler` | the autoscaler | `MCAutoscaler`, `MCAutoscalerLive` | `AutoscalerProofs` |

The MC modules put several small instances of a module, or of modules that share
no state, into one run: a variable `setting`, chosen in the initial state and
never changed, says which instance a behaviour belongs to. The constants of the
cfg are those of the first setting; the others are `INSTANCE ... WITH`. In
`MCClusterLifecycle` all settings are instances and the cfg bounds all of them, as its
invariants refer to the bounds.

Definitions whose comment says *mutant* are wrong variants of an action, a
plausible mistake in the code each. They are not used by the specifications: they
exist to show that a property notices the mistake.

### StoragedScale

`status` is the storaged status at the API server, `nc` the copy a pass works on,
`cache` the informer's copy, `pc` the place in the pass. `StartReconcile` reads
the object, `AddStorageHosts` is the registration in `syncStoragedWorkload`,
`Scale` the dispatch, `ScaleOut`/`ScaleOutBalance` and
`ScaleIn`/`ScaleInRemove`/`DropHosts`/`BalanceLeaders`/`PVCMark`/`ScaleInDone`
the two directions, `BalanceSpace` and `RemoveHost` the functions of
`data_balancer.go`, `UpdateWorkload` the resize, `ReclaimPV`/`DeletePVC` the two
halves of the reclaimer, `EndReconcile` the status write at the end. `Save` is
`UpdateNebulaClusterStatus`, which may fail. `CallFails` ends a pass at any call,
`Crash` forgets it. Around it: `PatchReplicas` (the user, past the webhook when
`Admission` says so), `CreateSpace`, the StatefulSet's `PodStart`, `PodReady`,
`PodStop`, `PodGone`, pod faults, and metad's jobs `FinishJob`, `FailJob`.

Partitions are abstracted to which spaces have some on which host: what decides
whether dropping a host loses data. A balance job names the hosts it empties;
job ids count up. `Admission = "settled"` stands for users who change replicas
only when the previous change is complete; `"webhook"` is the rule of
`validateNebulaClusterUpdateStoraged`; `"none"` is the default installation, in
which the webhook is off.

### StoragedFailover

`failures[o]` is the entry of `failureHosts`: recorded, confirmed after
`failoverPeriod`, the claim UIDs found then, `podRestarted`, `podRebuilt`.
`SyncStatus` is `syncNebulaClusterStatus`, `ShouldRecover` the choice between
`Recovery` and `Failover`; `TryRestartPod`, `ToleratePods`, `RebuildPod` with
`DeleteClaims`, `CheckPendingPod` and `BalanceSpaces` are the steps of
`Failover`. They handle one host per step in any order, as the code ranges over a
map. An absent pod in `ToleratePods` is a nil dereference in the code: the panic is
recovered by the controller runtime and the pass's changes are lost.

Time is two sets: `aged` (pods older than the tolerance of a minute) and `due`
(records older than the failover period). Pods are absent, pending (not
scheduled), scheduled, running (not ready), ready or terminating; a claim can be on
a lost node; `known` says that it carries the pod-name label, which only
`MetaReconcile` sets and by which the failover finds claims. A lost node is known
to the scheduler before the operator restarts the pod: the node grace period is
40 seconds, the failover period minutes. `steady`, `suspect`, `served` and `outdated` are
history variables; no action reads them.

### StoragedUpdate, AsyncGroup

A template is a pod spec and its annotations; a revision is the template itself.
`CallsUpdate` decides whether a pass comes to the updater, `GetNextUpdatePod`,
`BeginTransfer`, `TransLeader`, `EndTransfer`, `BalanceLeader`,
`UpdateRunningPhase` are its steps, `RestartPod` and `DeletePod` the restart by
annotation, `UpdateWorkload` the write of partition and template. `Observe`,
`RollPod`, `CompleteRollingUpdate`, `PodReplaced`, `PodRuns`, `PodReady` are the
StatefulSet controller and the kubelet (a pod's absence is merged into its
replacement); `Elect` and `LeadersBalanced` are raft and metad. `Parts` is at
least the number of replicas, so that a balanced space has a leader everywhere.
The replicas are fixed here. Here and in `DynamicFlags` the revisions of pods are
compared with the one that this pass has read; the code takes the one that the pass before wrote to
the status, as `ClusterRollout` does (`revision`).

In `AsyncGroup` workers are counted, not told apart. `ForkJoin` is what callers
are promised; the mapping takes a value in the channel for a finished task.

### ClusterLifecycle

One pod stands for a component. `at` runs through the steps of
`updateNebulaCluster`; `copy` is the pass's object. A stale read from the informer
costs a fault. The deletion takes graphd, then storaged, then lists and deletes the
claims that are not to be kept, then removes the finalizer; metad's workload goes
by the garbage collector.

### ComponentFailover, ClusterRollout, DynamicFlags

`ComponentFailover` has the failure hosts of metad and graphd as `StoragedFailover`
has those of storaged; that a new metad member comes online only after it has caught
up with a majority is external. `Minority` says that at most so many faults hit
metad that a majority of it could go on. The expiry of log claims after 24 hours
is left out.

In `ClusterRollout` a version stands for a pod spec, one step reads and writes the
workload of one component; what may happen within it is the subject of
`DynamicFlags` (all three components share that code) and `StoragedUpdate`. Configuration
files are mounted with a sub path: a container that restarts reads the config
map of that moment.

### NodeZone

A zone stands for its nodes, of which there are enough; there are three zones. The
plugin's `Filter`, `Permit`, `Unreserve` and the timeout of waiting pods read
listers that lag behind (`ListPod`, `ListConfigMap`). The operator's pass records
the zones pod by pod, adds hosts to metad's zones and writes the config map last.
A storaged is ready only when metad knows its host. A scale-in drops hosts in one
step, which is in detail in `StoragedScale`.

### NebulaBackup, CronBackup, NebulaRestore

Passes work on the copy that the cache showed; status writes read the object again
and merge. The controller runs only when the object is in its queue: after an error,
a watch event or a delay it asked for. In `CronBackup` the cron expression is a set of due
times and the clock a number; a backup is named after its slot. In `NebulaRestore`
file contents are one flag per pod.

### Autoscaler

Recommendations and scale events carry ages, capped where no rule tells them apart;
a tick is the time between two passes. Windows and periods are in ticks. Calls that
succeed although their answer is lost count as restarts, as the controller forgets what
it was doing in both. `made` (switched on by `History`) is a history of decisions which only
properties read. The limits in the rate functions are those of the integers the
code computes with; floats are rounded as there.

## Runs

A *fault* is a failed or lost call, a crash or restart of the operator, or a failure of
the environment that the module names (a lost node, an evicted pod, a failed job, a
heartbeat that does not arrive). Each instance has a budget of faults (`MaxFaults`), of changes
by users (`MaxPatches`, `MaxChanges`, `MaxEdits`, `MaxScales`) and, where they are counted
apart, of restarts and timeouts. All budgets are guards of the actions that
spend them. Nothing else is cut off: there are no state constraints.

| Run | Settings and bounds | Shows |
|---|---|---|
| `scale_safe` | up to 3 ordinals, 2 spaces, 2 patches, settled users; `safe`: 2 faults; `manual`: no automatic balance, 1 fault | hosts are dropped empty (`DropSafe`), pods leave after their hosts (`ShrinkSafe`), claims go after pods and data (`ReclaimSafe`), a settled cluster is registered (`SettledRegistered`) and balanced (`SettledSound`, with the inductive invariant) |
| `scale_converges` | 2 ordinals, 1 space, 2 patches; `webhook`: outdated cache, unready pods, 1 fault; `any`: no webhook, 0 faults; `settled`: 3 ordinals, 1 fault | a recorded job is a job of metad (`JobRecorded`), the order of drop and shrink within a pass (`ShrinkAfterDrop`), scalings end (`ScaleEnds`) |
| `failover` | 2 replicas, 1 space; `safe`: 2 faults; `stale`: outdated reads, 2 faults at one of the hosts, up to the balance; `live`: 1 fault | claims of pods that were ready stay (`SteadyKeepsClaim`), one claim per outage (`OneClaimPerOutage`), hosts come back (`OneFaultCompletes`) |
| `failover_stuck` | 1 replica, 1 space, 2 faults | a violation, see below |
| `updates` | async group with 5 workers and 2 tokens; 3 pods, 2 spaces, 2 templates, patient and prompt, 2 changes, 1 fault (`rolls`); concurrent transfer, 1 change and 1 restart one after the other, 1 timeout (`mixed`); 1 space, 2 changes by users who change a template again while its pods are replaced, 1 fault (`hasty`); a bad image, impatient users (`live`) | `Implements`, `AtMostConcurrency`, `LeadersMoved`, `RunningIsDone`, `UpdateCompletes` |
| `backups` | backups (`backup`, `edited`, `mild`), schedules with slots 2,4,6,8, `MaxTime` 4, pauses, 1 fault (`cron`), slots 1..6, `MaxTime` 3, 1 fault (`dense`: of three backups that fall due a fault may make two overlap, never all), slots 1,3..9, `MaxTime` 4, left alone (`mildCron`), restores of 2 metads and 2 storageds with 3 faults, evictions, stale reads, 2 names and 2 restarts (`failing`, `evicted`, `named`) | nothing is repeated, lost or left behind; slots of a schedule of equal distances are met (`CronMeets`), overlap (`CronOverlap`) and expiry (`CronCleans`) of backups; order of a restore |
| `autoscale` | 2 metrics, limits 2–5, loads 1 and 5 (`blind`); policies by pods and percent with `Min`, limits 1–5 (`rate`); limits 1–3 and 2–5, users 0, 3, 6, 1 restart (`window`) | changes are paced and stay in the limits (`ChangesPaced`), no shrinking blind (`NoShrinkBlind`) |
| `autoscale_settles` | limits 1–3, loads 1 and 3, a change and a restart | `Settles` |
| `life` | any change with 1 fault (`live`), 2 suspensions (`suspend`), both reclaim policies (`claims`), a restore in stages with 2 faults and evictions (`restored`) | the controller sleeps only when all is done (`RestsWhenDone`, with the inductive invariants `OrderInv` and `RestInv`), suspension in order (`TakesInOrder`), an end of every change (`LifeSettles`) |
| `cfail` | 3 metads, 2 graphds, 1 fault and 1 change (`live`); 1 graphd, lost heartbeats, 2 faults (`faults`) | `MetadataKept`, `OneClaimPerOutage`, `MetadGraphdRecover` |
| `rollout` | 2 pods, 2 versions, 2 edits, sizes 1 and 2, pods going down, images, flags and graphd's zones | `RolloutInOrder`, `RolloutEnds`, `FlagsRollOnce`, `FlagsSettle`, `ZonesEnd` |
| `zones` | storaged of 1 or 3 pods, 3 zones, 2 edits, a full zone, a failed call (`scaled`); 3 pods, an eviction, a rebuild (`lost`) | `ZonesHold` |

Why these bounds are enough to be of use: two ordinals are the least where a scale-in
keeps data somewhere, three where it can be left half done; two spaces are the least
with one done and one to do; two patches let a scaling follow another, in the other
direction or further; two faults let the retry of something that failed fail. In
`scale_safe` the bound of eight jobs refuses no job that these budgets allow.
Three metads are the least with a majority. Where the budget
of a liveness property is one fault, the module's comments or the list of findings below
say what a second one does. For what is proved, none of the bounds matter.

`CHECK_DEADLOCK FALSE` is set where the system may stop: a finished backup, a finished
update, a deleted cluster, budgets of users that are used up while nothing is left
to requeue. The other runs check for deadlock. `SYMMETRY` is used only
in `zones`, which checks an invariant. In `MCRollout`, where zones occur under a
liveness property, symmetry is not sound and pods take free zones in a fixed
order instead: no definition depends on which zone it is.

## Fairness

Weak fairness is assumed of the steps of a pass: the controller runtime requeues an
object after every error and the operator asks for a requeue while something is
unfinished, so that a pass goes on unless it crashes, which costs a fault. Weak fairness
of the StatefulSet controller, kubelet, scheduler and garbage collector, of metad's
jobs, elections and heartbeats and of time says that the environment works.

Strong fairness is assumed in three places. `Schedule` (`NodeZone`): a pending pod is
tried again for ever, although in between there may be no place. `IntervalPasses`
(`StoragedUpdate`): time goes on although the condition that waits for it is
reset by other passes. `ScaleEnds` (`ClusterRollout`): a scaling that is
interrupted by updates ends when it is left alone often enough.

No fairness is assumed of users and faults. In `CronBackup` a timer fires not earlier than
asked and eventually. `NebulaBackup` and `NebulaRestore` run a pass only when the
object is queued, which is the code's and not an assumption: that nobody wakes a controller
is one of the hazards.

## What the checks found

Most of what the code promises holds. Each disagreement below was found by TLC: the
named definition, a property in the named module, is violated under the module's own
specification (`Spec`, or `LiveSpec` where it says so) with the constants given.

`failover_stuck` is kept as a run: a node is lost after `tryRestartPod` has restarted its
pod, the pod stays terminating on the dead node, `toleratePods` gives up on every pass, and
the host never comes back (`storaged_failover.go:156`, against
`doc/user/local_pv_failover.md:26`).

| Property | Module and constants | What happens | Source, and what it contradicts |
|---|---|---|---|
| `ScaleNotInterrupted` | `StoragedScale`: `MaxReplicas = 2`, 1 space, webhook, no lag, no pod faults, 2 patches, 1 fault | the webhook judges by a status that lags behind: a second patch turns a scaling around | `webhook/nebulacluster/helper.go:131`; `webhook.md:144` |
| `HostsRegistered` | `StoragedScale`: `MaxReplicas = 2`, no spaces, 1 patch, `Admission` `"none"` and 0 faults, or `"webhook"` and 1 fault | when the replicas have grown before the first registration is recorded, only the new hosts are added and the record is written: the others are never added | `storaged_cluster.go:196`, `:416` |
| `RebuiltBalanced` | `StoragedFailover`: `N = 1`, 1 space, 1 fault | the recovery clears a rebuilt host before its spaces are balanced | `storaged_cluster.go:225`; `local_pv_failover.md:27` |
| `AfterPeriod` | `StoragedFailover`: `N = 2`, no spaces, 2 faults | restart and rebuild range over all failure hosts, also one that is not confirmed yet | `storaged_failover.go:117`; `local_pv_failover.md:19` |
| `DataGone`, `CleanAfterBackup`, `PhaseInferred` | `NebulaBackup`: all switches `FALSE`, no faults | a backup without a name yet is clean without cleaning; the clean job starts while the backup's pod runs; an update of other fields empties the phase | `nebula_backup_manager.go:89`, `:250`; `kube/nebulabackup.go:194` |
| `DeleteCompletes` | `NebulaBackup`: `Edits = TRUE` | `cleanBackupData` taken back leaves a finalizer that nobody removes | `nebula_backup_control.go:161` |
| `ScheduleMet` | `CronBackup`: slots 1,2,6,7,11,12,16,17, `MaxTime = 9`; slots 1,2,3,7,8,9,13,14,15, `MaxTime = 9`; `Reserved = 2`, no pauses, no faults | a backup that runs long makes the search for the last slot start behind it; the delay that follows is negative, the queue drops it and the schedule ends. The second schedule has the shape of the comment's example `30 6-16/4 * * 1-5`. With equal distances it holds (`CronMeets`) | `cronbackup_manager.go:164`, `:227`, against the comment at `:223` |
| `NeverAsleep` | `CronBackup`: slots 1,2,6,7,11,12, `MaxTime = 6`, `Reserved = 2` | the wake-up is set past the next slot | `cronbackup_manager.go:154` |
| `ExpiredGo`, `ExpiredGoPaused` | `CronBackup`: slots 2,4..12, `MaxTime = 6`, never started; slots 2..10, `MaxTime = 5`, paused | a finished backup stays past the reserved time when another never starts, or when the schedule is paused | `cronbackup_control.go:196`, `:152` |
| `CompleteHasData` | `NebulaRestore`: 2+2 pods, evictions, 1 fault | a restore is complete although a replaced pod has not got its data | `kube/nebularestore.go:123` |
| `NoCheckpointsLeft` | `NebulaRestore`: 1 fault | the directories of a failed download stay | `nebula_restore_manager.go:522` |
| `FailedClusterGone` | `NebulaRestore`: `AutoRemoveFailed`, other namespace, 1 fault | the failed cluster stays | `nebula_restore_control.go:116` |
| `RateLimited` | `Autoscaler`: policy by pods, 1 restart | a restart forgets the scale events, and the rate | `autoscaler.go:362`, `:594` |
| `FlagRespected` | `Autoscaler`: `FlagWindow = 3`, rules without a window | the default of the API hides the flag | `autoscaling/v1alpha1/defaults.go:58` |
| `OneController` | `Autoscaler`: two autoscalers | both scale one cluster | `autoscaler.go:474` |
| `OnlyGraphd` | `Autoscaler`: 1 change | the write takes a storaged replica count back that a user changed meanwhile | `autoscaler.go:349`; `nebula_autoscaler.md:4` |
| `LeadersMoved` | `StoragedUpdate`: `Patient = FALSE`, 2 changes, templates that differ in annotations | a template taken back while it rolls ends two pods without transfer, as the pod spec does not differ and the pods are not protected again | `util/extender/unstructured.go:177`; `storage_guide.md:16` |
| `LeadersMoved` | `StoragedUpdate`: `Patient = FALSE`, 2 changes, templates that differ in the pod spec | a template changed while the leaders are balanced at the end of an update: the job still runs and gives leaders back to a pod that has just been let go. In `hasty` users leave out that time, and the property holds | `storaged_updater.go:481`; `storage_guide.md:16` |
| `RunningIsDone` | `StoragedUpdate`: `Patient = FALSE`, 1 space; 1 change and 1 restart, or 2 changes of annotations | the pass that ends an update also restarts the pod whose restart was asked for meanwhile, and saves `Running`; a template that differs in annotations, taken back while the leaders are balanced, ends pods in an update that is already taken for balanced | `storaged_cluster.go:258`; `unstructured.go:177` |
| `TimeoutIsOwn` | `StoragedUpdate`: 3 images, impatient, 3 changes, 1 timeout | a pod inherits the transfer time of its predecessor | `storaged_updater.go:287` |
| `RestartOnce` | `StoragedUpdate`: 1 restart | a restart is done twice | `storaged_cluster.go:258`; `restart_cluster.md:29` |
| `WaitReturns` | `AsyncGroup`: `Concurrency = 0`, 2 workers, `LiveSpec` | `Wait` never returns | `util/async/async.go:35` |
| `KeepsClaims`, `NoLeftovers` | `ClusterLifecycle`: deletion with `Reclaims = {FALSE}`, `{TRUE}` | a claim the operator has not marked yet goes although nobody asked; one marked earlier stays although asked | `pvc_deleter.go:46`, `nebula_cluster_control.go:120`; `pv_reclaim.md:4`, `:9` |
| `SuspendsEarly` never | `ClusterLifecycle`: 2 faults, 3 changes (suspend only), `Reclaims = {FALSE}` | suspend, resume, suspend: graphd is taken for suspended by its status while its workload is live, and storaged goes first | `helper.go:620` |
| `MajorityStays`, `FailoverCompletes` | `ComponentFailover`: `N = 3`, `G = 1`, minority, 2 faults (`LiveSpec` for the second) | a restart of a member that runs takes the majority; a terminating pod on a lost node ends every pass, as in `failover_stuck` | `metad_failover.go:73`, `:112`; `README.md:196` |
| `ResetSettles` | `DynamicFlags`: 2 replicas, one dynamic flag; patient with 1 edit and a pod down, or impatient with 2 edits and a failed put | a flag taken out keeps its value on some pods | `metad_cluster.go:210`, `helper.go:263` |
| `StaticSettles` | `DynamicFlags`: one static flag, `Returns`, 2 edits, a pod down | a container that restarts between two changes keeps the value that was taken back | `helper.go:218`; `custom_config.md:43` |
| `NoNeedlessRoll` | `DynamicFlags`: `session_reclaim_interval_secs` | a flag said to be dynamic rolls the pods | `template.go:19`; `custom_config.md:47` |
| `PhaseReturns` | `ClusterRollout`: sizes 1 and 2, one version, not prompt, 2 edits | a phase stays at Update | `graphd_cluster.go:218` |
| `ZonesSettle` | `NodeZone`: storaged, sizes 1 and 2, impatient, 2 edits | when scalings overlap, a recorded zone is taken for done although the pod is a new one | `storaged_cluster.go:471` |
| `Spread` | `NodeZone`: graphd, 3 pods, 1 eviction | an evicted pod whose ordinal is a multiple of three is not filtered and may share a zone | `node_zone.go:214`, `:51` |

Smaller things, met while modelling. `StoragedScale`: `DropSafe` fails as soon as one of
settled users, fresh cache and stable pods is given up: a change of direction lets a
removal take a balance job of the same space for its own, as `lastBalanceJob` has
no kind; an outdated copy brings back old jobs and removed spaces; an unready
pod is left out of the hosts to remove. `StoragedFailover`: after a pass that
began with an outdated copy a replacement may be deleted, as the old record is confirmed afresh
with the new claim, and `OneClaimPerOutage` excepts such passes (`outdated`); it
holds for three faults (TLC, one and two replicas) and fails with four: a pass that confirmed
the record and deleted the claim is lost in a crash, so that the record stays unconfirmed
while the reconciler labels the new claim, and a second confirmation takes the replacement for
the claim that failed; the third
step of `local_pv_failover.md`, a job that removes the offline host, has no counterpart in the
code. `NebulaBackup`: with an outdated cache and automatic removal a backup can run twice;
a second identical failure changes no status and so wakes nobody, and `SyncPeriod` defaults
to 0. `NebulaRestore`: a stale read of an empty `ClusterName` creates a second cluster; a
failed `ListPods` ends the pass without an error; a nil dereference precedes the automatic
removal; when the write of `Failed` fails, automatic removal is followed by an empty
cluster; a replaced pod waits in its init agent. `StoragedUpdate`: `IsLeaderBalanced` counts
only online hosts; a restart annotation set between read and write is lost; a restart
during an update may take a second pod. `ComponentFailover`: with three faults
`MetadataKept` and `OneClaimPerOutage` fail (two lost passes, one before the record is saved,
one after the deletion). `NodeZone`: a cluster with fewer than three labelled zones
indexes past the end (`node_zone.go:238`); graphd's zone is not recorded if the pod got
ready before a pass that saw another one unready.

## Proofs

Proofs are checked by TLAPS for all values of the constants, under the assumptions on constants
named in the modules (sets of spaces are finite, bounds are naturals and so on; TLC evaluates
them on every run). A theorem speaks of `Spec`; it uses `Init` and `[][Next]_vars` and no
fairness. Each invariant below was checked with TLC before it was proved.

`StoragedScaleInv` defines the invariants, `StoragedScaleProofs` proves:

- `TypeCorrect`, `JobsRecorded`, `ShrinksAfterDrop` without any condition: whatever is lost,
  outdated or restarted, a recorded job is one metad was given for that space (`RefInv`), and
  within a pass the drop comes before the resize (`DropInv`).
- `CarefulDropSafe`, `CarefulShrinkSafe`, under `Careful` (settled users, fresh
  cache, pods that stay up; without any of them they are false, see above) for any number of
  failed calls, lost answers, crashes and failed jobs. `CarefulInv` says that status and
  copy agree up to what the scaler is about to write (`SavedInv`), that a pass works on the
  replicas asked for or has nothing to scale (`PassInv`), and that a space is removed only
  when the recorded job and *all later jobs of that space* empty every surplus host
  (`RecordInv`): later jobs matter because a lost answer makes the operator submit twice.
- `CarefulReclaimSafe`: a claim is deleted only when its pod is gone and metad keeps nothing
  there. Partitions are only where pods are, and a job runs only while all registered
  hosts have pods (`ReclaimInv`: `PhaseInv`, `HostInv`, `JobInv`, `ClaimInv`): otherwise
  a late job could put data on a host whose claim is marked.
- `CarefulSettled`: the state that patience waits for is the right one. When the
  operator and Kubernetes are done, exactly the replicas asked for are registered, and with
  `AutoBalance` every space has partitions on each of them and on no other. `SettledInv`
  adds to `ReclaimInv` that wanted replicas that exist are registered, behind
  `AddStorageHosts` also those about to be asked for (`RegisteredInv`), and that what
  `balancedSpaces` and the finished job of a scale-out say is true at metad
  (`BalancedInv`); a removal job takes partitions from surplus hosts only, so that
  the next scaling does not undo what the last one reached.

`StoragedFailoverProofs`: `TypeCorrect`; `SteadyKeeps`, with any faults and an outdated
cache: the failover does not delete the claim of a pod that was ready when the pass
began and that only the pass has touched. `ToleranceInv` carries what `toleratePods` saw
to the deletion several steps later. `OneClaimOnly`, for any number of replicas and spaces and up
to two faults of any kind: in one outage of a host, failover deletes only the claim that the
host had when it went offline, until a pass begins with an outdated copy. Its `OutageInv` is
explained with `ComponentFailoverProofs`, where the argument is the same; what differs is that
nodes are lost at any moment, that the balance writes the status in the middle of a pass
(`GoesOn`), and that claims are found by a label (`Found`), on which the argument does not rely.
The invariant was checked with TLC for one and two replicas before the proof, which then added
that a pod is not scheduled on a lost node (`Volume`).

`ComponentFailoverProofs`, for any number of metads and graphds and any scaling of graphd:
`TypeCorrect` for all faults; `OneClaimOnly` (in one outage of a metad only the claim that it had
when it went offline is deleted) with up to two faults of any kind; `MajorityKeepsData`
(whatever is rebuilt, a majority of the members has the metadata) with up to two faults that leave
metad a majority (`Minority`) and at least three metads. Three faults are too many for both, see above.
`OutageInv` counts on what one fault can reach: as long as a second one is left, all members but one are
`Fine` (`BadInv`), a pod is away only after a restart that the status has, of a failure that the
status has as confirmed (`Restarts`), and only a member whose node is lost is
rebuilt (`Rebuilds`). With the last fault spent no pass is lost any more. `Claimed` joins the two
cases: a claim goes, and its replacement comes, only when the confirmation is in the status or
certain to get there, and a record never names a claim other than the one the outage began with.
For the majority, `SafeInv` says which members keep their data whatever comes (`Safe`: the
volume is there, the pod runs or was started in time, and the pass is not about to rebuild it),
and that these are a majority.

`BackupProofs` begins with the async groups, for any number of workers, any channel size, with and without
expiry: types, `GroupTokensHeld` (tokens are exactly the workers `Wait` has not accounted for),
`GroupAtMostConcurrency`, `GroupJoinsAll` (an answer other than the time-out accounts for
every worker) and `GroupImplements`, the refinement of `ForkJoin`. Of `NebulaBackup`, for any
number of faults, it proves `CompleteIsStored` without conditions (until it is deleted, a
backup recorded as complete has its data in the storage), `BackupTakenOnce` with a fresh cache
(no finished backup is taken again; with an outdated one a backup can run twice) and
`GoneIsCleaned` with a fresh cache and users who do not take `cleanBackupData` back (an
object deleted after its backup was complete and named leaves no data). `DataInv` follows the
data from the pod's log to the condition, `TakeInv` says that a pass that may create a job
knows the object is not finished, `CleanInv` that nothing of a completed backup writes any more
and that the condition Clean, in the object, the copy or about to be written, is true of the storage.
Of `CronBackup` it proves `OverlapsNeedFaults`: for every schedule, with pauses, the backups that run
at a time are at most one more than the stale reads, lost answers, restarts and
deletions there were. `OverlapInv` counts the running backups other than the last recorded
one, at each step of a pass.

`NodeZoneProofs`: `TypeCorrect`; `ZonesCorrect`, for storaged with any number of pods,
zones, evictions, full zones and failed calls: pods of a group run in different zones, and
metad has every host in the zone of its pod. It assumes `Kept`: users do not rescale,
or they rescale patiently and pods are not rebuilt, as the rebuild of a pod that is leaving
may choose another zone. `ZoneInv` relates what the scheduler reserved, what
the listers show, what the pass recorded and what metad has.

`AutoscalerProofs`: `TypeCorrect`, `ChangeInBounds`, `ShrinkStabilized`, `ShrinkSighted`,
for all limits, metrics, rules, restarts and faults. `DecideInv` follows a decision
from the samples over the bounds and the window to the write.

`ClusterLifecycleProofs`: `TypeCorrect`; `ClaimsKept` (no deletion takes a claim that is
marked to be kept) and `RestoreInOrder` (no storaged before metad is restored, no graphd before
storaged) for all constants; `SuspendedInOrder` (a component is suspended after those that
use it) with at most one fault or when nobody suspends, which is as far as it is true:
`OrderInv` says what the phase in the status means for the workload, and two failed
writes in two suspensions break that. `RestIsDone`, for any number of faults, changes,
outdated reads, evictions and restores: the controller goes to sleep only on a cluster that is as its
users want it, with its exporter, console and the annotations of its claims. What a pass did
a while ago must still hold when it ends, which is why `RestInv` compares a pass with the present as long as
nothing has queued the object again: what it read still holds, and a component it has passed is
ready or has a phase that the status write will change and so wake the controller
(`SeenIsTrue`); exporter, console and claims are done in this order (`DoneIsTrue`); a console that
is about to go is an older one (`VersionsGrow`); pods have their claims (`ClaimsStay`); and an
error leads to the status write and a requeue (`ErrorEnds`).

`UpdateProofs`, of `StoragedUpdate`: `TypeCorrect`; `UpdateDone` (Running again means all pods have the
template and all leaders were found balanced after the last pod ended) under `Calm` (users
wait for the last update, templates are seen promptly, no restart annotations) for more
than one replica, as `UpdateRunningPhase` skips the balance check for one; `LeadersStayMoved`
(no pod ends that leads a partition) under `Calm` without transfers that time out.
`UpdateInv` consists of `AtRest` (until a new template is observed all is as the last
update left it), `PassHolds` (what a pass read still holds) and `BalancedLast`; `LeaderInv`
adds that pods the partition lets go have no leaders and get none back.

Of `ClusterRollout`, `UpdateProofs` proves `MetadRollsFirst`: no pod of storaged or graphd is newer than
one of metad, for any sizes, versions, scalings, pods that go down and faults. It
assumes `Prompt` (workloads are observed before the next pass; the operator trusts the
StatefulSet's status, and without it TLC finds a violation of `MetadFirst` when a pod goes down).
The invariant is about the current revision of metad, below which no metad pod is (`Floor`):
the pods of the others, and what their partition would let them become, do not exceed it
(`HeldBack`), neither does what a pass that is past an updated metad writes
(`Released`), and no workload is ahead of metad's (`VersionsInOrder`). That a
partition is never larger than its StatefulSet was an invariant of this model until the
prover asked why: it is false (a scale-in with a partition left by an earlier update), and nothing needs it.

Of `DynamicFlags`: `FlagsRollForStatic`: pods are replaced only for an image or for a flag that is
not dynamic, whatever users change and return, for any flags, replicas, pods that go down and failed
calls. `FlagsInv` says that every template there is (workload, both revisions in the status,
pods, the pass's copies) hashes exactly the static flags. It assumes that no documented flag is
static for the code, which the flag of `NoNeedlessRoll` above is.

Of `NebulaRestore` (in `BackupProofs`): `RestoreTypeCorrect`; `StoragedWaits` (no storaged of the restored cluster
starts before all its metads have the backup) and `OneClusterOnly`, for any pods, names, restarts,
failed calls, evictions and outdated reads that keep the cluster (`RestoreKept`); `RestoresAllData`
(a metad runs only on its files, a storaged only after the playback, graphd after both, and a
complete restore has loaded every pod), with failed calls and restarts, but without evictions and
outdated reads (`RestoreQuiet`). `OrderInv` says that a flag in any copy of the object is in the object
and that flags, annotations and the place in the pass tell the truth about the metads, which are
restored one after the other (`AppliedMeta`: in a pass, those that are not left are done).
For the storageds that is not inductive: a later pass downloads what the
partitions in its status list, and a pass that has just restored metad has none in its copy.
`PartitionInv` closes that gap: until metad counts as restored no storaged runs, so this pass
waits for the storageds and ends, and every later one reads the partitions. The conditions
are needed; without any one of them TLC finds a counterexample with one pod of each kind:
`StoragedAfterMetad` fails with automatic removal and a failed write of `Failed`, and
with outdated reads and two names, `OneCluster` with the latter, `NoEmptyStart` and
`CompleteHasData` with an eviction or an outdated read.

### What stays with TLC

- Liveness (`ScaleEnds`, `OneFaultCompletes`, `UpdateCompletes`, `BackupEnds`, `CronMeets`,
  `RestoreEnds`, `Settles`, `LifeSettles`, `MetadGraphdRecover`, `RolloutEnds`,
  `FlagsSettle`, `ZonesEnd`): it needs fairness and `ENABLED`, beyond the prover's reach.
- Rates of the autoscaler (part of `ChangesPaced`): sums over sets need induction over data.
- `OneClaimPerOutage` of `StoragedFailover` with three faults (with four it is false, see
  above); `RunningIsDone` and `LeadersMoved` with restarts and timeouts;
  `MetadataKept` with one or two metads (the proof needs three).
- That graphd rolls after storaged (`GraphdLast`, part of `RolloutInOrder`): it holds for two versions only. With
  three versions and three changes TLC finds that a rolling update may delete a storaged pod whose
  partition is then reset by the next version, so that it returns with the old
  revision after graphd has rolled.
- That a schedule deletes only backups that have ended and are expired (`CronCleans`): the code
  sorts the backups, and what the library's sort returns needs induction.

## Not modelled

The local volume provisioner (disk discovery on a node), ngctl, certificates, charts, code
generated for the API types, connections and codecs of the clients, metrics and events. Of the
webhooks only the rule on storaged replicas and phases is a guard of the users' actions; the
others check single fields. The exporter and the console occur in `ClusterLifecycle` with
their pods only. The PV policy of the reclaimer is left out. Failover, scaling and the rolling update of
storaged are separate models: a failover that pre-empts a balance of the same cluster
(`storaged_cluster.go:226`) is a hazard no property covers, as their product is out of
TLC's reach. `StatefulSet`, scheduler, kubelet, metad's jobs and raft are environment,
modelled as far as the operator relies on them.
