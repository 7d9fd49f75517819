--------------------------- MODULE StoragedScale ---------------------------
(***************************************************************************)
(* Scaling of the storage service of a NebulaCluster: the storaged part of *)
(* one reconcile pass (storaged_cluster.go), the scaler that moves         *)
(* partitions with metad's balance jobs (storaged_scaler.go,               *)
(* data_balancer.go), the deferred reclaim of volumes (pvc_deleter.go,     *)
(* pvc_reclaimer.go) and the admission webhook.                            *)
(*                                                                         *)
(* A reconcile pass works on a private copy nc of the status it read at    *)
(* the start and writes it back with UpdateNebulaClusterStatus, which      *)
(* overwrites the whole status of the object.  Every call to the API       *)
(* server or to metad is one step, so the user, the StatefulSet            *)
(* controller, metad's jobs, failures and restarts come in between.        *)
(***************************************************************************)
EXTENDS Integers, Sequences, FiniteSets

CONSTANTS
    MaxReplicas,  \* bound: ordinals are 0 .. MaxReplicas - 1
    Spaces,       \* identifiers of the graph spaces users may create
    AutoBalance,  \* spec.storaged.enableAutoBalance
    Admission,    \* when replicas may change: "none", "webhook", "settled"
    CacheLag,     \* may a pass start from an outdated informer cache?
    PodFaults,    \* may running pods be lost or become unready?
    MaxPatches,   \* bound on the user's changes of spec.storaged.replicas
    MaxFaults,    \* bound on crashes, failed calls and jobs, stale reads, pod faults
    MaxJobs       \* bound on the balance jobs submitted to metad

ASSUME ReplicasAssumption == MaxReplicas \in Nat \ {0}
ASSUME SpacesAssumption   == Spaces \subseteq Nat
ASSUME SwitchAssumption   ==
    /\ {AutoBalance, CacheLag, PodFaults} \subseteq BOOLEAN
    /\ Admission \in {"none", "webhook", "settled"}
ASSUME BoundAssumption    == {MaxPatches, MaxFaults, MaxJobs} \subseteq Nat

Ordinals == 0 .. MaxReplicas - 1
Replicas == 1 .. MaxReplicas
Phases   == {"", "Running", "ScaleIn", "ScaleOut"}
PodState == {"absent", "pending", "running", "ready"}
PVCState == {"none", "bound", "marked", "deleting"}

\* status.storaged.lastBalanceJob: the space and the job, never its kind
NoJob     == [space |-> -1, id |-> 0]
JobRef    == {NoJob} \cup [space : Spaces, id : Nat \ {0}]
\* status.storaged, as far as scaling reads and writes it
StatusType == [phase : Phases, hostsAdded : BOOLEAN, balanced : SUBSET Spaces,
               removed : SUBSET Spaces, job : JobRef]
NewStatus == [phase |-> "", hostsAdded |-> FALSE, balanced |-> {},
              removed |-> {}, job |-> NoJob]
\* A balance job of metad: the space and the hosts it takes partitions from;
\* no hosts is what BalanceData sends, and RemoveHost with an empty list too
JobState == {"running", "failed", "finished"}
JobType  == [space : Spaces, hosts : SUBSET Ordinals, state : JobState]

VARIABLES
    spec,     \* spec.storaged.replicas at the API server
    status,   \* status.storaged at the API server
    cache,    \* the informer's copy of both
    sts,      \* spec.replicas of the StatefulSet
    pods,     \* pods[o]: the pod of ordinal o
    pvcs,     \* pvcs[o]: its volume claim; "marked" is pvc-defer-deleting
    hosts,    \* storage hosts registered in metad
    spaces,   \* graph spaces that exist
    parts,    \* parts[o]: the spaces with partitions on host o
    jobs,     \* balance jobs in order of submission
    pc,       \* the next call of the reconcile pass, "idle" between passes
    nc,       \* the pass's copy of the status
    want,     \* the replicas of the spec the pass read
    old,      \* the replicas of the StatefulSet the pass read
    ready,    \* had the StatefulSet as many ready pods as the spec asks for?
    listed,   \* spaces returned by ListSpaces
    targets,  \* hosts to drop; later the claims to reclaim
    patches,  \* replica changes made so far
    faults    \* faults so far

local == <<pc, nc, want, old, ready, listed, targets>>
metad == <<hosts, spaces, parts, jobs>>
kube  == <<sts, pods, pvcs>>
api   == <<spec, status, cache>>
vars  == <<spec, status, cache, sts, pods, pvcs, hosts, spaces, parts, jobs,
           pc, nc, want, old, ready, listed, targets, patches, faults>>

Api == [spec |-> spec, status |-> status]

\* The changes a pass makes to its copy of the status
InPhase(c, p)      == [c EXCEPT !.phase = p]
WithHosts(c)       == [c EXCEPT !.hostsAdded = TRUE]
WithJob(c, s, j)   == [c EXCEPT !.job = [space |-> s, id |-> j]]
WithBalanced(c, s) == [c EXCEPT !.balanced = @ \cup {s}]
WithRemoved(c, s)  == [c EXCEPT !.removed = @ \cup {s}]
ScaledOut(c)       == [c EXCEPT !.balanced = {}, !.job = NoJob, !.phase = "Running"]
ScaledIn(c)        == [c EXCEPT !.balanced = {}, !.removed = {}, !.job = NoJob,
                                !.phase = "Running"]

---------------------------------------------------------------------------
\* A cluster whose StatefulSet has just been created
Init ==
    /\ spec \in Replicas
    /\ status = NewStatus
    /\ cache = Api
    /\ sts = spec
    /\ pods = [o \in Ordinals |-> "absent"]
    /\ pvcs = [o \in Ordinals |-> "none"]
    /\ hosts = {}
    /\ spaces = {}
    /\ parts = [o \in Ordinals |-> {}]
    /\ jobs = <<>>
    /\ pc = "idle"
    /\ nc = NewStatus
    /\ want = 0
    /\ old = 0
    /\ ready = FALSE
    /\ listed = {}
    /\ targets = {}
    /\ patches = 0
    /\ faults = 0

Fault == faults < MaxFaults /\ faults' = faults + 1

\* The locals of a pass go out of scope
Forget ==
    /\ pc' = "idle" /\ nc' = NewStatus /\ want' = 0 /\ old' = 0
    /\ ready' = FALSE /\ listed' = {} /\ targets' = {}

\* nc has changed; write it with UpdateNebulaClusterStatus and go on at next,
\* or return the error of the failed write
Save(copy, next) ==
    /\ nc' = copy
    /\ \/ status' = copy /\ pc' = next /\ UNCHANGED faults
       \/ Fault /\ pc' = "end" /\ UNCHANGED status

\* Spaces are handled in the order in which metad lists them
IsFirst(s, S) == s \in S /\ \A t \in S : s <= t

ReadyReplicas == Cardinality({o \in Ordinals : pods[o] = "ready"})

---------------------------------------------------------------------------
(* The reconcile pass, up to the scaler *)

\* The controller's client reads the NebulaCluster from the informer cache,
\* which may be behind the API server; everything else is read directly
StartReconcile ==
    /\ pc = "idle"
    /\ \E seen \in {Api, cache} :
          /\ \/ seen = Api /\ UNCHANGED faults
             \/ seen # Api /\ CacheLag /\ Fault
          /\ want' = seen.spec
          /\ nc' = IF seen.status.phase = "" THEN InPhase(seen.status, "Running")
                                             ELSE seen.status
          /\ ready' = (ReadyReplicas = seen.spec)
    /\ old' = sts
    /\ pc' = "hosts"
    /\ UNCHANGED <<api, kube, metad, listed, targets, patches>>

\* Mutant of AddStorageHosts: one host too many
AddOneTooMany ==
    /\ pc = "hosts"
    /\ hosts' = IF ~nc.hostsAdded \/ want > old THEN hosts \cup 0 .. want ELSE hosts
    /\ nc' = WithHosts(nc)
    /\ pc' = "scale"
    /\ UNCHANGED <<api, kube, spaces, parts, jobs, want, old, ready, listed,
                   targets, patches, faults>>

AddStorageHosts ==
    /\ pc = "hosts"
    /\ IF ~nc.hostsAdded \/ want > old
         THEN LET start == IF want > old THEN old ELSE 0
              IN  hosts' = hosts \cup start .. want - 1
         ELSE UNCHANGED hosts
    /\ nc' = WithHosts(nc)
    /\ pc' = "scale"
    /\ UNCHANGED <<api, kube, spaces, parts, jobs, want, old, ready, listed,
                   targets, patches, faults>>

Scale ==
    /\ pc = "scale"
    /\ \/ /\ want < old \/ nc.phase = "ScaleIn"
          /\ Save(InPhase(nc, "ScaleIn"), "in")
       \/ /\ ~(want < old \/ nc.phase = "ScaleIn")
          /\ want > old \/ nc.phase = "ScaleOut"
          /\ Save(InPhase(nc, "ScaleOut"), "out")
       \/ /\ want = old /\ nc.phase \notin {"ScaleIn", "ScaleOut"}
          /\ pc' = "workload"
          /\ UNCHANGED <<nc, status, faults>>
    /\ UNCHANGED <<spec, cache, kube, metad, want, old, ready, listed, targets,
                   patches>>

---------------------------------------------------------------------------
(* Balance jobs *)

HasJob(s) == nc.job # NoJob /\ nc.job.space = s
JobIs(state) == jobs[nc.job.id].state = state

\* Mutant of SubmitJob: the number of the job before it is recorded
SubmitJobNumberedFromZero(s, H) ==
    /\ Len(jobs) < MaxJobs
    /\ jobs' = Append(jobs, [space |-> s, hosts |-> H, state |-> "running"])
    /\ nc' = WithJob(nc, s, Len(jobs))
    /\ pc' = "job"
    /\ UNCHANGED <<status, faults>>

\* Submit a job for space s.  The answer carries the job's number together
\* with an error, so the pass records the job and ends; or the answer is lost
SubmitJob(s, H) ==
    /\ Len(jobs) < MaxJobs
    /\ jobs' = Append(jobs, [space |-> s, hosts |-> H, state |-> "running"])
    /\ \/ /\ nc' = WithJob(nc, s, Len(jobs) + 1)
          /\ pc' = "job"
          /\ UNCHANGED faults
       \/ Fault /\ pc' = "end" /\ UNCHANGED nc
    /\ UNCHANGED status

\* The recorded job failed: recover it and end the pass
RecoverJob ==
    /\ JobIs("failed")
    /\ jobs' = [jobs EXCEPT ![nc.job.id].state = "running"]
    /\ pc' = "end"
    /\ UNCHANGED <<nc, status, faults>>

\* Mutant of WaitForJob: "still in progress" is taken for success
WaitIgnored ==
    /\ JobIs("running")
    /\ pc' = "workload"
    /\ UNCHANGED <<jobs, nc, status, faults>>

WaitForJob ==
    /\ JobIs("running")
    /\ pc' = "end"
    /\ UNCHANGED <<jobs, nc, status, faults>>

SaveJob ==
    /\ pc = "job"
    /\ \/ status' = nc /\ UNCHANGED faults
       \/ Fault /\ UNCHANGED status
    /\ pc' = "end"
    /\ UNCHANGED <<spec, cache, kube, metad, nc, want, old, ready, listed,
                   targets, patches>>

---------------------------------------------------------------------------
(* ScaleOut *)

ScaleOut ==
    /\ pc = "out"
    /\ IF ready /\ AutoBalance
         THEN listed' = spaces /\ pc' = "balance" /\ UNCHANGED nc
         ELSE /\ nc' = IF ready THEN InPhase(nc, "Running") ELSE nc
              /\ pc' = "workload"
              /\ UNCHANGED listed
    /\ UNCHANGED <<api, kube, metad, want, old, ready, targets, patches, faults>>

\* Mutant of BalanceSpace: the status of the job is not asked for
BalanceSpaceUnchecked(s) ==
    \/ HasJob(s) /\ Save(WithBalanced(nc, s), "balance") /\ UNCHANGED jobs
    \/ ~HasJob(s) /\ SubmitJob(s, {})

BalanceSpace(s) ==
    \/ /\ HasJob(s) /\ JobIs("finished")
       /\ Save(WithBalanced(nc, s), "balance")
       /\ UNCHANGED jobs
    \/ HasJob(s) /\ (RecoverJob \/ WaitForJob)
    \/ ~HasJob(s) /\ SubmitJob(s, {})

ScaleOutBalance ==
    /\ pc = "balance"
    /\ LET todo == listed \ nc.balanced
       IN  \/ \E s \in todo : IsFirst(s, todo) /\ BalanceSpace(s)
           \/ /\ todo = {}
              /\ Save(ScaledOut(nc), "workload")
              /\ UNCHANGED jobs
    /\ UNCHANGED <<spec, cache, kube, hosts, spaces, parts, want, old, ready,
                   listed, targets, patches>>

---------------------------------------------------------------------------
(* ScaleIn *)

\* Pods that do not exist or are Pending are left out of the hosts to drop
ScaleIn ==
    /\ pc = "in"
    /\ listed' = spaces
    /\ IF old > want
         THEN /\ targets' = {o \in want .. old - 1 : pods[o] \in {"running", "ready"}}
              /\ pc' = "remove"
         ELSE pc' = "leader" /\ UNCHANGED targets
    /\ UNCHANGED <<api, kube, metad, nc, want, old, ready, patches, faults>>

\* Mutant of RemoveHost: the status of the job is not asked for
RemoveHostUnchecked(s) ==
    \/ HasJob(s) /\ Save(WithRemoved(nc, s), "remove") /\ UNCHANGED jobs
    \/ ~HasJob(s) /\ SubmitJob(s, targets)

RemoveHost(s) ==
    \/ /\ HasJob(s) /\ JobIs("finished")
       /\ Save(WithRemoved(nc, s), "remove")
       /\ UNCHANGED jobs
    \/ HasJob(s) /\ (RecoverJob \/ WaitForJob)
    \/ ~HasJob(s) /\ SubmitJob(s, targets)

ScaleInRemove ==
    /\ pc = "remove"
    /\ LET todo == listed \ nc.removed
       IN  \/ \E s \in todo : IsFirst(s, todo) /\ RemoveHost(s)
           \/ todo = {} /\ pc' = "drop" /\ UNCHANGED <<jobs, nc, status, faults>>
    /\ UNCHANGED <<spec, cache, kube, hosts, spaces, parts, want, old, ready,
                   listed, targets, patches>>

\* Mutant of DropHosts: the call is left out
DropHostsSkipped ==
    /\ pc = "drop"
    /\ pc' = "leader"
    /\ UNCHANGED <<api, kube, metad, nc, want, old, ready, listed, targets, patches,
                   faults>>

DropHosts ==
    /\ pc = "drop"
    /\ hosts' = hosts \ targets
    /\ pc' = "leader"
    /\ UNCHANGED <<api, kube, spaces, parts, jobs, nc, want, old, ready, listed,
                   targets, patches, faults>>

BalanceLeaders ==
    /\ pc = "leader"
    /\ LET todo == listed \ nc.balanced
       IN  \/ \E s \in todo :
                 IsFirst(s, todo) /\ Save(WithBalanced(nc, s), "leader")
           \/ todo = {} /\ pc' = "mark" /\ UNCHANGED <<nc, status, faults>>
    /\ UNCHANGED <<spec, cache, kube, metad, want, old, ready, listed, targets,
                   patches>>

PVCMark ==
    /\ pc = "mark"
    /\ pvcs' = [o \in Ordinals |-> IF o \in want .. old - 1 /\ pvcs[o] = "bound"
                                     THEN "marked" ELSE pvcs[o]]
    /\ pc' = "scaledIn"
    /\ UNCHANGED <<api, sts, pods, metad, nc, want, old, ready, listed, targets,
                   patches, faults>>

\* Mutant of ScaleInDone: the phase is not set back
ScaleInNeverDone ==
    /\ pc = "scaledIn"
    /\ Save(InPhase(ScaledIn(nc), nc.phase), "workload")
    /\ UNCHANGED <<spec, cache, kube, metad, want, old, ready, listed, targets,
                   patches>>

ScaleInDone ==
    /\ pc = "scaledIn"
    /\ Save(ScaledIn(nc), "workload")
    /\ UNCHANGED <<spec, cache, kube, metad, want, old, ready, listed, targets,
                   patches>>

---------------------------------------------------------------------------
(* The rest of the pass *)

UpdateWorkload ==
    /\ pc = "workload"
    /\ sts' = want
    /\ pc' = "reclaim"
    /\ UNCHANGED <<api, pods, pvcs, metad, nc, want, old, ready, listed, targets,
                   patches, faults>>

\* Mutant of ReclaimPV: claims of existing pods are picked too
ReclaimInUse ==
    /\ pc = "reclaim"
    /\ targets' = {o \in Ordinals : pvcs[o] = "marked"}
    /\ pc' = "delete"
    /\ UNCHANGED <<api, kube, metad, nc, want, old, ready, listed, patches, faults>>

\* The marked claims whose pod is not found are picked ...
ReclaimPV ==
    /\ pc = "reclaim"
    /\ targets' = {o \in Ordinals : pvcs[o] = "marked" /\ pods[o] = "absent"}
    /\ pc' = "delete"
    /\ UNCHANGED <<api, kube, metad, nc, want, old, ready, listed, patches, faults>>

\* ... and deleted; a claim that a new pod uses by then stays, terminating
DeletePVC ==
    /\ pc = "delete"
    /\ pvcs' = [o \in Ordinals |-> IF o \notin targets THEN pvcs[o]
                                   ELSE IF pods[o] = "absent" THEN "none"
                                   ELSE "deleting"]
    /\ pc' = "end"
    /\ UNCHANGED <<api, sts, pods, metad, nc, want, old, ready, listed, targets,
                   patches, faults>>

\* With or without an error, the pass ends by writing its copy of the status
EndReconcile ==
    /\ pc = "end"
    /\ status' = nc
    /\ Forget
    /\ UNCHANGED <<spec, cache, kube, metad, patches, faults>>

\* A call fails, and the pass returns its error
CallFails ==
    /\ pc \notin {"idle", "end"}
    /\ Fault
    /\ pc' = "end"
    /\ UNCHANGED <<api, kube, metad, nc, want, old, ready, listed, targets, patches>>

\* The operator is restarted, or the pass panics and is recovered
Crash ==
    /\ pc # "idle"
    /\ Fault
    /\ Forget
    /\ UNCHANGED <<api, kube, metad, patches>>

Reconcile ==
    \/ StartReconcile \/ AddStorageHosts \/ Scale \/ SaveJob
    \/ ScaleOut \/ ScaleOutBalance
    \/ ScaleIn \/ ScaleInRemove \/ DropHosts \/ BalanceLeaders \/ PVCMark
    \/ ScaleInDone
    \/ UpdateWorkload \/ ReclaimPV \/ DeletePVC \/ EndReconcile

---------------------------------------------------------------------------
(* The user *)

\* Every replica asked for runs and is balanced: what the Ready condition of
\* the cluster asks of storaged (IsStoragedAvailable), with its hosts added
Settled ==
    /\ status = [NewStatus EXCEPT !.phase = "Running", !.hostsAdded = TRUE]
    /\ sts = spec
    /\ \A o \in Ordinals : pods[o] = IF o < spec THEN "ready" ELSE "absent"

\* The validating webhook, if it is installed, lets replicas change in phase
\* Running only; a careful user also waits for the cluster to be settled
Admitted ==
    /\ Admission # "none" => status.phase = "Running"
    /\ Admission = "settled" => Settled

PatchReplicas(n) ==
    /\ patches < MaxPatches
    /\ n # spec
    /\ Admitted
    /\ spec' = n
    /\ patches' = patches + 1
    /\ UNCHANGED <<status, cache, kube, metad, local, faults>>

\* metad places the partitions of a new space on the registered hosts
CreateSpace(s) ==
    /\ s \notin spaces
    /\ hosts # {}
    /\ Admission = "settled" => Settled
    /\ spaces' = spaces \cup {s}
    /\ parts' = [o \in Ordinals |-> IF o \in hosts THEN parts[o] \cup {s} ELSE parts[o]]
    /\ UNCHANGED <<api, kube, hosts, jobs, local, patches, faults>>

---------------------------------------------------------------------------
(* Kubernetes *)

CacheSync ==
    /\ CacheLag
    /\ cache' = Api
    /\ UNCHANGED <<spec, status, kube, metad, local, patches, faults>>

\* A pod and its claim are created; not while the old claim is terminating
PodStart(o) ==
    /\ o < sts
    /\ pods[o] = "absent"
    /\ pvcs[o] # "deleting"
    /\ pods' = [pods EXCEPT ![o] = "pending"]
    /\ pvcs' = [pvcs EXCEPT ![o] = IF @ = "none" THEN "bound" ELSE @]
    /\ UNCHANGED <<api, sts, metad, local, patches, faults>>

PodReady(o) ==
    /\ o < sts
    /\ pods[o] \in {"pending", "running"}
    /\ pods' = [pods EXCEPT ![o] = "ready"]
    /\ UNCHANGED <<api, sts, pvcs, metad, local, patches, faults>>

\* A terminating claim goes with the last pod that uses it
PodGone(o) ==
    /\ pods[o] # "absent"
    /\ pods' = [pods EXCEPT ![o] = "absent"]
    /\ pvcs' = [pvcs EXCEPT ![o] = IF @ = "deleting" THEN "none" ELSE @]
    /\ UNCHANGED <<api, sts, metad, local, patches>>

PodStop(o) == o >= sts /\ PodGone(o) /\ UNCHANGED faults

PodFail(o) ==
    /\ PodFaults
    /\ Fault
    /\ \/ PodGone(o)
       \/ /\ pods[o] = "ready"
          /\ pods' = [pods EXCEPT ![o] = "running"]
          /\ UNCHANGED <<api, sts, pvcs, metad, local, patches>>

---------------------------------------------------------------------------
(* metad's balance jobs: those of one space run in the order of submission *)

RunsNext(j) ==
    /\ jobs[j].state = "running"
    /\ \A i \in 1 .. j - 1 :
          jobs[i].space = jobs[j].space => jobs[i].state # "running"

FinishJob(j) ==
    /\ RunsNext(j)
    /\ jobs' = [jobs EXCEPT ![j].state = "finished"]
    /\ parts' = [o \in Ordinals |->
                   IF o \in jobs[j].hosts THEN parts[o] \ {jobs[j].space}
                   ELSE IF o \in hosts THEN parts[o] \cup {jobs[j].space}
                   ELSE parts[o]]
    /\ UNCHANGED <<api, kube, hosts, spaces, local, patches, faults>>

FailJob(j) ==
    /\ RunsNext(j)
    /\ Fault
    /\ jobs' = [jobs EXCEPT ![j].state = "failed"]
    /\ UNCHANGED <<api, kube, hosts, spaces, parts, local, patches>>

---------------------------------------------------------------------------
Next ==
    \/ Reconcile
    \/ CallFails
    \/ Crash
    \/ \E n \in Replicas : PatchReplicas(n)
    \/ \E s \in Spaces : CreateSpace(s)
    \/ CacheSync
    \/ \E o \in Ordinals : PodStart(o) \/ PodReady(o) \/ PodStop(o) \/ PodFail(o)
    \/ \E j \in 1 .. Len(jobs) : FinishJob(j) \/ FailJob(j)

\* A pass is requeued until the cluster is ready and steps on unless it
\* crashes; the StatefulSet controller and metad make progress
Fairness ==
    /\ WF_vars(Reconcile)
    /\ \A o \in Ordinals : WF_vars(PodStart(o)) /\ WF_vars(PodReady(o))
                           /\ WF_vars(PodStop(o))
    /\ \A j \in 1 .. MaxJobs : WF_vars(j <= Len(jobs) /\ FinishJob(j))

Spec == Init /\ [][Next]_vars /\ Fairness

---------------------------------------------------------------------------
(* Properties *)

PC == {"idle", "hosts", "scale", "job", "out", "balance", "in", "remove", "drop",
       "leader", "mark", "scaledIn", "workload", "reclaim", "delete", "end"}

\* The type of every variable
TypeOK ==
    /\ spec \in Replicas
    /\ status \in StatusType
    /\ cache \in [spec : Replicas, status : StatusType]
    /\ sts \in Replicas
    /\ pods \in [Ordinals -> PodState]
    /\ pvcs \in [Ordinals -> PVCState]
    /\ hosts \subseteq Ordinals
    /\ spaces \subseteq Spaces
    /\ parts \in [Ordinals -> SUBSET Spaces]
    /\ jobs \in Seq(JobType)
    /\ pc \in PC
    /\ nc \in StatusType
    /\ want \in 0 .. MaxReplicas
    /\ old \in 0 .. MaxReplicas
    /\ ready \in BOOLEAN
    /\ listed \subseteq Spaces
    /\ targets \subseteq Ordinals
    /\ patches \in 0 .. MaxPatches
    /\ faults \in 0 .. MaxFaults

\* No host is dropped from metad while a space still has partitions on it:
\* the jobs that the scaler took for done have really emptied it
\* (storaged_scaler.go ScaleIn, data_balancer.go removeHost)
DropSafe == [][\A o \in hosts \ hosts' : parts[o] = {}]_vars

\* The StatefulSet loses a replica only when metad neither knows its host nor
\* keeps partitions on it (storaged_scaler.go ScaleIn before UpdateWorkload)
ShrinkSafe ==
    [][\A o \in sts' .. sts - 1 : o \notin hosts /\ parts[o] = {}]_vars

\* The reclaimer deletes no claim whose host has partitions
\* (pvc_reclaimer.go reclaimPV and the mark left by PVCMark)
ReclaimSafe ==
    [][pc = "delete" => \A o \in Ordinals : pvcs'[o] # pvcs[o] => parts[o] = {}]_vars

\* A settled cluster has exactly its own replicas registered in metad
\* (storaged_cluster.go addStorageHosts, storaged_scaler.go DropHosts)
SettledRegistered == Settled => hosts = 0 .. spec - 1

\* With automatic balancing, a settled cluster has partitions of every space
\* on every replica, and on nothing else (storaged_scaler.go ScaleOut)
SettledBalanced ==
    Settled /\ AutoBalance =>
        \A o \in Ordinals : parts[o] = IF o < spec THEN spaces ELSE {}

\* Whatever fails, a host the pass asked metad to drop is not registered any
\* more when the StatefulSet shrinks (storaged_cluster.go UpdateWorkload after
\* storaged_scaler.go ScaleIn)
ShrinkAfterDrop == [][sts' < sts => targets \cap hosts = {}]_vars

\* What a reference to a job stands for
Submitted(ref) ==
    ref # NoJob => ref.id \in 1 .. Len(jobs) /\ jobs[ref.id].space = ref.space

\* A recorded job is one that metad was given for that space
\* (data_balancer.go, LastBalanceJob)
JobRecorded ==
    Submitted(status.job) /\ Submitted(cache.status.job) /\ Submitted(nc.job)

\* A change of replicas is always carried out to the end
\* (storaged_scaler.go, nebula_cluster_control.go UpdateNebulaCluster)
ScaleCompletes == []<>Settled

\* Once changes and faults stop, the StatefulSet has the replicas asked for
\* and no scaling is left open
ScaleConverges == <>[](sts = spec /\ status.phase = "Running")

\* The hosts of all replicas get registered in metad.  This is false: when the first
\* registration is not yet recorded (HostsAdded) and the replicas have grown, only the new
\* hosts are added, and no later pass adds the others
\* (storaged_cluster.go addStorageHosts)
HostsRegistered == <>[](0 .. spec - 1 \subseteq hosts)

\* Replicas are not changed again while a change is being carried out
\* (webhook/nebulacluster/helper.go validateNebulaClusterUpdateStoraged)
ScaleNotInterrupted == [][spec' # spec => sts = spec]_vars
===========================================================================
