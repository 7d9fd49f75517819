-------------------------- MODULE StoragedFailover --------------------------
(***************************************************************************)
(* Automatic failover of storaged hosts on local volumes: the detection of *)
(* offline hosts (storaged_cluster.go syncNebulaClusterStatus), their      *)
(* recovery (shouldRecover, Recovery) and the failover itself              *)
(* (storaged_failover.go): restart the pod, wait, delete the pod and its   *)
(* claim so that both are created on another node, balance the data.       *)
(*                                                                         *)
(* One step handles one failure host, in no fixed order (the code ranges   *)
(* over a map), and then the pass ends with a ReconcileError.  What a pass *)
(* changes in its copy nc of the status is lost when the pass panics or    *)
(* the operator restarts.  The number of replicas does not change here.    *)
(***************************************************************************)
EXTENDS Integers, FiniteSets

CONSTANTS
    N,          \* spec.storaged.replicas
    Spaces,     \* graph spaces, in the order in which metad lists them
    CacheLag,   \* may a pass start from an outdated informer cache?
    MaxFaults   \* bound on lost nodes, crashed pods, failed calls, restarts ...

ASSUME NAssumption      == N \in Nat \ {0}
ASSUME SpaceAssumption  == Spaces \subseteq Nat
ASSUME SwitchAssumption == CacheLag \in BOOLEAN /\ MaxFaults \in Nat

Hosts    == 0 .. N - 1
PodState == {"absent", "pending", "scheduled", "running", "ready", "terminating"}
\* state: of the claim object; lost: its volume is on a node that is gone;
\* known: it carries the pod-name label that getPodAndPvcs selects by
ClaimType == [uid : Nat, state : {"none", "bound", "deleting"}, lost : BOOLEAN,
              known : BOOLEAN]
JobState == {"none", "running", "failed", "finished"}

\* An entry of status.storaged.failureHosts
FailureHost == [recorded : BOOLEAN, confirmed : BOOLEAN, pvcs : SUBSET Nat,
                podRestarted : BOOLEAN, podRebuilt : BOOLEAN]
NoFailure == [recorded |-> FALSE, confirmed |-> FALSE, pvcs |-> {},
              podRestarted |-> FALSE, podRebuilt |-> FALSE]
NoSpace   == -1
StatusType == [failures : [Hosts -> FailureHost], workload : 0 .. N,
               balanced : SUBSET Spaces, job : Spaces \cup {NoSpace}]
Healthy == [failures |-> [o \in Hosts |-> NoFailure], workload |-> N,
            balanced |-> {}, job |-> NoSpace]

VARIABLES
    status,   \* status.storaged at the API server
    cache,    \* the informer's copy of it
    pods,     \* pods[o]: "pending" is not scheduled, "running" is not ready
    aged,     \* pods older than the tolerance period of one minute
    claims,   \* claims[o]: the volume claim
    online,   \* hosts that are ONLINE in metad
    due,      \* hosts whose failure record is older than spec.failoverPeriod
    jobs,     \* jobs[s]: the last balance job of space s
    pc, nc,   \* the next step of the pass, its copy of the status
    victim,   \* the host whose pod was deleted to rebuild it
    faults,   \* faults so far
    \* history, which no action reads:
    steady,   \* hosts whose pods were ready when the pass began and which
              \* nothing but the pass has changed since
    suspect,  \* suspect[o]: the claim host o had when it went offline
    served,   \* served[o]: spaces balanced since the pod was rebuilt
    outdated  \* has a pass begun with an outdated copy of the status?

local   == <<pc, nc, victim>>
kube    == <<pods, aged, claims>>
metad   == <<online, jobs>>
history == <<steady, suspect, served, outdated>>
vars    == <<status, cache, pods, aged, claims, online, due, jobs, pc, nc, victim,
             faults, steady, suspect, served, outdated>>

Init ==
    /\ status = Healthy
    /\ cache = Healthy
    /\ pods = [o \in Hosts |-> "ready"]
    /\ aged = Hosts
    /\ claims = [o \in Hosts |->
                   [uid |-> 1, state |-> "bound", lost |-> FALSE, known |-> TRUE]]
    /\ online = Hosts
    /\ due = {}
    /\ jobs = [s \in Spaces |-> "none"]
    /\ pc = "idle"
    /\ nc = Healthy
    /\ victim = -1
    /\ faults = 0
    /\ steady = Hosts
    /\ suspect = [o \in Hosts |-> 0]
    /\ served = [o \in Hosts |-> {}]
    /\ outdated = FALSE

Fault  == faults < MaxFaults /\ faults' = faults + 1
Forget == pc' = "idle" /\ nc' = Healthy /\ victim' = -1

Recorded(c) == {o \in Hosts : c.failures[o].recorded}
Open(c)     == {o \in Recorded(c) : ~c.failures[o].podRebuilt}

Restarted(c, o) == [c EXCEPT !.failures[o].podRestarted = TRUE]
Rebuilt(c, o)   == [c EXCEPT !.failures[o].podRebuilt = TRUE]

\* A non-graceful deletion removes the pod at once
DeletePod(o) ==
    /\ pods' = [pods EXCEPT ![o] = "absent"]
    /\ aged' = aged \ {o}

---------------------------------------------------------------------------
(* Detection and recovery *)

StartReconcile ==
    /\ pc = "idle"
    /\ \/ nc' = status /\ UNCHANGED faults
       \/ nc' = cache /\ cache # status /\ CacheLag /\ Fault
    /\ pc' = "sync"
    /\ UNCHANGED <<status, cache, kube, metad, due, victim>>

\* The claims that getPodAndPvcs finds for host o
Found(o) == IF claims[o].state # "none" /\ claims[o].known THEN {claims[o].uid} ELSE {}

NewFailure  == [NoFailure EXCEPT !.recorded = TRUE]
Confirm(o)  == [nc.failures[o] EXCEPT !.confirmed = TRUE, !.pvcs = Found(o)]

\* Mutant of SyncStatus: a host that was scaled in is recorded as well
SyncStatusAnyHost ==
    /\ pc = "sync"
    /\ nc' = [nc EXCEPT
         !.failures = [o \in 0 .. N |->
             IF o = N THEN NewFailure
             ELSE IF nc.workload # N \/ o \in online THEN @[o]
             ELSE IF ~@[o].recorded THEN NewFailure
             ELSE IF o \in due /\ ~@[o].confirmed THEN Confirm(o)
             ELSE @[o]],
         !.workload = Cardinality({o \in Hosts : pods[o] # "absent"})]
    /\ due' = {o \in due : nc.failures[o].recorded}
    /\ pc' = "recover"
    /\ UNCHANGED <<status, cache, kube, metad, victim, faults>>

\* Offline hosts of the workload are recorded, and confirmed when they have been
\* so for the failover period; not while the StatefulSet lacks pods
SyncStatus ==
    /\ pc = "sync"
    /\ nc' = [nc EXCEPT
         !.failures = [o \in Hosts |->
             IF nc.workload # N \/ o \in online THEN @[o]
             ELSE IF ~@[o].recorded THEN NewFailure
             ELSE IF o \in due /\ ~@[o].confirmed THEN Confirm(o)
             ELSE @[o]],
         !.workload = Cardinality({o \in Hosts : pods[o] # "absent"})]
    /\ due' = {o \in due : nc.failures[o].recorded}
    /\ pc' = "recover"
    /\ UNCHANGED <<status, cache, kube, metad, victim, faults>>

\* The recorded hosts that are ready again, and online in metad
Back == {o \in Recorded(nc) : pods[o] = "ready" /\ o \in online}

\* Failover goes on only when no host is back and some host is confirmed
ShouldRecover ==
    /\ pc = "recover"
    /\ nc' = [nc EXCEPT !.failures = [o \in Hosts |-> IF o \in Back THEN NoFailure ELSE @[o]]]
    /\ pc' = IF Back = {} /\ \E o \in Hosts : nc.failures[o].confirmed
               THEN "restart" ELSE "done"
    /\ UNCHANGED <<status, cache, kube, metad, due, victim, faults>>

---------------------------------------------------------------------------
(* Failover *)

TryRestartPod ==
    /\ pc = "restart"
    /\ LET fresh == {o \in Recorded(nc) : /\ ~nc.failures[o].podRestarted
                                          /\ pods[o] \in {"running", "ready", "terminating"}}
       IN  \/ \E o \in fresh :
                 DeletePod(o) /\ nc' = Restarted(nc, o) /\ pc' = "end"
           \/ fresh = {} /\ pc' = "tolerate" /\ UNCHANGED <<pods, aged, nc>>
    /\ UNCHANGED <<status, cache, claims, metad, due, victim, faults>>

\* Mutant of ToleratePods: pods that are ready after all do not count
TolerateNothing ==
    /\ pc = "tolerate"
    /\ pc' = IF \E o \in Open(nc) : pods[o] # "ready" /\ o \notin aged
               THEN "end" ELSE "rebuild"
    /\ UNCHANGED <<status, cache, kube, metad, due, nc, victim, faults>>

\* A pod that is missing makes the pass panic; one that is terminating, young
\* or ready ends it
ToleratePods ==
    /\ pc = "tolerate"
    /\ \/ /\ \E o \in Open(nc) : pods[o] = "absent"
          /\ Forget
       \/ /\ \E o \in Open(nc) : \/ pods[o] = "terminating"
                                 \/ pods[o] \in {"pending", "scheduled", "running"} /\ o \notin aged
          /\ pc' = "end" /\ UNCHANGED <<nc, victim>>
       \/ /\ \A o \in Open(nc) : \/ pods[o] = "ready"
                                 \/ pods[o] \in {"pending", "scheduled", "running"} /\ o \in aged
          /\ pc' = IF \E o \in Open(nc) : pods[o] = "ready" THEN "end" ELSE "rebuild"
          /\ UNCHANGED <<nc, victim>>
    /\ UNCHANGED <<status, cache, kube, metad, due, faults>>

\* deleteFailurePodAndPVC: first the pod ...
RebuildPod ==
    /\ pc = "rebuild"
    /\ LET there == {o \in Open(nc) : pods[o] # "absent"}
       IN  \/ \E o \in there :
                 /\ IF pods[o] = "terminating" THEN UNCHANGED <<pods, aged>> ELSE DeletePod(o)
                 /\ victim' = o
                 /\ pc' = "claims"
           \/ there = {} /\ pc' = "pending" /\ UNCHANGED <<pods, aged, victim>>
    /\ UNCHANGED <<status, cache, claims, metad, due, nc, faults>>

\* Mutant of DeleteClaims: every claim of the pod is deleted
DeleteAllClaims ==
    /\ pc = "claims"
    /\ claims' = [claims EXCEPT ![victim].state = IF @ = "bound" THEN "deleting" ELSE @]
    /\ nc' = Rebuilt(nc, victim)
    /\ pc' = "end"
    /\ UNCHANGED <<status, cache, pods, aged, metad, due, victim, faults>>

\* Mutant of DeleteClaims: the pod is rebuilt with the claim it had
KeepClaims ==
    /\ pc = "claims"
    /\ nc' = Rebuilt(nc, victim)
    /\ pc' = "end"
    /\ UNCHANGED <<status, cache, kube, metad, due, victim, faults>>

\* ... then its claim, if it is the one that was found at the confirmation
DeleteClaims ==
    /\ pc = "claims"
    /\ claims' = IF Found(victim) \cap nc.failures[victim].pvcs # {}
                   THEN [claims EXCEPT ![victim].state = "deleting"]
                   ELSE claims
    /\ nc' = Rebuilt(nc, victim)
    /\ pc' = "end"
    /\ UNCHANGED <<status, cache, pods, aged, metad, due, victim, faults>>

\* A claim that does not go loses its finalizer; a pod that was scheduled but
\* does not start is deleted again
CheckPendingPod ==
    /\ pc = "pending"
    /\ LET Gone(o)  == pods[o] = "absent"
           Stuck(o) == claims[o].state = "deleting" /\ Found(o) \cap nc.failures[o].pvcs # {}
           Slow(o)  == pods[o] = "scheduled" /\ o \in aged
       IN  \/ /\ \E o \in Recorded(nc) : Gone(o)
              /\ pc' = "end" /\ UNCHANGED kube
           \/ \E o \in Recorded(nc) :
                 /\ ~Gone(o) /\ Stuck(o)
                 /\ claims' = [claims EXCEPT ![o].state = "none"]
                 /\ pc' = "end" /\ UNCHANGED <<pods, aged>>
           \/ \E o \in Recorded(nc) :
                 ~Stuck(o) /\ Slow(o) /\ DeletePod(o) /\ pc' = "end" /\ UNCHANGED claims
           \/ /\ \A o \in Recorded(nc) : ~Gone(o) /\ ~Stuck(o) /\ ~Slow(o)
              /\ pc' = "balance" /\ UNCHANGED kube
    /\ UNCHANGED <<status, cache, metad, due, nc, victim, faults>>

\* Write the copy of the status and go on at next, or return the error
Save(copy, next) ==
    /\ nc' = copy
    /\ \/ status' = copy /\ pc' = next /\ UNCHANGED faults
       \/ Fault /\ pc' = "end" /\ UNCHANGED status

\* balanceSpace for the first space that is not balanced yet
BalanceSpaces ==
    /\ pc = "balance"
    /\ LET todo  == Spaces \ nc.balanced
           First == {s \in todo : \A t \in todo : s <= t}
       IN  \/ \E s \in First :
                 /\ nc.job = s /\ jobs[s] = "finished"
                 /\ Save([nc EXCEPT !.balanced = @ \cup {s}], "balance")
                 /\ UNCHANGED jobs
           \/ \E s \in First :
                 /\ nc.job = s /\ jobs[s] # "finished"
                 /\ jobs' = [jobs EXCEPT ![s] = "running"]
                 /\ pc' = "end"
                 /\ UNCHANGED <<nc, status, faults>>
           \/ \E s \in First :
                 /\ nc.job # s
                 /\ jobs' = [jobs EXCEPT ![s] = "running"]
                 /\ \/ Save([nc EXCEPT !.job = s], "end")
                    \/ Fault /\ pc' = "end" /\ UNCHANGED <<nc, status>>
           \/ /\ todo = {}
              /\ nc' = [nc EXCEPT !.balanced = {}, !.job = NoSpace]
              /\ pc' = "done"
              /\ UNCHANGED <<jobs, status, faults>>
    /\ UNCHANGED <<cache, kube, online, due, victim>>

---------------------------------------------------------------------------
(* The rest of the pass *)

\* Nothing to scale or update; the claims of the pods are labelled
MetaReconcile ==
    /\ pc = "done"
    /\ claims' = [o \in Hosts |-> IF pods[o] # "absent" /\ claims[o].state # "none"
                                    THEN [claims[o] EXCEPT !.known = TRUE] ELSE claims[o]]
    /\ pc' = "end"
    /\ UNCHANGED <<status, cache, pods, aged, metad, due, nc, victim, faults>>

EndReconcile ==
    /\ pc = "end"
    /\ status' = nc
    /\ Forget
    /\ UNCHANGED <<cache, kube, metad, due, faults>>

CallFails ==
    /\ pc \notin {"idle", "end"}
    /\ Fault
    /\ pc' = "end"
    /\ UNCHANGED <<status, cache, kube, metad, due, nc, victim>>

Crash ==
    /\ pc # "idle"
    /\ Fault
    /\ Forget
    /\ UNCHANGED <<status, cache, kube, metad, due>>

Reconcile ==
    \/ StartReconcile \/ SyncStatus \/ ShouldRecover
    \/ TryRestartPod \/ ToleratePods \/ RebuildPod \/ DeleteClaims \/ CheckPendingPod
    \/ BalanceSpaces \/ MetaReconcile \/ EndReconcile

---------------------------------------------------------------------------
(* Kubernetes, metad and time *)

CacheSync ==
    /\ CacheLag
    /\ cache' = status
    /\ UNCHANGED <<status, kube, metad, due, local, faults>>

\* A claim made for host o; its volume is provisioned on a working node
NewClaim(o) == [uid |-> claims[o].uid + 1, state |-> "bound", lost |-> FALSE, known |-> FALSE]

\* The StatefulSet creates the pod and its claim, or a missing claim of a
\* pending pod; it does not create a pod for a terminating claim
PodCreate(o) ==
    /\ \/ pods[o] = "absent" /\ claims[o].state # "deleting"
       \/ pods[o] = "pending" /\ claims[o].state = "none"
    /\ pods' = [pods EXCEPT ![o] = "pending"]
    /\ claims' = IF claims[o].state = "none" THEN [claims EXCEPT ![o] = NewClaim(o)]
                                              ELSE claims
    /\ UNCHANGED <<status, cache, aged, metad, due, local, faults>>

Usable(o) == claims[o].state = "bound" /\ ~claims[o].lost

PodSchedule(o) ==
    /\ pods[o] = "pending" /\ Usable(o)
    /\ pods' = [pods EXCEPT ![o] = "scheduled"]
    /\ UNCHANGED <<status, cache, aged, claims, metad, due, local, faults>>

PodReady(o) ==
    /\ pods[o] = "scheduled" /\ Usable(o)
    /\ pods' = [pods EXCEPT ![o] = "ready"]
    /\ UNCHANGED <<status, cache, aged, claims, metad, due, local, faults>>

\* A container that failed may come back without help
PodRecovers(o) ==
    /\ pods[o] = "running" /\ Usable(o)
    /\ pods' = [pods EXCEPT ![o] = "ready"]
    /\ UNCHANGED <<status, cache, aged, claims, metad, due, local, faults>>

\* A terminating claim goes when no scheduled pod uses it
ClaimGone(o) ==
    /\ claims[o].state = "deleting"
    /\ pods[o] \in {"absent", "pending"}
    /\ claims' = [claims EXCEPT ![o].state = "none"]
    /\ UNCHANGED <<status, cache, pods, aged, metad, due, local, faults>>

\* A minute passes; a pod whose volume can be used normally starts within it
PodAges(o) ==
    /\ pods[o] # "absent" /\ o \notin aged
    /\ aged' = aged \cup {o}
    /\ IF pods[o] \in {"pending", "scheduled"} /\ Usable(o) THEN Fault ELSE UNCHANGED faults
    /\ UNCHANGED <<status, cache, pods, claims, metad, due, local>>

\* The failover period passes after the record was made
PeriodElapses(o) ==
    /\ o \notin due /\ status.failures[o].recorded
    /\ due' = due \cup {o}
    /\ UNCHANGED <<status, cache, kube, metad, local, faults>>

Heartbeat(o) ==
    /\ pods[o] = "ready" /\ o \notin online
    /\ online' = online \cup {o}
    /\ UNCHANGED <<status, cache, kube, jobs, due, local, faults>>

HeartbeatLost(o) ==
    /\ o \in online
    /\ IF pods[o] = "ready" THEN Fault ELSE UNCHANGED faults
    /\ online' = online \ {o}
    /\ UNCHANGED <<status, cache, kube, jobs, due, local>>

FinishJob(s) ==
    /\ jobs[s] = "running"
    /\ jobs' = [jobs EXCEPT ![s] = "finished"]
    /\ UNCHANGED <<status, cache, kube, online, due, local, faults>>

FailJob(s) ==
    /\ jobs[s] = "running"
    /\ Fault
    /\ jobs' = [jobs EXCEPT ![s] = "failed"]
    /\ UNCHANGED <<status, cache, kube, online, due, local>>

\* The node with the volume of host o is lost
NodeDown(o) ==
    /\ Fault
    /\ claims[o].state # "none" /\ ~claims[o].lost
    /\ claims' = [claims EXCEPT ![o].lost = TRUE]
    /\ pods' = [pods EXCEPT ![o] = IF @ = "ready" THEN "running" ELSE @]
    /\ UNCHANGED <<status, cache, aged, metad, due, local>>

\* The pod of a lost node is evicted but its node cannot confirm that
Evict(o) ==
    /\ pods[o] \in {"scheduled", "running"} /\ claims[o].lost
    /\ pods' = [pods EXCEPT ![o] = "terminating"]
    /\ UNCHANGED <<status, cache, aged, claims, metad, due, local, faults>>

PodCrash(o) ==
    /\ Fault
    /\ pods[o] = "ready"
    /\ pods' = [pods EXCEPT ![o] = "running"]
    /\ UNCHANGED <<status, cache, aged, claims, metad, due, local>>

---------------------------------------------------------------------------
History ==
    /\ steady' = IF pc = "idle" THEN {o \in Hosts : pods'[o] = "ready"}
                 ELSE {o \in steady : local' # local \/ pods'[o] = pods[o]}
    /\ suspect' = [o \in Hosts |-> IF o \in online \ online' THEN claims[o].uid ELSE suspect[o]]
    /\ served' = [o \in Hosts |->
         IF pc = "claims" /\ o = victim THEN {}
         ELSE served[o] \cup {s \in Spaces : jobs[s] # "running" /\ jobs'[s] = "running"}]
    /\ outdated' = (outdated \/ (pc = "idle" /\ pc' = "sync" /\ nc' # status))

Node(o) ==
    \/ PodCreate(o) \/ PodSchedule(o) \/ PodReady(o) \/ PodRecovers(o) \/ ClaimGone(o)
    \/ PodAges(o) \/ PeriodElapses(o) \/ Heartbeat(o) \/ HeartbeatLost(o)
    \/ NodeDown(o) \/ Evict(o) \/ PodCrash(o)

Next ==
    /\ \/ Reconcile \/ CallFails \/ Crash \/ CacheSync
       \/ \E o \in Hosts : Node(o)
       \/ \E s \in Spaces : FinishJob(s) \/ FailJob(s)
    /\ History

\* Passes are requeued until the cluster is ready; pods, claims, heartbeats,
\* jobs and time make progress on their own
Fairness ==
    /\ WF_vars(Reconcile /\ History)
    /\ \A o \in Hosts :
         /\ WF_vars(PodCreate(o) /\ History) /\ WF_vars(PodSchedule(o) /\ History)
         /\ WF_vars(PodReady(o) /\ History) /\ WF_vars(ClaimGone(o) /\ History)
         /\ WF_vars(PodAges(o) /\ History) /\ WF_vars(PeriodElapses(o) /\ History)
         /\ WF_vars(Heartbeat(o) /\ History)
         /\ WF_vars(HeartbeatLost(o) /\ pods[o] # "ready" /\ History)
    /\ \A s \in Spaces : WF_vars(FinishJob(s) /\ History)

Spec == Init /\ [][Next]_vars /\ Fairness

---------------------------------------------------------------------------
(* Properties *)

\* The type of every variable
TypeOK ==
    /\ status \in StatusType /\ cache \in StatusType /\ nc \in StatusType
    /\ pods \in [Hosts -> PodState]
    /\ aged \subseteq Hosts /\ online \subseteq Hosts /\ due \subseteq Hosts
    /\ claims \in [Hosts -> ClaimType]
    /\ jobs \in [Spaces -> JobState]
    /\ pc \in {"idle", "sync", "recover", "restart", "tolerate", "rebuild", "claims",
               "pending", "balance", "done", "end"}
    /\ victim \in Hosts \cup {-1}
    /\ faults \in 0 .. MaxFaults
    /\ steady \subseteq Hosts
    /\ suspect \in [Hosts -> Nat]
    /\ served \in [Hosts -> SUBSET Spaces]
    /\ outdated \in BOOLEAN

\* A pass does not delete the claim of a pod that was ready when it began and
\* stayed so until the pass touched it: whatever the record says of the host,
\* toleratePods sees the pod before deleteFailurePodAndPVC
SteadyKeepsClaim ==
    [][\A o \in steady : claims[o].state = "bound" => claims'[o].state = "bound"]_vars

\* In one outage of a host, failover deletes the claim the host had when it
\* went offline and not the one that replaced it, even when a pass is lost
\* after the deletion, as long as passes begin with the status as it is
\* (fh.PVCSet in deleteFailurePodAndPVC)
DeletesReplacement ==
    \E o \in Hosts : /\ claims[o].state = "bound" /\ claims'[o].state # "bound"
                     /\ claims[o].uid # suspect[o]
OneClaimPerOutage == [][~outdated => ~DeletesReplacement]_vars

\* Every host comes back: rebuilt elsewhere when its node is lost
FailoverCompletes == []<>(online = Hosts /\ Recorded(status) = {})

\* The fault transfer begins after the host has been offline for the period
AfterPeriod ==
    [][\A o \in Hosts : pc \in {"restart", "rebuild"} /\ pods[o] # pods'[o] =>
         nc.failures[o].confirmed]_vars

\* When a rebuilt host leaves the failure hosts, its spaces have been balanced
RebuiltBalanced ==
    [][\A o \in Recorded(status) \ Recorded(status') :
         status.failures[o].podRebuilt => served[o] = Spaces]_vars
=============================================================================
