------------------------- MODULE ComponentFailover -------------------------
(***************************************************************************)
(* Automatic failover of metad and graphd (metad_failover.go,              *)
(* graphd_failover.go and the status parts of metad_cluster.go and         *)
(* graphd_cluster.go), one pass over metad and then graphd.  Both ask      *)
(* metad which hosts are offline, and metad answers only while a majority  *)
(* of its members run.  Metad has local volumes; graphd has none and is    *)
(* scaled by its users while failovers go on.                              *)
(***************************************************************************)
EXTENDS Naturals, FiniteSets

CONSTANTS N,           \* metad members
          G,           \* graphd pods at the beginning
          Sizes,       \* numbers of graphd pods users ask for
          Minority,    \* do faults always leave metad a majority?
          Blips,       \* may the heartbeat of a ready pod get lost?
          MaxFaults,   \* lost nodes, crashed pods, blips, failed calls, restarts
          MaxChanges   \* changes of the number of graphd pods

ASSUME NAssumption == N \in Nat \ {0} /\ G \in Nat \ {0} /\ Sizes \subseteq 1 .. G
ASSUME BoundsAssumption == MaxFaults \in Nat /\ MaxChanges \in Nat 
                           /\ Blips \in BOOLEAN /\ Minority \in BOOLEAN

Comps == {"metad", "graphd"}
Metads == {"metad"} \X (0 .. N - 1)
Graphds == {"graphd"} \X (0 .. G - 1)
Pods == Metads \union Graphds
Of(c) == {p \in Pods : p[1] = c}

\* An entry of status.metad.failureHosts or status.graphd.failureHosts.
NoFailure == [recorded |-> FALSE, confirmed |-> FALSE, pvc |-> 0,
              restarted |-> FALSE, rebuilt |-> FALSE]
NewFailure == [NoFailure EXCEPT !.recorded = TRUE]

VARIABLES replicas,  \* spec.graphd.replicas
          size,      \* spec.replicas of the graphd StatefulSet
          status,    \* failure hosts and replicas of the workloads
          pods,      \* "absent", "pending", "scheduled", "running" (not ready),
                     \* "ready" or "terminating"
          aged,      \* pods older than the tolerance period
          claims,    \* claims of the metad pods: uid, state and whether it is lost
          online,    \* hosts that are ONLINE in metad
          due,       \* hosts recorded for longer than spec.failoverPeriod
          data,      \* metads with the metadata on their volume
          pc, comp,  \* step of the pass and the component it is at
          nc,        \* the pass's copy of the status
          victim,    \* pod that is being rebuilt
          suspect,   \* history: claim of a metad when it went offline
          faults, changes

local == <<pc, comp, nc, victim>>
spec == <<replicas, size>>
kube == <<pods, aged, claims, data>>
budget == <<faults, changes>>
vars == <<spec, status, kube, online, due, local, suspect, budget>>

Healthy == [failures |-> [p \in Pods |-> NoFailure],
            workload |-> [c \in Comps |-> Cardinality(Of(c))]]
Claim == [uid : Nat, state : {"none", "bound", "deleting"}, lost : BOOLEAN]
None == <<"metad", N>>

Init ==
  /\ replicas = G /\ size = G
  /\ status = Healthy
  /\ pods = [p \in Pods |-> "ready"] /\ aged = Pods
  /\ claims = [p \in Metads |-> [uid |-> 1, state |-> "bound", lost |-> FALSE]]
  /\ online = Pods /\ due = {} /\ data = Metads
  /\ pc = "idle" /\ comp = "metad" /\ nc = Healthy /\ victim = None
  /\ suspect = [p \in Metads |-> 0]
  /\ faults = 0 /\ changes = 0

Fault == faults < MaxFaults /\ faults' = faults + 1 /\ UNCHANGED changes
Forget == pc' = "idle" /\ comp' = "metad" /\ nc' = Healthy /\ victim' = None
Goto(step) == pc' = step /\ UNCHANGED <<comp, victim>>

Wanted(c) == IF c = "graphd" THEN replicas ELSE N
Recorded(s) == {p \in Pods : s.failures[p].recorded}
Failed == {p \in Of(comp) : nc.failures[p].recorded}
Open == {p \in Failed : ~nc.failures[p].rebuilt}

\* Metad answers while a majority of its members run.
Majority(S) == 2 * Cardinality(S) > N
Serves == Majority({p \in Metads : pods[p] = "ready"})

\* A deletion without grace removes the pod at once.
DeletePod(p) == pods' = [pods EXCEPT ![p] = "absent"] /\ aged' = aged \ {p}

-----------------------------------------------------------------------------
\* Detection and recovery.

StartPass == /\ pc = "idle"
             /\ pc' = "sync" /\ nc' = status /\ UNCHANGED <<comp, victim>>
             /\ UNCHANGED <<spec, status, kube, online, due, suspect, budget>>

\* The claim that getPodAndPvcs finds for a pod.
Found(p) == IF p \in Metads /\ claims[p].state # "none" THEN claims[p].uid ELSE 0

Confirm(p, pvc) == [nc.failures[p] EXCEPT !.confirmed = TRUE, !.pvc = pvc]

\* Hosts that were scaled in stay in the failure hosts.
JudgeAll(p) == IF p[2] >= Wanted(p[1]) THEN nc.failures[p]
               ELSE IF ~nc.failures[p].recorded THEN NewFailure
               ELSE IF p \in due /\ ~nc.failures[p].confirmed THEN Confirm(p, Found(p))
               ELSE nc.failures[p]

\* What becomes of an offline host: forgotten when it was scaled in, recorded,
\* and confirmed when it stays offline for the period.
Judge(p) == IF p[2] >= Wanted(p[1]) THEN NoFailure
            ELSE IF ~nc.failures[p].recorded THEN NewFailure
            ELSE IF p \in due /\ ~nc.failures[p].confirmed THEN Confirm(p, Found(p))
            ELSE nc.failures[p]
Existing(c) == Cardinality({p \in Of(c) : pods[p] # "absent"})

\* syncNebulaClusterStatus: metad is asked only while the workload has all its
\* pods; without an answer the pass ends.
SyncStatus ==
  /\ pc = "sync"
  /\ IF nc.workload[comp] # Wanted(comp)
       THEN nc' = [nc EXCEPT !.workload[comp] = Existing(comp)] /\ Goto("recover")
     ELSE IF Serves
       THEN /\ nc' = [failures |-> [p \in Pods |-> IF p \in Of(comp) \ online THEN Judge(p)
                                                   ELSE nc.failures[p]],
                      workload |-> [nc.workload EXCEPT ![comp] = Existing(comp)]]
            /\ Goto("recover")
     ELSE Goto("end") /\ UNCHANGED nc
  /\ due' = due \intersect Recorded(nc')
  /\ UNCHANGED <<spec, status, kube, online, suspect, budget>>

\* The failure hosts that are ready, and those of them that metad sees again.
Better == {p \in Failed : pods[p] = "ready"}
Back == Better \intersect online

ShouldRecover ==
  /\ pc = "recover"
  /\ IF Better # {} /\ ~Serves
       THEN Goto("end") /\ UNCHANGED nc
       ELSE /\ nc' = [nc EXCEPT !.failures =
                        [p \in Pods |-> IF p \in Back THEN NoFailure ELSE @[p]]]
            /\ Goto(IF Back = {} /\ \E p \in Failed : nc.failures[p].confirmed
                      THEN "restart" ELSE "update")
  /\ UNCHANGED <<spec, status, kube, online, due, suspect, budget>>

-----------------------------------------------------------------------------
\* Failover: at most one pod per pass is restarted or rebuilt.

TryRestartPod ==
  /\ pc = "restart"
  /\ LET fresh == {p \in Failed : /\ ~nc.failures[p].restarted
                                  /\ pods[p] \in {"running", "ready", "terminating"}}
     IN \/ \E p \in fresh : /\ DeletePod(p)
                            /\ nc' = [nc EXCEPT !.failures[p].restarted = TRUE]
                            /\ Goto("end")
        \/ fresh = {} /\ Goto("tolerate") /\ UNCHANGED <<pods, aged, nc>>
  /\ UNCHANGED <<spec, status, claims, data, online, due, suspect, budget>>

Waiting(p) == pods[p] \in {"pending", "scheduled", "running"}

\* A missing pod makes the pass panic; one that is terminating, young or ready
\* ends it.
ToleratePods ==
  /\ pc = "tolerate"
  /\ \/ (\E p \in Open : pods[p] = "absent") /\ Forget
     \/ /\ \E p \in Open : pods[p] = "terminating" \/ (Waiting(p) /\ p \notin aged)
        /\ Goto("end") /\ UNCHANGED nc
     \/ /\ \A p \in Open : pods[p] = "ready" \/ (Waiting(p) /\ p \in aged)
        /\ Goto(IF \E p \in Open : pods[p] = "ready" THEN "end" ELSE "rebuild")
        /\ UNCHANGED nc
  /\ UNCHANGED <<spec, status, kube, online, due, suspect, budget>>

\* deleteFailurePodAndPVC: first the pod ...
RebuildPod ==
  /\ pc = "rebuild"
  /\ \/ /\ Open = {} /\ Goto("pending") /\ UNCHANGED <<pods, aged>>
     \/ \E p \in Open :
          \/ pods[p] = "absent" /\ Goto("end") /\ UNCHANGED <<pods, aged>>
          \/ /\ pods[p] # "absent"
             /\ IF pods[p] = "terminating" THEN UNCHANGED <<pods, aged>> ELSE DeletePod(p)
             /\ victim' = p /\ pc' = "claims" /\ UNCHANGED comp
  /\ UNCHANGED <<spec, status, claims, data, online, due, nc, suspect, budget>>

Rebuilt == [nc EXCEPT !.failures[victim].rebuilt = TRUE]

\* Every claim of the pod is deleted.
DeleteAnyClaim ==
  /\ pc = "claims"
  /\ claims' = IF Found(victim) # 0 THEN [claims EXCEPT ![victim].state = "deleting"] ELSE claims
  /\ nc' = Rebuilt /\ Goto("end")
  /\ UNCHANGED <<spec, status, pods, aged, data, online, due, suspect, budget>>

\* The claims of all pods of the component are listed.
DeleteEveryClaim ==
  /\ pc = "claims"
  /\ claims' = [p \in Metads |-> IF victim \in Metads /\ claims[p].state = "bound"
                                   THEN [claims[p] EXCEPT !.state = "deleting"] ELSE claims[p]]
  /\ nc' = Rebuilt /\ Goto("end")
  /\ UNCHANGED <<spec, status, pods, aged, data, online, due, suspect, budget>>

\* ... then its claim, if it is the one found at the confirmation.
DeleteClaim ==
  /\ pc = "claims"
  /\ claims' = IF Found(victim) # 0 /\ Found(victim) = nc.failures[victim].pvc
                 THEN [claims EXCEPT ![victim].state = "deleting"] ELSE claims
  /\ nc' = Rebuilt /\ Goto("end")
  /\ UNCHANGED <<spec, status, pods, aged, data, online, due, suspect, budget>>

\* A missing pod ends the pass, a claim that does not go loses its finalizer,
\* a pod that is scheduled and does not start is deleted again.
CheckPendingPod ==
  /\ pc = "pending"
  /\ LET Gone(p) == pods[p] = "absent"
         Stuck(p) == /\ Found(p) # 0 /\ claims[p].state = "deleting"
                     /\ Found(p) = nc.failures[p].pvc
         Slow(p) == pods[p] = "scheduled" /\ p \in aged
     IN \/ (\E p \in Failed : Gone(p)) /\ Goto("end") /\ UNCHANGED kube
        \/ \E p \in Failed : /\ ~Gone(p) /\ Stuck(p)
                             /\ claims' = [claims EXCEPT ![p].state = "none"]
                             /\ data' = data \ {p}
                             /\ Goto("end") /\ UNCHANGED <<pods, aged>>
        \/ \E p \in Failed : /\ ~Gone(p) /\ ~Stuck(p) /\ Slow(p)
                             /\ DeletePod(p) /\ Goto("end") /\ UNCHANGED <<claims, data>>
        \/ /\ \A p \in Failed : ~Gone(p) /\ ~Stuck(p) /\ ~Slow(p)
           /\ Goto("update") /\ UNCHANGED kube
  /\ UNCHANGED <<spec, status, online, due, nc, suspect, budget>>

\* The workload is updated and the pass goes on to graphd.
UpdateWorkload ==
  /\ pc = "update"
  /\ size' = IF comp = "graphd" THEN replicas ELSE size
  /\ pc' = IF comp = "metad" THEN "sync" ELSE "end"
  /\ comp' = "graphd"
  /\ UNCHANGED <<replicas, status, kube, online, due, nc, victim, suspect, budget>>

EndPass == /\ pc = "end"
           /\ status' = nc /\ Forget
           /\ UNCHANGED <<spec, kube, online, due, suspect, budget>>

CallFails == /\ Fault /\ pc \notin {"idle", "end"}
             /\ Goto("end") /\ UNCHANGED nc
             /\ UNCHANGED <<spec, status, kube, online, due, suspect>>

Crash == /\ Fault /\ pc # "idle" /\ Forget
         /\ UNCHANGED <<spec, status, kube, online, due, suspect>>

\* The two components run the same steps on files of their own.
Failover == \/ TryRestartPod \/ ToleratePods \/ RebuildPod \/ DeleteClaim \/ CheckPendingPod
Watch == SyncStatus \/ ShouldRecover
MetadWatch == comp = "metad" /\ Watch
GraphdWatch == comp = "graphd" /\ Watch
MetadFailover == comp = "metad" /\ Failover
GraphdFailover == comp = "graphd" /\ Failover

Operator == \/ StartPass \/ MetadWatch \/ MetadFailover \/ GraphdWatch \/ GraphdFailover
            \/ UpdateWorkload \/ EndPass

-----------------------------------------------------------------------------
\* Kubernetes, metad, nodes and time.

Outside == UNCHANGED <<spec, status, local, suspect>>

Usable(p) == p \in Metads => claims[p].state = "bound" /\ ~claims[p].lost
Member(p) == p[1] = "metad" \/ p[2] < size

\* The StatefulSet creates a missing pod, and the claim it needs.
PodCreate(p) ==
  /\ Member(p)
  /\ \/ pods[p] = "absent" /\ (p \in Metads => claims[p].state # "deleting")
     \/ pods[p] = "pending" /\ p \in Metads /\ claims[p].state = "none"
  /\ pods' = [pods EXCEPT ![p] = "pending"]
  /\ claims' = IF p \in Metads /\ claims[p].state = "none"
                 THEN [claims EXCEPT ![p] = [uid |-> @.uid + 1, state |-> "bound", lost |-> FALSE]]
                 ELSE claims
  /\ UNCHANGED <<aged, data, online, due, budget>> /\ Outside

PodSchedule(p) ==
  /\ pods[p] = "pending" /\ Usable(p)
  /\ pods' = [pods EXCEPT ![p] = "scheduled"]
  /\ UNCHANGED <<aged, claims, data, online, due, budget>> /\ Outside

PodReady(p) ==
  /\ pods[p] = "scheduled" /\ Usable(p)
  /\ pods' = [pods EXCEPT ![p] = "ready"]
  /\ UNCHANGED <<aged, claims, data, online, due, budget>> /\ Outside

PodScaledIn(p) ==
  /\ ~Member(p) /\ pods[p] # "absent"
  /\ DeletePod(p)
  /\ UNCHANGED <<claims, data, online, due, budget>> /\ Outside

ClaimGone(p) ==
  /\ p \in Metads /\ claims[p].state = "deleting" /\ pods[p] \in {"absent", "pending"}
  /\ claims' = [claims EXCEPT ![p].state = "none"]
  /\ data' = data \ {p}
  /\ UNCHANGED <<pods, aged, online, due, budget>> /\ Outside

\* A minute passes: a pod that can start normally does so within it.
PodAges(p) ==
  /\ pods[p] # "absent" /\ p \notin aged
  /\ aged' = aged \union {p}
  /\ IF pods[p] \in {"pending", "scheduled"} /\ Usable(p) THEN Fault ELSE UNCHANGED budget
  /\ UNCHANGED <<pods, claims, data, online, due>> /\ Outside

PeriodElapses(p) ==
  /\ p \notin due /\ status.failures[p].recorded
  /\ due' = due \union {p}
  /\ UNCHANGED <<kube, online, budget>> /\ Outside

\* A new member gets the metadata from a majority that has it.
CatchUp(p) ==
  /\ p \in Metads \ data /\ pods[p] = "ready" /\ Serves
  /\ \E q \in data : pods[q] = "ready"
  /\ data' = data \union {p}
  /\ UNCHANGED <<pods, aged, claims, online, due, budget>> /\ Outside

Heartbeat(p) ==
  /\ pods[p] = "ready" /\ p \notin online /\ Serves
  /\ p \in Metads => p \in data
  /\ online' = online \union {p}
  /\ UNCHANGED <<kube, due, budget>> /\ Outside

\* Heartbeats stop with the pod; a blip is the loss of those of a ready one.
Silent(p) ==
  /\ p \in online /\ pods[p] # "ready"
  /\ online' = online \ {p}
  /\ suspect' = IF p \in Metads THEN [suspect EXCEPT ![p] = Found(p)] ELSE suspect
  /\ UNCHANGED <<spec, status, local, kube, due, budget>>
Blip(p) ==
  /\ Blips /\ Fault /\ p \in online /\ pods[p] = "ready"
  /\ online' = online \ {p}
  /\ suspect' = IF p \in Metads THEN [suspect EXCEPT ![p] = Found(p)] ELSE suspect
  /\ UNCHANGED <<spec, status, local, kube, due>>

\* Whether metad can do without a member.
Spare(p) == p \in Metads => Majority({q \in data \ {p} : pods[q] = "ready"})

\* The node of a pod is lost.
NodeDown(p) ==
  /\ Fault /\ pods[p] = "ready"
  /\ Minority => Spare(p)
  /\ pods' = [pods EXCEPT ![p] = "running"]
  /\ claims' = IF p \in Metads THEN [claims EXCEPT ![p].lost = TRUE] ELSE claims
  /\ data' = data \ {p}
  /\ UNCHANGED <<aged, online, due>> /\ Outside

\* The pod of a lost node is evicted and its node cannot confirm that.
Evict(p) ==
  /\ pods[p] = "running" /\ (p \in Metads => claims[p].lost)
  /\ pods' = [pods EXCEPT ![p] = "terminating"]
  /\ UNCHANGED <<aged, claims, data, online, due, budget>> /\ Outside

\* A process fails on a node that works, and may come back.
PodCrash(p) ==
  /\ Fault /\ p \in Metads /\ pods[p] = "ready"
  /\ Minority => Spare(p)
  /\ pods' = [pods EXCEPT ![p] = "running"]
  /\ UNCHANGED <<aged, claims, data, online, due>> /\ Outside
PodRecovers(p) ==
  /\ p \in Metads /\ pods[p] = "running" /\ Usable(p)
  /\ pods' = [pods EXCEPT ![p] = "ready"]
  /\ UNCHANGED <<aged, claims, data, online, due, budget>> /\ Outside

Scale == /\ changes < MaxChanges /\ changes' = changes + 1
         /\ \E n \in Sizes \ {replicas} : replicas' = n
         /\ UNCHANGED <<size, status, kube, online, due, local, suspect, faults>>

Node(p) == \/ PodCreate(p) \/ PodSchedule(p) \/ PodReady(p) \/ PodScaledIn(p)
           \/ ClaimGone(p) \/ PodAges(p) \/ PeriodElapses(p) \/ CatchUp(p)
           \/ Heartbeat(p) \/ Silent(p) \/ Blip(p) \/ NodeDown(p) \/ Evict(p)
           \/ PodCrash(p) \/ PodRecovers(p)

Next == Operator \/ CallFails \/ Crash \/ Scale \/ \E p \in Pods : Node(p)

\* Passes are requeued while the cluster is not ready; pods, claims,
\* heartbeats and time go on by themselves.
Fairness ==
  /\ WF_vars(Operator)
  /\ \A p \in Pods : /\ WF_vars(PodCreate(p)) /\ WF_vars(PodSchedule(p))
                     /\ WF_vars(PodReady(p)) /\ WF_vars(PodScaledIn(p))
                     /\ WF_vars(ClaimGone(p)) /\ WF_vars(PodAges(p))
                     /\ WF_vars(PeriodElapses(p)) /\ WF_vars(CatchUp(p))
                     /\ WF_vars(Heartbeat(p)) /\ WF_vars(Silent(p)) /\ WF_vars(Evict(p))

Spec == Init /\ [][Next]_vars
LiveSpec == Spec /\ Fairness
-----------------------------------------------------------------------------
\* Types of the status, the pods, the claims and the pass.
Failure == [recorded : BOOLEAN, confirmed : BOOLEAN, pvc : Nat,
            restarted : BOOLEAN, rebuilt : BOOLEAN]
StatusType == [failures : [Pods -> Failure], workload : [Comps -> Nat]]
TypeOK ==
  /\ replicas \in 1 .. G /\ size \in 1 .. G
  /\ status \in StatusType /\ nc \in StatusType
  /\ pods \in [Pods -> {"absent", "pending", "scheduled", "running", "ready", "terminating"}]
  /\ aged \subseteq Pods /\ online \subseteq Pods /\ due \subseteq Pods
  /\ claims \in [Metads -> Claim] /\ data \subseteq Metads
  /\ pc \in {"idle", "sync", "recover", "restart", "tolerate", "rebuild", "claims",
             "pending", "update", "end"}
  /\ comp \in Comps /\ victim \in Pods \union {None}
  /\ suspect \in [Metads -> Nat]
  /\ faults \in 0 .. MaxFaults /\ changes \in 0 .. MaxChanges

\* A claim is deleted that is not the one a metad had when it went offline.
DeletesReplacement ==
  \E p \in Metads : /\ claims[p].state = "bound" /\ claims'[p].state = "deleting"
                    /\ claims[p].uid # suspect[p]

\* In one outage failover deletes the claim a metad had when it went offline
\* and not the one that replaced it, even when a pass is lost after the
\* deletion: the next one finds the claim in the record of the failure.  Two
\* lost passes, one before the record is saved and one after the deletion, are
\* too many (metad_failover.go deleteFailurePodAndPVC, fh.PVCSet)
OneClaimPerOutage == [][~DeletesReplacement]_vars

\* Failover gives up volumes of metad that hold metadata, but never so many
\* that less than a majority of the members has it: it decides on the answers
\* of a majority, member by member, and a new member has to catch up first.
MetadataKept == Majority(data)

\* A step of the operator leaves metad a majority when it had one: failover
\* does not take down members that run.
MajorityStays == [][Serves /\ local' # local => Serves']_vars

\* Every failure is overcome: all pods that are wanted are online, nothing is
\* left in the failure hosts, and the workload has the size its users want.
FailureOver == /\ size = replicas
               /\ \A p \in Pods : Member(p) => p \in online
               /\ Recorded(status) = {}
FailoverCompletes == <>[]FailureOver
=============================================================================
