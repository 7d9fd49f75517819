------------------------------ MODULE NodeZone ------------------------------
(***************************************************************************)
(* Zones: the scheduler plugin that spreads the pods of a component over   *)
(* three zones, and the operator that records the zone of each pod in a    *)
(* ConfigMap, which the plugin reads, and adds the hosts of storaged to    *)
(* the zones of metad.                                                     *)
(*                                                                         *)
(* A zone stands for its nodes, all of which have the zone label.  The     *)
(* plugin sees pods and the ConfigMap through listers that lag.  Removing  *)
(* the data of a host is in StoragedScale: here a scale-in drops the hosts *)
(* in one step.  A pod that is being deleted counts as gone.               *)
(***************************************************************************)
EXTENDS Naturals, FiniteSets

CONSTANTS Component,   \* "storaged" or "graphd"
          Zones,       \* the zones of the nodes
          Sizes,       \* replicas that users ask for
          Patient,     \* users wait until a scaling has ended, and listers have seen it
          MaxEdits,    \* changes of the replicas
          MaxEvictions,\* pods that are deleted and come back
          MaxRebuilds, \* pods that failover deletes together with their claim
          MaxFull,     \* times that the nodes of a zone are full
          MaxFaults    \* failed calls

AvailableZones == 3
None == "none"

ASSUME ZoneAssumption ==
    /\ Component \in {"storaged", "graphd"}
    /\ Cardinality(Zones) >= AvailableZones /\ None \notin Zones
    /\ Sizes \subseteq Nat \ {0} /\ \E n \in Sizes : \A k \in Sizes : k <= n
    /\ Patient \in BOOLEAN
    /\ {MaxEdits, MaxEvictions, MaxRebuilds, MaxFull, MaxFaults} \subseteq Nat

MaxSize == CHOOSE n \in Sizes : \A k \in Sizes : k <= n
Ords == 0 .. MaxSize - 1
Storaged == Component = "storaged"

VARIABLES
    replicas, size, phase,  \* the NebulaCluster, the StatefulSet, the phase of storaged
    pods,                   \* state and zone of the pods
    claim,                  \* the zone of the volume of a pod
    cm,                     \* the ConfigMap with the zones
    hosts,                  \* the zones of the hosts in metad
    lister, cmLister,       \* what the plugin sees
    cycle,                  \* the scheduling cycle
    full,                   \* zones without room
    pc, op, queued,         \* the pass of the operator
    budget

sched == <<pods, claim, lister, cmLister, cycle, full>>
oper == <<replicas, size, phase, cm, hosts, pc, op>>
vars == <<replicas, size, phase, pods, claim, cm, hosts, lister, cmLister, cycle, full, pc, op, queued, budget>>

ZoneOrNone == Zones \union {None}
NoCycle == [pod |-> MaxSize, zone |-> None]
NoPass == [n |-> 0, ready |-> FALSE, i |-> 0, zone |-> None, map |-> [o \in Ords |-> None]]

\* Types.  A pod has a zone when the scheduler chose one, and only one cycle runs.
TypeOK ==
    /\ replicas \in Sizes /\ size \in Sizes /\ phase \in {"Running", "ScaleOut"}
    /\ pods \in [Ords -> [state : {"gone", "pending", "assumed", "waiting", "binding", "bound", "ready"},
                          zone : ZoneOrNone]]
    /\ \A o \in Ords : /\ pods[o].state \in {"gone", "pending"} <=> pods[o].zone = None
                       /\ pods[o].state = "assumed" => cycle = [pod |-> o, zone |-> pods[o].zone]
    /\ {claim, cm, hosts, lister, cmLister, op.map} \subseteq [Ords -> ZoneOrNone]
    /\ full \subseteq Zones /\ queued \in BOOLEAN
    /\ pc \in {"idle", "pods", "add", "write", "scale", "mappings", "end"}

Spend(what) == budget[what] > 0 /\ budget' = [budget EXCEPT ![what] = @ - 1]

Init ==
    /\ replicas \in Sizes /\ size = replicas /\ phase = "Running"
    /\ pods = [o \in Ords |-> [state |-> "gone", zone |-> None]]
    /\ claim = [o \in Ords |-> None] /\ cm = claim /\ hosts = claim /\ lister = claim /\ cmLister = claim
    /\ cycle = NoCycle /\ full = {} /\ pc = "idle" /\ op = NoPass /\ queued = TRUE
    /\ budget = [edits |-> MaxEdits, evictions |-> MaxEvictions, rebuilds |-> MaxRebuilds,
                 full |-> MaxFull, faults |-> MaxFaults]

-----------------------------------------------------------------------------
(* The plugin *)

Remainder(o) == o % AvailableZones
Anchor(o) == o - Remainder(o)
Sibling(o) == IF Remainder(o) = 1 THEN o + 1 ELSE o - 1
Group(o) == {p \in Ords : p \div AvailableZones = o \div AvailableZones}
\* getPod, isPodScheduled and getNode: the zone of a pod that has a node.
ZoneOf(o) == IF o \in Ords THEN lister[o] ELSE None
Scheduled(o) == IF pods[o].state \in {"bound", "ready"} THEN pods[o].zone ELSE None

\* Filter: the recorded zone, or one where neither the anchor nor the sibling runs.
Filter(o, z) ==
    IF cmLister[o] # None THEN cmLister[o] = z
    ELSE Remainder(o) = 0 \/ (ZoneOf(Anchor(o)) # z /\ ZoneOf(Sibling(o)) # z)

\* Mutant: the last pod of a group does not wait for the one before it.
PermitAnchored(o, z) ==
    IF Remainder(o) = 0 THEN "Success"
    ELSE IF ZoneOf(Anchor(o)) = None THEN "Wait"
    ELSE IF ZoneOf(Anchor(o)) = z THEN "Unschedulable" ELSE "Success"
\* Permit: wait until the pods before it in the group have nodes, in other zones.
Permit(o, z) ==
    LET before == {p \in Group(o) : p < o} IN
    IF Remainder(o) = 0 THEN "Success"
    ELSE IF ZoneOf(Anchor(o)) = None THEN "Wait"
    ELSE IF ZoneOf(Anchor(o)) = z THEN "Unschedulable"
    ELSE IF \E p \in before : ZoneOf(p) = None THEN "Wait"
    ELSE IF \E p \in before : ZoneOf(p) = z THEN "Unschedulable" ELSE "Success"

Pending == [state |-> "pending", zone |-> None]
\* Unreserve: the pod goes back to the queue, and the waiting pods of its group with it.
Unreserve(o) ==
    [p \in Ords |-> IF p = o \/ (Remainder(o) # 0 /\ p \in Group(o) /\ pods[p].state = "waiting")
                    THEN Pending ELSE pods[p]]

\* A cycle for one pod: PreFilter and Filter (with the plugins for volumes and resources), ...
Schedule(o) ==
    /\ cycle = NoCycle /\ pods[o].state = "pending"
    /\ \E z \in Zones \ full :
          /\ Filter(o, z) /\ claim[o] \in {None, z}
          /\ cycle' = [pod |-> o, zone |-> z]
          /\ pods' = [pods EXCEPT ![o] = [state |-> "assumed", zone |-> z]]
    /\ UNCHANGED <<oper, claim, lister, cmLister, full, queued, budget>>
\* ... and Permit.  A pod that was deleted meanwhile is dropped.
EndCycle ==
    LET o == cycle.pod
        verdict == Permit(o, cycle.zone)
    IN  /\ cycle # NoCycle /\ cycle' = NoCycle
        /\ pods' = IF pods[o].state # "assumed" THEN pods
                   ELSE IF verdict = "Unschedulable" THEN Unreserve(o)
                   ELSE [pods EXCEPT ![o].state = IF verdict = "Wait" THEN "waiting" ELSE "binding"]
        /\ UNCHANGED <<oper, claim, lister, cmLister, full, queued, budget>>
\* Nobody allows a waiting pod: WaitTime passes.
PermitTimeout(o) ==
    /\ pods[o].state = "waiting" /\ pods' = Unreserve(o)
    /\ UNCHANGED <<oper, claim, lister, cmLister, cycle, full, queued, budget>>
\* The volume is bound in the zone of the node, then the pod.
Bind(o) ==
    /\ pods[o].state = "binding"
    /\ \/ /\ pods' = [pods EXCEPT ![o].state = "bound"] /\ UNCHANGED budget
          /\ claim' = IF Storaged THEN [claim EXCEPT ![o] = pods[o].zone] ELSE claim
       \/ Spend("faults") /\ pods' = Unreserve(o) /\ UNCHANGED claim
    /\ UNCHANGED <<oper, lister, cmLister, cycle, full, queued>>

\* The listers follow.
ListPod(o) ==
    /\ lister[o] # Scheduled(o) /\ lister' = [lister EXCEPT ![o] = Scheduled(o)]
    /\ UNCHANGED <<oper, pods, claim, cmLister, cycle, full, queued, budget>>
ListConfigMap ==
    /\ cmLister # cm /\ cmLister' = cm
    /\ UNCHANGED <<oper, pods, claim, lister, cycle, full, queued, budget>>

-----------------------------------------------------------------------------
(* The operator *)

IsReady(n) == {o \in Ords : pods[o].state # "gone"} = 0 .. n - 1 /\ \A o \in 0 .. n - 1 : pods[o].state = "ready"

\* A pass adds pods to their zones when the component is not ready.  The map of storaged starts
\* with copyZoneData, that of graphd is empty.
StartPass ==
    /\ pc = "idle" /\ queued /\ queued' = FALSE
    /\ pc' = IF IsReady(replicas) THEN "scale" ELSE "pods"
    /\ op' = [n |-> replicas, ready |-> IsReady(replicas), i |-> 0, zone |-> None,
              map |-> IF Storaged THEN cm ELSE [o \in Ords |-> None]]
    /\ UNCHANGED <<replicas, size, phase, cm, hosts, sched, budget>>

\* One pod in the loop of addStorageHostsToZone or setTopologyZone: its zone is recorded, or it
\* has no node yet, or it is recorded now (graphd) or after a call to metad (storaged).
NextPod ==
    LET i == op.i IN
    /\ pc = "pods"
    /\ \/ i = op.n /\ pc' = "write" /\ UNCHANGED op
       \/ i < op.n /\ cm[i] # None /\ op' = [op EXCEPT !.i = @ + 1, !.map[i] = cm[i]] /\ UNCHANGED pc
       \/ i < op.n /\ cm[i] = None /\ Scheduled(i) = None /\ op' = [op EXCEPT !.i = @ + 1] /\ UNCHANGED pc
       \/ /\ i < op.n /\ cm[i] = None /\ Scheduled(i) # None
          /\ IF Storaged THEN op' = [op EXCEPT !.zone = Scheduled(i)] /\ pc' = "add"
             ELSE op' = [op EXCEPT !.i = @ + 1, !.map[i] = Scheduled(i)] /\ UNCHANGED pc
    /\ UNCHANGED <<replicas, size, phase, cm, hosts, sched, queued, budget>>

Abort == pc' = "idle" /\ queued' = TRUE /\ op' = NoPass
\* AddHostsIntoZone: a host that exists is an answer like any other, and keeps its zone.
Added == [hosts EXCEPT ![op.i] = IF @ = None THEN op.zone ELSE @]
AddHostsIntoZone ==
    /\ pc = "add"
    /\ \/ /\ hosts' = Added /\ pc' = "pods"
          /\ op' = [op EXCEPT !.i = @ + 1, !.map[op.i] = op.zone, !.zone = None] /\ UNCHANGED <<queued, budget>>
       \/ hosts' \in {hosts, Added} /\ Spend("faults") /\ Abort
    /\ UNCHANGED <<replicas, size, phase, cm, sched>>
WriteZones ==
    /\ pc = "write"
    /\ \/ cm' = op.map /\ pc' = "scale" /\ queued' = (queued \/ cm' # cm) /\ UNCHANGED <<op, budget>>
       \/ Spend("faults") /\ Abort /\ UNCHANGED cm
    /\ UNCHANGED <<replicas, size, phase, hosts, sched>>

\* Scale: hosts that leave are dropped, and a scale-out lasts until all pods are ready.
DropHosts == [o \in Ords |-> IF o >= op.n THEN None ELSE hosts[o]]
Scale ==
    /\ pc = "scale" /\ pc' = IF op.ready /\ Storaged THEN "mappings" ELSE "end"
    /\ hosts' = DropHosts
    /\ phase' = IF Storaged /\ op.n > size THEN "ScaleOut"
                ELSE IF op.ready \/ op.n < size THEN "Running" ELSE phase
    /\ UNCHANGED <<replicas, size, cm, op, sched, queued, budget>>

\* Mutant: pods that are gone stay in the map.
MappingsKept == [o \in Ords |-> IF cm[o] # None THEN cm[o] ELSE IF o < op.n THEN Scheduled(o) ELSE None]
\* updateZoneMappings: the recorded zones of the pods that remain, and the zones of the others.
Mappings == [o \in Ords |-> IF o >= op.n THEN None ELSE IF cm[o] # None THEN cm[o] ELSE Scheduled(o)]
UpdateZoneMappings ==
    /\ pc = "mappings"
    /\ LET failed == \E o \in 0 .. op.n - 1 : cm[o] = None /\ Scheduled(o) = None IN
       \/ ~failed /\ cm' = Mappings /\ pc' = "end" /\ queued' = (queued \/ cm' # cm) /\ UNCHANGED <<op, budget>>
       \/ failed /\ Abort /\ UNCHANGED <<cm, budget>>
       \/ Spend("faults") /\ Abort /\ UNCHANGED cm
    /\ UNCHANGED <<replicas, size, phase, hosts, sched>>
\* UpdateWorkload; the pass is repeated until the component is ready.
EndPass ==
    /\ pc = "end" /\ size' = op.n /\ pc' = "idle" /\ op' = NoPass
    /\ queued' = (queued \/ op.n # size \/ ~op.ready)
    /\ UNCHANGED <<replicas, phase, cm, hosts, sched, budget>>

Operator == \/ StartPass \/ NextPod \/ AddHostsIntoZone \/ WriteZones \/ Scale \/ UpdateZoneMappings \/ EndPass

-----------------------------------------------------------------------------
(* Users, Kubernetes and storaged *)

\* The webhook wants the Running phase for storaged.
Edit ==
    /\ Spend("edits") /\ \E n \in Sizes \ {replicas} : replicas' = n
    /\ Storaged => phase = "Running" /\ size = replicas
    /\ Patient => /\ pc = "idle" /\ ~queued /\ size = replicas /\ IsReady(size)
                  /\ cmLister = cm /\ lister = [o \in Ords |-> Scheduled(o)]
                  /\ Storaged => \A o \in Ords : o >= size => cm[o] = None
    /\ queued' = TRUE /\ UNCHANGED <<size, phase, cm, hosts, pc, op, sched>>

SetPod(o, p) ==
    /\ pods' = [pods EXCEPT ![o] = p] /\ queued' = TRUE
    /\ UNCHANGED <<oper, lister, cmLister, cycle, full>>
Gone == [state |-> "gone", zone |-> None]
Create(o) == o < size /\ pods[o] = Gone /\ SetPod(o, Pending) /\ UNCHANGED <<claim, budget>>
\* The claims of the pods that leave are deleted too (EnablePVReclaim) or kept.
Remove(o) ==
    /\ o >= size /\ pods[o] # Gone /\ SetPod(o, Gone) /\ UNCHANGED budget
    /\ claim' \in {claim, [claim EXCEPT ![o] = None]}
\* A storaged is ready when metad knows its host.
Ready(o) ==
    /\ pods[o].state = "bound" /\ (Storaged => hosts[o] # None)
    /\ SetPod(o, [pods[o] EXCEPT !.state = "ready"]) /\ UNCHANGED <<claim, budget>>
Evict(o) == pods[o] # Gone /\ Spend("evictions") /\ SetPod(o, Gone) /\ UNCHANGED claim
\* Failover takes minutes: the zone was recorded and seen.
Rebuild(o) ==
    /\ Storaged /\ pods[o].state = "ready" /\ cm[o] # None /\ cmLister[o] = cm[o] /\ Spend("rebuilds")
    /\ SetPod(o, Gone) /\ claim' = [claim EXCEPT ![o] = None]

Fill(z) ==
    /\ z \notin full /\ Spend("full") /\ full' = full \union {z}
    /\ UNCHANGED <<oper, pods, claim, lister, cmLister, cycle, queued>>
MakeRoom ==
    /\ full # {} /\ full' = {}
    /\ UNCHANGED <<oper, pods, claim, lister, cmLister, cycle, queued, budget>>

Scheduler(o) == Schedule(o) \/ PermitTimeout(o) \/ Bind(o) \/ ListPod(o)
Kubernetes(o) == Create(o) \/ Remove(o) \/ Ready(o)
Next == \/ Operator \/ EndCycle \/ ListConfigMap \/ Edit \/ MakeRoom
        \/ \E o \in Ords : Scheduler(o) \/ Kubernetes(o) \/ Evict(o) \/ Rebuild(o)
        \/ \E z \in Zones : Fill(z)
Safety == Init /\ [][Next]_vars

\* The queue of the scheduler is served, pods retry often enough to meet the free scheduler
\* (strong fairness), and nodes get room again.
Fairness ==
    /\ WF_vars(Operator) /\ WF_vars(EndCycle) /\ WF_vars(ListConfigMap) /\ WF_vars(MakeRoom)
    /\ \A o \in Ords : /\ SF_vars(Schedule(o)) /\ WF_vars(PermitTimeout(o)) /\ WF_vars(Bind(o))
                       /\ WF_vars(ListPod(o)) /\ WF_vars(Kubernetes(o))
Spec == Safety /\ Fairness

-----------------------------------------------------------------------------
(* Properties *)

\* The pods of a group run in different zones, whatever the listers showed to Filter and Permit.
Spread ==
    \A o \in Ords : \A p \in Group(o) \ {o} : Scheduled(o) # None => Scheduled(o) # Scheduled(p)

\* Metad has the host of a pod in the zone where the pod runs, through failed calls, restarts and
\* the loss of its volume: AddHostsIntoZone leaves a host that exists in its old zone, so the
\* plugin must bring the pod back there.
ZoneKept == \A o \in Ords : Scheduled(o) # None /\ hosts[o] # None => Scheduled(o) = hosts[o]

\* The pods of a group run in different zones, whatever the listers showed to the plugin
\* (node_zone.go Filter, Permit), and metad has the host of a pod in the zone where the pod runs,
\* through failed calls, restarts and the loss of its volume: a host that exists keeps its zone, so
\* the plugin brings the pod back there (storaged_cluster.go addStorageHostsToZone).
ZonesHold == TypeOK /\ Spread /\ ZoneKept

\* In the end all pods are ready, and the zones of the pods of storaged, and only theirs, are
\* recorded: Permit does not make pods wait for each other for ever, and scale-ins leave nothing
\* behind that stops addStorageHostsToZone.
ZonesSettled == IsReady(replicas) /\ (Storaged => \A o \in Ords : cm[o] = None <=> o >= replicas)
ZonesSettle == <>[]ZonesSettled
=============================================================================
