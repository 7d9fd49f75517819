-------------------------- MODULE StoragedScaleInv --------------------------
(***************************************************************************)
(* The inductive invariants behind the properties of StoragedScale: model  *)
(* checked on small instances, proved for all in StoragedScaleProofs.      *)
(***************************************************************************)
EXTENDS StoragedScale

\* The types, what the references to jobs stand for, and that a pass has read
\* a number of replicas
RefInv ==
    /\ TypeOK
    /\ JobRecorded
    /\ pc # "idle" => want \in Replicas

\* What the order of the calls in a pass guarantees: until UpdateWorkload the
\* StatefulSet is as the pass read it, and behind DropHosts the targets of a
\* scale-in are not registered
DropInv ==
    /\ pc \notin {"idle", "reclaim", "delete", "end"} => old = sts
    /\ pc \in {"out", "balance"} => want >= old
    /\ pc \in {"leader", "mark", "scaledIn", "workload"} /\ want < old =>
         targets \cap hosts = {}

---------------------------------------------------------------------------
(* Safe scale-in.  It needs users who wait for a settled cluster, a cache  *)
(* that is up to date when a pass starts and pods that stay up.            *)

Careful == Admission = "settled" /\ ~CacheLag /\ ~PodFaults

\* The replicas that a scale-in takes away; empty when none is under way
Surplus == spec .. sts - 1

\* Job j takes the partitions of its space from every surplus replica
Covers(j) == Surplus \subseteq jobs[j].hosts

\* The surplus replicas have no partition of space s, and no job brings one
Emptied(s) ==
    /\ \A o \in Surplus : s \notin parts[o]
    /\ \A j \in 1 .. Len(jobs) :
          jobs[j].space = s /\ jobs[j].state = "running" => Covers(j)

\* Job j and the later jobs of its space take the partitions from the surplus
\* replicas, and when j has finished the space is emptied
GoodJob(j) ==
    /\ \A k \in j .. Len(jobs) : jobs[k].space = jobs[j].space => Covers(k)
    /\ jobs[j].state = "finished" => Emptied(jobs[j].space)

\* The steps of a pass while the status says that it scales, and the others
Scaling == {"in", "out", "balance", "remove", "drop", "leader", "mark", "scaledIn", "job"}
Quiet   == {"hosts", "scale", "workload", "reclaim", "delete", "end"}

\* Between the writes of a pass, the status and its copy differ only in what
\* the scaler is about to write
SavedInv ==
    /\ pc \in Scaling => status.phase # "Running" /\ nc.phase # "Running"
    /\ pc # "idle" /\ status.phase = "Running" =>
         /\ nc.job = status.job /\ nc.removed = status.removed
         /\ pc \in {"hosts", "scale"} => nc.phase = "Running"

\* The user has changed the replicas after the pass read them: the pass had
\* nothing to scale
Outdated ==
    /\ pc \in Quiet /\ want = sts
    /\ status.phase = "Running" /\ status.job = NoJob /\ status.removed = {}

\* A pass works on the replicas the user asks for, with the spaces that exist
PassInv ==
    /\ IF pc = "idle" THEN nc = NewStatus ELSE want = spec \/ Outdated
    /\ pc \in {"balance", "remove"} => listed = spaces
    /\ pc \in {"remove", "drop"} => want < old
    /\ pc \in {"remove", "drop", "leader", "mark", "scaledIn", "workload"} /\ want < old =>
         targets = Surplus
    /\ \A o \in Surplus : pods[o] = "ready"

\* Partitions and jobs belong to spaces that exist
SpaceInv ==
    /\ \A o \in Ordinals : parts[o] \subseteq spaces
    /\ \A j \in 1 .. Len(jobs) : jobs[j].space \in spaces

\* What the status records during a scale-in is true: the recorded job empties
\* the surplus replicas, and the removed spaces are emptied
RecordInv ==
    /\ status.job # NoJob => GoodJob(status.job.id)
    /\ nc.job # NoJob => GoodJob(nc.job.id)
    /\ \A s \in status.removed \cup nc.removed : Emptied(s)
    /\ pc \in {"drop", "leader", "mark", "scaledIn", "workload"} /\ want = spec =>
         \A s \in spaces : Emptied(s)

\* The inductive invariant of a careful scale-in (storaged_scaler.go ScaleIn,
\* data_balancer.go removeHost)
CarefulInv == RefInv /\ DropInv /\ SavedInv /\ PassInv /\ SpaceInv /\ RecordInv

---------------------------------------------------------------------------
(* Safe reclaim.  Partitions are only where pods are: a job runs only while *)
(* every registered host has its pod, and a replica leaves only when it    *)
(* has no partitions.                                                      *)

Full       == \A o \in Ordinals : o < sts => pods[o] # "absent"
NoneBeyond == \A o \in Ordinals : o >= sts => pods[o] = "absent"
HostsUp    == \A o \in hosts : pods[o] # "absent"
Idle(s)    == \A j \in 1 .. Len(jobs) : jobs[j].space = s => jobs[j].state # "running"
AllIdle    == \A j \in 1 .. Len(jobs) : jobs[j].state # "running"

\* The phase of the status, and of the pass's copy, says what users asked for
PhaseFits(p) == /\ p = "ScaleIn" => spec < sts
                /\ p = "ScaleOut" => spec >= sts /\ NoneBeyond
PhaseInv ==
    /\ PhaseFits(status.phase) /\ PhaseFits(nc.phase)
    /\ pc # "idle" => nc.phase # ""
    /\ nc.phase = "ScaleOut" => status.phase = "ScaleOut" \/ spec > sts
    /\ pc \in {"hosts", "scale"} =>
         nc.phase = IF status.phase = "" THEN "Running" ELSE status.phase
    /\ pc \in {"out", "balance"} => status.phase = "ScaleOut" /\ nc.phase = "ScaleOut"
    /\ pc \in {"in", "remove", "drop", "leader", "mark", "scaledIn"} =>
         status.phase = "ScaleIn" /\ nc.phase = "ScaleIn"
    /\ pc \in {"workload", "reclaim", "delete"} =>
         status.phase # "ScaleIn" /\ nc.phase # "ScaleIn"
    /\ pc = "workload" /\ want > old => status.phase = "ScaleOut"
    /\ status.phase = "ScaleOut" /\ nc.phase = "Running" => Full /\ spec = sts

\* Where hosts are registered, and which pods there are
HostInv ==
    /\ \A o \in hosts : o < spec \/ o < sts
    /\ spec < sts => Full
    /\ spec > sts => NoneBeyond
    /\ \/ status.hostsAdded
       \/ spec = sts /\ spaces = {} /\ \A o \in Ordinals : pvcs[o] # "marked"
    /\ pc # "idle" => nc.hostsAdded \/ (pc \in {"hosts", "end"} /\ ~status.hostsAdded)
    /\ pc # "idle" /\ want # spec => HostsUp
    /\ pc \in {"hosts", "scale", "out", "balance"} /\ ready /\ want >= old
         /\ (want > old \/ nc.phase = "ScaleOut") => want = old /\ Full
    /\ pc = "balance" => ready /\ AutoBalance
    /\ pc = "reclaim" => sts = want

\* A recorded job is the last of its space, and alone when it has finished
Last(ref) == ref # NoJob =>
    /\ \A k \in 1 .. Len(jobs) : k > ref.id => jobs[k].space # ref.space
    /\ jobs[ref.id].state = "finished" => Idle(ref.space)
\* The spaces that a copy of the status takes for done have no running job
Done(c) == /\ c.phase = "ScaleOut" => \A s \in c.balanced : Idle(s)
           /\ c.phase = "ScaleIn" => \A s \in c.removed : Idle(s)
\* Jobs run only while a scaling is recorded, on hosts that have their pods
JobInv ==
    /\ ~AllIdle => /\ HostsUp /\ spec <= sts
                   /\ status.phase \in {"ScaleIn", "ScaleOut"}
                   /\ pc # "idle" => nc.phase \in {"ScaleIn", "ScaleOut"}
                   /\ status.phase = "ScaleOut" => AutoBalance
    /\ Last(status.job) /\ Last(nc.job)
    /\ Done(status) /\ Done(nc)
    /\ pc \in {"out", "balance", "in", "remove"} => nc = status
    /\ pc \in {"drop", "leader", "mark", "scaledIn"} => AllIdle

\* Partitions are where pods are; a marked claim without a pod belongs to no
\* host in use, and those that the reclaimer has picked stay without partitions
ClaimInv ==
    /\ \A o \in Ordinals : parts[o] # {} => o < sts /\ pods[o] # "absent"
    /\ \A o \in hosts : pods[o] = "absent" /\ pvcs[o] = "marked" =>
                           status.phase = "ScaleOut" \/ spec > sts
    /\ pc = "delete" => \A o \in targets :
         parts[o] = {} /\ (o \in hosts => AllIdle /\ status.phase = "ScaleOut")

\* The inductive invariant of a careful reclaim (pvc_reclaimer.go reclaimPV)
ReclaimInv == CarefulInv /\ PhaseInv /\ HostInv /\ JobInv /\ ClaimInv
---------------------------------------------------------------------------
(* A settled cluster.  Its replicas are registered before they get pods,   *)
(* and with automatic balancing the spaces are on all of them again before *)
(* the phase goes back to Running.                                         *)

\* Every registered host has partitions of space s
Everywhere(s) == \A o \in hosts : s \in parts[o]

\* The replicas that are wanted and there are registered; behind
\* AddStorageHosts, so are those the pass is going to ask for
RegisteredInv ==
    /\ status.hostsAdded \/ nc.hostsAdded =>
         \A o \in Ordinals : o < spec /\ o < sts => o \in hosts
    /\ pc \notin {"idle", "hosts", "end"} =>
         \A o \in Ordinals : o < spec /\ o < want => o \in hosts
    /\ \A c \in {status, nc} : c.phase \in {"ScaleIn", "ScaleOut"} => c.hostsAdded

\* A job that runs or is recorded is one of the scaling under way: a balance
\* of all hosts, or a removal from surplus replicas only
FitsPhase(j, p) == /\ p = "ScaleOut" => jobs[j].hosts = {}
                   /\ p = "ScaleIn" => jobs[j].hosts \subseteq Surplus
\* What a copy of the status says of a scale-out is true: its balanced spaces,
\* and the space of its finished job, are everywhere; elsewhere it says nothing
Truthful(c) ==
    /\ c.phase \notin {"ScaleIn", "ScaleOut"} \/ spec > sts => c.balanced = {} /\ c.job = NoJob
    /\ c.phase = "ScaleOut" => \A s \in c.balanced : Everywhere(s)
    /\ c.job # NoJob =>
         /\ FitsPhase(c.job.id, c.phase)
         /\ c.phase = "ScaleOut" /\ jobs[c.job.id].state = "finished" => Everywhere(c.job.space)
BalancedInv ==
    /\ Truthful(status) /\ Truthful(nc)
    /\ \A j \in 1 .. Len(jobs) : jobs[j].state = "running" => FitsPhase(j, status.phase)
    /\ spec <= sts /\ (status.phase # "ScaleOut" \/ nc.phase = "Running") =>
         \A o \in Ordinals : o < spec => spaces \subseteq parts[o]

\* The inductive invariant of what a careful cluster has when it is settled
\* (storaged_cluster.go addStorageHosts, storaged_scaler.go ScaleOut, ScaleIn)
SettledInv == ReclaimInv /\ RegisteredInv /\ (AutoBalance => BalancedInv)
=============================================================================
