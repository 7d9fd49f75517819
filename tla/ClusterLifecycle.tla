-------------------------- MODULE ClusterLifecycle --------------------------
(***************************************************************************)
(* The life of a NebulaCluster: the pass of the controller over metad,     *)
(* storaged, graphd, exporter, console and the annotations of the claims,  *)
(* suspension and resumption, the waits of a restored cluster, and the     *)
(* deletion with its finalizer.  Every component has one pod; updates and  *)
(* changes of replicas are the subject of other modules.                   *)
(***************************************************************************)
EXTENDS Naturals, FiniteSets, SequencesExt

CONSTANTS MaxFaults,     \* failed calls, operator restarts and evictions
          MaxChanges,    \* changes of the specification by users
          Edits,         \* what users change
          Reclaims,      \* values users give enablePVReclaim
          Restored,      \* whether the cluster is created by a restore
          Evictions      \* whether pods are evicted

ASSUME BoundsAssumption == MaxFaults \in Nat /\ MaxChanges \in Nat
ASSUME SwitchAssumption == /\ Edits \subseteq {"suspend", "reclaim", "version", "delete"}
                           /\ Reclaims \subseteq BOOLEAN /\ Reclaims # {}
                           /\ Restored \in BOOLEAN /\ Evictions \in BOOLEAN

Order == <<"metad", "storaged", "graphd">>
Comps == {"metad", "storaged", "graphd"}
SuspendOrder == Reverse(Order)
\* The components that have to be suspended before c.
Before(c) == {d \in Comps : \E i, j \in 1..Len(Order) :
                SuspendOrder[i] = d /\ SuspendOrder[j] = c /\ i < j}

VARIABLES nc,        \* object in the API server: specification and status
          old,       \* the status a late informer still shows
          workload,  \* StatefulSets: "none", "live" or "terminating"
          pod,       \* pod of the component: "none", "starting" or "ready"
          claim,     \* its claim: reclaim annotation and deletion mark
          registered,\* storaged hosts are registered at metad
          exporter,  \* version of the exporter deployment, 0 for none
          console,   \* console pod, version 0 for none
          at,        \* next step of the pass, "idle" between passes
          copy,      \* the pass's copy of nc
          err,       \* the pass has met an error
          todo,      \* claims the deletion still has to delete
          queued,    \* the cluster is in the work queue
          faults, changes

cluster == <<workload, pod, claim, registered>>
extras == <<exporter, console>>
pass == <<at, copy, err, todo>>
budget == <<faults, changes>>
vars == <<nc, old, cluster, extras, pass, queued, budget>>

Status == [phase : [Comps -> {"", "Running", "Suspend"}],
           work : [Comps -> {"nil", "empty", "notready", "ready"}],
           hostsAdded : BOOLEAN, ready : BOOLEAN]
Object == [suspend : BOOLEAN, reclaim : BOOLEAN, version : 1..(MaxChanges + 1),
           restore : {"off", "started", "metadDone", "storagedDone"},
           life : {"live", "deleting", "gone"}, finalizer : BOOLEAN,
           status : Status]
NoClaim == [ann |-> "none", del |-> FALSE]
Claims == [ann : {"unset", "true", "false"}, del : BOOLEAN] \union {NoClaim}

Steps == <<"finalizer", "metad", "storaged", "graphd", "version", "exporter",
           "console", "create", "annotate">>
DeleteSteps == {"delGraphd", "delStoraged", "listClaims", "delClaims", "release"}

InitStatus == [phase |-> [c \in Comps |-> ""], work |-> [c \in Comps |-> "nil"],
               hostsAdded |-> FALSE, ready |-> FALSE]

\* A cluster as its user creates it, also the copy between two passes.
Created == [suspend |-> FALSE, reclaim |-> CHOOSE b \in Reclaims : TRUE, version |-> 1,
            restore |-> IF Restored THEN "started" ELSE "off",
            life |-> "live", finalizer |-> FALSE, status |-> InitStatus]

Init ==
  /\ nc = Created /\ old = InitStatus
  /\ workload = [c \in Comps |-> "none"] /\ pod = [c \in Comps |-> "none"]
  /\ claim = [c \in Comps |-> NoClaim] /\ registered = FALSE
  /\ exporter = 0 /\ console = [version |-> 0, term |-> FALSE]
  /\ at = "idle" /\ copy = Created /\ err = FALSE /\ todo = {}
  /\ queued = TRUE /\ faults = 0 /\ changes = 0

-----------------------------------------------------------------------------
\* The pass.

After(step) == LET i == CHOOSE j \in 1..Len(Steps) : Steps[j] = step
               IN IF i = Len(Steps) THEN "status" ELSE Steps[i + 1]

Fault == faults < MaxFaults /\ faults' = faults + 1 /\ UNCHANGED changes
EndPass == at' = "idle" /\ copy' = Created /\ err' = FALSE /\ todo' = {}
Go == at' = After(at) /\ UNCHANGED <<err, todo>>
Fail == at' = "status" /\ err' = TRUE /\ UNCHANGED todo

\* Reconcile reads the cluster from the informer, which may still show the
\* status of before the last write, with the event of the write still to
\* come; a cluster that is gone is left alone.
StartPass ==
  /\ at = "idle" /\ queued
  /\ \/ /\ nc.life = "gone" /\ queued' = FALSE /\ UNCHANGED <<old, pass, budget>>
     \/ /\ nc.life # "gone"
        /\ \/ /\ copy' = nc /\ old' = nc.status
              /\ queued' = FALSE /\ UNCHANGED budget
           \/ /\ old # nc.status /\ copy' = [nc EXCEPT !.status = old]
              /\ Fault /\ UNCHANGED <<old, queued>>
        /\ at' = IF nc.life = "deleting" THEN "delGraphd" ELSE "finalizer"
        /\ UNCHANGED <<err, todo>>
  /\ UNCHANGED <<nc, cluster, extras>>

\* The API server refuses to add a finalizer to an object under deletion.
AddFinalizer ==
  /\ at = "finalizer"
  /\ \/ copy.finalizer /\ Go /\ UNCHANGED <<nc, copy>>
     \/ /\ ~copy.finalizer
        /\ IF nc.life = "live"
             THEN /\ nc' = [nc EXCEPT !.finalizer = TRUE]
                  /\ copy' = [copy EXCEPT !.finalizer = TRUE] /\ Go
             ELSE Fail /\ UNCHANGED <<nc, copy>>
  /\ UNCHANGED <<old, cluster, extras, queued, budget>>

SetPhase(c, p) == copy' = [copy EXCEPT !.status.phase[c] = p]
IsSuspending(c) == copy.status.phase[c] = "Suspend"
IsSuspended(c) == IsSuspending(c) /\ (copy.suspend => copy.status.work[c] = "nil")

\* A component that does not wait for the others.
CanSuspendAtOnce(c) == copy.status.phase[c] \in {"Running", "Suspend"}

CanSuspend(c) == /\ copy.status.phase[c] \in {"Running", "Suspend"}
                 /\ \A d \in Before(c) : IsSuspended(d)

\* suspendComponent: what is left of the step when it answers TRUE.  The
\* workload goes in the pass after the one that set the phase.
Suspended(c) ==
  \/ /\ ~copy.suspend /\ IsSuspending(c)
     /\ SetPhase(c, "Running") /\ UNCHANGED workload
  \/ /\ copy.suspend /\ ~IsSuspending(c) /\ CanSuspend(c)
     /\ SetPhase(c, "Suspend") /\ UNCHANGED workload
  \/ /\ copy.suspend /\ IsSuspending(c)
     /\ workload' = [workload EXCEPT ![c] = IF @ = "none" THEN @ ELSE "terminating"]
     /\ copy' = [copy EXCEPT !.status.work[c] = "nil"]

NeedSuspend(c) == IF copy.suspend THEN IsSuspending(c) \/ CanSuspend(c)
                                  ELSE IsSuspending(c)

\* The status of a workload that exists.
Observed(c) == [copy.status EXCEPT
  !.phase[c] = IF c = "storaged" /\ @ # "" THEN @ ELSE "Running",
  !.work[c] = IF pod[c] = "ready" THEN "ready" ELSE "notready"]

\* A restored cluster waits for the restore after metad and after storaged.
Gate(c) == \/ c = "metad" /\ copy.restore = "started"
           \/ c = "storaged" /\ copy.restore \in {"started", "metadDone"}
Proceed(c) == IF Gate(c) THEN Fail ELSE Go

\* The rest of the step of a component.  A missing workload is created and
\* ends the pass; storaged hosts are registered once metad answers.
Sync(c) ==
  \/ /\ workload[c] = "none"
     /\ workload' = [workload EXCEPT ![c] = "live"]
     /\ copy' = [copy EXCEPT !.status.work[c] = "empty"]
     /\ Fail /\ UNCHANGED registered
  \/ /\ workload[c] # "none" /\ (c # "storaged" \/ copy.status.hostsAdded)
     /\ copy' = [copy EXCEPT !.status = Observed(c)]
     /\ Proceed(c) /\ UNCHANGED <<workload, registered>>
  \/ /\ workload[c] # "none" /\ c = "storaged" /\ ~copy.status.hostsAdded
     /\ IF pod["metad"] = "ready"
          THEN /\ registered' = TRUE
               /\ copy' = [copy EXCEPT !.status = [Observed(c) EXCEPT !.hostsAdded = TRUE]]
               /\ Proceed(c)
          ELSE /\ copy' = [copy EXCEPT !.status = Observed(c)]
               /\ Fail /\ UNCHANGED registered
     /\ UNCHANGED workload

\* A resumed component that goes on with the copy it has.
ReconcileNoSuspend(c) ==
  /\ at = c
  /\ Sync(c)
  /\ UNCHANGED <<nc, old, pod, claim, extras, queued, budget>>

ReconcileComponent(c) ==
  /\ at = c
  /\ IF NeedSuspend(c) THEN Suspended(c) /\ Proceed(c) /\ UNCHANGED registered
                       ELSE Sync(c)
  /\ UNCHANGED <<nc, old, pod, claim, extras, queued, budget>>

ReconcileMetad == ReconcileComponent("metad")
ReconcileStoraged == ReconcileComponent("storaged")
ReconcileGraphd == ReconcileComponent("graphd")

\* setClusterVersion asks metad.
SetClusterVersion ==
  /\ at = "version"
  /\ IF pod["metad"] = "ready" THEN Go ELSE Fail
  /\ UNCHANGED <<nc, old, cluster, extras, copy, queued, budget>>

\* The service and the deployment generated for the exporter, and the pod
\* generated for the console: all that matters is what they depend on.
ExporterOf(object) == object.version
ConsoleOf(object) == object.version

\* The deployment is created, or changed when it is not the one generated.
SyncExporter ==
  /\ at = "exporter"
  /\ exporter' = ExporterOf(copy) /\ Go
  /\ UNCHANGED <<nc, old, cluster, console, copy, queued, budget>>

\* The console waits for graphd; a pod that differs is deleted and created
\* anew.  The deletion leaves the pod behind for its grace period.
SyncConsole ==
  /\ at = "console"
  /\ \/ /\ copy.status.work["graphd"] # "ready" /\ Fail /\ UNCHANGED console
     \/ /\ copy.status.work["graphd"] = "ready"
        /\ console.version = ConsoleOf(copy)
        /\ at' = "annotate" /\ UNCHANGED <<err, todo, console>>
     \/ /\ copy.status.work["graphd"] = "ready" /\ console.version # ConsoleOf(copy)
        /\ console' = IF console.version = 0 THEN console ELSE [console EXCEPT !.term = TRUE]
        /\ Go
  /\ UNCHANGED <<nc, old, cluster, exporter, copy, queued, budget>>

\* CreatePod: an existing pod that is being deleted is an error.
CreateConsole ==
  /\ at = "create"
  /\ IF console.version = 0
       THEN console' = [version |-> ConsoleOf(copy), term |-> FALSE] /\ Go
       ELSE Fail /\ UNCHANGED console
  /\ UNCHANGED <<nc, old, cluster, exporter, copy, queued, budget>>

Bool(b) == IF b THEN "true" ELSE "false"
Annotated(S) == [c \in Comps |-> IF c \in S THEN [claim[c] EXCEPT !.ann = Bool(copy.reclaim)]
                                            ELSE claim[c]]
WithPod == {c \in Comps : pod[c] # "none" /\ claim[c] # NoClaim}

\* The meta reconciler annotates the claims of all pods.
Annotate ==
  /\ at = "annotate"
  /\ claim' = Annotated(WithPod) /\ Go
  /\ UNCHANGED <<nc, old, workload, pod, registered, extras, copy, queued, budget>>

\* The condition updater and the write of the status, which ends the pass:
\* an error or a cluster that is not ready is looked at again.
ReadyCondition == \A c \in Comps : copy.status.work[c] = "ready"
Final == [copy.status EXCEPT !.ready = ReadyCondition]

\* A pass that forgets its error.
WriteStatusNoError ==
  /\ at = "status"
  /\ nc' = IF nc.life = "gone" THEN nc ELSE [nc EXCEPT !.status = Final]
  /\ old' = nc.status
  /\ queued' = (queued \/ nc' # nc \/ ~Final.ready)
  /\ EndPass
  /\ UNCHANGED <<cluster, extras, budget>>

\* The write wakes the controller when it changes the object.
WriteStatus ==
  /\ at = "status"
  /\ nc' = IF nc.life = "gone" THEN nc ELSE [nc EXCEPT !.status = Final]
  /\ old' = nc.status
  /\ queued' = (queued \/ nc' # nc \/ err \/ ~Final.ready)
  /\ EndPass
  /\ UNCHANGED <<cluster, extras, budget>>

-----------------------------------------------------------------------------
\* The deletion: graphd, storaged, the claims, the finalizer.  Metad goes
\* with its owner.

DeleteWorkload(c, step, next) ==
  /\ at = step
  /\ workload' = [workload EXCEPT ![c] = IF @ = "none" THEN @ ELSE "terminating"]
  /\ at' = next
  /\ UNCHANGED <<nc, old, pod, claim, registered, extras, copy, err, todo, queued, budget>>

DeleteGraphd == DeleteWorkload("graphd", "delGraphd", "delStoraged")
DeleteStoraged == DeleteWorkload("storaged", "delStoraged", "listClaims")

ListClaims ==
  /\ at = "listClaims"
  /\ todo' = {c \in Comps : claim[c] # NoClaim /\ claim[c].ann # "false"}
  /\ at' = "delClaims"
  /\ UNCHANGED <<nc, old, cluster, extras, copy, err, queued, budget>>

DeleteClaim ==
  /\ at = "delClaims"
  /\ \/ \E c \in todo :
          /\ claim' = [claim EXCEPT ![c] = IF @ = NoClaim THEN @ ELSE [@ EXCEPT !.del = TRUE]]
          /\ todo' = todo \ {c} /\ UNCHANGED at
     \/ todo = {} /\ at' = "release" /\ UNCHANGED <<claim, todo>>
  /\ UNCHANGED <<nc, old, workload, pod, registered, extras, copy, err, queued, budget>>

\* The finalizer goes and with it the object.
RemoveFinalizer ==
  /\ at = "release"
  /\ nc' = [nc EXCEPT !.finalizer = FALSE,
                      !.life = IF @ = "deleting" THEN "gone" ELSE @]
  /\ EndPass
  /\ UNCHANGED <<old, cluster, extras, queued, budget>>

-----------------------------------------------------------------------------
\* Faults.

\* A call of the pass fails: the status is written all the same, a deletion
\* is repeated; the annotations may have been written in part.
CallFails ==
  /\ Fault /\ at # "idle"
  /\ IF at \in DeleteSteps \union {"status"}
       THEN EndPass /\ queued' = TRUE
       ELSE Fail /\ UNCHANGED <<copy, queued>>
  /\ IF at = "annotate" THEN \E S \in SUBSET WithPod : claim' = Annotated(S)
                        ELSE UNCHANGED claim
  /\ UNCHANGED <<nc, old, workload, pod, registered, extras>>

Crash == /\ Fault /\ at # "idle"
         /\ EndPass /\ queued' = TRUE
         /\ UNCHANGED <<nc, old, cluster, extras>>

\* A pod leaves its node, also without a fault of the operator.
Evict(c) == /\ Evictions /\ Fault /\ pod[c] = "ready"
            /\ pod' = [pod EXCEPT ![c] = "none"]
            /\ queued' = TRUE
            /\ UNCHANGED <<nc, old, workload, claim, registered, extras, pass>>

-----------------------------------------------------------------------------
\* The StatefulSet controller, the kubelet, the garbage
\* collector, pvc-protection and the restore controller.

Outside == UNCHANGED <<nc, old, registered, extras, pass, budget>>

CreatePod(c) == /\ workload[c] = "live" /\ pod[c] = "none"
                /\ claim[c] = NoClaim \/ ~claim[c].del
                /\ pod' = [pod EXCEPT ![c] = "starting"]
                /\ claim' = [claim EXCEPT ![c] =
                      IF @ = NoClaim THEN [ann |-> "unset", del |-> FALSE] ELSE @]
                /\ queued' = TRUE /\ UNCHANGED workload /\ Outside

\* Storaged gets ready once it is registered, storaged and graphd need metad.
PodReady(c) == /\ pod[c] = "starting"
               /\ c # "metad" => pod["metad"] = "ready"
               /\ c = "storaged" => registered
               /\ pod' = [pod EXCEPT ![c] = "ready"]
               /\ queued' = TRUE /\ UNCHANGED <<workload, claim>> /\ Outside

\* Foreground deletion: first the pod, then the workload.
WorkloadGoes(c) ==
  /\ workload[c] = "terminating"
  /\ IF pod[c] # "none" THEN pod' = [pod EXCEPT ![c] = "none"] /\ UNCHANGED workload
                        ELSE workload' = [workload EXCEPT ![c] = "none"] /\ UNCHANGED pod
  /\ queued' = TRUE /\ UNCHANGED claim /\ Outside

ClaimGone(c) == /\ claim[c] # NoClaim /\ claim[c].del /\ pod[c] = "none"
                /\ claim' = [claim EXCEPT ![c] = NoClaim]
                /\ UNCHANGED <<workload, pod, queued>> /\ Outside

Collect(c) == /\ nc.life = "gone" /\ workload[c] = "live"
              /\ workload' = [workload EXCEPT ![c] = "terminating"]
              /\ UNCHANGED <<pod, claim, queued>> /\ Outside

ConsoleGone == /\ console.term
               /\ console' = [version |-> 0, term |-> FALSE]
               /\ UNCHANGED <<nc, old, cluster, exporter, pass, queued, budget>>

RestoreAdvances ==
  /\ nc.life = "live"
  /\ \/ nc.restore = "started" /\ pod["metad"] # "none"
        /\ nc' = [nc EXCEPT !.restore = "metadDone"]
     \/ nc.restore = "metadDone" /\ pod["storaged"] # "none"
        /\ nc' = [nc EXCEPT !.restore = "storagedDone"]
  /\ queued' = TRUE
  /\ UNCHANGED <<old, cluster, extras, pass, budget>>

-----------------------------------------------------------------------------
\* Users.

Change(e) == /\ e \in Edits /\ nc.life = "live"
             /\ changes < MaxChanges /\ changes' = changes + 1
             /\ queued' = TRUE /\ old' = nc.status
             /\ UNCHANGED <<cluster, extras, pass, faults>>

Suspend == Change("suspend") /\ nc' = [nc EXCEPT !.suspend = ~@]
SetReclaim == /\ Change("reclaim")
              /\ \E b \in Reclaims \ {nc.reclaim} : nc' = [nc EXCEPT !.reclaim = b]
ChangeVersion == Change("version") /\ nc' = [nc EXCEPT !.version = @ + 1]
Delete == /\ Change("delete")
          /\ nc' = [nc EXCEPT !.life = IF nc.finalizer THEN "deleting" ELSE "gone"]

Operator == \/ StartPass \/ AddFinalizer \/ ReconcileMetad \/ ReconcileStoraged \/ ReconcileGraphd
            \/ SetClusterVersion \/ SyncExporter \/ SyncConsole \/ CreateConsole
            \/ Annotate \/ WriteStatus
            \/ DeleteGraphd \/ DeleteStoraged \/ ListClaims \/ DeleteClaim
            \/ RemoveFinalizer

Kubernetes == \/ ConsoleGone
              \/ \E c \in Comps : CreatePod(c) \/ PodReady(c) \/ WorkloadGoes(c)
                                    \/ ClaimGone(c) \/ Collect(c)

Next == \/ Operator \/ Kubernetes \/ RestoreAdvances
        \/ CallFails \/ Crash \/ (\E c \in Comps : Evict(c))
        \/ Suspend \/ SetReclaim \/ ChangeVersion \/ Delete

\* The controller works off its queue, its requests reach the informers and
\* the controllers of the cluster, and a restore goes on.
Fairness == /\ WF_vars(Operator) /\ WF_vars(ConsoleGone)
            /\ WF_vars(RestoreAdvances)
            /\ \A c \in Comps : /\ WF_vars(CreatePod(c)) /\ WF_vars(PodReady(c))
                                /\ WF_vars(WorkloadGoes(c)) /\ WF_vars(ClaimGone(c))
                                /\ WF_vars(Collect(c))

Spec == Init /\ [][Next]_vars
LiveSpec == Spec /\ Fairness
-----------------------------------------------------------------------------
\* Types of the objects, the pass and the budgets.
TypeOK == /\ nc \in Object /\ old \in Status /\ copy \in Object
          /\ workload \in [Comps -> {"none", "live", "terminating"}]
          /\ pod \in [Comps -> {"none", "starting", "ready"}]
          /\ claim \in [Comps -> Claims] /\ registered \in BOOLEAN
          /\ exporter \in 0..(MaxChanges + 1)
          /\ console \in [version : 0..(MaxChanges + 1), term : BOOLEAN]
          /\ at \in Range(Steps) \union DeleteSteps \union {"idle", "status"}
          /\ err \in BOOLEAN /\ todo \subseteq Comps /\ queued \in BOOLEAN
          /\ faults \in 0..MaxFaults /\ changes \in 0..MaxChanges

\* The workload of a component is deleted while one that uses it is left.
SuspendsEarly ==
  \E c \in Comps : /\ at = c /\ workload[c] = "live" /\ workload'[c] = "terminating"
                   /\ \E d \in Before(c) : workload[d] = "live"

\* A restored cluster gets no storaged before its metad is restored and no
\* graphd before its storaged is.
GatesHold ==
  /\ nc.restore = "started" => workload["storaged"] = "none"
  /\ nc.restore \in {"started", "metadDone"} => workload["graphd"] = "none"

\* The controller goes to sleep only on a cluster that is as its users want
\* it: nothing wakes it when only a claim or the console pod is out of date.
Asleep == /\ at = "idle" /\ ~queued /\ nc.life = "live"
AsleepIsDone ==
  Asleep => /\ ~nc.suspend /\ nc.status.ready
            /\ exporter = nc.version
            /\ console.version = nc.version /\ ~console.term
            /\ \A c \in Comps : claim[c] # NoClaim /\ claim[c].ann = Bool(nc.reclaim)

\* enablePVReclaim decides about the claims of a deleted cluster: the deletion
\* takes no claim away while no user ever asked for it.
KeepsClaims == (Reclaims = {FALSE}) => \A c \in Comps : claim[c] # NoClaim => ~claim[c].del

\* A claim that is marked to be kept is deleted.
TakesAnnotated ==
  \E c \in Comps : /\ claim[c] # NoClaim /\ claim[c].ann = "false" /\ ~claim[c].del
                   /\ claim'[c] = NoClaim \/ claim'[c].del

\* Components are suspended after those that use them, also when users change
\* their mind; a claim once marked to be kept outlives a deletion
\* (helper.go suspendComponent, nebula_cluster_control.go)
TakesInOrder == [][~SuspendsEarly /\ ~TakesAnnotated]_vars

\* With the reclaim asked for, no claim outlives the cluster.
Remains(c) == claim[c] # NoClaim /\ ~claim[c].del
NoLeftovers == (Reclaims = {TRUE} /\ nc.life = "gone" /\ \A c \in Comps : workload[c] = "none")
                 => \A c \in Comps : ~Remains(c)

\* Once users are done, a cluster to be suspended has no pods and says so,
\* any other comes up completely, and a deleted one goes with its workloads.
Settles ==
  <>[](/\ nc.life = "live" /\ nc.suspend =>
            /\ \A c \in Comps : pod[c] = "none"
            /\ \A c \in Comps : nc.status.phase[c] = "Suspend"
       /\ nc.life = "live" /\ ~nc.suspend => nc.status.ready /\ Asleep
       /\ nc.life # "live" => nc.life = "gone" /\ \A c \in Comps : workload[c] = "none")
-----------------------------------------------------------------------------
(* Why components are suspended in order until a second fault *)

\* The steps of a pass over a cluster that is not being deleted.
Walking == at \in Range(Steps) \union {"status"}
Rank(c) == CHOOSE i \in 1..Len(Order) : Order[i] = c
Later(c) == at \in Comps => Rank(at) <= Rank(c)
Handled(c) == at \in Comps /\ Rank(c) < Rank(at)

\* Suspended in order, according to a status.
Ordered(s) == \A c \in Comps : s.phase[c] = "Suspend" =>
                \A d \in Before(c) : s.phase[d] = "Suspend"
\* Nothing uses a component that a status shows as suspended.
Unused(s) == \A c \in Comps : s.phase[c] = "Suspend" =>
               \A d \in Before(c) : workload[d] # "live"
\* What a status says to be gone is gone.
Truthful(s) == \A c \in Comps : s.work[c] = "nil" => workload[c] # "live"
\* The step that takes away d is the next of the pass that suspended c.
TakenNext(c, d) == /\ copy.suspend /\ Handled(c) /\ Rank(at) <= Rank(d)
UnusedSoon == \A c \in Comps : copy.status.phase[c] = "Suspend" =>
               \A d \in Before(c) : workload[d] = "live" => TakenNext(c, d)

\* A restored cluster is built up behind its gates, also in the pass's copy.
GatesKept ==
  /\ GatesHold
  /\ Walking => /\ nc.restore = "started" => copy.restore = "started"
                /\ nc.restore = "metadDone" => copy.restore \in {"started", "metadDone"}
                /\ copy.restore = "started" => workload["storaged"] = "none"
                /\ copy.restore \in {"started", "metadDone"} => workload["graphd"] = "none"
  /\ at \in Comps \ {"metad"} => copy.restore # "started"
  /\ at = "graphd" => copy.restore # "metadDone"

\* While a pass is at the components the cluster cannot go.
Held == /\ nc.life = "gone" => ~nc.finalizer
        /\ copy.finalizer => nc.finalizer
        /\ at \in Comps => copy.finalizer

Asked == nc.suspend \/ copy.suspend => "suspend" \in Edits
InOrder == Ordered(nc.status) /\ Ordered(old) /\ Ordered(copy.status)
Resumed == ~copy.suspend => \A c \in Comps : Handled(c) => copy.status.phase[c] # "Suspend"

\* Before the first fault no status is wrong or outdated.
Faultless ==
  faults = 0 =>
    /\ Unused(nc.status) /\ Unused(old) /\ (at # "idle" => old = nc.status)
    /\ Walking => Truthful(copy.status) /\ Unused(copy.status)
    /\ at \in Comps \union {"finalizer"} =>
          \A c \in Comps : Later(c) => copy.status.phase[c] = nc.status.phase[c]
    /\ ~Walking /\ nc.life # "gone" => Truthful(nc.status)

\* After the first a status may show a component as gone that is not, but the
\* pass that believes it takes the component away at once.
OneFault ==
  faults <= 1 => IF Walking THEN UnusedSoon ELSE nc.life # "gone" => Unused(nc.status)

OrderInv == Asked /\ Held /\ GatesKept /\ InOrder /\ Resumed /\ Faultless /\ OneFault
-----------------------------------------------------------------------------
(* Why the controller goes to sleep only when all is done *)

\* The pass has been at c, or has come to its end without an error.
Past(c) == \/ Handled(c)
           \/ at \in {"version", "exporter", "console", "create", "annotate"}
           \/ at = "status" /\ ~err
AtEnd == at = "status" /\ ~err

\* A pod has its claim, and claims of a cluster that lives are not deleted.
ClaimsStay ==
  /\ \A c \in Comps : /\ pod[c] # "none" => claim[c] # NoClaim
                      /\ claim[c].del => nc.life # "live"
  /\ at \in DeleteSteps => nc.life # "live"

\* The console is that of an earlier version when it is about to go.
ConsoleBehind(version) == /\ console.version <= version
                          /\ console.term => console.version < version
VersionsGrow == /\ ConsoleBehind(nc.version)
                /\ Walking => ConsoleBehind(copy.version) /\ copy.version <= nc.version

\* Unless something wakes the controller, what a pass has read still holds: the
\* pods are as it saw them, or the phase that it will write is a new one.
SeenIsTrue == Walking /\ ~queued =>
  /\ copy.suspend = nc.suspend /\ copy.reclaim = nc.reclaim /\ copy.version = nc.version
  /\ \A c \in Comps :
        /\ ~Past(c) /\ ~err => copy.status.phase[c] = nc.status.phase[c]
        /\ Past(c) /\ copy.status.phase[c] = nc.status.phase[c]
              /\ copy.status.work[c] = "ready" => pod[c] = "ready" /\ (c = "graphd" => ~copy.suspend)
DoneIsTrue == Walking /\ ~queued =>
  /\ at \in {"console", "create", "annotate"} \/ AtEnd => exporter = copy.version
  /\ at = "annotate" \/ AtEnd => console.version = copy.version
  /\ AtEnd => \A c \in Comps : pod[c] = "ready" => claim[c].ann = Bool(copy.reclaim)

\* An error ends the walk.
ErrorEnds == err => at = "status"

RestInv == ErrorEnds /\ ClaimsStay /\ VersionsGrow /\ SeenIsTrue /\ DoneIsTrue /\ AsleepIsDone

\* The controller goes to sleep only on a cluster that is as its users want
\* it, whatever was lost or outdated on the way (AsleepIsDone in RestInv); a
\* restored cluster gets no storaged before its metad is restored and no graphd
\* before its storaged is (GatesHold in OrderInv); the rest are the invariants
\* from which this and TakesInOrder are proved (nebula_cluster_control.go updateNebulaCluster,
\* nebula_cluster_controller.go Reconcile)
RestsWhenDone == TypeOK /\ OrderInv /\ RestInv
=============================================================================
