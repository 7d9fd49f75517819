----------------------- MODULE StoragedFailoverProofs -----------------------
(***************************************************************************)
(* The failover of storaged is well typed, never deletes the claim of a    *)
(* pod that was ready throughout the pass, and with at most two faults and *)
(* passes that read the status as it is it deletes in one outage no claim  *)
(* but the one that the host had when it went offline.                     *)
(***************************************************************************)
EXTENDS StoragedFailover, FiniteSetTheorems, TLAPS

USE NAssumption, SpaceAssumption, SwitchAssumption

---------------------------------------------------------------------------
(* Types of the operators *)

\* The pods of the workload are at most as many as its replicas
LEMMA CountType == \A S \in SUBSET Hosts : Cardinality(S) \in 0 .. N
<1>1. IsFiniteSet(Hosts) /\ Cardinality(Hosts) = N
  BY FS_Interval, 0 \in Int, N - 1 \in Int DEF Hosts
<1>2. TAKE S \in SUBSET Hosts
<1>3. IsFiniteSet(S) /\ Cardinality(S) <= Cardinality(Hosts)
  BY <1>1, FS_Subset
<1>4. Cardinality(S) \in Nat
  BY <1>3, FS_CardinalityType
<1> QED
  BY <1>1, <1>3, <1>4

\* What the steps write to the copy of the status
LEMMA CopyTypes ==
    ASSUME NEW c \in StatusType, NEW o \in Hosts
    PROVE  /\ Restarted(c, o) \in StatusType
           /\ Rebuilt(c, o) \in StatusType
<1>1. c.failures \in [Hosts -> FailureHost] /\ c.failures[o] \in FailureHost
  BY DEF StatusType
<1>2. /\ [c.failures[o] EXCEPT !.podRestarted = TRUE] \in FailureHost
      /\ [c.failures[o] EXCEPT !.podRebuilt = TRUE] \in FailureHost
  BY <1>1 DEF FailureHost
<1>3. Restarted(c, o) \in StatusType
  BY <1>1, <1>2 DEF StatusType, Restarted
<1>4. Rebuilt(c, o) \in StatusType
  BY <1>1, <1>2 DEF StatusType, Rebuilt
<1> QED
  BY <1>3, <1>4

LEMMA HealthyType == Healthy \in StatusType
BY DEF Healthy, StatusType, NoFailure, FailureHost

LEMMA FailureTypes ==
    ASSUME TypeOK, NEW o \in Hosts
    PROVE  NewFailure \in FailureHost /\ NoFailure \in FailureHost /\ Confirm(o) \in FailureHost
<1>1. NoFailure \in FailureHost /\ NewFailure \in FailureHost
  BY DEF NewFailure, NoFailure, FailureHost
<1>2. nc.failures[o] \in FailureHost /\ Found(o) \subseteq Nat
  BY DEF TypeOK, StatusType, Found, ClaimType
<1>3. Confirm(o) \in FailureHost
  BY <1>2 DEF Confirm, FailureHost
<1> QED
  BY <1>1, <1>3

---------------------------------------------------------------------------
(* Type correctness *)

\* The history variables keep their types whatever the step
LEMMA HistoryType ==
    ASSUME TypeOK, History
    PROVE  /\ steady' \subseteq Hosts
           /\ suspect' \in [Hosts -> Nat]
           /\ served' \in [Hosts -> SUBSET Spaces]
           /\ outdated' \in BOOLEAN
<1>1. \A o \in Hosts : claims[o].uid \in Nat /\ suspect[o] \in Nat /\ served[o] \subseteq Spaces
  BY DEF TypeOK, ClaimType
<1> QED
  BY <1>1 DEF TypeOK, History

\* What the steps of a pass leave in the variables that are not history
CoreType ==
    /\ status \in StatusType /\ cache \in StatusType /\ nc \in StatusType
    /\ pods \in [Hosts -> PodState]
    /\ aged \subseteq Hosts /\ online \subseteq Hosts /\ due \subseteq Hosts
    /\ claims \in [Hosts -> ClaimType]
    /\ jobs \in [Spaces -> JobState]
    /\ pc \in {"idle", "sync", "recover", "restart", "tolerate", "rebuild", "claims",
               "pending", "balance", "done", "end"}
    /\ victim \in Hosts \cup {-1}
    /\ faults \in 0 .. MaxFaults

LEMMA DetectType ==
    ASSUME TypeOK, StartReconcile \/ SyncStatus \/ ShouldRecover
    PROVE  CoreType'
<1> USE DEF CoreType
<1>1. CASE StartReconcile
  BY <1>1 DEF TypeOK, StartReconcile, Fault, kube, metad
<1>2. CASE SyncStatus
  <2> DEFINE f == [o \in Hosts |->
                     IF nc.workload # N \/ o \in online THEN nc.failures[o]
                     ELSE IF ~nc.failures[o].recorded THEN NewFailure
                     ELSE IF o \in due /\ ~nc.failures[o].confirmed THEN Confirm(o)
                     ELSE nc.failures[o]]
             w == Cardinality({o \in Hosts : pods[o] # "absent"})
  <2>1. f \in [Hosts -> FailureHost]
    BY FailureTypes DEF TypeOK, StatusType
  <2>2. w \in 0 .. N
    BY CountType
  <2> HIDE DEF w
  <2>3. nc' = [nc EXCEPT !.failures = f, !.workload = w]
    BY <1>2 DEF SyncStatus, w, TypeOK, StatusType
  <2>4. nc' \in StatusType
    BY <2>1, <2>2, <2>3 DEF TypeOK, StatusType
  <2> QED
    BY <2>4, <1>2 DEF TypeOK, SyncStatus, kube, metad
<1>3. CASE ShouldRecover
  <2>1. [o \in Hosts |-> IF o \in Back THEN NoFailure ELSE nc.failures[o]] \in [Hosts -> FailureHost]
    BY FailureTypes DEF TypeOK, StatusType
  <2>2. nc' \in StatusType
    BY <2>1, <1>3 DEF TypeOK, ShouldRecover, StatusType
  <2> QED
    BY <2>2, <1>3 DEF TypeOK, ShouldRecover, kube, metad
<1> QED
  BY <1>1, <1>2, <1>3

LEMMA FailoverType ==
    ASSUME TypeOK, TryRestartPod \/ ToleratePods \/ RebuildPod \/ DeleteClaims \/ CheckPendingPod
    PROVE  CoreType'
<1> USE DEF CoreType
<1>1. CASE TryRestartPod
  <2>1. \A o \in Hosts : Restarted(nc, o) \in StatusType
    BY CopyTypes DEF TypeOK
  <2>2. nc' \in StatusType
    BY <1>1, <2>1 DEF TypeOK, TryRestartPod, Recorded
  <2>3. pods' \in [Hosts -> PodState] /\ aged' \subseteq Hosts
    BY <1>1 DEF TypeOK, TryRestartPod, DeletePod, PodState
  <2>4. pc' \in {"end", "tolerate"}
    BY <1>1 DEF TryRestartPod
  <2> QED
    BY <1>1, <2>2, <2>3, <2>4 DEF TypeOK, TryRestartPod, metad
<1>2. CASE ToleratePods
  BY <1>2, HealthyType DEF TypeOK, ToleratePods, Forget, kube, metad
<1>3. CASE RebuildPod
  BY <1>3 DEF TypeOK, RebuildPod, DeletePod, Open, Recorded, PodState, kube, metad
<1>4. CASE DeleteClaims
  <2>1. nc' \in StatusType
    <3>1. CASE victim \in Hosts
      BY <1>4, <3>1, CopyTypes DEF TypeOK, DeleteClaims
    <3>2. CASE victim \notin Hosts
      <4>1. nc.failures \in [Hosts -> FailureHost] /\ nc \in StatusType
        BY DEF TypeOK, StatusType
      <4>2. Rebuilt(nc, victim) = nc
        BY <3>2, <4>1 DEF Rebuilt, StatusType
      <4> QED
        BY <1>4, <4>1, <4>2 DEF DeleteClaims
    <3> QED
      BY <3>1, <3>2
  <2>2. claims' \in [Hosts -> ClaimType]
    <3>1. \A o \in Hosts : claims[o] \in ClaimType
      BY DEF TypeOK
    <3>2. \A o \in Hosts : [claims[o] EXCEPT !.state = "deleting"] \in ClaimType
      BY <3>1 DEF ClaimType
    <3>3. claims' = claims \/ claims' = [claims EXCEPT ![victim].state = "deleting"]
      BY <1>4 DEF DeleteClaims
    <3> QED
      BY <3>1, <3>2, <3>3 DEF TypeOK
  <2> QED
    BY <1>4, <2>1, <2>2 DEF TypeOK, DeleteClaims, metad
<1>5. CASE CheckPendingPod
  BY <1>5 DEF TypeOK, CheckPendingPod, DeletePod, Recorded, PodState, ClaimType, kube, metad
<1> QED
  BY <1>1, <1>2, <1>3, <1>4, <1>5

LEMMA RestType ==
    ASSUME TypeOK, BalanceSpaces \/ MetaReconcile \/ EndReconcile \/ CallFails \/ Crash \/ CacheSync
    PROVE  CoreType'
<1> USE DEF CoreType
<1>1. CASE BalanceSpaces
  <2>1. \A s \in Spaces : /\ [nc EXCEPT !.balanced = @ \cup {s}] \in StatusType
                          /\ [nc EXCEPT !.job = s] \in StatusType
    BY DEF TypeOK, StatusType
  <2>2. [nc EXCEPT !.balanced = {}, !.job = NoSpace] \in StatusType
    BY DEF TypeOK, StatusType
  <2> DEFINE A(s) == [nc EXCEPT !.balanced = @ \cup {s}]
             B(s) == [nc EXCEPT !.job = s]
             C    == [nc EXCEPT !.balanced = {}, !.job = NoSpace]
  <2>3. /\ nc' \in StatusType /\ status' \in StatusType
        /\ pc' \in {"balance", "end", "done"}
    <3>1. \/ \E s \in Spaces : Save(A(s), "balance") \/ Save(B(s), "end")
          \/ nc' = nc /\ status' = status /\ pc' = "end"
          \/ nc' = C /\ status' = status /\ pc' = "done"
      BY <1>1 DEF BalanceSpaces
    <3>2. /\ \A s \in Spaces : A(s) \in StatusType /\ B(s) \in StatusType
          /\ C \in StatusType /\ nc \in StatusType /\ status \in StatusType
      BY <2>1, <2>2 DEF TypeOK
    <3> HIDE DEF A, B, C
    <3> QED
      BY <3>1, <3>2 DEF Save
  <2>4. faults' \in 0 .. MaxFaults
    BY <1>1 DEF TypeOK, BalanceSpaces, Save, Fault
  <2>5. jobs' \in [Spaces -> JobState]
    BY <1>1 DEF TypeOK, BalanceSpaces, JobState
  <2> QED
    BY <1>1, <2>3, <2>4, <2>5 DEF TypeOK, BalanceSpaces, kube
<1>2. CASE MetaReconcile
  BY <1>2 DEF TypeOK, MetaReconcile, ClaimType, metad
<1>3. CASE EndReconcile
  BY <1>3, HealthyType DEF TypeOK, EndReconcile, Forget, kube, metad
<1>4. CASE CallFails
  BY <1>4 DEF TypeOK, CallFails, Fault, kube, metad
<1>5. CASE Crash
  BY <1>5, HealthyType DEF TypeOK, Crash, Forget, Fault, kube, metad
<1>6. CASE CacheSync
  BY <1>6 DEF TypeOK, CacheSync, kube, metad, local
<1> QED
  BY <1>1, <1>2, <1>3, <1>4, <1>5, <1>6

LEMMA WorldType ==
    ASSUME TypeOK,
           \/ \E o \in Hosts : Node(o)
           \/ \E s \in Spaces : FinishJob(s) \/ FailJob(s)
    PROVE  CoreType'
<1> USE DEF CoreType
<1>1. ASSUME NEW o \in Hosts, Node(o) PROVE CoreType'
  <2>1. CASE PodCreate(o)
    <3>1. NewClaim(o) \in ClaimType
      BY DEF TypeOK, NewClaim, ClaimType
    <3> QED
      BY <2>1, <3>1 DEF TypeOK, PodCreate, PodState, metad, local
  <2>2. CASE PodSchedule(o) \/ PodReady(o) \/ PodRecovers(o) \/ Evict(o)
    BY <2>2 DEF TypeOK, PodSchedule, PodReady, PodRecovers, Evict, PodState, metad, local
  <2>3. CASE ClaimGone(o)
    BY <2>3 DEF TypeOK, ClaimGone, ClaimType, metad, local
  <2>4. CASE PodAges(o) \/ PeriodElapses(o)
    BY <2>4 DEF TypeOK, PodAges, PeriodElapses, Fault, kube, metad, local
  <2>5. CASE Heartbeat(o) \/ HeartbeatLost(o)
    BY <2>5 DEF TypeOK, Heartbeat, HeartbeatLost, Fault, kube, local
  <2>6. CASE NodeDown(o)
    <3>1. claims' \in [Hosts -> ClaimType]
      BY <2>6 DEF TypeOK, NodeDown, ClaimType
    <3>2. pods' \in [Hosts -> PodState]
      BY <2>6 DEF TypeOK, NodeDown, PodState
    <3> QED
      BY <2>6, <3>1, <3>2 DEF TypeOK, NodeDown, Fault, metad, local
  <2>7. CASE PodCrash(o)
    BY <2>7 DEF TypeOK, PodCrash, Fault, PodState, metad, local
  <2> QED
    BY <1>1, <2>1, <2>2, <2>3, <2>4, <2>5, <2>6, <2>7 DEF Node
<1>2. ASSUME NEW s \in Spaces, FinishJob(s) \/ FailJob(s) PROVE CoreType'
  BY <1>2 DEF TypeOK, FinishJob, FailJob, Fault, JobState, kube, local
<1> QED
  BY <1>1, <1>2

LEMMA TypeInit == Init => TypeOK
<1> SUFFICES ASSUME Init PROVE TypeOK
  OBVIOUS
<1>1. outdated \in BOOLEAN
  BY DEF Init
<1>2. /\ status \in StatusType /\ cache \in StatusType /\ nc \in StatusType
      /\ pods \in [Hosts -> PodState] /\ claims \in [Hosts -> ClaimType]
      /\ jobs \in [Spaces -> JobState]
  BY HealthyType DEF Init, PodState, ClaimType, JobState
<1>3. suspect \in [Hosts -> Nat] /\ served \in [Hosts -> SUBSET Spaces]
  BY DEF Init
<1> QED
  BY <1>1, <1>2, <1>3 DEF Init, TypeOK

LEMMA TypeNext == TypeOK /\ [Next]_vars => TypeOK'
<1> SUFFICES ASSUME TypeOK, [Next]_vars PROVE TypeOK'
  OBVIOUS
<1>1. CASE Next
  <2>1. CoreType'
    BY <1>1, DetectType, FailoverType, RestType, WorldType DEF Next, Reconcile
  <2>2. History
    BY <1>1 DEF Next
  <2> QED
    BY <2>1, <2>2, HistoryType DEF CoreType, TypeOK
<1>2. CASE UNCHANGED vars
  BY <1>2 DEF TypeOK, vars
<1> QED
  BY <1>1, <1>2

\* The failover's status records, pods, claims and jobs keep their types for
\* any number of replicas and spaces, with outdated caches and any faults
THEOREM TypeCorrect == Spec => []TypeOK
<1>1. TypeOK /\ [Next]_vars => TypeOK'
  BY TypeNext
<1> QED
  BY TypeInit, <1>1, PTL DEF Spec

---------------------------------------------------------------------------
(* The claims of ready pods *)

\* Until the pass deletes a pod, the steady pods are ready; a host that is about
\* to be rebuilt is not one of them
ToleranceInv ==
    /\ pc \notin {"idle", "claims", "end"} => \A o \in steady : pods[o] = "ready"
    /\ pc = "rebuild" => Open(nc) \cap steady = {}
    /\ pc = "claims" => victim \notin steady

LEMMA SteadyStep ==
    ASSUME TypeOK, History, pc # "idle"
    PROVE  /\ steady' \subseteq steady
           /\ local' = local => \A o \in steady' : pods'[o] = pods[o]
BY DEF History

LEMMA ToleranceReconcile ==
    ASSUME TypeOK, ToleranceInv, History, Reconcile
    PROVE  ToleranceInv'
<1> USE DEF ToleranceInv
<1>1. CASE StartReconcile
  BY <1>1 DEF StartReconcile, History
<1>2. CASE SyncStatus \/ ShouldRecover
  BY <1>2, SteadyStep DEF SyncStatus, ShouldRecover, kube
<1>3. CASE TryRestartPod
  BY <1>3, SteadyStep DEF TryRestartPod
<1>4. CASE ToleratePods
  <2>1. pods' = pods /\ steady' \subseteq steady
    BY <1>4, SteadyStep DEF ToleratePods, kube
  <2>2. pc' \in {"idle", "end", "rebuild"}
    BY <1>4 DEF ToleratePods, Forget
  <2>3. ASSUME pc' = "rebuild"
        PROVE  nc' = nc /\ \A o \in Open(nc) : pods[o] # "ready"
    BY <1>4, <2>3 DEF ToleratePods, Forget
  <2>4. \A o \in steady : pods[o] = "ready"
    BY <1>4 DEF ToleratePods
  <2> QED
    BY <2>1, <2>2, <2>3, <2>4 DEF Open, Recorded
<1>5. CASE RebuildPod
  BY <1>5, SteadyStep DEF RebuildPod
<1>6. CASE DeleteClaims \/ EndReconcile
  BY <1>6 DEF DeleteClaims, EndReconcile, Forget
<1>7. CASE CheckPendingPod
  BY <1>7, SteadyStep DEF CheckPendingPod, kube
<1>8. CASE BalanceSpaces
  BY <1>8, SteadyStep DEF BalanceSpaces, Save, kube
<1>9. CASE MetaReconcile
  BY <1>9 DEF MetaReconcile
<1> QED
  BY <1>1, <1>2, <1>3, <1>4, <1>5, <1>6, <1>7, <1>8, <1>9 DEF Reconcile

\* The steps of the cluster, of metad and of time leave the pass where it is
LEMMA WorldLocal ==
    ASSUME \/ CacheSync
           \/ \E o \in Hosts : Node(o)
           \/ \E s \in Spaces : FinishJob(s) \/ FailJob(s)
    PROVE  local' = local
BY DEF CacheSync, Node, PodCreate, PodSchedule, PodReady, PodRecovers, ClaimGone, PodAges,
       PeriodElapses, Heartbeat, HeartbeatLost, NodeDown, Evict, PodCrash, FinishJob, FailJob

LEMMA ToleranceNext == TypeOK /\ ToleranceInv /\ [Next]_vars => ToleranceInv'
<1> SUFFICES ASSUME TypeOK, ToleranceInv, [Next]_vars PROVE ToleranceInv'
  OBVIOUS
<1>1. CASE Next /\ Reconcile
  BY <1>1, ToleranceReconcile DEF Next
<1>2. CASE CallFails \/ Crash
  BY <1>2 DEF CallFails, Crash, Forget, ToleranceInv
<1>3. CASE Next /\ local' = local
  <2>1. pc' = pc /\ nc' = nc /\ victim' = victim
    BY <1>3 DEF local
  <2>2. pc # "idle" => steady' \subseteq steady /\ \A o \in steady' : pods'[o] = pods[o]
    BY <1>3, SteadyStep DEF Next
  <2> QED
    BY <2>1, <2>2 DEF ToleranceInv, Open, Recorded
<1>4. CASE UNCHANGED vars
  BY <1>4 DEF vars, ToleranceInv, Open, Recorded
<1> QED
  BY <1>1, <1>2, <1>3, <1>4, WorldLocal DEF Next

LEMMA KeepsNext ==
    ASSUME TypeOK, ToleranceInv, [Next]_vars,
           NEW o \in steady, claims[o].state = "bound"
    PROVE  claims'[o].state = "bound"
<1>1. o \in Hosts
  BY DEF TypeOK
<1>2. CASE DeleteClaims
  BY <1>1, <1>2 DEF DeleteClaims, TypeOK, ToleranceInv
<1>3. CASE CheckPendingPod
  BY <1>1, <1>3 DEF CheckPendingPod, TypeOK, kube, Found
<1>4. CASE MetaReconcile
  BY <1>1, <1>4 DEF MetaReconcile, TypeOK, ClaimType
<1>5. ASSUME NEW q \in Hosts, PodCreate(q) \/ ClaimGone(q) \/ NodeDown(q)
      PROVE  claims'[o].state = "bound"
  <2>1. CASE PodCreate(q)
    BY <1>1, <2>1 DEF PodCreate, TypeOK
  <2>2. CASE ClaimGone(q)
    BY <1>1, <2>2 DEF ClaimGone, TypeOK
  <2>3. CASE NodeDown(q)
    <3>1. claims' = [claims EXCEPT ![q].lost = TRUE] /\ claims[o] \in ClaimType
      BY <1>1, <2>3 DEF NodeDown, TypeOK
    <3>2. claims'[o].state = claims[o].state
      BY <1>1, <3>1 DEF TypeOK, ClaimType
    <3> QED
      BY <3>2
  <2> QED
    BY <1>5, <2>1, <2>2, <2>3
<1>6. CASE claims' = claims
  BY <1>6
<1>7. \/ claims' = claims \/ DeleteClaims \/ CheckPendingPod \/ MetaReconcile
      \/ \E q \in Hosts : PodCreate(q) \/ ClaimGone(q) \/ NodeDown(q)
  BY DEF Next, vars, Reconcile, StartReconcile, SyncStatus, ShouldRecover, TryRestartPod,
         ToleratePods, RebuildPod, BalanceSpaces, EndReconcile, CallFails, Crash, CacheSync,
         Node, PodSchedule, PodReady, PodRecovers, PodAges, PeriodElapses, Heartbeat,
         HeartbeatLost, Evict, PodCrash, FinishJob, FailJob, kube
<1> QED
  BY <1>2, <1>3, <1>4, <1>5, <1>6, <1>7

\* For any number of replicas, any faults and an informer cache however old:
\* failover does not delete the claim of a pod that was ready when the pass
\* began and that only the pass has touched since
THEOREM SteadyKeeps == Spec => SteadyKeepsClaim
<1>1. Init => TypeOK /\ ToleranceInv
  BY TypeInit DEF Init, ToleranceInv
<1>2. TypeOK /\ ToleranceInv /\ [Next]_vars => TypeOK' /\ ToleranceInv'
  BY TypeNext, ToleranceNext
<1>3. TypeOK /\ ToleranceInv /\ [Next]_vars =>
        [\A o \in steady : claims[o].state = "bound" => claims'[o].state = "bound"]_vars
  BY KeepsNext
<1> QED
  BY <1>1, <1>2, <1>3, PTL DEF Spec, SteadyKeepsClaim
---------------------------------------------------------------------------
(* What holds of a host *)

\* The record of a failure in the status, and in the copy of the pass
Saved(o) == status.failures[o]
Copy(o)  == nc.failures[o]

\* At most two faults
Careful == MaxFaults <= 2
\* No fault is left
Spent    == faults >= 2
Away(o)  == pods[o] \in {"absent", "pending", "scheduled"}
Bound(o) == claims[o].state = "bound"

\* A host that nothing has happened to
Fine(o) == /\ pods[o] = "ready" /\ o \in online /\ ~Saved(o).recorded /\ ~Copy(o).recorded
           /\ Bound(o) /\ ~claims[o].lost
\* A fault concerns at most one host
BadInv == /\ faults = 0 => \A o \in Hosts : Fine(o)
          /\ ~Spent => \A o, q \in Hosts : o = q \/ Fine(o) \/ Fine(q)

\* The steps of a failover follow each other
PassInv == /\ pc = "restart" => \E o \in Hosts : Copy(o).confirmed
           /\ pc = "claims" => victim \in Open(nc)

\* A record is empty until the host is recorded, its claims are those of now or
\* earlier, and a restart in the copy is saved when the pass goes on
FlagsOk(f) == /\ f.confirmed \/ f.podRestarted \/ f.podRebuilt => f.recorded
              /\ f.pvcs # {} => f.confirmed
Records(o) ==
    /\ FlagsOk(Saved(o)) /\ FlagsOk(Copy(o))
    /\ \A u \in Saved(o).pvcs \cup Copy(o).pvcs : u <= claims[o].uid
    /\ pc \notin {"idle", "end"} /\ Copy(o).podRestarted => Saved(o).podRestarted

\* A pod does not get ready on a lost node, nor is it scheduled there
Volume(o) ==
    /\ pods[o] = "absent" => o \notin aged
    /\ claims[o].lost => pods[o] # "ready" /\ (pods[o] = "scheduled" => Spent)

\* With at most one fault, a pod is away only after a restart, a restart comes
\* only after the confirmation, and both are in the status when the pass goes on
Restarts(o) == ~Spent =>
    /\ Saved(o).podRestarted => Saved(o).confirmed
    /\ Copy(o).podRestarted => Copy(o).confirmed
    /\ Saved(o).podRestarted \/ Copy(o).podRestarted => Away(o) \/ pods[o] = "ready"
    /\ Away(o) => /\ Saved(o).podRestarted \/ (pc = "end" /\ Copy(o).podRestarted)
                  /\ pc # "idle" => Copy(o).podRestarted
    /\ pc \in {"tolerate", "rebuild", "claims", "pending"} /\ Copy(o).recorded
         => Copy(o).podRestarted

\* With at most one fault, only a host whose node is lost is rebuilt, once
Given(o) == ~Bound(o) \/ (o \in aged /\ pods[o] \in {"pending", "scheduled"} /\ ~claims[o].lost)
Rebuilds(o) == ~Spent =>
    /\ ~Bound(o) => Away(o)
    /\ Given(o) => /\ Saved(o).podRebuilt \/ (pc = "end" /\ Copy(o).podRebuilt)
                   /\ pc # "idle" => Copy(o).podRebuilt
    /\ (pc = "rebuild" /\ o \in Open(nc)) \/ (pc = "claims" /\ o = victim)
         => Away(o) /\ Bound(o) /\ claims[o].lost

\* The claim of the host is one of them
Holds(o, pvcs) == claims[o].state # "none" /\ claims[o].uid \in pvcs
\* Well again, and no fault is left to change that
Well(o) == pods[o] = "ready" /\ o \in online /\ ~Copy(o).recorded /\ Spent
\* A claim goes, and another comes, only after the failure is confirmed, which no
\* fault can make the status forget; a claim in a record is the suspect one
Claimed(o) ==
    /\ ~Bound(o) => \/ Saved(o).confirmed
                    \/ pc = "end" /\ Copy(o).confirmed /\ Spent
                    \/ Well(o) /\ ~Saved(o).recorded
    /\ pc # "idle" /\ ~Bound(o) => Copy(o).confirmed \/ Well(o)
    /\ o \notin online /\ claims[o].state # "none" /\ claims[o].uid # suspect[o] =>
         /\ Saved(o).confirmed \/ (pc = "end" /\ Copy(o).confirmed /\ Spent)
         /\ pc # "idle" => Copy(o).confirmed
    /\ Holds(o, Saved(o).pvcs) => suspect[o] = claims[o].uid
    /\ Holds(o, Copy(o).pvcs) => suspect[o] = claims[o].uid

HostInv(o) == Records(o) /\ Volume(o) /\ Restarts(o) /\ Rebuilds(o) /\ Claimed(o)
OutageInv  == BadInv /\ PassInv /\ \A o \in Hosts : HostInv(o)

\* A host in the state
LEMMA View ==
    ASSUME TypeOK, NEW o \in Hosts
    PROVE  /\ Saved(o) \in FailureHost /\ Copy(o) \in FailureHost /\ claims[o] \in ClaimType
           /\ pods[o] \in PodState /\ suspect[o] \in Nat /\ faults \in Nat
           /\ Found(o) \subseteq {claims[o].uid}
           /\ Found(o) # {} => claims[o].state # "none"
BY DEF TypeOK, StatusType, Saved, Copy, Found

\* A step changes nothing of a host but the label of its claim
Same(o) == /\ pods'[o] = pods[o] /\ (o \in aged' <=> o \in aged)
           /\ claims'[o].uid = claims[o].uid /\ claims'[o].state = claims[o].state
           /\ claims'[o].lost = claims[o].lost
           /\ (o \in online' <=> o \in online) /\ suspect'[o] = suspect[o]
Counted == faults' = faults \/ (faults < MaxFaults /\ faults' = faults + 1)

LEMMA SameIs ==
    ASSUME NEW o \in Hosts, Same(o)
    PROVE  /\ (Away(o)' <=> Away(o)) /\ (Bound(o)' <=> Bound(o)) /\ (Given(o)' <=> Given(o))
           /\ \A s : (Holds(o, s)' <=> Holds(o, s))
BY DEF Same, Away, Bound, Given, Holds

LEMMA CountIs ==
    ASSUME TypeOK, Counted
    PROVE  (Spent => Spent') /\ (faults' = faults => (Spent' <=> Spent))
BY DEF TypeOK, Counted, Spent

\* The suspect claim changes when the host goes offline
LEMMA Suspects ==
    ASSUME TypeOK, History, NEW o \in Hosts
    PROVE  suspect'[o] = IF o \in online /\ o \notin online' THEN claims[o].uid ELSE suspect[o]
BY DEF TypeOK, History

LEMMA Untouched ==
    ASSUME TypeOK, NEW o \in Hosts, HostInv(o), Same(o), Counted, UNCHANGED <<status, local>>
    PROVE  HostInv(o)'
<1>1. Saved(o)' = Saved(o) /\ Copy(o)' = Copy(o) /\ pc' = pc /\ victim' = victim
  BY DEF Saved, Copy, local
<1>2. (o \in Open(nc))' <=> o \in Open(nc)
  BY DEF Open, Recorded, local
<1>3. Records(o)' /\ Volume(o)'
  BY <1>1, CountIs DEF HostInv, Records, Volume, Same
<1>4. Restarts(o)' /\ Rebuilds(o)'
  BY <1>1, <1>2, CountIs DEF HostInv, Restarts, Rebuilds, Same, Away, Bound, Given
<1>5. Claimed(o)'
  BY <1>1, CountIs DEF HostInv, Claimed, Same, Bound, Well, Holds
<1> QED
  BY <1>3, <1>4, <1>5 DEF HostInv

\* A step of a pod, of time or of a node concerns that host only
LEMMA Others ==
    ASSUME TypeOK, History, NEW h \in Hosts, Node(h), NEW o \in Hosts
    PROVE  /\ UNCHANGED <<status, local>> /\ Counted
           /\ o # h => Same(o)
<1>1. o \notin online' /\ o \in online => o = h
  BY DEF Node, PodCreate, PodSchedule, PodReady, PodRecovers, ClaimGone, PodAges, PeriodElapses,
         Heartbeat, HeartbeatLost, NodeDown, Evict, PodCrash, metad
<1>2. o # h => suspect'[o] = suspect[o]
  BY <1>1, Suspects
<1>3. CASE PodCreate(h) \/ PodSchedule(h) \/ PodReady(h) \/ PodRecovers(h) \/ ClaimGone(h)
  BY <1>2, <1>3 DEF PodCreate, PodSchedule, PodReady, PodRecovers, ClaimGone, Same, Counted, metad, TypeOK
<1>4. CASE PodAges(h) \/ PeriodElapses(h) \/ Heartbeat(h) \/ HeartbeatLost(h)
  BY <1>2, <1>4 DEF PodAges, PeriodElapses, Heartbeat, HeartbeatLost, Fault, Same, Counted, kube, metad, TypeOK
<1>5. CASE NodeDown(h) \/ Evict(h) \/ PodCrash(h)
  BY <1>2, <1>5 DEF NodeDown, Evict, PodCrash, Fault, Same, Counted, metad, TypeOK
<1> QED
  BY <1>3, <1>4, <1>5 DEF Node

\* A fault is the first and finds the host fine, or leaves none
LEMMA FaultStrikes ==
    ASSUME TypeOK, OutageInv, NEW o \in Hosts, Fault
    PROVE  Spent' \/ (faults = 0 /\ Fine(o))
<1>1. faults \in Nat /\ faults' = faults + 1
  BY DEF TypeOK, Fault
<1>2. CASE faults = 0
  BY <1>2 DEF OutageInv, BadInv
<1>3. CASE faults # 0
  BY <1>1, <1>3 DEF Spent
<1> QED
  BY <1>2, <1>3

---------------------------------------------------------------------------
(* Kubernetes, metad and time *)

\* What a step of a pod leaves
LEMMA Leaves ==
    ASSUME TypeOK, History, NEW o \in Hosts, Node(o)
    PROVE  /\ Saved(o)' = Saved(o) /\ Copy(o)' = Copy(o) /\ pc' = pc /\ victim' = victim
           /\ (o \in Open(nc))' <=> o \in Open(nc)
           /\ HeartbeatLost(o) \/ suspect'[o] = suspect[o]
<1>1. status' = status /\ pc' = pc /\ nc' = nc /\ victim' = victim
  BY Others DEF local
<1>2. HeartbeatLost(o) \/ ~(o \in online /\ o \notin online')
  BY DEF Node, PodCreate, PodSchedule, PodReady, PodRecovers, ClaimGone, PodAges, PeriodElapses,
         Heartbeat, NodeDown, Evict, PodCrash, metad
<1> QED
  BY <1>1, <1>2, Suspects DEF Saved, Copy, Open, Recorded

\* The pod of a host and its claim come
LEMMA PodComes ==
    ASSUME TypeOK, OutageInv, History, NEW o \in Hosts,
           PodCreate(o) \/ PodSchedule(o) \/ PodReady(o) \/ PodRecovers(o)
    PROVE  HostInv(o)'
<1>0. HostInv(o) /\ claims[o] \in ClaimType
  BY View DEF OutageInv
<1>1. /\ Saved(o)' = Saved(o) /\ Copy(o)' = Copy(o) /\ pc' = pc /\ victim' = victim
      /\ (o \in Open(nc))' <=> o \in Open(nc)
      /\ (Spent' <=> Spent) /\ online' = online /\ suspect'[o] = suspect[o] /\ aged' = aged
  BY Leaves DEF Node, PodCreate, PodSchedule, PodReady, PodRecovers, HeartbeatLost, metad, Spent, TypeOK
<1>2. CASE claims' = claims
  <2>1. \/ pods[o] \in {"absent", "pending"} /\ pods'[o] = "pending" /\ claims[o].state # "none"
        \/ pods[o] = "pending" /\ pods'[o] = "scheduled" /\ Usable(o)
        \/ pods[o] \in {"scheduled", "running"} /\ pods'[o] = "ready" /\ Usable(o)
    <3>1. CASE PodCreate(o)
      <4>1. claims[o].state # "none"
        BY <1>0, <1>2, <3>1 DEF PodCreate, NewClaim, TypeOK, ClaimType
      <4> QED
        BY <3>1, <4>1 DEF PodCreate, TypeOK
    <3> QED
      BY <3>1 DEF PodSchedule, PodReady, PodRecovers, TypeOK
  <2>3. Records(o)' /\ Volume(o)'
    BY <1>0, <1>1, <1>2, <2>1 DEF HostInv, Records, Volume, Usable
  <2>4. Restarts(o)'
    BY <1>0, <1>1, <2>1 DEF HostInv, Restarts, Away
  <2>5. Rebuilds(o)'
    BY <1>0, <1>1, <1>2, <2>1 DEF HostInv, Volume, Rebuilds, Away, Bound, Given, Usable
  <2>6. Claimed(o)'
    BY <1>0, <1>1, <1>2, <2>1 DEF HostInv, Claimed, Bound, Well, Usable, Holds
  <2> QED
    BY <2>3, <2>4, <2>5, <2>6 DEF HostInv
<1>3. CASE claims' # claims
  <2>1. /\ claims[o].state = "none" /\ pods[o] \in {"absent", "pending"} /\ pods'[o] = "pending"
        /\ claims'[o] = NewClaim(o)
    BY <1>0, <1>3 DEF PodCreate, PodSchedule, PodReady, PodRecovers, TypeOK
  <2>2. /\ claims'[o].state = "bound" /\ ~claims'[o].lost /\ claims'[o].uid = claims[o].uid + 1
        /\ claims[o].uid \in Nat
    BY <1>0, <2>1 DEF NewClaim, ClaimType
  <2>3. \A u \in Saved(o).pvcs \cup Copy(o).pvcs : u \in Nat /\ u <= claims[o].uid
    BY <1>0, View DEF HostInv, Records, FailureHost
  <2>4. Records(o)' /\ Volume(o)'
    BY <1>0, <1>1, <2>1, <2>2, <2>3 DEF HostInv, Records, Volume
  <2>5. Restarts(o)' /\ Rebuilds(o)'
    BY <1>0, <1>1, <2>1, <2>2 DEF HostInv, Restarts, Rebuilds, Away, Bound, Given
  <2>6. ~Holds(o, Saved(o).pvcs)' /\ ~Holds(o, Copy(o).pvcs)'
    BY <1>1, <2>2, <2>3 DEF Holds
  <2>7. Claimed(o)'
    BY <1>0, <1>1, <2>1, <2>2, <2>6 DEF HostInv, Claimed, Bound, Well
  <2> QED
    BY <2>4, <2>5, <2>7 DEF HostInv
<1> QED
  BY <1>2, <1>3

\* A claim goes when the pod is away
LEMMA ClaimGoes ==
    ASSUME TypeOK, OutageInv, History, NEW o \in Hosts, ClaimGone(o)
    PROVE  HostInv(o)'
<1>0. HostInv(o) /\ claims[o] \in ClaimType
  BY View DEF OutageInv
<1>1. /\ Saved(o)' = Saved(o) /\ Copy(o)' = Copy(o) /\ pc' = pc /\ victim' = victim
      /\ (o \in Open(nc))' <=> o \in Open(nc)
      /\ (Spent' <=> Spent) /\ online' = online /\ suspect'[o] = suspect[o] /\ aged' = aged
      /\ pods' = pods
  BY Leaves DEF Node, ClaimGone, HeartbeatLost, metad, Spent, TypeOK
<1>2. /\ claims[o].state = "deleting" /\ pods[o] \in {"absent", "pending"}
      /\ claims'[o].state = "none" /\ claims'[o].uid = claims[o].uid /\ claims'[o].lost = claims[o].lost
  BY <1>0 DEF ClaimGone, TypeOK, ClaimType
<1>3. Records(o)' /\ Volume(o)'
  BY <1>0, <1>1, <1>2 DEF HostInv, Records, Volume
<1>4. Restarts(o)' /\ Rebuilds(o)'
  BY <1>0, <1>1, <1>2 DEF HostInv, Restarts, Rebuilds, Away, Bound, Given
<1>5. Claimed(o)'
  BY <1>0, <1>1, <1>2 DEF HostInv, Claimed, Bound, Well, Holds
<1> QED
  BY <1>3, <1>4, <1>5 DEF HostInv

\* Time goes on, and a host comes back
LEMMA TimePasses ==
    ASSUME TypeOK, OutageInv, History, NEW o \in Hosts,
           PodAges(o) \/ PeriodElapses(o) \/ Heartbeat(o)
    PROVE  HostInv(o)'
<1>0. HostInv(o)
  BY DEF OutageInv
<1>1. /\ Saved(o)' = Saved(o) /\ Copy(o)' = Copy(o) /\ pc' = pc /\ victim' = victim
      /\ (o \in Open(nc))' <=> o \in Open(nc)
      /\ suspect'[o] = suspect[o] /\ pods' = pods /\ claims' = claims
  BY Leaves DEF Node, PodAges, PeriodElapses, Heartbeat, HeartbeatLost, kube, metad, TypeOK
<1>2. CASE PodAges(o)
  <2>1. /\ pods[o] # "absent" /\ aged' = aged \cup {o} /\ online' = online
    BY <1>2 DEF PodAges, metad
  <2>2. (Spent => Spent') /\ (Spent' \/ (Spent' <=> Spent))
    BY <1>2, View DEF PodAges, Fault, Spent
  <2>3. ~Spent' => ~(pods[o] \in {"pending", "scheduled"} /\ Usable(o))
    <3>1. CASE pods[o] \in {"pending", "scheduled"} /\ Usable(o)
      BY <1>2, <3>1, FaultStrikes DEF PodAges, Fine
    <3> QED
      BY <3>1
  <2>4. Records(o)' /\ Volume(o)'
    BY <1>0, <1>1, <2>1, <2>2 DEF HostInv, Records, Volume
  <2>5. Restarts(o)'
    BY <1>0, <1>1, <2>1, <2>2 DEF HostInv, Restarts, Away
  <2>6. Rebuilds(o)'
    BY <1>0, <1>1, <2>1, <2>2, <2>3 DEF HostInv, Rebuilds, Away, Bound, Given, Usable
  <2>7. Claimed(o)'
    BY <1>0, <1>1, <2>1, <2>2 DEF HostInv, Claimed, Bound, Well, Holds
  <2> QED
    BY <2>4, <2>5, <2>6, <2>7 DEF HostInv
<1>3. CASE PeriodElapses(o)
  <2>1. Same(o) /\ UNCHANGED <<status, local>> /\ Counted
    BY <1>1, <1>3 DEF PeriodElapses, Same, kube, metad, Counted
  <2> QED
    BY <1>0, <2>1, Untouched
<1>4. CASE Heartbeat(o)
  <2>1. /\ aged' = aged /\ (Spent' <=> Spent) /\ o \in online' /\ pods[o] = "ready"
    BY <1>4 DEF Heartbeat, Spent, kube
  <2>2. Records(o)' /\ Volume(o)' /\ Restarts(o)' /\ Rebuilds(o)'
    BY <1>0, <1>1, <2>1 DEF HostInv, Records, Volume, Restarts, Rebuilds, Away, Bound, Given
  <2>3. Claimed(o)'
    BY <1>0, <1>1, <2>1 DEF HostInv, Claimed, Bound, Well, Holds
  <2> QED
    BY <2>2, <2>3 DEF HostInv
<1> QED
  BY <1>2, <1>3, <1>4

\* Heartbeats stop: the claim of this moment is the suspect one
LEMMA GoesSilent ==
    ASSUME Careful, TypeOK, OutageInv, History, NEW o \in Hosts, HeartbeatLost(o)
    PROVE  HostInv(o)'
<1>0. HostInv(o)
  BY DEF OutageInv
<1>1. /\ Saved(o)' = Saved(o) /\ Copy(o)' = Copy(o) /\ pc' = pc /\ victim' = victim
      /\ (o \in Open(nc))' <=> o \in Open(nc)
      /\ pods' = pods /\ claims' = claims /\ aged' = aged
      /\ o \in online /\ o \notin online' /\ suspect'[o] = claims[o].uid
  BY Leaves, Suspects DEF Node, HeartbeatLost, kube, TypeOK
<1>2. /\ Spent => Spent'
      /\ \/ pods[o] # "ready" /\ (Spent' <=> Spent)
         \/ ~Spent
  BY View DEF HeartbeatLost, Fault, Spent, Careful
<1>3. Records(o)' /\ Volume(o)'
  BY <1>0, <1>1, <1>2 DEF HostInv, Records, Volume
<1>4. Restarts(o)' /\ Rebuilds(o)'
  BY <1>0, <1>1, <1>2 DEF HostInv, Restarts, Rebuilds, Away, Bound, Given
<1>5. Claimed(o)'
  BY <1>0, <1>1, <1>2 DEF HostInv, Claimed, Bound, Well, Holds
<1> QED
  BY <1>3, <1>4, <1>5 DEF HostInv

\* The node of a pod is lost, or its container fails
LEMMA PodFails ==
    ASSUME Careful, TypeOK, OutageInv, History, NEW o \in Hosts, NodeDown(o) \/ PodCrash(o) \/ Evict(o)
    PROVE  HostInv(o)'
<1>0. HostInv(o) /\ claims[o] \in ClaimType
  BY View DEF OutageInv
<1>1. /\ Saved(o)' = Saved(o) /\ Copy(o)' = Copy(o) /\ pc' = pc /\ victim' = victim
      /\ (o \in Open(nc))' <=> o \in Open(nc)
      /\ online' = online /\ suspect'[o] = suspect[o] /\ aged' = aged
      /\ claims'[o].uid = claims[o].uid /\ claims'[o].state = claims[o].state
  BY <1>0, Leaves DEF Node, NodeDown, PodCrash, Evict, HeartbeatLost, TypeOK, metad, ClaimType
<1>2. CASE Evict(o)
  <2>1. /\ (Spent' <=> Spent) /\ pods[o] \in {"scheduled", "running"} /\ pods'[o] = "terminating"
        /\ claims[o].lost /\ claims' = claims
    BY <1>2 DEF Evict, Spent, TypeOK
  <2>2. Records(o)' /\ Volume(o)'
    BY <1>0, <1>1, <2>1 DEF HostInv, Records, Volume
  <2>3. Restarts(o)' /\ Rebuilds(o)'
    BY <1>0, <1>1, <2>1 DEF HostInv, Records, Volume, Restarts, Rebuilds, Away, Bound, Given
  <2>4. Claimed(o)'
    BY <1>0, <1>1, <2>1 DEF HostInv, Claimed, Bound, Well, Holds
  <2> QED
    BY <2>2, <2>3, <2>4 DEF HostInv
<1>3. CASE NodeDown(o) \/ PodCrash(o)
  <2>1. Fault
    BY <1>3 DEF NodeDown, PodCrash
  <2>2. ~Spent /\ (Spent' \/ Fine(o))
    BY <2>1, FaultStrikes DEF Fault, TypeOK, Spent, Careful
  <2>3. /\ pods'[o] = pods[o] \/ pods'[o] = "running"
        /\ pods[o] = "ready" => pods'[o] = "running"
    BY <1>3 DEF NodeDown, PodCrash, TypeOK
  <2>4. pods'[o] # "ready"
    BY <2>3
  <2>5. pods'[o] = "absent" => pods[o] = "absent"
    BY <2>3
  <2>6. Records(o)' /\ Volume(o)'
    BY <1>0, <1>1, <2>2, <2>3, <2>4, <2>5 DEF HostInv, Records, Volume, Fine
  <2>7. Restarts(o)' /\ Rebuilds(o)'
    BY <1>0, <1>1, <2>2, <2>3 DEF HostInv, Records, FlagsOk, Restarts, Rebuilds, Away, Bound, Given, Fine,
       Open, Recorded, Copy
  <2>8. Claimed(o)'
    BY <1>0, <1>1, <2>2, <2>3 DEF HostInv, Claimed, Rebuilds, Bound, Well, Away, Holds, Fine
  <2> QED
    BY <2>6, <2>7, <2>8 DEF HostInv
<1> QED
  BY <1>2, <1>3

\* Whatever happens around the pass
LEMMA WorldStep ==
    ASSUME Careful, TypeOK, OutageInv, History, NEW h \in Hosts, Node(h), NEW o \in Hosts
    PROVE  HostInv(o)'
<1>1. CASE o # h
  BY <1>1, Others, Untouched DEF OutageInv
<1>2. CASE o = h
  BY <1>2, PodComes, ClaimGoes, TimePasses, GoesSilent, PodFails DEF Node
<1> QED
  BY <1>1, <1>2

---------------------------------------------------------------------------
(* The steps of a pass *)

\* The pods, claims, hosts and faults stay as they are
Still == UNCHANGED <<pods, aged, claims, online, faults>>
LEMMA StillIs ==
    ASSUME TypeOK, History, Still, NEW o \in Hosts
    PROVE  /\ Same(o) /\ Counted /\ (Spent' <=> Spent)
           /\ pods' = pods /\ aged' = aged /\ claims' = claims /\ online' = online
           /\ suspect'[o] = suspect[o]
           /\ \A s : (Holds(o, s)' <=> Holds(o, s))
BY Suspects DEF Still, Same, Counted, Spent, Holds

\* The pass goes on to its later steps, and may write the status
LEMMA GoesOn ==
    ASSUME TypeOK, NEW o \in Hosts, HostInv(o), Same(o), Counted, pc \notin {"idle", "end"},
           pc' \in {"balance", "done", "end"},
           Copy(o)' = Copy(o), Saved(o)' \in {Saved(o), Copy(o)}
    PROVE  HostInv(o)'
<1>1. Records(o)' /\ Volume(o)'
  BY CountIs DEF HostInv, Records, Volume, Same
<1>2. Restarts(o)'
  BY CountIs DEF HostInv, Restarts, Same, Away
<1>3. Rebuilds(o)'
  BY CountIs DEF HostInv, Rebuilds, Same, Away, Bound, Given
<1>4. Claimed(o)'
  BY CountIs DEF HostInv, Claimed, Same, Bound, Well, Holds
<1> QED
  BY <1>1, <1>2, <1>3, <1>4 DEF HostInv

\* A pass begins with the status as it is
LEMMA StartStep ==
    ASSUME TypeOK, OutageInv, History, NEW o \in Hosts, StartReconcile, ~outdated'
    PROVE  HostInv(o)'
<1>0. HostInv(o)
  BY DEF OutageInv
<1>1. Still /\ Saved(o)' = Saved(o) /\ Copy(o)' = Saved(o) /\ pc = "idle" /\ pc' = "sync"
  BY DEF StartReconcile, History, Still, kube, metad, Saved, Copy
<1>2. Records(o)' /\ Volume(o)'
  BY <1>0, <1>1, StillIs DEF HostInv, Records, Volume
<1>3. Restarts(o)' /\ Rebuilds(o)'
  BY <1>0, <1>1, StillIs DEF HostInv, Restarts, Rebuilds, Away, Bound, Given
<1>4. Claimed(o)'
  BY <1>0, <1>1, StillIs DEF HostInv, Claimed, Well, Bound
<1> QED
  BY <1>2, <1>3, <1>4 DEF HostInv

\* What the status sync writes for a host: one that is offline is recorded, and
\* confirmed with the claim that it has
LEMMA Judged ==
    ASSUME TypeOK, SyncStatus, NEW o \in Hosts
    PROVE  \/ Copy(o)' = Copy(o)
           \/ Copy(o)' = NewFailure /\ ~Copy(o).recorded /\ o \notin online
           \/ /\ Copy(o)' = [Copy(o) EXCEPT !.confirmed = TRUE, !.pvcs = Found(o)]
              /\ Copy(o).recorded /\ ~Copy(o).confirmed /\ o \notin online
<1> DEFINE f == [h \in Hosts |->
                   IF nc.workload # N \/ h \in online THEN nc.failures[h]
                   ELSE IF ~nc.failures[h].recorded THEN NewFailure
                   ELSE IF h \in due /\ ~nc.failures[h].confirmed THEN Confirm(h)
                   ELSE nc.failures[h]]
           w == Cardinality({h \in Hosts : pods[h] # "absent"})
<1> HIDE DEF w
<1>1. nc' = [nc EXCEPT !.failures = f, !.workload = w]
  BY DEF SyncStatus, w, TypeOK, StatusType
<1>2. Copy(o)' = f[o]
  BY <1>1 DEF Copy, TypeOK, StatusType
<1> QED
  BY <1>2 DEF Copy, Confirm

LEMMA SyncStep ==
    ASSUME TypeOK, OutageInv, History, NEW o \in Hosts, SyncStatus
    PROVE  HostInv(o)'
<1>0. HostInv(o) /\ Copy(o) \in FailureHost /\ claims[o].uid \in Nat
  BY View DEF OutageInv, ClaimType
<1>1. Still /\ Saved(o)' = Saved(o) /\ pc = "sync" /\ pc' = "recover"
  BY DEF SyncStatus, Still, kube, metad, Saved
<1>2. /\ Copy(o)'.podRestarted = Copy(o).podRestarted /\ Copy(o)'.podRebuilt = Copy(o).podRebuilt
      /\ FlagsOk(Copy(o)')
      /\ \/ /\ Copy(o)'.recorded = Copy(o).recorded /\ Copy(o)'.confirmed = Copy(o).confirmed
            /\ Copy(o)'.pvcs = Copy(o).pvcs
         \/ /\ o \notin online /\ ~Copy(o).confirmed /\ Copy(o)'.recorded
            /\ \/ ~Copy(o)'.confirmed /\ Copy(o)'.pvcs = {}
               \/ Copy(o)'.confirmed /\ Copy(o)'.pvcs = Found(o)
  BY <1>0, Judged DEF HostInv, Records, FlagsOk, FailureHost, NewFailure, NoFailure
<1>3. Found(o) \subseteq {claims[o].uid}
  BY View
<1>4. Records(o)' /\ Volume(o)'
  BY <1>0, <1>1, <1>2, <1>3, StillIs DEF HostInv, Records, Volume
<1>5. Restarts(o)' /\ Rebuilds(o)'
  BY <1>0, <1>1, <1>2, StillIs DEF HostInv, Restarts, Rebuilds, Away, Bound, Given
<1>6. Holds(o, Copy(o).pvcs)' => suspect[o] = claims[o].uid
  BY <1>0, <1>1, <1>2, <1>3, StillIs DEF HostInv, Claimed, Holds
<1>7. Claimed(o)'
  BY <1>0, <1>1, <1>2, <1>6, StillIs DEF HostInv, Claimed, Well, Bound
<1> QED
  BY <1>4, <1>5, <1>7 DEF HostInv

LEMMA NoFailureIs == /\ ~NoFailure.recorded /\ ~NoFailure.confirmed /\ NoFailure.pvcs = {}
                     /\ ~NoFailure.podRestarted /\ ~NoFailure.podRebuilt
BY DEF NoFailure

\* A host that is back is ready and online
LEMMA RecoverStep ==
    ASSUME TypeOK, OutageInv, History, NEW o \in Hosts, ShouldRecover
    PROVE  HostInv(o)'
<1>0. HostInv(o)
  BY DEF OutageInv
<1>1. Still /\ Saved(o)' = Saved(o) /\ pc = "recover" /\ pc' \in {"restart", "done"}
  BY DEF ShouldRecover, Still, kube, metad, Saved
<1>2. \/ Copy(o)' = Copy(o)
      \/ Copy(o)' = NoFailure /\ pods[o] = "ready" /\ o \in online
  BY DEF ShouldRecover, Back, Copy, TypeOK, StatusType
<1>3. Records(o)' /\ Volume(o)'
  BY <1>0, <1>1, <1>2, NoFailureIs, StillIs DEF HostInv, Records, Volume, FlagsOk
<1>4. Restarts(o)'
  BY <1>0, <1>1, <1>2, NoFailureIs, StillIs DEF HostInv, Restarts, Away
<1>5. Rebuilds(o)'
  BY <1>0, <1>1, <1>2, NoFailureIs, StillIs DEF HostInv, Rebuilds, Away, Given, Bound
<1>6. Claimed(o)'
  <2>1. Copy(o)' = NoFailure /\ ~Bound(o) => Spent
    BY <1>0, <1>2, <1>1, NoFailureIs, StillIs DEF HostInv, Rebuilds, Away, Claimed, Well
  <2>2. ~Holds(o, NoFailure.pvcs)
    BY NoFailureIs DEF Holds
  <2> QED
    BY <1>0, <1>1, <1>2, NoFailureIs, <2>1, <2>2, StillIs DEF HostInv, Claimed, Well, Bound, Holds
<1> QED
  BY <1>3, <1>4, <1>5, <1>6 DEF HostInv

\* With at most one fault no two hosts are recorded
LEMMA OnlyOne ==
    ASSUME OutageInv, ~Spent, NEW o \in Hosts, NEW q \in Hosts, Copy(o).recorded, Copy(q).recorded
    PROVE  o = q
BY DEF OutageInv, BadInv, Fine

\* What the steps of the failover choose from
LEMMA Choices ==
    /\ \A q : q \in Recorded(nc) <=> q \in Hosts /\ Copy(q).recorded
    /\ \A q : q \in Open(nc) <=> q \in Hosts /\ Copy(q).recorded /\ ~Copy(q).podRebuilt
BY DEF Open, Recorded, Copy

LEMMA RestartStep ==
    ASSUME TypeOK, OutageInv, History, NEW o \in Hosts, TryRestartPod
    PROVE  HostInv(o)'
<1>0. HostInv(o) /\ Copy(o) \in FailureHost /\ pc = "restart"
  BY View DEF OutageInv, TryRestartPod
<1>s. suspect'[o] = suspect[o] /\ (Spent' <=> Spent)
  BY Suspects DEF TryRestartPod, metad, Spent
<1> DEFINE fresh == {q \in Recorded(nc) : /\ ~nc.failures[q].podRestarted
                                          /\ pods[q] \in {"running", "ready", "terminating"}}
<1>1. ASSUME NEW q \in fresh, DeletePod(q), nc' = Restarted(nc, q), pc' = "end"
      PROVE  HostInv(o)'
  <2>0. q \in Hosts
    BY Choices
  <2>1. CASE o # q
    <3>1. Same(o) /\ Counted /\ Saved(o)' = Saved(o) /\ Copy(o)' = Copy(o)
      BY <1>s, <1>1, <2>0, <2>1
         DEF TryRestartPod, DeletePod, Restarted, Same, Counted, metad, Saved, Copy, TypeOK, StatusType
    <3> QED
      BY <1>0, <1>1, <3>1, GoesOn
  <2>2. CASE o = q
    <3>1. /\ Saved(o)' = Saved(o) /\ Copy(o)' = [Copy(o) EXCEPT !.podRestarted = TRUE]
          /\ pods'[o] = "absent" /\ aged' = aged \ {o} /\ claims' = claims /\ online' = online
      BY <1>1, <2>2 DEF TryRestartPod, DeletePod, Restarted, metad, Saved, Copy, TypeOK, StatusType
    <3>2. Copy(o).recorded /\ pods[o] \in {"running", "ready", "terminating"}
      BY <1>1, <2>2, Choices
    <3>3. ~Spent => Copy(o).confirmed
      <4>1. PICK r \in Hosts : Copy(r).confirmed
        BY <1>0 DEF OutageInv, PassInv
      <4>2. Copy(r).recorded
        BY <4>1 DEF OutageInv, HostInv, Records, FlagsOk
      <4> QED
        BY <3>2, <4>1, <4>2, OnlyOne
    <3>4. /\ Copy(o)'.podRestarted /\ Copy(o)'.recorded = Copy(o).recorded
          /\ Copy(o)'.confirmed = Copy(o).confirmed
          /\ Copy(o)'.pvcs = Copy(o).pvcs /\ Copy(o)'.podRebuilt = Copy(o).podRebuilt
      BY <1>0, <3>1 DEF FailureHost
    <3>5. Records(o)' /\ Volume(o)'
      BY <1>0, <1>s, <1>1, <3>1, <3>2, <3>4 DEF HostInv, Records, Volume, FlagsOk
    <3>6. Restarts(o)' /\ Rebuilds(o)'
      BY <1>0, <1>s, <1>1, <3>1, <3>2, <3>3, <3>4 DEF HostInv, Restarts, Rebuilds, Away, Bound, Given
    <3>7. Claimed(o)'
      BY <1>0, <1>s, <1>1, <3>1, <3>2, <3>4 DEF HostInv, Claimed, Bound, Well, Holds
    <3> QED
      BY <3>5, <3>6, <3>7 DEF HostInv
  <2> QED
    BY <2>1, <2>2
<1>2. ASSUME fresh = {}, pc' = "tolerate", UNCHANGED <<pods, aged, nc>>
      PROVE  HostInv(o)'
  <2>1. Still /\ Saved(o)' = Saved(o) /\ Copy(o)' = Copy(o)
    BY <1>2 DEF TryRestartPod, Still, metad, Saved, Copy
  <2>2. Copy(o).recorded /\ ~Copy(o).podRestarted => Away(o)
    BY <1>2, View, Choices DEF Away, Copy, PodState
  <2>3. Records(o)' /\ Volume(o)'
    BY <1>0, <1>2, <2>1, StillIs DEF HostInv, Records, Volume
  <2>4. Restarts(o)' /\ Rebuilds(o)'
    BY <1>0, <1>2, <2>1, <2>2, StillIs DEF HostInv, Restarts, Rebuilds, Away, Bound, Given
  <2>5. Claimed(o)'
    BY <1>0, <1>2, <2>1, StillIs DEF HostInv, Claimed, Well, Bound
  <2> QED
    BY <2>3, <2>4, <2>5 DEF HostInv
<1> QED
  BY <1>1, <1>2 DEF TryRestartPod

\* What a pass has in its copy when it is over
LEMMA Forgotten == ASSUME Forget, NEW o \in Hosts PROVE pc' = "idle" /\ Copy(o)' = NoFailure
BY DEF Forget, Healthy, Copy

LEMMA TolerateStep ==
    ASSUME TypeOK, OutageInv, History, NEW o \in Hosts, ToleratePods
    PROVE  HostInv(o)'
<1>0. HostInv(o) /\ pc = "tolerate"
  BY DEF OutageInv, ToleratePods
<1>1. Still /\ Saved(o)' = Saved(o)
  BY DEF ToleratePods, Still, kube, metad, Saved
<1>2. CASE Forget
  <2>1. /\ pc' = "idle" /\ ~Copy(o)'.recorded /\ ~Copy(o)'.confirmed /\ Copy(o)'.pvcs = {}
        /\ ~Copy(o)'.podRestarted /\ ~Copy(o)'.podRebuilt
    BY <1>2, Forgotten, NoFailureIs
  <2>2. Records(o)' /\ Volume(o)'
    BY <1>0, <1>1, <2>1, StillIs DEF HostInv, Records, Volume, FlagsOk
  <2>3. Restarts(o)' /\ Rebuilds(o)'
    BY <1>0, <1>1, <2>1, StillIs DEF HostInv, Restarts, Rebuilds, Away, Bound, Given
  <2>4. Claimed(o)'
    BY <1>0, <1>1, <2>1, StillIs DEF HostInv, Claimed, Well, Bound, Holds
  <2> QED
    BY <2>2, <2>3, <2>4 DEF HostInv
<1>3. CASE pc' = "end" /\ UNCHANGED nc
  <2>1. Copy(o)' = Copy(o)
    BY <1>3 DEF Copy
  <2> QED
    BY <1>0, <1>1, <1>3, <2>1, StillIs, GoesOn
<1>4. CASE /\ pc' = "rebuild" /\ UNCHANGED nc
           /\ \A q \in Open(nc) : pods[q] \in {"pending", "scheduled", "running"} /\ q \in aged
  <2>1. Copy(o)' = Copy(o) /\ Open(nc)' = Open(nc)
    BY <1>4 DEF Copy, Open, Recorded
  <2>2. o \in Open(nc) => /\ pods[o] \in {"pending", "scheduled", "running"} /\ o \in aged
                          /\ Copy(o).recorded /\ ~Copy(o).podRebuilt
    BY <1>4, Choices
  <2>3. Records(o)' /\ Volume(o)'
    BY <1>0, <1>1, <1>4, <2>1, StillIs DEF HostInv, Records, Volume
  <2>4. Restarts(o)'
    BY <1>0, <1>1, <1>4, <2>1, StillIs DEF HostInv, Restarts, Away
  <2>5. Rebuilds(o)'
    BY <1>0, <1>1, <1>4, <2>1, <2>2, StillIs DEF HostInv, Restarts, Rebuilds, Given, Away, Bound
  <2>6. Claimed(o)'
    BY <1>0, <1>1, <1>4, <2>1, StillIs DEF HostInv, Claimed, Well, Bound
  <2> QED
    BY <2>3, <2>4, <2>5, <2>6 DEF HostInv
<1> QED
  BY <1>2, <1>3, <1>4 DEF ToleratePods

LEMMA RebuildStep ==
    ASSUME TypeOK, OutageInv, History, NEW o \in Hosts, RebuildPod
    PROVE  HostInv(o)'
<1>0. HostInv(o) /\ pc = "rebuild"
  BY DEF OutageInv, RebuildPod
<1>1. /\ Saved(o)' = Saved(o) /\ Copy(o)' = Copy(o) /\ nc' = nc /\ claims' = claims
      /\ online' = online /\ suspect'[o] = suspect[o] /\ (Spent' <=> Spent) /\ faults' = faults
      /\ Open(nc)' = Open(nc)
  BY Suspects DEF RebuildPod, metad, Saved, Copy, Spent, Open, Recorded
<1>2. CASE pc' = "pending" /\ UNCHANGED <<pods, aged>>
  <2>1. Still
    BY <1>1, <1>2 DEF Still
  <2>2. Records(o)' /\ Volume(o)' /\ Restarts(o)' /\ Rebuilds(o)'
    BY <1>0, <1>1, <1>2, <2>1, StillIs DEF HostInv, Records, Volume, Restarts, Rebuilds, Away, Bound, Given
  <2>3. Claimed(o)'
    BY <1>0, <1>1, <1>2, <2>1, StillIs DEF HostInv, Claimed, Well, Bound
  <2> QED
    BY <2>2, <2>3 DEF HostInv
<1>3. ASSUME NEW q \in Open(nc), UNCHANGED <<pods, aged>> \/ DeletePod(q), victim' = q, pc' = "claims"
      PROVE  HostInv(o)'
  <2>0. q \in Hosts
    BY Choices
  <2>1. CASE o # q
    <3>1. Same(o)
      BY <1>1, <1>3, <2>0, <2>1 DEF DeletePod, Same, TypeOK
    <3>2. Records(o)' /\ Volume(o)' /\ Restarts(o)' /\ Rebuilds(o)'
      BY <1>0, <1>1, <1>3, <2>1, <3>1
         DEF HostInv, Records, Volume, Restarts, Rebuilds, Same, Away, Bound, Given
    <3>3. Claimed(o)'
      BY <1>0, <1>1, <1>3, <3>1 DEF HostInv, Claimed, Well, Same, Bound, Holds
    <3> QED
      BY <3>2, <3>3 DEF HostInv
  <2>2. CASE o = q
    <3>1. Copy(o).recorded /\ ~Copy(o).podRebuilt /\ o \in Open(nc)
      BY <1>3, <2>2, Choices
    <3>2. \/ pods'[o] = pods[o] /\ aged' = aged
          \/ pods'[o] = "absent" /\ aged' = aged \ {o}
      BY <1>3, <2>2 DEF DeletePod, TypeOK
    <3>3. Records(o)' /\ Volume(o)'
      BY <1>0, <1>1, <1>3, <3>2 DEF HostInv, Records, Volume
    <3>4. ~Spent => /\ Away(o) /\ Bound(o) /\ claims[o].lost
                    /\ Saved(o).podRestarted /\ Copy(o).podRestarted /\ ~Given(o)
      <4>1. ~Spent => Away(o) /\ Bound(o) /\ claims[o].lost
        BY <1>0, <3>1 DEF HostInv, Rebuilds
      <4>2. ~Spent => ~Given(o)
        BY <1>0, <3>1 DEF HostInv, Rebuilds
      <4>3. ~Spent => Copy(o).podRestarted /\ Saved(o).podRestarted
        BY <1>0, <3>1 DEF HostInv, Records, Restarts
      <4> QED
        BY <4>1, <4>2, <4>3
    <3>5. Restarts(o)'
      BY <1>0, <1>1, <1>3, <3>2, <3>4 DEF HostInv, Restarts, Away
    <3>6. Rebuilds(o)'
      BY <1>0, <1>1, <1>3, <3>2, <3>4 DEF HostInv, Rebuilds, Away, Bound, Given
    <3>7. Claimed(o)'
      BY <1>0, <1>1, <1>3, <3>1, <3>2 DEF HostInv, Claimed, Well, Bound, Holds
    <3> QED
      BY <3>3, <3>5, <3>6, <3>7 DEF HostInv
  <2> QED
    BY <2>1, <2>2
<1> QED
  BY <1>2, <1>3 DEF RebuildPod

\* The claim of the victim goes if it is the one in the record
LEMMA ClaimStep ==
    ASSUME TypeOK, OutageInv, History, NEW o \in Hosts, DeleteClaims
    PROVE  HostInv(o)'
<1>0. /\ HostInv(o) /\ pc = "claims" /\ Copy(o) \in FailureHost /\ claims[o] \in ClaimType
      /\ Saved(o)' = Saved(o) /\ pods' = pods /\ aged' = aged /\ online' = online
      /\ suspect'[o] = suspect[o] /\ faults' = faults /\ pc' = "end" /\ (Spent' <=> Spent)
  BY View, Suspects DEF OutageInv, DeleteClaims, metad, Saved, Spent
<1>1. CASE o # victim
  <2>1. Same(o) /\ Copy(o)' = Copy(o) /\ Counted
    BY <1>0, <1>1 DEF DeleteClaims, Rebuilt, Same, Counted, Copy, TypeOK, StatusType
  <2> QED
    BY <1>0, <2>1, GoesOn
<1>2. CASE o = victim
  <2>1. Copy(o).recorded
    BY <1>0, <1>2, Choices DEF OutageInv, PassInv
  <2>2. /\ Copy(o)'.podRebuilt /\ Copy(o)'.recorded = Copy(o).recorded
        /\ Copy(o)'.confirmed = Copy(o).confirmed
        /\ Copy(o)'.pvcs = Copy(o).pvcs /\ Copy(o)'.podRestarted = Copy(o).podRestarted
    BY <1>0, <1>2 DEF DeleteClaims, Rebuilt, Copy, TypeOK, StatusType, FailureHost
  <2>3. /\ claims'[o].uid = claims[o].uid /\ claims'[o].lost = claims[o].lost
        /\ \/ claims'[o].state = claims[o].state
           \/ /\ claims'[o].state = "deleting" /\ claims[o].state # "none"
              /\ Copy(o).pvcs # {}
    <3>1. CASE Found(o) \cap nc.failures[o].pvcs # {}
      <4>1. claims'[o].uid = claims[o].uid /\ claims'[o].lost = claims[o].lost /\ claims'[o].state = "deleting"
        BY <1>0, <1>2, <3>1 DEF DeleteClaims, TypeOK, ClaimType
      <4>2. claims[o].state # "none" /\ Copy(o).pvcs # {}
        BY <3>1, View DEF Copy
      <4> QED
        BY <4>1, <4>2
    <3>2. CASE Found(o) \cap nc.failures[o].pvcs = {}
      BY <1>2, <3>2 DEF DeleteClaims
    <3> QED
      BY <3>1, <3>2
  <2>4. Copy(o).pvcs # {} => Copy(o).confirmed
    BY <1>0 DEF HostInv, Records, FlagsOk
  <2>5. ~Spent => Saved(o).confirmed /\ Copy(o).confirmed /\ Saved(o).podRestarted /\ Away(o)
    BY <1>0, <1>2, <2>1 DEF HostInv, Records, Restarts, Rebuilds
  <2>6. Records(o)' /\ Volume(o)'
    BY <1>0, <2>1, <2>2, <2>3 DEF HostInv, Records, Volume, FlagsOk
  <2>7. Restarts(o)' /\ Rebuilds(o)'
    BY <1>0, <2>1, <2>2, <2>3, <2>5 DEF HostInv, Restarts, Rebuilds, Away, Bound, Given
  <2>8. Claimed(o)'
    BY <1>0, <2>1, <2>2, <2>3, <2>4, <2>5 DEF HostInv, Claimed, Bound, Well, Holds
  <2> QED
    BY <2>6, <2>7, <2>8 DEF HostInv
<1> QED
  BY <1>1, <1>2

LEMMA PendingStep ==
    ASSUME TypeOK, OutageInv, History, NEW o \in Hosts, CheckPendingPod
    PROVE  HostInv(o)'
<1>0. /\ HostInv(o) /\ pc = "pending" /\ claims[o] \in ClaimType
      /\ Saved(o)' = Saved(o) /\ Copy(o)' = Copy(o) /\ online' = online
      /\ suspect'[o] = suspect[o] /\ faults' = faults /\ (Spent' <=> Spent) /\ Counted
  BY View, Suspects DEF OutageInv, CheckPendingPod, metad, Saved, Copy, Spent, Counted
<1>1. CASE pc' \in {"balance", "end"} /\ Same(o)
  BY <1>0, <1>1, GoesOn
<1>2. CASE UNCHANGED kube
  <2>1. Same(o) /\ pc' \in {"balance", "end"}
    BY <1>0, <1>2 DEF Same, kube, CheckPendingPod, DeletePod
  <2> QED
    BY <1>1, <2>1
<1>3. ASSUME NEW q \in Recorded(nc), pc' = "end",
             \/ /\ claims[q].state = "deleting" /\ claims' = [claims EXCEPT ![q].state = "none"]
                /\ UNCHANGED <<pods, aged>>
             \/ DeletePod(q) /\ pods[q] = "scheduled" /\ UNCHANGED claims
      PROVE  HostInv(o)'
  <2>0. q \in Hosts /\ Copy(q).recorded
    BY Choices
  <2>1. CASE o # q
    <3>1. Same(o)
      BY <1>0, <1>3, <2>0, <2>1 DEF Same, DeletePod, TypeOK
    <3> QED
      BY <1>1, <1>3, <3>1
  <2>2. CASE o = q /\ claims' # claims
    <3>1. /\ claims[o].state = "deleting"
          /\ claims'[o].state = "none" /\ claims'[o].uid = claims[o].uid /\ claims'[o].lost = claims[o].lost
          /\ pods' = pods /\ aged' = aged
      BY <1>0, <1>3, <2>2 DEF ClaimType, TypeOK
    <3>2. Records(o)' /\ Volume(o)'
      BY <1>0, <1>3, <3>1 DEF HostInv, Records, Volume
    <3>3. Restarts(o)' /\ Rebuilds(o)'
      BY <1>0, <1>3, <3>1 DEF HostInv, Restarts, Rebuilds, Away, Bound, Given
    <3>4. Claimed(o)'
      BY <1>0, <1>3, <2>0, <2>2, <3>1 DEF HostInv, Claimed, Bound, Well, Holds
    <3> QED
      BY <3>2, <3>3, <3>4 DEF HostInv
  <2>3. CASE o = q /\ claims' = claims
    <3>1. DeletePod(o) /\ pods[o] = "scheduled"
      BY <1>0, <1>3, <2>3 DEF ClaimType, TypeOK
    <3>2. pods'[o] = "absent" /\ aged' = aged \ {o}
      BY <3>1 DEF DeletePod, TypeOK
    <3>3. Records(o)' /\ Volume(o)'
      BY <1>0, <1>3, <2>3, <3>1, <3>2 DEF HostInv, Records, Volume
    <3>4. Restarts(o)' /\ Rebuilds(o)'
      BY <1>0, <1>3, <2>3, <3>1, <3>2 DEF HostInv, Restarts, Rebuilds, Away, Bound, Given
    <3>5. Claimed(o)'
      BY <1>0, <1>3, <2>0, <2>3, <3>1, <3>2 DEF HostInv, Claimed, Bound, Well, Holds
    <3> QED
      BY <3>3, <3>4, <3>5 DEF HostInv
  <2> QED
    BY <2>1, <2>2, <2>3
<1> QED
  BY <1>2, <1>3 DEF CheckPendingPod

\* The balance writes the status and leaves the failures; then the claims of the
\* pods are labelled
LEMMA LateStep ==
    ASSUME TypeOK, OutageInv, History, NEW o \in Hosts, BalanceSpaces \/ MetaReconcile
    PROVE  HostInv(o)'
<1>0. HostInv(o) /\ claims[o] \in ClaimType
  BY View DEF OutageInv
<1>1. CASE BalanceSpaces
  <2>1. /\ pc = "balance" /\ pc' \in {"balance", "done", "end"} /\ Counted
        /\ UNCHANGED <<pods, aged, claims, online>>
    BY <1>1 DEF BalanceSpaces, Save, Fault, Counted, kube
  <2>2. nc'.failures = nc.failures
    BY <1>1 DEF BalanceSpaces, Save, TypeOK, StatusType
  <2>3. status' = status \/ status' = nc'
    BY <1>1 DEF BalanceSpaces, Save
  <2>4. Copy(o)' = Copy(o) /\ Saved(o)' \in {Saved(o), Copy(o)}
    BY <2>2, <2>3 DEF Copy, Saved
  <2>5. Same(o)
    BY <2>1, Suspects DEF Same
  <2> QED
    BY <1>0, <2>1, <2>4, <2>5, GoesOn
<1>2. CASE MetaReconcile
  <2>1. /\ claims'[o].uid = claims[o].uid /\ claims'[o].state = claims[o].state
        /\ claims'[o].lost = claims[o].lost
    BY <1>0, <1>2 DEF MetaReconcile, ClaimType
  <2>2. Same(o) /\ Counted /\ pc = "done" /\ pc' = "end"
    BY <1>2, <2>1, Suspects DEF MetaReconcile, Same, Counted, metad
  <2>3. Copy(o)' = Copy(o) /\ Saved(o)' = Saved(o)
    BY <1>2 DEF MetaReconcile, Copy, Saved
  <2> QED
    BY <1>0, <2>2, <2>3, GoesOn
<1> QED
  BY <1>1, <1>2

\* The status is written, and the pass is over
LEMMA EndStep ==
    ASSUME TypeOK, OutageInv, History, NEW o \in Hosts, EndReconcile
    PROVE  HostInv(o)'
<1>0. HostInv(o)
  BY DEF OutageInv
<1>1. Still /\ pc = "end" /\ Saved(o)' = Copy(o)
  BY DEF EndReconcile, Still, kube, metad, Saved, Copy
<1>2. /\ pc' = "idle" /\ ~Copy(o)'.recorded /\ ~Copy(o)'.confirmed /\ Copy(o)'.pvcs = {}
      /\ ~Copy(o)'.podRestarted /\ ~Copy(o)'.podRebuilt
  BY Forgotten, NoFailureIs DEF EndReconcile
<1>3. Records(o)' /\ Volume(o)'
  BY <1>0, <1>1, <1>2, StillIs DEF HostInv, Records, Volume, FlagsOk
<1>4. Restarts(o)' /\ Rebuilds(o)'
  BY <1>0, <1>1, <1>2, StillIs DEF HostInv, Restarts, Rebuilds, Away, Bound, Given
<1>5. Claimed(o)'
  BY <1>0, <1>1, <1>2, StillIs DEF HostInv, Claimed, Well, Bound, Holds
<1> QED
  BY <1>3, <1>4, <1>5 DEF HostInv

\* A call fails, or the operator restarts
LEMMA FaultStep ==
    ASSUME Careful, TypeOK, OutageInv, History, NEW o \in Hosts, CallFails \/ Crash
    PROVE  HostInv(o)'
<1>0. HostInv(o)
  BY DEF OutageInv
<1>1. /\ Saved(o)' = Saved(o) /\ Fault /\ Same(o) /\ ~Spent /\ Counted
      /\ pods' = pods /\ aged' = aged /\ claims' = claims /\ online' = online /\ suspect'[o] = suspect[o]
  BY Suspects DEF CallFails, Crash, kube, metad, Saved, Same, Fault, Spent, Careful, TypeOK, Counted
<1>2. CASE CallFails
  <2>1. pc \notin {"idle", "end"} /\ pc' = "end" /\ Copy(o)' = Copy(o)
    BY <1>2 DEF CallFails, Copy
  <2> QED
    BY <1>0, <1>1, <2>1, GoesOn
<1>3. CASE Crash
  <2>1. /\ pc' = "idle" /\ ~Copy(o)'.recorded /\ ~Copy(o)'.confirmed /\ Copy(o)'.pvcs = {}
        /\ ~Copy(o)'.podRestarted /\ ~Copy(o)'.podRebuilt
    BY <1>3, Forgotten, NoFailureIs DEF Crash
  <2>2. Spent' \/ Fine(o)
    BY <1>1, FaultStrikes
  <2>3. Records(o)' /\ Volume(o)'
    BY <1>0, <1>1, <2>1, CountIs DEF HostInv, Records, Volume, FlagsOk
  <2>4. Restarts(o)' /\ Rebuilds(o)'
    BY <1>0, <1>1, <2>1, <2>2 DEF HostInv, Records, FlagsOk, Restarts, Rebuilds, Fine, Away, Bound, Given
  <2>5. Claimed(o)'
    BY <1>0, <1>1, <2>1, <2>2 DEF HostInv, Claimed, Rebuilds, Restarts, Fine, Away, Bound, Well, Holds
  <2> QED
    BY <2>3, <2>4, <2>5 DEF HostInv
<1> QED
  BY <1>2, <1>3

---------------------------------------------------------------------------
(* One fault, one host *)

\* What the pass does to a host that it did not record
LEMMA FineInPass ==
    ASSUME TypeOK, OutageInv, History, NEW o \in Hosts, Fine(o), Reconcile \/ CallFails \/ Crash,
           ~outdated'
    PROVE  Fine(o)'
<1>1. o \notin Recorded(nc) /\ o \notin Open(nc) /\ (pc = "claims" => o # victim)
  BY Choices DEF Fine, OutageInv, PassInv
<1>2. CASE StartReconcile
  BY <1>2 DEF StartReconcile, History, Fine, kube, metad, Saved, Copy, Bound
<1>3. CASE SyncStatus
  BY <1>3, Judged DEF SyncStatus, kube, metad, Fine, Saved, Bound
<1>4. CASE ShouldRecover
  <2>1. Copy(o)' = Copy(o)
    BY <1>1, <1>4 DEF ShouldRecover, Back, Copy, TypeOK, StatusType
  <2> QED
    BY <1>4, <2>1 DEF ShouldRecover, kube, metad, Fine, Saved, Bound
<1>5. CASE TryRestartPod
  <2>1. pods'[o] = pods[o] /\ Copy(o)' = Copy(o)
    BY <1>1, <1>5, Choices DEF TryRestartPod, DeletePod, Restarted, Copy, TypeOK, StatusType
  <2> QED
    BY <1>5, <2>1 DEF TryRestartPod, metad, Fine, Saved, Bound
<1>6. CASE ToleratePods \/ EndReconcile \/ Crash
  BY <1>6, Forgotten, NoFailureIs DEF ToleratePods, EndReconcile, Crash, kube, metad, Fine, Saved, Copy, Bound
<1>7. CASE RebuildPod
  <2>1. pods'[o] = pods[o]
    BY <1>1, <1>7, Choices DEF RebuildPod, DeletePod, TypeOK
  <2> QED
    BY <1>7, <2>1 DEF RebuildPod, metad, Fine, Saved, Copy, Bound
<1>8. CASE DeleteClaims
  <2>1. claims'[o] = claims[o] /\ Copy(o)' = Copy(o)
    BY <1>1, <1>8 DEF DeleteClaims, Rebuilt, Copy, TypeOK, StatusType
  <2> QED
    BY <1>8, <2>1 DEF DeleteClaims, metad, Fine, Saved, Bound
<1>9. CASE CheckPendingPod
  <2>1. pods'[o] = pods[o] /\ claims'[o] = claims[o]
    BY <1>1, <1>9 DEF CheckPendingPod, DeletePod, kube, TypeOK
  <2> QED
    BY <1>9, <2>1 DEF CheckPendingPod, metad, Fine, Saved, Copy, Bound
<1>10. CASE BalanceSpaces
  <2>1. nc'.failures = nc.failures /\ (status' = status \/ status' = nc')
    BY <1>10 DEF BalanceSpaces, Save, TypeOK, StatusType
  <2> QED
    BY <1>10, <2>1 DEF BalanceSpaces, kube, Fine, Saved, Copy, Bound
<1>11. CASE MetaReconcile
  <2>1. claims'[o].state = claims[o].state /\ claims'[o].lost = claims[o].lost
    BY <1>11, View DEF MetaReconcile, ClaimType
  <2> QED
    BY <1>11, <2>1 DEF MetaReconcile, metad, Fine, Saved, Copy, Bound
<1>12. CASE CallFails
  BY <1>12 DEF CallFails, kube, metad, Fine, Saved, Copy, Bound
<1> QED
  BY <1>2, <1>3, <1>4, <1>5, <1>6, <1>7, <1>8, <1>9, <1>10, <1>11, <1>12 DEF Reconcile

\* A pod that is ready goes down only with a fault
LEMMA FineAround ==
    ASSUME TypeOK, OutageInv, History, NEW h \in Hosts, Node(h), NEW o \in Hosts, Fine(o),
           o # h \/ faults' = faults
    PROVE  Fine(o)'
<1>0. Saved(o)' = Saved(o) /\ Copy(o)' = Copy(o)
  BY Others DEF Saved, Copy, local
<1>1. CASE o # h
  BY <1>0, <1>1, Others DEF Same, Fine, Bound
<1>2. CASE o = h
  <2>1. /\ ~PodCreate(h) /\ ~PodSchedule(h) /\ ~PodReady(h) /\ ~PodRecovers(h) /\ ~Evict(h)
        /\ ~ClaimGone(h)
    BY <1>2 DEF PodCreate, PodSchedule, PodReady, Evict, PodRecovers, ClaimGone, Fine, Bound
  <2>2. ~HeartbeatLost(h) /\ ~NodeDown(h) /\ ~PodCrash(h)
    BY <1>2 DEF HeartbeatLost, NodeDown, PodCrash, Fault, TypeOK, Fine
  <2>3. CASE PodAges(h) \/ PeriodElapses(h) \/ Heartbeat(h)
    BY <1>0, <1>2, <2>3 DEF PodAges, PeriodElapses, Heartbeat, kube, metad, Fine, Bound
  <2> QED
    BY <2>1, <2>2, <2>3 DEF Node
<1> QED
  BY <1>1, <1>2

\* The informer's copy, and the jobs
Aside == CacheSync \/ \E s \in Spaces : FinishJob(s) \/ FailJob(s)
LEMMA AsideIs ==
    ASSUME TypeOK, History, Aside, NEW o \in Hosts
    PROVE  /\ UNCHANGED <<status, local>> /\ Counted /\ Same(o)
           /\ pods' = pods /\ claims' = claims /\ online' = online
BY Suspects DEF Aside, CacheSync, FinishJob, FailJob, Fault, Counted, Same, kube, metad

LEMMA FaultsCount == ASSUME TypeOK, Next PROVE Counted
<1>0. 0 \in Hosts /\ History
  BY DEF Hosts, Next
<1>1. CASE Reconcile \/ CallFails \/ Crash
  BY <1>1 DEF Counted, Reconcile, StartReconcile, SyncStatus, ShouldRecover, TryRestartPod, ToleratePods,
     RebuildPod, DeleteClaims, CheckPendingPod, BalanceSpaces, Save, MetaReconcile, EndReconcile,
     CallFails, Crash, Fault
<1>2. ASSUME NEW h \in Hosts, Node(h) PROVE Counted
  BY <1>0, <1>2, Others
<1>3. CASE Aside
  BY <1>0, <1>3, AsideIs
<1> QED
  BY <1>1, <1>2, <1>3 DEF Next, Aside

LEMMA BadStep ==
    ASSUME TypeOK, OutageInv, Next, ~outdated'
    PROVE  BadInv'
<1>0. 0 \in Hosts /\ History
  BY DEF Hosts, Next
<1>1. PICK h \in Hosts : \A o \in Hosts : Fine(o) /\ (o # h \/ faults' = faults) => Fine(o)'
  <2>1. CASE Reconcile \/ CallFails \/ Crash
    BY <1>0, <2>1, FineInPass
  <2>2. CASE \E h \in Hosts : Node(h)
    BY <1>0, <2>2, FineAround
  <2>3. CASE Aside
    <3>1. ASSUME NEW o \in Hosts, Fine(o) PROVE Fine(o)'
      BY <1>0, <2>3, <3>1, AsideIs DEF Fine, Saved, Copy, Bound, local
    <3> QED
      BY <1>0, <3>1
  <2> QED
    BY <2>1, <2>2, <2>3 DEF Next, Aside
<1>2. Counted /\ faults \in Nat
  BY FaultsCount DEF TypeOK
<1>3. CASE faults' = faults
  BY <1>1, <1>3 DEF OutageInv, BadInv, Spent
<1>4. CASE faults' = faults + 1
  <2>1. faults' # 0 /\ (Spent' \/ faults = 0)
    BY <1>2, <1>4 DEF Spent
  <2>2. faults = 0 => \A o \in Hosts : Fine(o)
    BY DEF OutageInv, BadInv
  <2> QED
    BY <1>1, <2>1, <2>2 DEF BadInv
<1> QED
  BY <1>2, <1>3, <1>4 DEF Counted

LEMMA PassStep ==
    ASSUME TypeOK, OutageInv, Next
    PROVE  PassInv'
<1>1. CASE UNCHANGED local
  BY <1>1 DEF local, OutageInv, PassInv, Open, Recorded, Copy
<1>2. CASE ShouldRecover
  <2>1. ASSUME pc' = "restart"
        PROVE  \E o \in Hosts : Copy(o)'.confirmed
    <3>1. Back = {} /\ \E o \in Hosts : nc.failures[o].confirmed
      BY <1>2, <2>1 DEF ShouldRecover
    <3>2. nc'.failures = nc.failures
      BY <1>2, <3>1 DEF ShouldRecover, TypeOK, StatusType
    <3> QED
      BY <3>1, <3>2 DEF Copy
  <2>2. pc' # "claims"
    BY <1>2 DEF ShouldRecover
  <2> QED
    BY <2>1, <2>2 DEF PassInv
<1>3. CASE RebuildPod
  <2>1. pc' # "restart"
    BY <1>3 DEF RebuildPod
  <2>2. ASSUME pc' = "claims" PROVE victim' \in Open(nc)'
    BY <1>3, <2>2 DEF RebuildPod, Open, Recorded
  <2> QED
    BY <2>1, <2>2 DEF PassInv
<1>4. CASE StartReconcile \/ SyncStatus \/ TryRestartPod \/ ToleratePods \/ DeleteClaims \/ CheckPendingPod
           \/ BalanceSpaces \/ MetaReconcile \/ EndReconcile \/ CallFails \/ Crash
  <2>1. pc' \notin {"restart", "claims"}
    BY <1>4 DEF StartReconcile, SyncStatus, TryRestartPod, ToleratePods, DeleteClaims, CheckPendingPod,
                BalanceSpaces, Save, MetaReconcile, EndReconcile, CallFails, Crash, Forget
  <2> QED
    BY <2>1 DEF PassInv
<1> QED
  BY <1>1, <1>2, <1>3, <1>4, WorldLocal DEF Next, Reconcile

\* At the start nothing has happened
LEMMA OutageInit == Init => OutageInv
<1> SUFFICES ASSUME Init PROVE OutageInv
  OBVIOUS
<1>1. pc = "idle" /\ faults = 0
  BY DEF Init
<1>2. ASSUME NEW o \in Hosts
      PROVE  /\ Saved(o) = NoFailure /\ Copy(o) = NoFailure
             /\ pods[o] = "ready" /\ o \in online /\ suspect[o] = 0
             /\ claims[o].uid = 1 /\ claims[o].state = "bound" /\ ~claims[o].lost
  BY DEF Init, Healthy, Saved, Copy
<1>3. BadInv
  BY <1>1, <1>2, NoFailureIs DEF BadInv, Fine, Bound
<1>4. PassInv
  BY <1>1 DEF PassInv
<1>5. ASSUME NEW o \in Hosts PROVE HostInv(o)
  <2>1. Records(o) /\ Volume(o)
    BY <1>1, <1>2, NoFailureIs DEF Records, FlagsOk, Volume
  <2>2. Restarts(o) /\ Rebuilds(o)
    BY <1>1, <1>2, NoFailureIs DEF Restarts, Rebuilds, Away, Bound, Given
  <2>3. Claimed(o)
    BY <1>1, <1>2, NoFailureIs DEF Claimed, Bound, Holds
  <2> QED
    BY <2>1, <2>2, <2>3 DEF HostInv
<1> QED
  BY <1>3, <1>4, <1>5 DEF OutageInv

LEMMA OutageStep == Careful /\ TypeOK /\ OutageInv /\ [Next]_vars /\ ~outdated' => OutageInv'
<1> SUFFICES ASSUME Careful, TypeOK, OutageInv, [Next]_vars, ~outdated' PROVE OutageInv'
  OBVIOUS
<1>1. CASE Next
  <2>1. ASSUME NEW o \in Hosts PROVE HostInv(o)'
    <3>1. History
      BY <1>1 DEF Next
    <3>2. CASE Reconcile
      BY <3>1, <3>2, StartStep, SyncStep, RecoverStep, RestartStep, TolerateStep, RebuildStep, ClaimStep,
         PendingStep, LateStep, EndStep DEF Reconcile
    <3>3. CASE Aside
      BY <3>1, <3>3, AsideIs, Untouched DEF OutageInv
    <3> QED
      BY <1>1, <3>1, <3>2, <3>3, FaultStep, WorldStep DEF Next, Aside
  <2> QED
    BY <1>1, <2>1, BadStep, PassStep DEF OutageInv
<1>2. CASE UNCHANGED vars
  <2>1. ASSUME NEW o \in Hosts PROVE HostInv(o)'
    <3>1. Same(o) /\ Counted /\ UNCHANGED <<status, local>>
      BY <1>2 DEF vars, Same, Counted, local
    <3> QED
      BY <3>1, Untouched DEF OutageInv
  <2>2. BadInv' /\ PassInv'
    BY <1>2 DEF vars, OutageInv, BadInv, PassInv, Fine, Spent, Bound, Saved, Copy, Open, Recorded
  <2> QED
    BY <2>1, <2>2 DEF OutageInv
<1> QED
  BY <1>1, <1>2

\* Until a pass begins with an outdated copy
TrueReads == ~outdated => OutageInv
LEMMA TrueReadsKnown == Careful /\ Spec => [](TypeOK /\ TrueReads)
<1>1. CASE Careful
  <2>1. Init => TypeOK /\ TrueReads
    BY TypeInit, OutageInit DEF TrueReads
  <2>2. [Next]_vars /\ ~outdated' => ~outdated
    BY DEF Next, History, vars
  <2>3. TypeOK /\ TrueReads /\ [Next]_vars => (TypeOK /\ TrueReads)'
    BY <1>1, <2>2, TypeNext, OutageStep DEF TrueReads
  <2> QED
    BY <2>1, <2>3, PTL DEF Spec
<1>2. CASE ~Careful
  BY <1>2
<1> QED
  BY <1>1, <1>2

\* Only the step that deletes the claim of the victim ends a bound claim
LEMMA DeletesOnlyVictims ==
    ASSUME TypeOK, [Next]_vars, NEW o \in Hosts,
           claims[o].state = "bound", claims'[o].state # "bound"
    PROVE  DeleteClaims /\ o = victim /\ claims[o].uid \in Copy(o).pvcs
<1>1. CASE DeleteClaims
  BY <1>1, View DEF DeleteClaims, Copy, TypeOK
<1>2. CASE CheckPendingPod
  BY <1>2 DEF CheckPendingPod, kube, TypeOK
<1>3. CASE MetaReconcile
  BY <1>3 DEF MetaReconcile, TypeOK, ClaimType
<1>4. ASSUME NEW h \in Hosts, PodCreate(h) \/ ClaimGone(h) \/ NodeDown(h) PROVE FALSE
  <2>1. CASE PodCreate(h)
    BY <2>1 DEF PodCreate, TypeOK
  <2>2. CASE ClaimGone(h)
    BY <2>2 DEF ClaimGone, TypeOK
  <2>3. CASE NodeDown(h)
    <3>1. claims' = [claims EXCEPT ![h].lost = TRUE] /\ claims[o] \in ClaimType
      BY <2>3 DEF NodeDown, TypeOK
    <3>2. claims'[o].state = claims[o].state
      BY <3>1 DEF TypeOK, ClaimType
    <3> QED
      BY <3>2
  <2> QED
    BY <1>4, <2>1, <2>2, <2>3
<1>5. \/ claims' = claims \/ DeleteClaims \/ CheckPendingPod \/ MetaReconcile
      \/ \E h \in Hosts : PodCreate(h) \/ ClaimGone(h) \/ NodeDown(h)
  BY DEF Next, vars, Reconcile, StartReconcile, SyncStatus, ShouldRecover, TryRestartPod,
         ToleratePods, RebuildPod, BalanceSpaces, EndReconcile, CallFails, Crash, CacheSync,
         Node, PodSchedule, PodReady, PodRecovers, PodAges, PeriodElapses, Heartbeat,
         HeartbeatLost, Evict, PodCrash, FinishJob, FailJob, kube
<1> QED
  BY <1>1, <1>2, <1>3, <1>4, <1>5

\* For any number of replicas and spaces and at most two faults (lost nodes, crashed
\* pods, lost heartbeats, failed calls, lost passes), as long as no pass has begun
\* with an outdated copy of the status: in one outage of a host, failover deletes
\* the claim it had when it went offline and none that replaced it
\* (storaged_failover.go deleteFailurePodAndPVC)
THEOREM OneClaimOnly == Careful /\ Spec => OneClaimPerOutage
<1>1. TypeOK /\ TrueReads /\ [Next]_vars => [~outdated => ~DeletesReplacement]_vars
  <2> SUFFICES ASSUME TypeOK, OutageInv, [Next]_vars, DeletesReplacement PROVE FALSE
    BY DEF TrueReads
  <2>1. PICK o \in Hosts : /\ claims[o].state = "bound" /\ claims'[o].state # "bound"
                           /\ claims[o].uid # suspect[o]
    BY DEF DeletesReplacement
  <2>2. Holds(o, Copy(o).pvcs)
    BY <2>1, DeletesOnlyVictims DEF Holds
  <2> QED
    BY <2>1, <2>2 DEF OutageInv, HostInv, Claimed
<1> QED
  BY <1>1, TrueReadsKnown, PTL DEF Spec, OneClaimPerOutage
=============================================================================
