----------------------- MODULE ClusterLifecycleProofs -----------------------
(***************************************************************************)
(* What holds of the life of a NebulaCluster whatever the number of faults *)
(* and of changes by its users.                                            *)
(***************************************************************************)
EXTENDS ClusterLifecycle, TLAPS

(* The order of the steps and of the components *)

Walk == {"finalizer", "metad", "storaged", "graphd", "version", "exporter",
         "console", "create", "annotate"}

LEMMA StepsAre == Range(Steps) = Walk
<1>1. Len(Steps) = 9 /\ DOMAIN Steps = 1..9
  BY DEF Steps
<1>2. 1..9 = {1, 2, 3, 4, 5, 6, 7, 8, 9}
  OBVIOUS
<1> QED
  BY <1>1, <1>2 DEF Range, Steps, Walk

LEMMA Afterwards ==
  /\ After("finalizer") = "metad" /\ After("metad") = "storaged"
  /\ After("storaged") = "graphd" /\ After("graphd") = "version"
  /\ After("version") = "exporter" /\ After("exporter") = "console"
  /\ After("console") = "create" /\ After("create") = "annotate"
  /\ After("annotate") = "status"
<1>1. Len(Steps) = 9
  BY DEF Steps
<1>2. ASSUME NEW k \in 1..9
      PROVE  (CHOOSE j \in 1..Len(Steps) : Steps[j] = Steps[k]) = k
  BY <1>1, <1>2, SMTT(30) DEF Steps
<1>3. ASSUME NEW k \in 1..8 PROVE After(Steps[k]) = Steps[k + 1]
  <2>1. k \in 1..9 /\ k # 9
    OBVIOUS
  <2>2. (CHOOSE j \in 1..Len(Steps) : Steps[j] = Steps[k]) = k
    BY <1>2, <2>1
  <2> QED
    BY <1>1, <2>1, <2>2 DEF After
<1>4. After(Steps[9]) = "status"
  BY <1>1, <1>2 DEF After
<1>5. /\ Steps[1] = "finalizer" /\ Steps[2] = "metad" /\ Steps[3] = "storaged"
      /\ Steps[4] = "graphd" /\ Steps[5] = "version" /\ Steps[6] = "exporter"
      /\ Steps[7] = "console" /\ Steps[8] = "create" /\ Steps[9] = "annotate"
  BY DEF Steps
<1>6. /\ After(Steps[1]) = Steps[2] /\ After(Steps[2]) = Steps[3]
      /\ After(Steps[3]) = Steps[4] /\ After(Steps[4]) = Steps[5]
      /\ After(Steps[5]) = Steps[6] /\ After(Steps[6]) = Steps[7]
      /\ After(Steps[7]) = Steps[8] /\ After(Steps[8]) = Steps[9]
  BY <1>3
<1> QED
  BY <1>4, <1>5, <1>6

LEMMA Ranks == /\ Rank("metad") = 1 /\ Rank("storaged") = 2 /\ Rank("graphd") = 3
<1>1. Len(Order) = 3
  BY DEF Order
<1>2. ASSUME NEW k \in 1..3
      PROVE  (CHOOSE i \in 1..Len(Order) : Order[i] = Order[k]) = k
  BY <1>1, <1>2, SMTT(30) DEF Order
<1> QED
  BY <1>2 DEF Rank, Order

\* graphd is suspended first, metad last
LEMMA Users == /\ Before("metad") = {"storaged", "graphd"}
               /\ Before("storaged") = {"graphd"}
               /\ Before("graphd") = {}
<1>1. Len(Order) = 3
  BY DEF Order
<1>2. /\ SuspendOrder = [i \in 1..3 |-> Order[4 - i]]
  BY <1>1 DEF SuspendOrder, Reverse
<1>3. /\ SuspendOrder[1] = "graphd" /\ SuspendOrder[2] = "storaged"
      /\ SuspendOrder[3] = "metad"
  BY <1>2 DEF Order
<1>4. 1..Len(Order) = {1, 2, 3}
  BY <1>1
<1>5. ASSUME NEW c \in Comps, NEW d \in Comps
      PROVE d \in Before(c) <=> \E i, j \in {1, 2, 3} :
                                   SuspendOrder[i] = d /\ SuspendOrder[j] = c /\ i < j
  BY <1>4 DEF Before
<1>6. ASSUME NEW c \in Comps PROVE Before(c) \subseteq Comps
  BY DEF Before
<1> QED
  BY <1>3, <1>5, <1>6 DEF Comps

-----------------------------------------------------------------------------
(* Types *)

AtTyped == at \in Walk \union DeleteSteps \union {"idle", "status"}

\* TypeOK with the steps in a set, and versions that count changes
Typed == /\ nc \in Object /\ old \in Status /\ copy \in Object
         /\ workload \in [Comps -> {"none", "live", "terminating"}]
         /\ pod \in [Comps -> {"none", "starting", "ready"}]
         /\ claim \in [Comps -> Claims] /\ registered \in BOOLEAN
         /\ exporter \in 0..(MaxChanges + 1)
         /\ console \in [version : 0..(MaxChanges + 1), term : BOOLEAN]
         /\ AtTyped
         /\ err \in BOOLEAN /\ todo \subseteq Comps /\ queued \in BOOLEAN
         /\ faults \in 0..MaxFaults /\ changes \in 0..MaxChanges
TypeInv == Typed /\ nc.version <= changes + 1

LEMMA TypeIs == TypeInv => TypeOK
  BY StepsAre DEF TypeOK, TypeInv, Typed, AtTyped

LEMMA StatusIs == ASSUME NEW s \in Status, NEW p \in [Comps -> {"", "Running", "Suspend"}],
                         NEW w \in [Comps -> {"nil", "empty", "notready", "ready"}]
                  PROVE  /\ [s EXCEPT !.phase = p] \in Status
                         /\ [s EXCEPT !.work = w] \in Status
                         /\ [s EXCEPT !.phase = p, !.work = w] \in Status
  BY DEF Status

LEMMA FlagsTyped == ASSUME NEW s \in Status, NEW b \in BOOLEAN
                    PROVE  /\ [s EXCEPT !.hostsAdded = b] \in Status
                           /\ [s EXCEPT !.ready = b] \in Status
  BY DEF Status

LEMMA StatusOf == \A o \in Object : o.status \in Status
  BY DEF Object

LEMMA ObjectIs == ASSUME NEW o \in Object, NEW s \in Status
                  PROVE  /\ [o EXCEPT !.status = s] \in Object
                         /\ [o EXCEPT !.finalizer = TRUE] \in Object
  BY DEF Object

LEMMA CreatedTyped == Created \in Object /\ InitStatus \in Status
<1>1. InitStatus \in Status
  BY DEF InitStatus, Status
<1>2. (CHOOSE b \in Reclaims : TRUE) \in BOOLEAN
  BY SwitchAssumption
<1>3. 1 \in 1..(MaxChanges + 1)
  BY BoundsAssumption
<1>4. Created.restore \in {"off", "started", "metadDone", "storagedDone"}
  BY DEF Created
<1> QED
  BY <1>1, <1>2, <1>3, <1>4 DEF Created, Object

LEMMA TypeInvInit == Init => TypeInv
<1> SUFFICES ASSUME Init PROVE TypeInv
  OBVIOUS
<1>1. nc \in Object /\ copy \in Object /\ old \in Status
  BY CreatedTyped DEF Init
<1>2. NoClaim \in Claims
  BY DEF Claims
<1>3. claim \in [Comps -> Claims]
  BY <1>2 DEF Init
<1>4. exporter \in 0..(MaxChanges + 1) /\ changes \in 0..MaxChanges /\ faults \in 0..MaxFaults
  BY BoundsAssumption DEF Init
<1>5. console \in [version : 0..(MaxChanges + 1), term : BOOLEAN]
  BY BoundsAssumption DEF Init
<1>6. nc.version <= changes + 1
  BY DEF Init, Created
<1> QED
  BY <1>1, <1>3, <1>4, <1>5, <1>6 DEF Init, TypeInv, Typed, AtTyped

LEMMA AfterTyped == ASSUME at \in Walk PROVE After(at) \in Walk \union {"status"}
  BY Afterwards DEF Walk

\* The next step of a pass and its error flag
LEMMA ProceedTyped == ASSUME TypeInv, at \in Walk, Go \/ Fail
                      PROVE  AtTyped' /\ err' \in BOOLEAN /\ todo' \subseteq Comps
  BY AfterTyped, BoundsAssumption DEF Typed, TypeInv, Go, Fail, AtTyped

LEMMA EndTyped == ASSUME EndPass
                  PROVE AtTyped' /\ err' \in BOOLEAN /\ todo' \subseteq Comps /\ copy' \in Object
  BY CreatedTyped DEF EndPass, AtTyped

LEMMA StartTyped == ASSUME TypeInv, StartPass PROVE TypeInv'
<1>1. copy' \in Object /\ old' \in Status
  <2>1. nc \in Object /\ old \in Status /\ copy \in Object /\ nc.status \in Status
    BY StatusOf DEF TypeInv, Typed
  <2>2. [nc EXCEPT !.status = old] \in Object
    BY <2>1, ObjectIs
  <2>3. \/ UNCHANGED <<copy, old>>
        \/ copy' = nc /\ old' = nc.status
        \/ copy' = [nc EXCEPT !.status = old] /\ old' = old
    BY DEF StartPass, pass
  <2> QED
    BY <2>1, <2>2, <2>3
<1>2. AtTyped' /\ err' \in BOOLEAN /\ todo' \subseteq Comps /\ queued' \in BOOLEAN
  BY BoundsAssumption DEF Typed, TypeInv, StartPass, pass, AtTyped, Walk, DeleteSteps
<1>3. faults' \in 0..MaxFaults /\ changes' = changes
  <2>1. UNCHANGED <<faults, changes>> \/ Fault
    BY DEF StartPass, budget, pass
  <2> QED
    BY <2>1, BoundsAssumption DEF TypeInv, Typed, Fault
<1> QED
  BY <1>1, <1>2, <1>3, BoundsAssumption DEF Typed, TypeInv, StartPass, cluster, extras, AtTyped

LEMMA FinalizerTyped == ASSUME TypeInv, AddFinalizer PROVE TypeInv'
<1>1. at \in Walk /\ (Go \/ Fail)
  BY DEF AddFinalizer, Walk
<1>2. nc' \in Object /\ copy' \in Object /\ nc'.version = nc.version
  <2>1. UNCHANGED <<nc, copy>> \/ (nc' = [nc EXCEPT !.finalizer = TRUE]
                                    /\ copy' = [copy EXCEPT !.finalizer = TRUE])
    BY DEF AddFinalizer
  <2> QED
    BY <2>1, ObjectIs, BoundsAssumption DEF Typed, TypeInv, Object
<1> QED
  BY <1>1, <1>2, ProceedTyped, BoundsAssumption DEF Typed, TypeInv, AddFinalizer, cluster, extras, budget, AtTyped

\* What is left of a component's step
LEMMA PhasesTyped == ASSUME NEW s \in Status, NEW c \in Comps,
                            NEW p \in {"", "Running", "Suspend"},
                            NEW w \in {"nil", "empty", "notready", "ready"}
                     PROVE  /\ [s EXCEPT !.phase[c] = p] \in Status
                            /\ [s EXCEPT !.work[c] = w] \in Status
                            /\ [s EXCEPT !.phase[c] = p, !.work[c] = w] \in Status
  BY DEF Status

LEMMA ObservedTyped == ASSUME copy \in Object, NEW c \in Comps PROVE Observed(c) \in Status
<1>1. copy.status \in Status
  BY StatusOf
<1>2. copy.status.phase[c] \in {"", "Running", "Suspend"}
  BY <1>1 DEF Status
<1> DEFINE p == IF c = "storaged" /\ copy.status.phase[c] # "" THEN copy.status.phase[c]
                                                               ELSE "Running"
           w == IF pod[c] = "ready" THEN "ready" ELSE "notready"
<1>3. p \in {"", "Running", "Suspend"} /\ w \in {"nil", "empty", "notready", "ready"}
  BY <1>2
<1>4. [copy.status EXCEPT !.phase[c] = p, !.work[c] = w] \in Status
  BY <1>1, <1>3, PhasesTyped
<1> QED
  BY <1>4 DEF Observed

LEMMA ComponentTyped == ASSUME TypeInv, NEW c \in Comps, ReconcileComponent(c) PROVE TypeInv'
<1>1. at \in Walk /\ (Go \/ Fail)
  BY DEF ReconcileComponent, Sync, Proceed, Comps, Walk
<1>2. copy \in Object /\ copy.status \in Status
  BY StatusOf DEF TypeInv, Typed
<1>3. copy' \in Object
  <2>1. CASE SetPhase(c, "Running") \/ SetPhase(c, "Suspend")
    <3>1. PICK p \in {"", "Running", "Suspend"} : SetPhase(c, p)
      BY <2>1
    <3>2. copy' = [copy EXCEPT !.status = [copy.status EXCEPT !.phase[c] = p]]
      BY <3>1, <1>2 DEF SetPhase
    <3> QED
      BY <3>2, <1>2, PhasesTyped, ObjectIs
  <2>2. CASE \E w \in {"nil", "empty"} : copy' = [copy EXCEPT !.status.work[c] = w]
    <3>1. PICK w \in {"nil", "empty"} : copy' = [copy EXCEPT !.status.work[c] = w]
      BY <2>2
    <3>2. copy' = [copy EXCEPT !.status = [copy.status EXCEPT !.work[c] = w]]
      BY <3>1, <1>2
    <3> QED
      BY <3>2, <1>2, PhasesTyped, ObjectIs
  <2>3. CASE copy' = [copy EXCEPT !.status = Observed(c)]
    BY <2>3, <1>2, ObservedTyped, ObjectIs
  <2>4. CASE copy' = [copy EXCEPT !.status = [Observed(c) EXCEPT !.hostsAdded = TRUE]]
    BY <2>4, <1>2, ObservedTyped, FlagsTyped, ObjectIs
  <2> QED
    BY <2>1, <2>2, <2>3, <2>4 DEF ReconcileComponent, Sync, Suspended
<1>4. workload' \in [Comps -> {"none", "live", "terminating"}] /\ registered' \in BOOLEAN
  <2>1. \/ workload' = workload \/ workload' = [workload EXCEPT ![c] = "live"]
        \/ workload' = [workload EXCEPT ![c] = IF @ = "none" THEN @ ELSE "terminating"]
    BY DEF ReconcileComponent, Sync, Suspended
  <2>2. registered' \in BOOLEAN
    BY DEF ReconcileComponent, Sync, Suspended, TypeInv, Typed
  <2> QED
    BY <2>1, <2>2 DEF TypeInv, Typed
<1> QED
  BY <1>1, <1>3, <1>4, ProceedTyped
     DEF TypeInv, Typed, ReconcileComponent, extras, budget, AtTyped

LEMMA AddOnsTyped == ASSUME TypeInv, SetClusterVersion \/ SyncExporter \/ SyncConsole \/ CreateConsole
                     PROVE  TypeInv'
<1>1. /\ at \in Walk
      /\ \/ Go \/ Fail
         \/ at' = "annotate" /\ err' = err /\ todo' = todo
  <2>1. CASE SetClusterVersion
    BY <2>1 DEF SetClusterVersion, Walk
  <2>2. CASE SyncExporter
    BY <2>2 DEF SyncExporter, Walk
  <2>3. CASE SyncConsole
    BY <2>3 DEF SyncConsole, Walk
  <2>4. CASE CreateConsole
    BY <2>4 DEF CreateConsole, Walk
  <2> QED
    BY <2>1, <2>2, <2>3, <2>4
<1>2. AtTyped' /\ err' \in BOOLEAN /\ todo' \subseteq Comps
  BY <1>1, ProceedTyped DEF TypeInv, Typed, AtTyped, Walk
<1>3. copy.version \in 0..(MaxChanges + 1)
  BY BoundsAssumption DEF TypeInv, Typed, Object
<1>4. exporter' \in 0..(MaxChanges + 1)
  BY <1>3 DEF SetClusterVersion, SyncExporter, SyncConsole, CreateConsole, ExporterOf,
       TypeInv, Typed, extras
<1>5. console' \in [version : 0..(MaxChanges + 1), term : BOOLEAN]
  <2>1. \/ console' = console \/ console' = [console EXCEPT !.term = TRUE]
        \/ console' = [version |-> copy.version, term |-> FALSE]
    BY DEF SetClusterVersion, SyncExporter, SyncConsole, CreateConsole, ConsoleOf, extras
  <2>2. console \in [version : 0..(MaxChanges + 1), term : BOOLEAN]
    BY DEF TypeInv, Typed
  <2>3. [console EXCEPT !.term = TRUE] \in [version : 0..(MaxChanges + 1), term : BOOLEAN]
    BY <2>2
  <2>4. [version |-> copy.version, term |-> FALSE]
           \in [version : 0..(MaxChanges + 1), term : BOOLEAN]
    BY <1>3
  <2> QED
    BY <2>1, <2>2, <2>3, <2>4
<1> QED
  BY <1>2, <1>4, <1>5 DEF TypeInv, Typed, SetClusterVersion, SyncExporter, SyncConsole,
       CreateConsole, cluster, budget, AtTyped

LEMMA AnnotateTyped == ASSUME TypeInv, NEW S \in SUBSET WithPod
                       PROVE  Annotated(S) \in [Comps -> Claims]
<1>1. ASSUME NEW c \in S PROVE [claim[c] EXCEPT !.ann = Bool(copy.reclaim)] \in Claims
  <2>1. c \in Comps /\ claim[c] \in Claims /\ claim[c] # NoClaim
    BY DEF WithPod, TypeInv, Typed
  <2>2. Bool(copy.reclaim) \in {"unset", "true", "false"}
    BY DEF Bool
  <2> QED
    BY <2>1, <2>2 DEF Claims
<1>2. ASSUME NEW c \in Comps PROVE claim[c] \in Claims
  BY DEF TypeInv, Typed
<1> QED
  BY <1>1, <1>2 DEF Annotated

LEMMA WritesTyped == ASSUME TypeInv, Annotate \/ WriteStatus PROVE TypeInv'
<1>1. CASE Annotate
  <2>1. at \in Walk /\ Go /\ claim' \in [Comps -> Claims]
    BY <1>1, AnnotateTyped DEF Annotate, Walk
  <2> QED
    BY <1>1, <2>1, ProceedTyped DEF TypeInv, Typed, Annotate, extras, budget, AtTyped
<1>2. CASE WriteStatus
  <2>1. Final \in Status /\ nc \in Object /\ nc.status \in Status
    BY StatusOf, FlagsTyped DEF Final, ReadyCondition, TypeInv, Typed
  <2>2. nc' \in Object /\ nc'.version = nc.version
    BY <1>2, <2>1, ObjectIs DEF WriteStatus, Object
  <2>3. queued' \in BOOLEAN
    BY <1>2 DEF WriteStatus
  <2>4. old' = nc.status /\ EndPass
    BY <1>2 DEF WriteStatus
  <2> QED
    BY <1>2, <2>1, <2>2, <2>3, <2>4, EndTyped
       DEF WriteStatus, TypeInv, Typed, cluster, extras, budget, AtTyped
<1> QED
  BY <1>1, <1>2

LEMMA ReleaseTyped == ASSUME TypeInv,
                             DeleteGraphd \/ DeleteStoraged \/ ListClaims \/ DeleteClaim
                               \/ RemoveFinalizer
                      PROVE  TypeInv'
<1>1. CASE DeleteGraphd \/ DeleteStoraged
  BY <1>1 DEF DeleteGraphd, DeleteStoraged, DeleteWorkload, TypeInv, Typed, extras, budget,
       AtTyped, DeleteSteps
<1>2. CASE ListClaims
  BY <1>2 DEF ListClaims, TypeInv, Typed, cluster, extras, budget, AtTyped, DeleteSteps
<1>3. CASE DeleteClaim
  <2>1. claim' \in [Comps -> Claims]
    <3>1. ASSUME NEW d \in Comps, claim[d] # NoClaim
          PROVE  [claim[d] EXCEPT !.del = TRUE] \in Claims
      BY <3>1 DEF TypeInv, Typed, Claims
    <3>2. \/ claim' = claim
          \/ \E c \in todo : claim' = [claim EXCEPT ![c] =
                IF @ = NoClaim THEN @ ELSE [@ EXCEPT !.del = TRUE]]
      BY <1>3 DEF DeleteClaim
    <3> QED
      BY <3>1, <3>2 DEF TypeInv, Typed
  <2>2. AtTyped' /\ todo' \subseteq Comps
    BY <1>3 DEF DeleteClaim, TypeInv, Typed, AtTyped, DeleteSteps
  <2> QED
    BY <1>3, <2>1, <2>2 DEF DeleteClaim, TypeInv, Typed, extras, budget, AtTyped
<1>4. CASE RemoveFinalizer
  <2>1. nc' \in Object /\ nc'.version = nc.version
    BY <1>4 DEF RemoveFinalizer, TypeInv, Typed, Object
  <2> QED
    BY <1>4, <2>1, EndTyped DEF RemoveFinalizer, TypeInv, Typed, cluster, extras, budget, AtTyped
<1> QED
  BY <1>1, <1>2, <1>3, <1>4

LEMMA FaultTyped == ASSUME TypeInv, Fault PROVE faults' \in 0..MaxFaults /\ changes' = changes
  BY BoundsAssumption DEF TypeInv, Typed, Fault

LEMMA FaultsTyped == ASSUME TypeInv, CallFails \/ Crash \/ (\E c \in Comps : Evict(c))
                     PROVE  TypeInv'
<1>1. CASE CallFails
  <2>1. copy' \in Object /\ AtTyped' /\ err' \in BOOLEAN /\ todo' \subseteq Comps
    <3>1. EndPass \/ (Fail /\ copy' = copy)
      BY <1>1 DEF CallFails
    <3> QED
      BY <3>1, EndTyped DEF Fail, TypeInv, Typed, AtTyped
  <2>2. claim' \in [Comps -> Claims]
    BY <1>1, AnnotateTyped DEF CallFails, TypeInv, Typed
  <2>3. queued' \in BOOLEAN
    BY <1>1 DEF CallFails, TypeInv, Typed
  <2> QED
    BY <1>1, <2>1, <2>2, <2>3, FaultTyped DEF CallFails, TypeInv, Typed, extras, AtTyped
<1>2. CASE Crash
  BY <1>2, EndTyped, FaultTyped DEF Crash, TypeInv, Typed, cluster, extras, AtTyped
<1>3. CASE \E c \in Comps : Evict(c)
  BY <1>3, FaultTyped DEF Evict, TypeInv, Typed, extras, pass, AtTyped
<1> QED
  BY <1>1, <1>2, <1>3

LEMMA KubernetesTyped == ASSUME TypeInv, Kubernetes PROVE TypeInv'
<1>1. CASE ConsoleGone
  BY <1>1, BoundsAssumption DEF ConsoleGone, TypeInv, Typed, cluster, pass, budget, AtTyped
<1> SUFFICES ASSUME NEW c \in Comps,
                    CreatePod(c) \/ PodReady(c) \/ WorkloadGoes(c) \/ ClaimGone(c) \/ Collect(c)
             PROVE  TypeInv'
  BY <1>1 DEF Kubernetes
<1>2. /\ workload' \in [Comps -> {"none", "live", "terminating"}]
      /\ pod' \in [Comps -> {"none", "starting", "ready"}]
      /\ queued' \in BOOLEAN
  BY DEF CreatePod, PodReady, WorkloadGoes, ClaimGone, Collect, TypeInv, Typed
<1>3. claim' \in [Comps -> Claims]
  <2>1. /\ NoClaim \in Claims
        /\ [ann |-> "unset", del |-> FALSE] \in Claims
    BY DEF Claims
  <2> QED
    BY <2>1 DEF CreatePod, PodReady, WorkloadGoes, ClaimGone, Collect, TypeInv, Typed
<1>4. Outside
  BY DEF CreatePod, PodReady, WorkloadGoes, ClaimGone, Collect
<1> QED
  BY <1>2, <1>3, <1>4 DEF Outside, TypeInv, Typed, extras, pass, budget, AtTyped

LEMMA UsersTyped == ASSUME TypeInv,
                           RestoreAdvances \/ Suspend \/ SetReclaim \/ ChangeVersion \/ Delete
                    PROVE  TypeInv'
<1>1. nc \in Object /\ nc.status \in Status
  BY StatusOf DEF TypeInv, Typed
<1>2. CASE RestoreAdvances
  <2>1. nc' \in Object /\ nc'.version = nc.version
    BY <1>1, <1>2 DEF RestoreAdvances, Object
  <2> QED
    BY <1>2, <2>1 DEF RestoreAdvances, TypeInv, Typed, cluster, extras, pass, budget, AtTyped
<1>3. CASE Suspend \/ SetReclaim \/ ChangeVersion \/ Delete
  <2>1. PICK e : Change(e)
    BY <1>3 DEF Suspend, SetReclaim, ChangeVersion, Delete
  <2>2. changes' \in 0..MaxChanges /\ changes' = changes + 1 /\ queued' = TRUE
        /\ old' = nc.status /\ UNCHANGED <<cluster, extras, pass, faults>>
    BY <2>1, BoundsAssumption DEF Change, TypeInv, Typed
  <2>3. nc.version \in 1..(changes + 1) /\ changes \in Nat
    BY <1>1, BoundsAssumption DEF TypeInv, Typed, Object
  <2>4. nc' \in Object /\ nc'.version <= nc.version + 1
    <3>1. CASE Suspend
      <4>1. nc' = [nc EXCEPT !.suspend = ~nc.suspend] /\ (~nc.suspend) \in BOOLEAN
        BY <1>1, <3>1 DEF Suspend, Object
      <4>2. ASSUME NEW b \in BOOLEAN
            PROVE  [nc EXCEPT !.suspend = b] \in Object /\ [nc EXCEPT !.suspend = b].version = nc.version
        BY <1>1 DEF Object
      <4>3. nc' \in Object /\ nc'.version = nc.version
        BY <4>1, <4>2
      <4> QED
        BY <2>3, <4>3
    <3>2. CASE SetReclaim
      BY <1>1, <2>3, <3>2, SwitchAssumption DEF SetReclaim, Object
    <3>3. CASE ChangeVersion
      <4>1. nc.version + 1 \in 1..(MaxChanges + 1)
        BY <2>2, <2>3, BoundsAssumption
      <4> QED
        BY <1>1, <4>1, <2>3, <3>3 DEF ChangeVersion, Object
    <3>4. CASE Delete
      BY <1>1, <2>3, <3>4 DEF Delete, Object
    <3> QED
      BY <1>3, <3>1, <3>2, <3>3, <3>4
  <2>5. nc'.version <= changes' + 1
    BY <2>2, <2>3, <2>4, BoundsAssumption DEF Object
  <2> QED
    BY <1>1, <2>2, <2>4, <2>5 DEF TypeInv, Typed, cluster, extras, pass, AtTyped
<1> QED
  BY <1>2, <1>3

LEMMA TypeInvNext == TypeInv /\ [Next]_vars => TypeInv'
<1> SUFFICES ASSUME TypeInv, [Next]_vars PROVE TypeInv'
  OBVIOUS
<1>1. CASE UNCHANGED vars
  BY <1>1 DEF vars, cluster, extras, pass, budget, TypeInv, Typed, AtTyped
<1>2. CASE Operator
  <2>1. "metad" \in Comps /\ "storaged" \in Comps /\ "graphd" \in Comps
    BY DEF Comps
  <2> QED
    BY <1>2, <2>1, StartTyped, FinalizerTyped, ComponentTyped, AddOnsTyped, WritesTyped,
       ReleaseTyped DEF Operator, ReconcileMetad, ReconcileStoraged, ReconcileGraphd
<1> QED
  BY <1>1, <1>2, KubernetesTyped, UsersTyped, FaultsTyped DEF Next

\* Types for every instance: objects, claims and the pass keep the values that
\* the code gives them, and versions count the changes of users
\* (nebula_cluster_control.go, helper.go)
THEOREM TypeCorrect == Spec => []TypeOK
  BY TypeInvInit, TypeInvNext, TypeIs, PTL DEF Spec

-----------------------------------------------------------------------------
(* The claims of a deleted cluster *)

\* A deletion works on a list without the claims that are to be kept, and
\* nothing marks a claim to be kept while it does.
Unmarked == at = "delClaims" => \A c \in todo : claim[c].ann # "false"
ClaimInv == TypeInv /\ Unmarked

LEMMA ClaimFrame == ASSUME Unmarked, UNCHANGED <<claim, todo>>, at' = at \/ at' # "delClaims"
                    PROVE  Unmarked'
  BY DEF Unmarked

LEMMA WalkAway == ASSUME at \in Walk, Go \/ Fail \/ at' = "annotate" PROVE at' # "delClaims"
  BY AfterTyped DEF Go, Fail, Walk

LEMMA ClaimInvNext == ClaimInv /\ [Next]_vars => ClaimInv'
<1> SUFFICES ASSUME ClaimInv, [Next]_vars PROVE Unmarked'
  BY TypeInvNext DEF ClaimInv
<1> USE DEF ClaimInv
<1>1. CASE UNCHANGED <<pass, claim>>
  BY <1>1, ClaimFrame DEF pass
<1>2. CASE StartPass \/ EndPass
  <2>1. at' # "delClaims" \/ UNCHANGED <<at, claim, todo>>
    BY <1>2 DEF StartPass, EndPass, pass, cluster
  <2> QED
    BY <2>1, ClaimFrame DEF Unmarked
<1>3. CASE at \in Walk /\ (Go \/ Fail \/ at' = "annotate")
  BY <1>3, WalkAway DEF Unmarked
<1>4. CASE DeleteGraphd \/ DeleteStoraged
  BY <1>4 DEF DeleteGraphd, DeleteStoraged, DeleteWorkload, Unmarked
<1>5. CASE ListClaims
  BY <1>5 DEF ListClaims, cluster, Unmarked
<1>6. CASE DeleteClaim
  <2>1. ASSUME NEW c \in todo, claim[c] # NoClaim PROVE [claim[c] EXCEPT !.del = TRUE].ann = claim[c].ann
    BY <2>1 DEF TypeInv, Typed, Claims
  <2>2. CASE at' = "release"
    BY <2>2 DEF Unmarked
  <2>3. CASE at' = "delClaims"
    <3>1. PICK c \in todo : claim' = [claim EXCEPT ![c] =
                IF @ = NoClaim THEN @ ELSE [@ EXCEPT !.del = TRUE]] /\ todo' = todo \ {c}
      BY <1>6, <2>3 DEF DeleteClaim
    <3>2. \A d \in todo' : claim'[d] = claim[d] /\ d \in todo
      BY <3>1 DEF TypeInv, Typed
    <3> QED
      BY <1>6, <3>2 DEF Unmarked, DeleteClaim
  <2> QED
    BY <1>6, <2>2, <2>3 DEF DeleteClaim
<1>7. CASE \E c \in Comps : CreatePod(c) \/ ClaimGone(c)
  <2>1. PICK c \in Comps : CreatePod(c) \/ ClaimGone(c)
    BY <1>7
  <2>2. /\ at' = at /\ todo' = todo
    BY <2>1 DEF CreatePod, ClaimGone, Outside, pass
  <2>3. \/ claim'[c] = claim[c] \/ claim'[c] = NoClaim \/ claim'[c] = [ann |-> "unset", del |-> FALSE]
    BY <2>1 DEF CreatePod, ClaimGone, TypeInv, Typed
  <2>4. \A d \in Comps \ {c} : claim'[d] = claim[d]
    BY <2>1 DEF CreatePod, ClaimGone, TypeInv, Typed
  <2>5. claim'[c].ann \in {claim[c].ann, "none", "unset"}
    BY <2>3 DEF NoClaim
  <2> QED
    BY <2>2, <2>4, <2>5 DEF Unmarked, TypeInv, Typed
<1>8. CASE UNCHANGED vars
  BY <1>1, <1>8 DEF vars, cluster
<1>9. CASE Operator
  <2>1. CASE AddFinalizer
    BY <1>3, <2>1 DEF AddFinalizer, Walk
  <2>2. CASE \E c \in Comps : ReconcileComponent(c)
    BY <1>3, <2>2 DEF ReconcileComponent, Sync, Proceed, Comps, Walk
  <2>3. CASE SetClusterVersion
    BY <1>3, <2>3 DEF SetClusterVersion, Walk
  <2>4. CASE SyncExporter
    BY <1>3, <2>4 DEF SyncExporter, Walk
  <2>5. CASE SyncConsole
    BY <1>3, <2>5 DEF SyncConsole, Walk
  <2>6. CASE CreateConsole
    BY <1>3, <2>6 DEF CreateConsole, Walk
  <2>7. CASE Annotate
    BY <1>3, <2>7 DEF Annotate, Walk
  <2>8. CASE WriteStatus \/ RemoveFinalizer
    BY <1>2, <2>8 DEF WriteStatus, RemoveFinalizer
  <2>9. "metad" \in Comps /\ "storaged" \in Comps /\ "graphd" \in Comps
    BY DEF Comps
  <2> QED
    BY <1>2, <1>4, <1>5, <1>6, <1>9, <2>1, <2>2, <2>3, <2>4, <2>5, <2>6, <2>7, <2>8, <2>9
       DEF Operator, ReconcileMetad, ReconcileStoraged, ReconcileGraphd
<1>10. CASE Kubernetes
  <2>1. CASE ConsoleGone \/ (\E c \in Comps : PodReady(c) \/ WorkloadGoes(c) \/ Collect(c))
    BY <1>1, <2>1 DEF ConsoleGone, PodReady, WorkloadGoes, Collect, Outside, cluster
  <2> QED
    BY <1>7, <1>10, <2>1 DEF Kubernetes
<1>11. CASE CallFails \/ Crash
  <2>1. CASE EndPass
    BY <1>2, <2>1
  <2>2. CASE Fail
    BY <2>2 DEF Fail, Unmarked
  <2> QED
    BY <1>11, <2>1, <2>2 DEF CallFails, Crash
<1>12. CASE RestoreAdvances \/ Suspend \/ SetReclaim \/ ChangeVersion \/ Delete
  <2>1. UNCHANGED <<pass, claim>>
    BY <1>12 DEF RestoreAdvances, Suspend, SetReclaim, ChangeVersion, Delete, Change, cluster
  <2> QED
    BY <1>1, <2>1
<1>13. CASE \E c \in Comps : Evict(c)
  BY <1>1, <1>13 DEF Evict
<1> QED
  BY <1>8, <1>9, <1>10, <1>11, <1>12, <1>13 DEF Next

LEMMA ClaimStep == ASSUME ClaimInv, [Next]_vars PROVE ~TakesAnnotated
<1> SUFFICES ASSUME NEW c \in Comps, claim[c] # NoClaim, claim[c].ann = "false", ~claim[c].del
             PROVE  claim'[c] # NoClaim /\ ~claim'[c].del
  BY DEF TakesAnnotated
<1> USE DEF ClaimInv
<1>1. claim \in [Comps -> Claims] /\ NoClaim.ann = "none"
  BY DEF TypeInv, Typed, NoClaim
<1>2. ASSUME NEW S \in SUBSET WithPod, claim' = Annotated(S)
      PROVE  claim'[c] # NoClaim /\ ~claim'[c].del
  <2>1. CASE c \in S
    <3>1. claim'[c] = [claim[c] EXCEPT !.ann = Bool(copy.reclaim)]
      BY <1>2, <2>1 DEF Annotated
    <3>2. claim'[c].ann = Bool(copy.reclaim) /\ claim'[c].del = claim[c].del
      BY <3>1, <1>1 DEF Claims
    <3> QED
      BY <1>1, <3>2 DEF Bool
  <2>2. CASE c \notin S
    BY <1>2, <2>2 DEF Annotated
  <2> QED
    BY <2>1, <2>2
<1>3. CASE claim'[c] = claim[c]
  BY <1>3
<1>4. CASE Annotate
  BY <1>2, <1>4 DEF Annotate
<1>5. CASE CallFails
  <2>1. claim' = claim \/ \E S \in SUBSET WithPod : claim' = Annotated(S)
    BY <1>5 DEF CallFails
  <2> QED
    BY <1>2, <1>3, <2>1
<1>6. CASE DeleteClaim
  <2>1. c \notin todo
    BY <1>6 DEF DeleteClaim, Unmarked
  <2>2. claim'[c] = claim[c]
    BY <1>1, <1>6, <2>1 DEF DeleteClaim, TypeInv, Typed
  <2> QED
    BY <1>3, <2>2
<1>7. CASE \E d \in Comps : CreatePod(d) \/ ClaimGone(d)
  <2>1. claim'[c] = claim[c]
    BY <1>1, <1>7 DEF CreatePod, ClaimGone
  <2> QED
    BY <1>3, <2>1
<1>8. CASE UNCHANGED claim
  BY <1>8
<1>9. CASE Operator
  <2>1. CASE \E d \in Comps : ReconcileComponent(d)
    BY <1>8, <2>1 DEF ReconcileComponent
  <2>2. Annotate \/ DeleteClaim \/ UNCHANGED claim \/ \E d \in Comps : ReconcileComponent(d)
    BY <1>9 DEF Operator, ReconcileMetad, ReconcileStoraged, ReconcileGraphd, StartPass,
       AddFinalizer, SetClusterVersion, SyncExporter, SyncConsole, CreateConsole, WriteStatus,
       DeleteGraphd, DeleteStoraged, DeleteWorkload, ListClaims, RemoveFinalizer, cluster, Comps
  <2> QED
    BY <1>4, <1>6, <1>8, <2>1, <2>2
<1>10. CASE Kubernetes
  <2>1. CASE ConsoleGone \/ (\E d \in Comps : PodReady(d) \/ WorkloadGoes(d) \/ Collect(d))
    BY <1>8, <2>1 DEF ConsoleGone, PodReady, WorkloadGoes, Collect, cluster
  <2> QED
    BY <1>7, <1>10, <2>1 DEF Kubernetes
<1>11. CASE \/ Crash \/ RestoreAdvances \/ Suspend \/ SetReclaim \/ ChangeVersion \/ Delete
            \/ (\E d \in Comps : Evict(d)) \/ UNCHANGED vars
  BY <1>8, <1>11 DEF Crash, RestoreAdvances, Suspend, SetReclaim, ChangeVersion, Delete, Change,
     Evict, vars, cluster
<1> QED
  BY <1>5, <1>9, <1>10, <1>11 DEF Next

\* TakesAnnotated never happens, in any instance: a claim once marked to be kept
\* outlives the deletion of its cluster (nebula_cluster_control.go
\* updateNebulaCluster, nebula_cluster_controller.go)
THEOREM ClaimsKept == Spec => [][~TakesAnnotated]_vars
<1>1. Init => ClaimInv
  BY TypeInvInit DEF ClaimInv, Unmarked, Init
<1> QED
  BY <1>1, ClaimInvNext, ClaimStep, PTL DEF Spec

-----------------------------------------------------------------------------
(* The order of suspension: what the steps do *)

LEMMA WalkingIs == Walking <=> at \in Walk \union {"status"}
  BY StepsAre DEF Walking
LEMMA WalkingNext == Walking' <=> at' \in Walk \union {"status"}
  BY StepsAre DEF Walking

\* No workload comes up or back
NoNew == \A c \in Comps : /\ workload'[c] = "live" => workload[c] = "live"
                          /\ workload[c] = "none" => workload'[c] = "none"

\* Everybody but the pass
Quietly == /\ UNCHANGED <<at, copy, faults>> /\ NoNew
           /\ nc'.status = nc.status /\ nc'.finalizer = nc.finalizer
           /\ nc'.suspend => nc.suspend \/ "suspend" \in Edits
           /\ nc.life = "gone" => nc'.life = "gone"
           /\ nc'.life = "gone" => nc.life = "gone" \/ ~nc.finalizer
           /\ \/ nc'.restore = nc.restore
              \/ nc.restore = "started" /\ nc'.restore = "metadDone"
              \/ nc.restore = "metadDone" /\ nc'.restore = "storagedDone"
           /\ old' \in {old, nc.status}
\* The read of the cluster, fresh or stale
Reads == /\ at = "idle" /\ nc.life # "gone" /\ nc' = nc /\ workload' = workload
         /\ at' \in {"delGraphd", "finalizer"}
         /\ copy'.suspend = nc.suspend /\ copy'.restore = nc.restore
         /\ copy'.finalizer = nc.finalizer
         /\ \/ copy'.status = nc.status /\ old' = nc.status /\ faults' = faults
            \/ copy'.status = old /\ old' = old /\ faults' = faults + 1
\* The steps that are not about a component
Walks == /\ at \in Walk \ Comps /\ at' \in (Walk \ Comps) \union {"metad", "status"}
         /\ at' # "finalizer"
         /\ at' = "metad" => at = "finalizer" /\ copy'.finalizer
         /\ copy'.status = copy.status /\ copy'.suspend = copy.suspend
         /\ copy'.restore = copy.restore
         /\ nc'.status = nc.status /\ nc'.suspend = nc.suspend
         /\ nc'.restore = nc.restore /\ nc'.life = nc.life
         /\ copy'.finalizer => nc'.finalizer
         /\ nc.life = "gone" => ~nc'.finalizer
         /\ UNCHANGED <<old, workload, faults>>
\* A failed call that ends the pass, a lost pass, and the steps of a deletion
Breaks == /\ at \in Walk /\ at' = "status" /\ faults' = faults + 1
          /\ UNCHANGED <<nc, old, copy, workload>>
Drops == /\ EndPass /\ at # "idle" /\ faults' = faults + 1
         /\ UNCHANGED <<nc, old, workload>>
Suffers == UNCHANGED <<nc, old, at, copy, workload>> /\ faults' = faults + 1
Deletes == /\ at \in DeleteSteps /\ at' \in DeleteSteps /\ NoNew
           /\ UNCHANGED <<nc, old, copy, faults>>
\* The step of a component: what it leaves alone, and its five outcomes
Handles(c) ==
  /\ at = c
  /\ copy'.suspend = copy.suspend /\ copy'.restore = copy.restore
  /\ copy'.finalizer = copy.finalizer
  /\ UNCHANGED <<nc, old, faults>>
  /\ at' = "status" \/ (at' = After(c) /\ ~Gate(c))
  /\ \A d \in Comps \ {c} : /\ copy'.status.phase[d] = copy.status.phase[d]
                            /\ copy'.status.work[d] = copy.status.work[d]
                            /\ workload'[d] = workload[d]
Resumes(c) == /\ ~copy.suspend /\ copy'.status.phase[c] # "Suspend"
              /\ copy'.status.work[c] = copy.status.work[c]
              /\ workload'[c] = workload[c]
Marks(c) == /\ copy.suspend /\ copy.status.phase[c] # "Suspend" /\ CanSuspend(c)
            /\ copy'.status.work[c] = copy.status.work[c]
            /\ workload'[c] = workload[c] /\ (at' = After(c) \/ Gate(c))
Takes(c) == /\ copy.suspend /\ copy.status.phase[c] = "Suspend"
            /\ copy'.status.phase[c] = "Suspend"
            /\ workload'[c] # "live"
            /\ workload[c] = "none" => workload'[c] = "none"
Creates(c) == /\ copy.status.phase[c] # "Suspend" /\ copy'.status.phase[c] # "Suspend"
              /\ copy'.status.work[c] # "nil" /\ at' = "status"
              /\ workload[c] = "none"
Observes(c) == /\ copy.status.phase[c] # "Suspend" /\ copy'.status.phase[c] # "Suspend"
               /\ copy'.status.work[c] # "nil" /\ workload'[c] = workload[c]

LEMMA ObservedIs == ASSUME copy \in Object, NEW c \in Comps, copy.status.phase[c] # "Suspend"
                    PROVE  /\ Observed(c).phase[c] # "Suspend" /\ Observed(c).work[c] # "nil"
                           /\ \A d \in Comps \ {c} :
                                 /\ Observed(c).phase[d] = copy.status.phase[d]
                                 /\ Observed(c).work[d] = copy.status.work[d]
<1>1. copy.status \in Status
  BY StatusOf
<1> QED
  BY <1>1 DEF Observed, Status

LEMMA ComponentDoes == ASSUME TypeInv, NEW c \in Comps, ReconcileComponent(c)
                       PROVE  /\ Handles(c)
                              /\ Resumes(c) \/ Marks(c) \/ Takes(c) \/ Creates(c) \/ Observes(c)
<1>1. copy \in Object /\ copy.status \in Status /\ DOMAIN workload = Comps /\ workload \in [Comps -> {"none", "live", "terminating"}]
  BY StatusOf DEF TypeInv, Typed
<1>2. /\ at = c /\ UNCHANGED <<nc, old, faults>>
  BY DEF ReconcileComponent, budget
<1>3. CASE NeedSuspend(c)
  <2>1. Suspended(c) /\ Proceed(c)
    BY <1>3 DEF ReconcileComponent
  <2>2. \/ Gate(c) /\ at' = "status"
        \/ ~Gate(c) /\ at' = After(c)
    BY <1>2, <2>1 DEF Proceed, Fail, Go
  <2>3. CASE ~copy.suspend /\ IsSuspending(c) /\ SetPhase(c, "Running") /\ UNCHANGED workload
    <3>1. copy' = [copy EXCEPT !.status.phase[c] = "Running"]
      BY <2>3 DEF SetPhase
    <3>2. /\ copy'.suspend = copy.suspend /\ copy'.restore = copy.restore
          /\ copy'.finalizer = copy.finalizer /\ copy'.status.work = copy.status.work
          /\ copy'.status.phase[c] = "Running"
          /\ \A d \in Comps \ {c} : copy'.status.phase[d] = copy.status.phase[d]
      BY <1>1, <3>1 DEF Object, Status
    <3>3. Resumes(c)
      BY <2>3, <3>2 DEF Resumes
    <3>4. Handles(c)
      BY <1>1, <1>2, <2>2, <2>3, <3>2 DEF Handles
    <3> QED
      BY <3>3, <3>4
  <2>4. CASE copy.suspend /\ ~IsSuspending(c) /\ CanSuspend(c) /\ SetPhase(c, "Suspend")
             /\ UNCHANGED workload
    <3>1. copy' = [copy EXCEPT !.status.phase[c] = "Suspend"]
      BY <2>4 DEF SetPhase
    <3>2. /\ copy'.suspend = copy.suspend /\ copy'.restore = copy.restore
          /\ copy'.finalizer = copy.finalizer /\ copy'.status.work = copy.status.work
          /\ \A d \in Comps \ {c} : copy'.status.phase[d] = copy.status.phase[d]
      BY <1>1, <3>1 DEF Object, Status
    <3>3. Marks(c)
      BY <2>2, <2>4, <3>2 DEF Marks, IsSuspending
    <3>4. Handles(c)
      BY <1>1, <1>2, <2>2, <2>4, <3>2 DEF Handles
    <3> QED
      BY <3>3, <3>4
  <2>5. CASE /\ copy.suspend /\ IsSuspending(c)
             /\ workload' = [workload EXCEPT ![c] = IF @ = "none" THEN @ ELSE "terminating"]
             /\ copy' = [copy EXCEPT !.status.work[c] = "nil"]
    <3>2. /\ copy'.suspend = copy.suspend /\ copy'.restore = copy.restore
          /\ copy'.finalizer = copy.finalizer /\ copy'.status.phase = copy.status.phase
          /\ \A d \in Comps \ {c} : copy'.status.work[d] = copy.status.work[d]
      <4>1. copy' = [copy EXCEPT !.status.work[c] = "nil"]
        BY <2>5
      <4> QED
        BY <1>1, <4>1 DEF Object, Status
    <3>3. Takes(c)
      BY <1>1, <2>2, <2>5, <3>2 DEF Takes, IsSuspending
    <3>4. Handles(c)
      BY <1>1, <1>2, <2>2, <2>5, <3>2 DEF Handles
    <3> QED
      BY <3>3, <3>4
  <2> QED
    BY <2>1, <2>3, <2>4, <2>5 DEF Suspended
<1>4. CASE ~NeedSuspend(c)
  <2>1. Sync(c) /\ copy.status.phase[c] # "Suspend"
    BY <1>4 DEF ReconcileComponent, NeedSuspend, IsSuspending
  <2>2. at' = "status" \/ (at' = After(c) /\ ~Gate(c))
    BY <1>2, <2>1 DEF Sync, Proceed, Fail, Go
  <2>3. CASE workload[c] = "none"
    <3>1. /\ workload' = [workload EXCEPT ![c] = "live"]
          /\ copy' = [copy EXCEPT !.status.work[c] = "empty"] /\ at' = "status"
      BY <2>1, <2>3 DEF Sync, Fail
    <3>2. /\ copy'.suspend = copy.suspend /\ copy'.restore = copy.restore
          /\ copy'.finalizer = copy.finalizer /\ copy'.status.phase = copy.status.phase
          /\ copy'.status.work[c] = "empty"
          /\ \A d \in Comps \ {c} : copy'.status.work[d] = copy.status.work[d]
      <4>1. copy' = [copy EXCEPT !.status.work[c] = "empty"]
        BY <3>1
      <4> QED
        BY <1>1, <4>1 DEF Object, Status
    <3>3. Creates(c)
      BY <2>1, <2>3, <3>1, <3>2 DEF Creates
    <3>4. Handles(c)
      BY <1>1, <1>2, <3>1, <3>2 DEF Handles
    <3> QED
      BY <3>3, <3>4
  <2>4. CASE workload[c] # "none"
    <3>1. /\ workload' = workload
          /\ \/ copy' = [copy EXCEPT !.status = Observed(c)]
             \/ copy' = [copy EXCEPT !.status = [Observed(c) EXCEPT !.hostsAdded = TRUE]]
      BY <2>1, <2>4 DEF Sync
    <3>2. /\ copy'.suspend = copy.suspend /\ copy'.restore = copy.restore
          /\ copy'.finalizer = copy.finalizer
          /\ copy'.status.phase = Observed(c).phase /\ copy'.status.work = Observed(c).work
      <4> DEFINE o == Observed(c)
                 a == [o EXCEPT !.hostsAdded = TRUE]
      <4>1. PICK s : copy' = [copy EXCEPT !.status = s] /\ (s = o \/ s = a)
        BY <3>1
      <4>3. o \in Status
        BY <1>1, ObservedTyped
      <4> HIDE DEF o
      <4>2. s.phase = o.phase /\ s.work = o.work
        BY <4>1, <4>3 DEF Status
      <4> USE DEF o
      <4> QED
        BY <1>1, <4>1, <4>2 DEF Object
    <3>3. Observes(c) /\ Handles(c)
      BY <1>1, <1>2, <2>1, <2>2, <3>1, <3>2, ObservedIs DEF Observes, Handles
    <3> QED
      BY <3>3
  <2> QED
    BY <2>3, <2>4
<1> QED
  BY <1>3, <1>4

LEMMA ReadDoes == ASSUME TypeInv, StartPass PROVE Quietly \/ Reads
<1>1. CASE nc.life = "gone" /\ UNCHANGED <<old, pass, budget>>
  BY <1>1 DEF StartPass, pass, budget, cluster, Quietly, NoNew
<1>2. CASE nc.life # "gone"
  <2>1. /\ at = "idle" /\ nc' = nc /\ workload' = workload
        /\ at' \in {"delGraphd", "finalizer"}
    BY <1>2 DEF StartPass, cluster
  <2>2. nc \in Object
    BY DEF TypeInv, Typed
  <2>3. CASE copy' = nc /\ old' = nc.status /\ UNCHANGED budget
    BY <1>2, <2>1, <2>3 DEF Reads, budget
  <2>4. CASE copy' = [nc EXCEPT !.status = old] /\ Fault /\ old' = old
    BY <1>2, <2>1, <2>2, <2>4 DEF Reads, Fault, Object
  <2> QED
    BY <1>2, <2>3, <2>4 DEF StartPass
<1> QED
  BY <1>1, <1>2 DEF StartPass

LEMMA WalkDoes == ASSUME TypeInv, Held,
                         AddFinalizer \/ SetClusterVersion \/ SyncExporter \/ SyncConsole
                           \/ CreateConsole \/ Annotate
                  PROVE  Walks
<1>1. /\ at \in Walk \ Comps /\ at' \in (Walk \ Comps) \union {"metad", "status"}
      /\ at' # "finalizer" /\ UNCHANGED <<old, workload, faults>>
      /\ at' = "metad" => at = "finalizer" /\ AddFinalizer /\ at' # "status"
  BY Afterwards DEF AddFinalizer, SetClusterVersion, SyncExporter, SyncConsole, CreateConsole,
     Annotate, Go, Fail, Walk, Comps, cluster, budget
<1>2. CASE UNCHANGED <<nc, copy>>
  <2>1. at' = "metad" => copy.finalizer
    BY <1>1, <1>2 DEF AddFinalizer, Fail, TypeInv, Typed, Object
  <2> QED
    BY <1>1, <1>2, <2>1 DEF Walks, Held
<1>3. CASE AddFinalizer /\ ~copy.finalizer /\ nc.life = "live"
           /\ nc' = [nc EXCEPT !.finalizer = TRUE] /\ copy' = [copy EXCEPT !.finalizer = TRUE]
  <2>1. nc \in Object /\ copy \in Object
    BY DEF TypeInv, Typed
  <2>2. /\ copy'.status = copy.status /\ copy'.suspend = copy.suspend
        /\ copy'.restore = copy.restore /\ copy'.finalizer
    BY <1>3, <2>1 DEF Object
  <2>3. /\ nc'.status = nc.status /\ nc'.suspend = nc.suspend
        /\ nc'.restore = nc.restore /\ nc'.life = nc.life /\ nc'.finalizer
    BY <1>3, <2>1 DEF Object
  <2> QED
    BY <1>1, <1>3, <2>2, <2>3 DEF Walks
<1> QED
  BY <1>2, <1>3 DEF AddFinalizer, SetClusterVersion, SyncExporter, SyncConsole, CreateConsole,
     Annotate

LEMMA DeletionDoes == ASSUME TypeInv, DeleteGraphd \/ DeleteStoraged \/ ListClaims \/ DeleteClaim
                      PROVE  Deletes
<1>1. /\ at \in DeleteSteps /\ at' \in DeleteSteps /\ UNCHANGED <<nc, old, copy, faults>>
  BY DEF DeleteGraphd, DeleteStoraged, DeleteWorkload, ListClaims, DeleteClaim, DeleteSteps, budget
<1>2. NoNew
  BY DEF DeleteGraphd, DeleteStoraged, DeleteWorkload, ListClaims, DeleteClaim, cluster, NoNew,
     TypeInv, Typed
<1> QED
  BY <1>1, <1>2 DEF Deletes

LEMMA FaultDoes == ASSUME TypeInv, CallFails \/ Crash \/ (\E c \in Comps : Evict(c))
                   PROVE  Breaks \/ Drops \/ Suffers
<1>1. CASE CallFails
  <2>1. at \in DeleteSteps \union {"status"} \/ at \in Walk
    BY <1>1 DEF CallFails, TypeInv, Typed, AtTyped
  <2>2. CASE at \in DeleteSteps \union {"status"}
    BY <1>1, <2>2 DEF CallFails, Fault, Drops, DeleteSteps
  <2>3. CASE at \notin DeleteSteps \union {"status"}
    BY <1>1, <2>1, <2>3 DEF CallFails, Fault, Fail, Breaks
  <2> QED
    BY <2>2, <2>3
<1>2. CASE Crash
  BY <1>2 DEF Crash, Fault, Drops, cluster
<1>3. CASE \E c \in Comps : Evict(c)
  BY <1>3 DEF Evict, Fault, pass, Suffers
<1> QED
  BY <1>1, <1>2, <1>3

LEMMA OthersDo == ASSUME TypeInv, Kubernetes \/ RestoreAdvances \/ Suspend \/ SetReclaim
                           \/ ChangeVersion \/ Delete
                  PROVE  Quietly
<1>1. nc \in Object /\ workload \in [Comps -> {"none", "live", "terminating"}]
  BY DEF TypeInv, Typed
<1>2. CASE Kubernetes
  <2>1. UNCHANGED <<at, copy, faults, nc, old>>
    BY <1>2 DEF Kubernetes, ConsoleGone, CreatePod, PodReady, WorkloadGoes, ClaimGone, Collect,
       Outside, pass, budget
  <2>2. NoNew
    BY <1>1, <1>2 DEF Kubernetes, ConsoleGone, CreatePod, PodReady, WorkloadGoes, ClaimGone,
       Collect, cluster, NoNew
  <2> QED
    BY <2>1, <2>2 DEF Quietly
<1>3. CASE RestoreAdvances
  <2>1. UNCHANGED <<at, copy, faults, old, workload>>
    BY <1>3 DEF RestoreAdvances, pass, budget, cluster
  <2>2. /\ nc'.status = nc.status /\ nc'.finalizer = nc.finalizer /\ nc'.suspend = nc.suspend
        /\ nc'.life = nc.life
        /\ \/ nc.restore = "started" /\ nc'.restore = "metadDone"
           \/ nc.restore = "metadDone" /\ nc'.restore = "storagedDone"
    BY <1>1, <1>3 DEF RestoreAdvances, Object
  <2> QED
    BY <2>1, <2>2 DEF Quietly, NoNew
<1>4. CASE Suspend \/ SetReclaim \/ ChangeVersion \/ Delete
  <2>1. UNCHANGED <<at, copy, faults, workload>> /\ old' = nc.status /\ nc.life = "live"
    BY <1>4 DEF Suspend, SetReclaim, ChangeVersion, Delete, Change, pass, cluster
  <2>2. /\ nc'.status = nc.status /\ nc'.finalizer = nc.finalizer /\ nc'.restore = nc.restore
    BY <1>1, <1>4 DEF Suspend, SetReclaim, ChangeVersion, Delete, Object
  <2>3. nc'.suspend => nc.suspend \/ "suspend" \in Edits
    BY <1>1, <1>4 DEF Suspend, SetReclaim, ChangeVersion, Delete, Change, Object
  <2>4. nc'.life = "gone" => ~nc.finalizer
    BY <1>1, <1>4, <2>1 DEF Suspend, SetReclaim, ChangeVersion, Delete, Change, Object
  <2> QED
    BY <2>1, <2>2, <2>3, <2>4 DEF Quietly, NoNew
<1> QED
  BY <1>2, <1>3, <1>4

\* Every step is one of these
LEMMA StepDoes ==
  ASSUME TypeInv, Held, [Next]_vars
  PROVE  \/ Quietly \/ Reads \/ Walks \/ Breaks \/ Drops \/ Deletes \/ WriteStatus
         \/ RemoveFinalizer \/ Suffers
         \/ \E c \in Comps : ReconcileComponent(c)
<1>1. CASE UNCHANGED vars
  BY <1>1 DEF vars, cluster, pass, budget, Quietly, NoNew
<1>2. "metad" \in Comps /\ "storaged" \in Comps /\ "graphd" \in Comps
  BY DEF Comps
<1> QED
  BY <1>1, <1>2, ReadDoes, WalkDoes, DeletionDoes, FaultDoes, OthersDo
     DEF Next, Operator, ReconcileMetad, ReconcileStoraged, ReconcileGraphd

-----------------------------------------------------------------------------
(* The order of suspension: the invariant *)

LEMMA UsersAre == \A c \in Comps : Before(c) \subseteq Comps
  BY DEF Before

Inv == TypeInv /\ OrderInv

LEMMA InvInit == Init => Inv
<1> SUFFICES ASSUME Init PROVE OrderInv
  BY TypeInvInit DEF Inv
<1>1. /\ ~nc.suspend /\ ~copy.suspend /\ ~copy.finalizer /\ ~nc.finalizer
      /\ nc.life = "live"
      /\ nc.status = InitStatus /\ copy.status = InitStatus /\ old = InitStatus
  BY DEF Init, Created
<1>2. \A c \in Comps : InitStatus.phase[c] = "" /\ workload[c] = "none"
  BY DEF Init, InitStatus
<1>3. at = "idle" /\ ~Walking /\ at \notin Comps
  BY WalkingIs DEF Init, Walk, Comps
<1>4. Asked /\ Held
  BY <1>1, <1>3 DEF Asked, Held
<1>5. GatesKept
  BY <1>2, <1>3 DEF GatesKept, GatesHold, Comps
<1>6. InOrder /\ Resumed
  BY <1>1, <1>2 DEF InOrder, Ordered, Resumed
<1>7. Faultless /\ OneFault
  BY <1>1, <1>2, <1>3 DEF Faultless, OneFault, Unused, Truthful
<1> QED
  BY <1>4, <1>5, <1>6, <1>7 DEF OrderInv

LEMMA QuietKeeps == ASSUME Inv, Quietly PROVE OrderInv'
<1> USE DEF Inv, OrderInv
<1>1. Asked' /\ Held'
  BY DEF Quietly, Asked, Held
<1>2. GatesKept'
  BY DEF Quietly, NoNew, GatesKept, GatesHold, Walking, Comps
<1>3. InOrder' /\ Resumed'
  BY DEF Quietly, InOrder, Resumed, Ordered, Handled
<1>4. Faultless'
  BY UsersAre DEF Quietly, NoNew, Faultless, Unused, Truthful, Walking, Later
<1>5. OneFault'
  BY UsersAre DEF Quietly, NoNew, OneFault, Unused, UnusedSoon, TakenNext, Handled, Walking
<1> QED
  BY <1>1, <1>2, <1>3, <1>4, <1>5

LEMMA ReadKeeps == ASSUME Inv, Reads PROVE OrderInv'
<1> USE DEF Inv, OrderInv
<1>1. /\ ~Walking /\ at' \notin Comps /\ (Walking' <=> at' = "finalizer") /\ at' # "idle"
  BY WalkingIs, WalkingNext DEF Reads, Walk, Comps
<1>2. Asked' /\ Held'
  BY <1>1 DEF Reads, Asked, Held
<1>3. GatesKept'
  BY <1>1 DEF Reads, GatesKept, GatesHold
<1>4. InOrder' /\ Resumed'
  BY <1>1 DEF Reads, InOrder, Resumed, Ordered, Handled
<1>5. CASE copy'.status = nc.status /\ old' = nc.status /\ faults' = faults
  <2>1. Faultless'
    BY <1>1, <1>5 DEF Reads, Faultless, Unused, Truthful, Later
  <2>2. OneFault'
    BY <1>1, <1>5 DEF Reads, OneFault, Unused, UnusedSoon
  <2> QED
    BY <1>2, <1>3, <1>4, <2>1, <2>2
<1>6. CASE copy'.status = old /\ old' = old /\ faults' = faults + 1
  <2>1. faults \in Nat /\ (faults' <= 1 => faults = 0) /\ faults' # 0
    BY <1>6, BoundsAssumption DEF TypeInv, Typed
  <2>2. Faultless'
    BY <2>1 DEF Faultless
  <2>3. OneFault'
    BY <1>1, <1>6, <2>1 DEF Reads, OneFault, Unused, UnusedSoon, Faultless
  <2> QED
    BY <1>2, <1>3, <1>4, <2>2, <2>3
<1> QED
  BY <1>5, <1>6 DEF Reads

LEMMA WalkKeeps == ASSUME Inv, Walks PROVE OrderInv'
<1> USE DEF Inv, OrderInv
<1>1. /\ Walking /\ Walking' /\ at \notin Comps /\ at' \notin {"storaged", "graphd"}
      /\ at' \in Comps => at' = "metad" /\ copy'.finalizer
      /\ at # "idle" /\ at' # "finalizer"
  BY WalkingIs, WalkingNext DEF Walks, Walk, Comps
<1>2. Asked' /\ Held'
  BY <1>1 DEF Walks, Asked, Held
<1>3. GatesKept'
  BY <1>1 DEF Walks, GatesKept, GatesHold, Comps
<1>4. InOrder'
  BY DEF Walks, InOrder, Ordered
<1>5. \A c \in Comps : ~Handled(c)'
  BY <1>1, Ranks DEF Handled, Comps
<1>6. Resumed'
  BY <1>5 DEF Resumed
<1>7. Faultless'
  <2>1. at' = "metad" => at = "finalizer"
    BY DEF Walks
  <2> QED
    BY <1>1, <2>1 DEF Walks, Faultless, Unused, Truthful, Later
<1>8. OneFault'
  BY <1>1 DEF Walks, OneFault, UnusedSoon, TakenNext, Handled
<1> QED
  BY <1>2, <1>3, <1>4, <1>6, <1>7, <1>8

LEMMA FaultKeeps == ASSUME Inv, Breaks \/ Drops \/ Suffers PROVE OrderInv'
<1> USE DEF Inv, OrderInv
<1>1. faults \in Nat /\ faults' = faults + 1 /\ (faults' <= 1 => faults = 0) /\ faults' # 0
  BY BoundsAssumption DEF TypeInv, Typed, Breaks, Drops, Suffers
<1>2. Faultless'
  BY <1>1 DEF Faultless
<1>3. CASE Breaks
  <2>1. Walking /\ Walking' /\ at' \notin Comps
    BY <1>3, WalkingIs, WalkingNext DEF Breaks, Comps
  <2>2. Asked' /\ Held' /\ InOrder' /\ Resumed' /\ GatesKept'
    BY <1>3, <2>1 DEF Breaks, Asked, Held, InOrder, Ordered, Resumed, Handled, GatesKept, GatesHold
  <2>3. OneFault'
    BY <1>1, <1>3, <2>1 DEF Breaks, OneFault, UnusedSoon, Faultless, Unused
  <2> QED
    BY <1>2, <2>2, <2>3
<1>4. CASE Drops
  <2>1. ~Walking' /\ at' \notin Comps /\ copy' = Created
    BY <1>4, WalkingNext DEF Drops, EndPass, Comps, Walk
  <2>2. Asked' /\ Held'
    BY <1>4, <2>1 DEF Drops, Asked, Held, Created
  <2>3. InOrder' /\ Resumed'
    BY <1>4, <2>1 DEF Drops, InOrder, Ordered, Resumed, Handled, Created, InitStatus
  <2>4. GatesKept'
    BY <1>4, <2>1 DEF Drops, GatesKept, GatesHold, Comps
  <2>5. OneFault'
    BY <1>1, <1>4, <2>1 DEF Drops, OneFault, Faultless, Unused
  <2> QED
    BY <1>2, <2>2, <2>3, <2>4, <2>5
<1>5. CASE Suffers
  <2>1. Asked' /\ Held' /\ InOrder' /\ Resumed' /\ GatesKept'
    BY <1>5 DEF Suffers, Asked, Held, InOrder, Ordered, Resumed, Handled, GatesKept, GatesHold,
       Walking
  <2>2. OneFault'
    BY <1>1, <1>5 DEF Suffers, OneFault, UnusedSoon, Unused, TakenNext, Handled, Walking
  <2> QED
    BY <1>2, <2>1, <2>2
<1> QED
  BY <1>3, <1>4, <1>5

LEMMA DeletionKeeps == ASSUME Inv, Deletes \/ RemoveFinalizer PROVE OrderInv'
<1> USE DEF Inv, OrderInv
<1>1. CASE Deletes
  <2>1. ~Walking /\ ~Walking' /\ at \notin Comps /\ at' \notin Comps /\ at # "idle"
        /\ at' # "finalizer"
    BY <1>1, WalkingIs, WalkingNext DEF Deletes, DeleteSteps, Walk, Comps
  <2>2. Asked' /\ Held' /\ InOrder' /\ Resumed'
    BY <1>1, <2>1 DEF Deletes, Asked, Held, InOrder, Ordered, Resumed, Handled
  <2>3. GatesKept'
    BY <1>1, <2>1 DEF Deletes, NoNew, GatesKept, GatesHold, Comps
  <2>4. Faultless'
    BY <1>1, <2>1, UsersAre DEF Deletes, NoNew, Faultless, Unused, Truthful
  <2>5. OneFault'
    BY <1>1, <2>1, UsersAre DEF Deletes, NoNew, OneFault, Unused
  <2> QED
    BY <2>2, <2>3, <2>4, <2>5
<1>2. CASE RemoveFinalizer
  <2>1. /\ ~Walking /\ ~Walking' /\ at' \notin Comps /\ at' = "idle" /\ copy' = Created
        /\ UNCHANGED <<old, workload, faults>>
    BY <1>2, WalkingIs, WalkingNext DEF RemoveFinalizer, EndPass, Walk, Comps, cluster, budget
  <2>2. nc \in Object
    BY DEF TypeInv, Typed
  <2>3. /\ nc'.status = nc.status /\ nc'.suspend = nc.suspend /\ nc'.restore = nc.restore
        /\ ~nc'.finalizer /\ (nc'.life # "gone" => nc.life # "gone")
    BY <1>2, <2>2 DEF RemoveFinalizer, Object
  <2>4. Asked' /\ Held'
    BY <2>1, <2>3 DEF Asked, Held, Created
  <2>5. InOrder' /\ Resumed'
    BY <2>1, <2>3 DEF InOrder, Ordered, Resumed, Handled, Created, InitStatus
  <2>6. GatesKept'
    BY <2>1, <2>3 DEF GatesKept, GatesHold
  <2>7. Faultless'
    BY <2>1, <2>3 DEF Faultless, Unused, Truthful, Comps
  <2>8. OneFault'
    BY <2>1, <2>3 DEF OneFault, Unused
  <2> QED
    BY <2>4, <2>5, <2>6, <2>7, <2>8
<1> QED
  BY <1>1, <1>2

LEMMA WriteKeeps == ASSUME Inv, WriteStatus PROVE OrderInv'
<1> USE DEF Inv, OrderInv
<1>1. /\ Walking /\ ~Walking' /\ at \notin Comps /\ at' \notin Comps /\ at' = "idle" /\ at # "idle"
      /\ copy' = Created /\ UNCHANGED <<workload, faults>> /\ old' = nc.status
  BY WalkingIs, WalkingNext DEF WriteStatus, EndPass, Walk, Comps, cluster, budget
<1>2. nc \in Object /\ copy.status \in Status
  BY StatusOf DEF TypeInv, Typed
<1>3. Final.phase = copy.status.phase /\ Final.work = copy.status.work
  BY <1>2 DEF Final, Status
<1>4. /\ nc'.suspend = nc.suspend /\ nc'.restore = nc.restore /\ nc'.life = nc.life
      /\ nc'.finalizer = nc.finalizer
      /\ \/ nc.life = "gone" /\ nc'.status = nc.status
         \/ nc.life # "gone" /\ nc'.status = Final
  BY <1>2 DEF WriteStatus, Object
<1>5. Asked' /\ Held'
  BY <1>1, <1>4 DEF Asked, Held, Created
<1>6. GatesKept'
  BY <1>1, <1>4 DEF GatesKept, GatesHold, Comps
<1>7. InOrder'
  <2>1. Ordered(Final)
    BY <1>3 DEF InOrder, Ordered
  <2>2. Ordered(nc'.status)
    BY <1>4, <2>1 DEF InOrder, Ordered
  <2>3. Ordered(copy'.status)
    BY <1>1 DEF Ordered, Created, InitStatus
  <2> QED
    BY <1>1, <2>2, <2>3 DEF InOrder, Ordered
<1>8. Resumed'
  BY <1>1 DEF Resumed, Handled
<1>9. Faultless'
  BY <1>1, <1>3, <1>4 DEF Faultless, Unused, Truthful, Comps
<1>10. OneFault'
  BY <1>1, <1>3, <1>4 DEF OneFault, UnusedSoon, TakenNext, Handled, Unused
<1> QED
  BY <1>5, <1>6, <1>7, <1>8, <1>9, <1>10

\* Who comes first in a pass
LEMMA RanksOrder == ASSUME NEW c \in Comps, NEW d \in Comps
                    PROVE  /\ Rank(c) \in Nat /\ (Rank(c) = Rank(d) => c = d)
                           /\ d \in Before(c) <=> Rank(c) < Rank(d)
  BY Ranks, Users DEF Comps

LEMMA AfterRanks == ASSUME NEW c \in Comps, After(c) \in Comps
                    PROVE  Rank(After(c)) = Rank(c) + 1
  BY Ranks, Afterwards DEF Comps

LEMMA HandleKeeps == ASSUME Inv, NEW c \in Comps, ReconcileComponent(c) PROVE OrderInv'
<1> USE DEF Inv, OrderInv
<1>1. Handles(c) /\ (Resumes(c) \/ Marks(c) \/ Takes(c) \/ Creates(c) \/ Observes(c))
  BY ComponentDoes
<1>2. /\ at = c /\ at \in Comps /\ Walking /\ Walking' /\ at # "idle" /\ at' # "idle"
      /\ at' # "finalizer"
  BY <1>1, WalkingIs, WalkingNext, Afterwards DEF Handles, Walk, Comps
<1>3. at' \in Comps => at' = After(c) /\ ~Gate(c) /\ Rank(at') = Rank(c) + 1
  BY <1>1, AfterRanks DEF Handles, Comps
<1>4. Asked' /\ Held'
  BY <1>1, <1>2 DEF Handles, Asked, Held
<1>5. GatesKept'
  <2>1. c = "storaged" => copy.restore # "started" /\ nc.restore # "started"
    BY <1>2 DEF GatesKept, Comps
  <2>2. c = "graphd" => /\ copy.restore \notin {"started", "metadDone"}
                        /\ nc.restore \notin {"started", "metadDone"}
    BY <1>2 DEF GatesKept, Comps
  <2>3. /\ nc.restore = "started" => workload'["storaged"] = "none"
        /\ nc.restore \in {"started", "metadDone"} => workload'["graphd"] = "none"
        /\ copy.restore = "started" => workload'["storaged"] = "none"
        /\ copy.restore \in {"started", "metadDone"} => workload'["graphd"] = "none"
    BY <1>1, <1>2, <2>1, <2>2 DEF GatesKept, GatesHold, Handles, Comps
  <2>4. /\ at' \in Comps \ {"metad"} => copy.restore # "started"
        /\ at' = "graphd" => copy.restore # "metadDone"
    BY <1>2, <1>3, <2>1, Afterwards DEF Gate, Comps
  <2> QED
    BY <1>1, <1>2, <2>3, <2>4 DEF GatesKept, GatesHold, Handles
<1>6. \A x \in Comps : Handled(x) <=> Rank(x) < Rank(c)
  BY <1>2 DEF Handled
<1>7. Ordered(copy'.status)
  <2> SUFFICES ASSUME NEW x \in Comps, copy'.status.phase[x] = "Suspend", NEW d \in Before(x)
               PROVE  copy'.status.phase[d] = "Suspend"
    BY DEF Ordered
  <2>1. d \in Comps /\ d # x /\ Rank(x) < Rank(d)
    BY UsersAre, RanksOrder
  <2>2. CASE x = c
    <3>1. copy.status.phase[d] = "Suspend"
      BY <1>1, <2>1, <2>2 DEF Resumes, Marks, Takes, Creates, Observes, CanSuspend, IsSuspended,
         IsSuspending, InOrder, Ordered
    <3> QED
      BY <1>1, <2>1, <2>2, <3>1 DEF Handles
  <2>3. CASE x # c
    <3>1. copy.status.phase[x] = "Suspend" /\ copy.status.phase[d] = "Suspend"
      BY <1>1, <2>3 DEF Handles, InOrder, Ordered
    <3>2. CASE d = c
      <4>1. Handled(x)
        BY <1>6, <2>1, <3>2
      <4> QED
        BY <1>1, <3>1, <3>2, <4>1 DEF Resumes, Marks, Takes, Creates, Observes, Resumed
    <3>3. CASE d # c
      BY <1>1, <2>1, <3>1, <3>3 DEF Handles
    <3> QED
      BY <3>2, <3>3
  <2> QED
    BY <2>2, <2>3
<1>8. InOrder'
  BY <1>1, <1>7 DEF Handles, InOrder, Ordered
<1>9. Resumed'
  <2> SUFFICES ASSUME ~copy'.suspend, NEW x \in Comps, Handled(x)'
               PROVE  copy'.status.phase[x] # "Suspend"
    BY DEF Resumed
  <2>1. at' \in Comps /\ Rank(x) < Rank(c) + 1
    BY <1>3 DEF Handled
  <2>2. x = c \/ Handled(x)
    BY <1>6, <2>1, RanksOrder
  <2> QED
    BY <1>1, <2>2 DEF Handles, Resumes, Marks, Takes, Creates, Observes, Resumed
<1>10. ASSUME faults = 0, NEW x \in Comps
       PROVE  /\ nc.status.phase[x] = "Suspend" => \A d \in Before(x) : workload'[d] # "live"
              /\ copy'.status.phase[x] = "Suspend" => \A d \in Before(x) : workload'[d] # "live"
              /\ copy'.status.work[x] = "nil" => workload'[x] # "live"
  <2>1. \A d \in Before(x) : d \in Comps /\ d # x
    BY UsersAre, RanksOrder
  <2>2. copy.status.phase[c] = nc.status.phase[c] /\ Truthful(copy.status) /\ Unused(copy.status)
        /\ Unused(nc.status)
    BY <1>2, <1>10, RanksOrder DEF Faultless, Later
  <2>3. ASSUME nc.status.phase[x] = "Suspend", NEW d \in Before(x) PROVE workload'[d] # "live"
    <3>1. nc.status.phase[d] = "Suspend" /\ workload[d] # "live"
      BY <2>2, <2>3 DEF InOrder, Ordered, Unused
    <3> QED
      BY <1>1, <2>1, <2>2, <3>1 DEF Handles, Resumes, Marks, Takes, Creates, Observes
  <2>4. ASSUME copy'.status.phase[x] = "Suspend", NEW d \in Before(x) PROVE workload'[d] # "live"
    <3>1. workload[d] # "live"
      <4>1. CASE copy.status.phase[x] = "Suspend"
        BY <2>2, <4>1 DEF Unused
      <4>2. CASE copy.status.phase[x] # "Suspend"
        <5>1. x = c /\ Marks(c)
          BY <1>1, <2>4, <4>2 DEF Handles, Resumes, Takes, Creates, Observes
        <5>2. copy.status.work[d] = "nil"
          BY <5>1 DEF Marks, CanSuspend, IsSuspended
        <5> QED
          BY <2>1, <2>2, <5>2 DEF Truthful
      <4> QED
        BY <4>1, <4>2
    <3>2. copy'.status.phase[d] = "Suspend"
      BY <1>7, <2>4 DEF Ordered
    <3> QED
      BY <1>1, <2>1, <3>1, <3>2 DEF Handles, Resumes, Marks, Takes, Creates, Observes
  <2>5. copy'.status.work[x] = "nil" => workload'[x] # "live"
    BY <1>1, <2>2 DEF Handles, Resumes, Marks, Takes, Creates, Observes, Truthful
  <2> QED
    BY <2>3, <2>4, <2>5
<1>11. Faultless'
  <2> SUFFICES ASSUME faults' = 0 PROVE Faultless'
    BY DEF Faultless
  <2>1. faults = 0 /\ old' = old /\ nc' = nc /\ old = nc.status
    BY <1>1, <1>2 DEF Handles, Faultless
  <2>2. Unused(nc.status)' /\ Unused(old)' /\ Truthful(copy.status)' /\ Unused(copy.status)'
    BY <1>10, <2>1 DEF Unused, Truthful
  <2>3. ASSUME at' \in Comps, NEW x \in Comps, Later(x)'
        PROVE  copy'.status.phase[x] = nc'.status.phase[x]
    <3>1. Rank(c) + 1 <= Rank(x)
      BY <1>3, <2>3 DEF Later
    <3>2. x # c /\ Later(x)
      BY <1>2, <3>1, RanksOrder DEF Later
    <3> QED
      BY <1>1, <1>2, <2>1, <3>2 DEF Handles, Faultless
  <2> QED
    BY <1>2, <2>1, <2>2, <2>3 DEF Faultless
<1>12. OneFault'
  <2> SUFFICES ASSUME faults <= 1, NEW x \in Comps, copy'.status.phase[x] = "Suspend",
                      NEW d \in Before(x), workload'[d] = "live"
               PROVE  TakenNext(x, d)'
    BY <1>1, <1>2 DEF OneFault, UnusedSoon, Handles
  <2>1. d \in Comps /\ d # x /\ Rank(x) < Rank(d) /\ UnusedSoon
    BY <1>2, UsersAre, RanksOrder DEF OneFault
  <2>2. Rank(x) \in Nat /\ Rank(d) \in Nat /\ Rank(c) \in Nat
    BY <2>1, RanksOrder
  <2>3. copy'.status.phase[d] = "Suspend"
    BY <1>7 DEF Ordered
  <2>4. workload[d] = "live"
    BY <1>1, <2>1, <2>3 DEF Handles, Resumes, Marks, Takes, Creates, Observes
  <2>5. CASE copy.status.phase[x] = "Suspend"
    <3>1. copy.suspend /\ Rank(x) < Rank(c) /\ Rank(c) <= Rank(d)
      BY <1>2, <1>6, <2>1, <2>4, <2>5 DEF UnusedSoon, TakenNext
    <3>2. c \in Before(x)
      BY <3>1, RanksOrder
    <3>3. copy.status.phase[c] = "Suspend"
      BY <2>5, <3>2 DEF InOrder, Ordered
    <3>4. Takes(c)
      BY <1>1, <3>1, <3>3 DEF Resumes, Marks, Creates, Observes
    <3>5. d # c
      BY <3>4 DEF Takes
    <3>6. d \in Before(c)
      BY <2>1, <2>2, <3>1, <3>5, RanksOrder
    <3>7. Rank(c) < Rank(c)
      BY <1>2, <1>6, <2>1, <2>4, <3>3, <3>6 DEF UnusedSoon, TakenNext
    <3> QED
      BY <2>2, <3>7
  <2>6. CASE copy.status.phase[x] # "Suspend"
    <3>1. x = c /\ Marks(c)
      BY <1>1, <2>6 DEF Handles, Resumes, Takes, Creates, Observes
    <3>2. ~Gate(c)
      BY <2>1, <2>4, <3>1, <1>2, Ranks DEF Gate, GatesKept, Comps
    <3>3. at' = After(c) /\ copy'.suspend
      BY <1>1, <3>1, <3>2 DEF Marks, Handles
    <3>4. After(c) \in Comps
      BY <2>1, <3>1, Ranks, Afterwards DEF Comps
    <3>5. Rank(at') = Rank(c) + 1
      BY <1>3, <3>3, <3>4
    <3> QED
      BY <2>1, <2>2, <3>1, <3>3, <3>4, <3>5 DEF TakenNext, Handled
  <2> QED
    BY <2>5, <2>6
<1> QED
  BY <1>4, <1>5, <1>8, <1>9, <1>11, <1>12

LEMMA InvNext == Inv /\ [Next]_vars => Inv'
<1> SUFFICES ASSUME Inv, [Next]_vars PROVE OrderInv'
  BY TypeInvNext DEF Inv
<1> QED
  BY StepDoes, QuietKeeps, ReadKeeps, WalkKeeps, FaultKeeps, DeletionKeeps, WriteKeeps, HandleKeeps
     DEF Inv, OrderInv

\* GatesHold for every instance: a restored cluster gets no storaged before its
\* metad is restored and no graphd before its storaged is
\* (nebula_cluster_control.go, metad_cluster.go, storaged_cluster.go)
THEOREM RestoreInOrder == Spec => []GatesHold
<1>1. Inv => GatesHold
  BY DEF Inv, OrderInv, GatesKept
<1> QED
  BY <1>1, InvInit, InvNext, PTL DEF Spec

\* Only the step of a component takes a workload away while a pass is at it
LEMMA TakenInOrder == ASSUME Inv, [Next]_vars, faults <= 1 \/ ~copy.suspend PROVE ~SuspendsEarly
<1> SUFFICES ASSUME NEW c \in Comps, at = c, workload[c] = "live", workload'[c] = "terminating",
                    NEW d \in Before(c), workload[d] = "live"
             PROVE  FALSE
  BY DEF SuspendsEarly
<1> USE DEF Inv, OrderInv
<1>1. /\ Walking /\ nc.life # "gone" /\ at \notin DeleteSteps \union {"idle", "status"}
      /\ faults <= 1 => UnusedSoon
  BY WalkingIs DEF OneFault, Held, Walk, Comps, DeleteSteps
<1>2. CASE ReconcileComponent(c)
  <2>1. Handles(c) /\ Takes(c)
    BY <1>2, ComponentDoes DEF Resumes, Marks, Creates, Observes
  <2>2. Rank(c) < Rank(c) /\ Rank(c) \in Nat
    BY <1>1, <2>1, RanksOrder DEF Takes, UnusedSoon, TakenNext, Handled
  <2> QED
    BY <2>2
<1>3. CASE ~ReconcileComponent(c)
  <2>1. ~\E x \in Comps : ReconcileComponent(x)
    BY <1>3 DEF ReconcileComponent
  <2>2. workload \in [Comps -> {"none", "live", "terminating"}]
    BY DEF TypeInv, Typed
  <2>3. CASE Kubernetes
    BY <1>1, <2>2, <2>3 DEF Kubernetes, ConsoleGone, CreatePod, PodReady, WorkloadGoes,
       ClaimGone, Collect, cluster
  <2>4. workload' = workload \/ Kubernetes
    BY <1>1, <2>1 DEF Next, Operator, StartPass, AddFinalizer, ReconcileMetad, ReconcileStoraged,
       ReconcileGraphd, SetClusterVersion, SyncExporter, SyncConsole, CreateConsole, Annotate,
       WriteStatus, DeleteGraphd, DeleteStoraged, DeleteWorkload, ListClaims, DeleteClaim,
       RemoveFinalizer, RestoreAdvances, CallFails, Crash, Evict, Suspend, SetReclaim,
       ChangeVersion, Delete, Change, vars, cluster, DeleteSteps, Comps
  <2> QED
    BY <2>3, <2>4
<1> QED
  BY <1>2, <1>3

\* What the code has to be spared: two failed calls or lost passes, unless
\* nobody suspends the cluster.
FewFaults == MaxFaults <= 1 \/ "suspend" \notin Edits

\* Components are suspended after those that use them until the second fault,
\* and a claim marked to be kept is never taken: every status a pass reads is
\* the one of its predecessor or the one before, which may show a component as
\* gone that the lost pass created, but then the same pass takes the component
\* away; a second fault in between would break the order (helper.go
\* suspendComponent, canSuspendComponent)
THEOREM SuspendedInOrder == FewFaults /\ Spec => TakesInOrder
<1>1. Init => Inv /\ ClaimInv
  BY InvInit, TypeInvInit DEF ClaimInv, Unmarked, Init
<1>2. Inv /\ ClaimInv /\ [Next]_vars => Inv' /\ ClaimInv'
  BY InvNext, ClaimInvNext
<1>3. FewFaults /\ Inv /\ ClaimInv /\ [Next]_vars => [~SuspendsEarly /\ ~TakesAnnotated]_vars
  <2> SUFFICES ASSUME FewFaults, Inv, ClaimInv, [Next]_vars
               PROVE  ~SuspendsEarly /\ ~TakesAnnotated
    OBVIOUS
  <2>1. CASE MaxFaults <= 1
    <3>1. faults <= 1
      BY <2>1, BoundsAssumption DEF Inv, TypeInv, Typed
    <3> QED
      BY <3>1, TakenInOrder, ClaimStep
  <2>2. CASE "suspend" \notin Edits
    <3>1. ~copy.suspend
      BY <2>2 DEF Inv, OrderInv, Asked
    <3>2. ~SuspendsEarly
      BY <3>1, TakenInOrder
    <3> QED
      BY <3>2, ClaimStep
  <2> QED
    BY <2>1, <2>2 DEF FewFaults
<1>4. FewFaults => FewFaults'
  BY DEF FewFaults
<1> QED
  BY <1>1, <1>2, <1>3, <1>4, PTL DEF Spec, TakesInOrder

-----------------------------------------------------------------------------
(* Sleep: claims, versions and errors *)

LEMMA ErrorStep == ASSUME TypeInv, ErrorEnds, [Next]_vars PROVE ErrorEnds'
<1> USE DEF ErrorEnds
<1>1. CASE UNCHANGED pass
  BY <1>1 DEF pass
<1>2. CASE EndPass
  BY <1>2 DEF EndPass
<1>3. CASE Fail
  BY <1>3 DEF Fail
<1>4. CASE at # "status" /\ UNCHANGED err
  BY <1>4
<1>5. CASE Operator
  BY <1>1, <1>2, <1>3, <1>4, <1>5 DEF Operator, StartPass, AddFinalizer, ReconcileMetad,
     ReconcileStoraged, ReconcileGraphd, ReconcileComponent, Proceed, Sync, SetClusterVersion,
     SyncExporter, SyncConsole, CreateConsole, Annotate, WriteStatus, Go, DeleteGraphd,
     DeleteStoraged, DeleteWorkload, ListClaims, DeleteClaim, RemoveFinalizer
<1>6. CASE ~Operator
  BY <1>1, <1>2, <1>3, <1>6 DEF Next, Kubernetes, ConsoleGone, CreatePod, PodReady, WorkloadGoes,
     ClaimGone, Collect, Outside, RestoreAdvances, CallFails, Crash, Evict, Suspend, SetReclaim,
     ChangeVersion, Delete, Change, vars, pass
<1> QED
  BY <1>5, <1>6

\* Steps that leave alone what ClaimsStay is about
LEMMA ClaimsFrame == ASSUME ClaimsStay, UNCHANGED <<pod, claim>>,
                            nc'.life = "live" => nc.life = "live" /\ at' \notin DeleteSteps
                     PROVE  ClaimsStay'
  BY DEF ClaimsStay

LEMMA MarkedClaims ==
  ASSUME TypeInv, NEW S \in SUBSET WithPod, claim' = Annotated(S)
  PROVE  \A c \in Comps : /\ claim'[c].del = claim[c].del
                          /\ claim'[c] = NoClaim <=> claim[c] = NoClaim
                          /\ claim'[c].ann = IF c \in S THEN Bool(copy.reclaim) ELSE claim[c].ann
<1> SUFFICES ASSUME NEW c \in Comps
             PROVE  /\ claim'[c].del = claim[c].del
                    /\ claim'[c] = NoClaim <=> claim[c] = NoClaim
                    /\ claim'[c].ann = IF c \in S THEN Bool(copy.reclaim) ELSE claim[c].ann
  OBVIOUS
<1>1. CASE c \notin S
  BY <1>1 DEF Annotated
<1>2. CASE c \in S
  <2>1. claim[c] \in Claims /\ claim[c] # NoClaim
    BY <1>2 DEF TypeInv, Typed, WithPod
  <2>2. claim'[c] = [claim[c] EXCEPT !.ann = Bool(copy.reclaim)]
    BY <1>2 DEF Annotated
  <2>3. claim[c] \in [ann : {"unset", "true", "false"}, del : BOOLEAN]
    BY <2>1 DEF Claims
  <2>4. Bool(copy.reclaim) # "none"
    BY DEF Bool
  <2>5. claim'[c].del = claim[c].del /\ claim'[c].ann = Bool(copy.reclaim)
    BY <2>2, <2>3
  <2>6. claim'[c] # NoClaim
    BY <2>4, <2>5 DEF NoClaim
  <2> QED
    BY <1>2, <2>1, <2>5, <2>6
<1> QED
  BY <1>1, <1>2

LEMMA ClaimsStep == ASSUME TypeInv, ClaimsStay, [Next]_vars PROVE ClaimsStay'
<1>1. /\ nc \in Object /\ claim \in [Comps -> Claims]
      /\ pod \in [Comps -> {"none", "starting", "ready"}]
  BY DEF TypeInv, Typed
<1>2. CASE UNCHANGED vars
  BY <1>2 DEF vars, cluster, pass, ClaimsStay
<1>3. CASE StartPass
  <2>1. at' \in DeleteSteps => nc.life # "live"
    BY <1>3 DEF StartPass, pass, DeleteSteps
  <2> QED
    BY <1>3, <2>1, ClaimsFrame DEF StartPass, cluster
<1>4. CASE AddFinalizer \/ SetClusterVersion \/ SyncExporter \/ SyncConsole \/ CreateConsole
  <2>1. nc'.life = nc.life /\ at' \notin DeleteSteps
    BY <1>1, <1>4, Afterwards DEF AddFinalizer, SetClusterVersion, SyncExporter, SyncConsole,
       CreateConsole, Go, Fail, Object, DeleteSteps
  <2> QED
    BY <1>4, <2>1, ClaimsFrame DEF AddFinalizer, SetClusterVersion, SyncExporter, SyncConsole,
       CreateConsole, cluster
<1>5. CASE \E c \in Comps : ReconcileComponent(c)
  <2>1. at' \notin DeleteSteps /\ UNCHANGED <<nc, pod, claim>>
    BY <1>5, Afterwards DEF ReconcileComponent, Sync, Proceed, Go, Fail, DeleteSteps, Comps
  <2> QED
    BY <2>1, ClaimsFrame
<1>6. CASE Annotate
  <2>1. UNCHANGED <<nc, pod>> /\ at' \notin DeleteSteps
    BY <1>6, Afterwards DEF Annotate, Go, DeleteSteps
  <2> QED
    BY <1>6, <2>1, MarkedClaims DEF Annotate, ClaimsStay
<1>7. CASE WriteStatus
  <2>1. nc'.life = nc.life /\ at' \notin DeleteSteps
    BY <1>1, <1>7 DEF WriteStatus, EndPass, Object, DeleteSteps
  <2> QED
    BY <1>7, <2>1, ClaimsFrame DEF WriteStatus, cluster
<1>8. CASE DeleteGraphd \/ DeleteStoraged \/ ListClaims
  <2>1. at \in DeleteSteps /\ UNCHANGED <<nc, pod, claim>>
    BY <1>8 DEF DeleteGraphd, DeleteStoraged, DeleteWorkload, ListClaims, DeleteSteps, cluster
  <2> QED
    BY <2>1, ClaimsFrame DEF ClaimsStay
<1>9. CASE DeleteClaim
  <2>1. at \in DeleteSteps /\ UNCHANGED <<nc, pod>> /\ nc.life # "live"
    BY <1>9 DEF DeleteClaim, DeleteSteps, ClaimsStay
  <2>2. ASSUME NEW c \in Comps, claim[c] # NoClaim PROVE claim'[c] # NoClaim
    <3>1. claim[c] \in [ann : {"unset", "true", "false"}, del : BOOLEAN]
      BY <1>1, <2>2 DEF Claims
    <3>2. claim'[c].ann = claim[c].ann
      BY <1>1, <1>9, <3>1 DEF DeleteClaim
    <3> QED
      BY <3>1, <3>2 DEF NoClaim
  <2> QED
    BY <2>1, <2>2 DEF ClaimsStay
<1>10. CASE RemoveFinalizer
  <2>1. nc.life # "live" /\ at' \notin DeleteSteps
    BY <1>10 DEF RemoveFinalizer, ClaimsStay, DeleteSteps, EndPass
  <2>2. nc'.life # "live"
    BY <1>1, <1>10, <2>1 DEF RemoveFinalizer, Object
  <2> QED
    BY <1>10, <2>1, <2>2, ClaimsFrame DEF RemoveFinalizer, cluster
<1>11. CASE CallFails
  <2>1. UNCHANGED <<nc, pod>> /\ at' \notin DeleteSteps
    BY <1>11 DEF CallFails, EndPass, Fail, DeleteSteps
  <2>2. \/ UNCHANGED claim
        \/ \E S \in SUBSET WithPod : claim' = Annotated(S)
    BY <1>11 DEF CallFails
  <2> QED
    BY <2>1, <2>2, MarkedClaims DEF ClaimsStay
<1>12. CASE Crash
  <2>1. at' \notin DeleteSteps /\ UNCHANGED <<nc, pod, claim>>
    BY <1>12 DEF Crash, EndPass, DeleteSteps, cluster
  <2> QED
    BY <2>1, ClaimsFrame
<1>13. CASE \E c \in Comps : Evict(c)
  BY <1>1, <1>13 DEF Evict, ClaimsStay, pass
<1>14. CASE ConsoleGone \/ RestoreAdvances \/ Suspend \/ SetReclaim \/ ChangeVersion \/ Delete
  <2>1. UNCHANGED <<at, pod, claim>> /\ (nc'.life = "live" => nc.life = "live")
    BY <1>1, <1>14 DEF ConsoleGone, RestoreAdvances, Suspend, SetReclaim, ChangeVersion, Delete,
       Change, cluster, pass, Object
  <2> QED
    BY <2>1, ClaimsFrame DEF ClaimsStay
<1>15. ASSUME NEW c \in Comps,
              CreatePod(c) \/ PodReady(c) \/ WorkloadGoes(c) \/ ClaimGone(c) \/ Collect(c)
       PROVE  ClaimsStay'
  <2>1. UNCHANGED <<nc, at>>
    BY <1>15 DEF CreatePod, PodReady, WorkloadGoes, ClaimGone, Collect, Outside, pass
  <2>2. CASE CreatePod(c)
    <3>1. claim'[c] # NoClaim /\ ~claim'[c].del
      BY <1>1, <2>2 DEF CreatePod, NoClaim
    <3>2. \A d \in Comps \ {c} : claim'[d] = claim[d] /\ pod'[d] = pod[d]
      BY <1>1, <2>2 DEF CreatePod
    <3> QED
      BY <2>1, <3>1, <3>2 DEF ClaimsStay
  <2>3. CASE PodReady(c) \/ WorkloadGoes(c) \/ Collect(c)
    <3>1. \A d \in Comps : claim'[d] = claim[d] /\ (pod'[d] # "none" => pod[d] # "none")
      BY <1>1, <2>3 DEF PodReady, WorkloadGoes, Collect
    <3> QED
      BY <2>1, <3>1 DEF ClaimsStay
  <2>4. CASE ClaimGone(c)
    <3>1. pod' = pod /\ pod[c] = "none" /\ claim'[c] = NoClaim
          /\ \A d \in Comps \ {c} : claim'[d] = claim[d]
      BY <1>1, <2>4 DEF ClaimGone
    <3> QED
      BY <2>1, <3>1 DEF ClaimsStay, NoClaim
  <2> QED
    BY <1>15, <2>2, <2>3, <2>4
<1> QED
  BY <1>2, <1>3, <1>4, <1>5, <1>6, <1>7, <1>8, <1>9, <1>10, <1>11, <1>12, <1>13, <1>14, <1>15
     DEF Next, Operator, Kubernetes, ReconcileMetad, ReconcileStoraged, ReconcileGraphd, Comps

LEMMA VersionsFrame ==
  ASSUME VersionsGrow, UNCHANGED console, nc'.version = nc.version,
         copy'.version = copy.version, Walking' => Walking
  PROVE  VersionsGrow'
  BY DEF VersionsGrow, ConsoleBehind

LEMMA VersionsStep == ASSUME TypeInv, VersionsGrow, [Next]_vars PROVE VersionsGrow'
<1> USE DEF VersionsGrow, ConsoleBehind
<1>1. /\ nc \in Object /\ copy \in Object /\ nc.version \in Nat /\ copy.version \in Nat
      /\ console \in [version : 0..(MaxChanges + 1), term : BOOLEAN] /\ console.version \in Nat
      /\ MaxChanges \in Nat
  BY BoundsAssumption DEF TypeInv, Typed, Object
<1>2. CASE UNCHANGED vars
  BY <1>2, WalkingIs, WalkingNext, VersionsFrame DEF vars, extras, pass
<1>3. CASE StartPass
  <2>1. UNCHANGED <<at, copy>> \/ copy'.version = nc.version
    BY <1>1, <1>3 DEF StartPass, pass, Object
  <2> QED
    BY <1>1, <1>3, <2>1, WalkingIs, WalkingNext DEF StartPass, extras
<1>4. CASE AddFinalizer
  <2>1. Walking /\ nc'.version = nc.version /\ copy'.version = copy.version
    BY <1>1, <1>4, WalkingIs DEF AddFinalizer, Walk, Go, Fail, Object
  <2> QED
    BY <1>4, <2>1, VersionsFrame DEF AddFinalizer, extras
<1>5. ASSUME NEW c \in Comps, ReconcileComponent(c) PROVE VersionsGrow'
  <2>1. Walking /\ copy'.version = copy.version
    BY <1>1, <1>5, WalkingIs DEF ReconcileComponent, Walk, Comps, Suspended, SetPhase, Sync, Object
  <2> QED
    BY <1>5, <2>1, VersionsFrame DEF ReconcileComponent, extras
<1>6. CASE SetClusterVersion \/ SyncExporter \/ Annotate
  <2>1. Walking
    BY <1>6, WalkingIs DEF SetClusterVersion, SyncExporter, Annotate, Walk
  <2> QED
    BY <1>6, <2>1, VersionsFrame DEF SetClusterVersion, SyncExporter, Annotate, extras
<1>7. CASE SyncConsole
  <2>1. Walking /\ UNCHANGED <<nc, copy>> /\ console'.version = console.version
        /\ (console'.term => console.term \/ console.version # copy.version)
    BY <1>1, <1>7, WalkingIs DEF SyncConsole, Walk, ConsoleOf
  <2> QED
    BY <1>1, <2>1
<1>8. CASE CreateConsole
  <2>1. Walking /\ UNCHANGED <<nc, copy>>
        /\ console' \in {console, [version |-> copy.version, term |-> FALSE]}
    BY <1>8, WalkingIs DEF CreateConsole, Walk, ConsoleOf
  <2> QED
    BY <1>1, <2>1
<1>9. CASE WriteStatus
  <2>1. ~Walking' /\ nc'.version = nc.version
    BY <1>1, <1>9, WalkingNext DEF WriteStatus, EndPass, Object, Walk
  <2> QED
    BY <1>9, <2>1 DEF WriteStatus, extras
<1>10. CASE DeleteGraphd \/ DeleteStoraged \/ ListClaims \/ DeleteClaim \/ RemoveFinalizer
  <2>1. ~Walking' /\ nc'.version = nc.version
    BY <1>1, <1>10, WalkingNext DEF DeleteGraphd, DeleteStoraged, DeleteWorkload, ListClaims,
       DeleteClaim, RemoveFinalizer, EndPass, Object, Walk
  <2> QED
    BY <1>10, <2>1 DEF DeleteGraphd, DeleteStoraged, DeleteWorkload, ListClaims, DeleteClaim,
       RemoveFinalizer, extras
<1>11. CASE CallFails \/ Crash
  <2>1. UNCHANGED <<nc, console>>
    BY <1>11 DEF CallFails, Crash, extras
  <2>2. ~Walking' \/ (Walking /\ UNCHANGED copy)
    BY <1>11, WalkingIs, WalkingNext DEF CallFails, Crash, EndPass, Fail, Walk, DeleteSteps,
       TypeInv, Typed, AtTyped
  <2> QED
    BY <2>1, <2>2
<1>12. CASE \E c \in Comps : Evict(c)
  BY <1>12, WalkingIs, WalkingNext, VersionsFrame DEF Evict, pass, extras
<1>13. CASE ConsoleGone
  <2>1. UNCHANGED <<nc, at, copy>> /\ console' = [version |-> 0, term |-> FALSE]
    BY <1>13 DEF ConsoleGone, pass
  <2> QED
    BY <1>1, <2>1, WalkingIs, WalkingNext
<1>14. CASE RestoreAdvances \/ Suspend \/ SetReclaim \/ ChangeVersion \/ Delete
  <2>1. UNCHANGED <<at, copy, console>> /\ nc'.version \in {nc.version, nc.version + 1}
    BY <1>1, <1>14 DEF RestoreAdvances, Suspend, SetReclaim, ChangeVersion, Delete, Change, pass,
       extras, Object
  <2> QED
    BY <1>1, <2>1, WalkingIs, WalkingNext
<1>15. ASSUME NEW c \in Comps,
              CreatePod(c) \/ PodReady(c) \/ WorkloadGoes(c) \/ ClaimGone(c) \/ Collect(c)
       PROVE  VersionsGrow'
  <2>1. UNCHANGED <<nc, at, copy, console>>
    BY <1>15 DEF CreatePod, PodReady, WorkloadGoes, ClaimGone, Collect, Outside, pass, extras
  <2> QED
    BY <2>1, WalkingIs, WalkingNext
<1> QED
  BY <1>2, <1>3, <1>4, <1>5, <1>6, <1>7, <1>8, <1>9, <1>10, <1>11, <1>12, <1>13, <1>14, <1>15
     DEF Next, Operator, Kubernetes, ReconcileMetad, ReconcileStoraged, ReconcileGraphd, Comps

-----------------------------------------------------------------------------
(* What a pass has seen *)

\* A pass that nothing disturbs goes on, or somebody else does what it cannot see
Undisturbed ==
  \/ StartPass \/ AddFinalizer \/ SetClusterVersion \/ SyncExporter \/ SyncConsole
  \/ CreateConsole \/ Annotate \/ CallFails \/ ConsoleGone \/ UNCHANGED vars
  \/ \E c \in Comps : ReconcileComponent(c) \/ ClaimGone(c) \/ Collect(c)

LEMMA Disturbed == ASSUME TypeInv, [Next]_vars, Walking', ~queued' PROVE Undisturbed
<1>1. ~(WriteStatus \/ DeleteGraphd \/ DeleteStoraged \/ ListClaims \/ DeleteClaim
         \/ RemoveFinalizer)
  BY WalkingNext DEF WriteStatus, DeleteGraphd, DeleteStoraged, DeleteWorkload, ListClaims,
     DeleteClaim, RemoveFinalizer, EndPass, Walk
<1>2. ~(Crash \/ RestoreAdvances \/ Suspend \/ SetReclaim \/ ChangeVersion \/ Delete)
  BY DEF Crash, RestoreAdvances, Suspend, SetReclaim, ChangeVersion, Delete, Change
<1>3. \A c \in Comps : ~(Evict(c) \/ CreatePod(c) \/ PodReady(c) \/ WorkloadGoes(c))
  BY DEF Evict, CreatePod, PodReady, WorkloadGoes
<1> QED
  BY <1>1, <1>2, <1>3 DEF Undisturbed, Next, Operator, Kubernetes, ReconcileMetad,
     ReconcileStoraged, ReconcileGraphd, Comps

\* What the step of a component leaves of what the pass has read
LEMMA ComponentSees ==
  ASSUME TypeInv, NEW c \in Comps, ReconcileComponent(c)
  PROVE  /\ copy'.suspend = copy.suspend /\ copy'.reclaim = copy.reclaim
         /\ copy'.version = copy.version
         /\ \A d \in Comps \ {c} : /\ copy'.status.phase[d] = copy.status.phase[d]
                                   /\ copy'.status.work[d] = copy.status.work[d]
         /\ (at' = After(c) /\ err' = err) \/ (at' = "status" /\ err')
         /\ at' = "status" \/ copy'.status.phase[c] # copy.status.phase[c]
              \/ (copy'.status.work[c] = "ready" =>
                     pod[c] = "ready" /\ (c = "graphd" => ~copy.suspend))
<1>1. copy \in Object /\ copy.status \in Status
  BY StatusOf DEF TypeInv, Typed
<1>2. at = c /\ Handles(c)
  BY ComponentDoes DEF ReconcileComponent
<1>3. (at' = After(c) /\ err' = err) \/ (at' = "status" /\ err')
  BY <1>2 DEF ReconcileComponent, Proceed, Sync, Go, Fail
<1>4. \E s \in Status : copy' = [copy EXCEPT !.status = s]
  <2>1. CASE NeedSuspend(c)
    <3>1. \/ \E p \in {"Running", "Suspend"} : copy' = [copy EXCEPT !.status.phase[c] = p]
          \/ copy' = [copy EXCEPT !.status.work[c] = "nil"]
      BY <2>1 DEF ReconcileComponent, Suspended, SetPhase
    <3> QED
      BY <1>1, <3>1, PhasesTyped DEF Object
  <2>2. CASE ~NeedSuspend(c)
    <3>1. \/ copy' = [copy EXCEPT !.status.work[c] = "empty"]
          \/ copy' = [copy EXCEPT !.status = Observed(c)]
          \/ copy' = [copy EXCEPT !.status = [Observed(c) EXCEPT !.hostsAdded = TRUE]]
      BY <2>2 DEF ReconcileComponent, Sync
    <3> QED
      BY <1>1, <3>1, PhasesTyped, ObservedTyped, FlagsTyped DEF Object
  <2> QED
    BY <2>1, <2>2
<1>5. copy'.reclaim = copy.reclaim /\ copy'.version = copy.version
  BY <1>1, <1>4 DEF Object
<1>6. at' = "status" \/ copy'.status.phase[c] # copy.status.phase[c]
        \/ (copy'.status.work[c] = "ready" =>
               pod[c] = "ready" /\ (c = "graphd" => ~copy.suspend))
  <2>1. CASE NeedSuspend(c)
    <3>1. Suspended(c)
      BY <2>1 DEF ReconcileComponent
    <3>2. CASE ~copy.suspend /\ IsSuspending(c) /\ SetPhase(c, "Running")
      BY <1>1, <3>2 DEF IsSuspending, SetPhase, Object, Status
    <3>3. CASE copy.suspend /\ ~IsSuspending(c) /\ SetPhase(c, "Suspend")
      BY <1>1, <3>3 DEF IsSuspending, SetPhase, Object, Status
    <3>4. CASE copy' = [copy EXCEPT !.status.work[c] = "nil"]
      BY <1>1, <3>4 DEF Object, Status
    <3> QED
      BY <3>1, <3>2, <3>3, <3>4 DEF Suspended
  <2>2. CASE ~NeedSuspend(c) /\ at' # "status"
    <3>1. \/ copy' = [copy EXCEPT !.status = Observed(c)]
          \/ copy' = [copy EXCEPT !.status = [Observed(c) EXCEPT !.hostsAdded = TRUE]]
      BY <2>2 DEF ReconcileComponent, Sync, Fail
    <3>2. Observed(c) \in Status
      BY <1>1, ObservedTyped
    <3>3. /\ Observed(c).work[c] = "ready" => pod[c] = "ready"
          /\ c = "graphd" => Observed(c).phase[c] = "Running"
      BY <1>1 DEF Observed, Status
    <3>4. copy'.status.work = Observed(c).work /\ copy'.status.phase = Observed(c).phase
      <4> DEFINE o == Observed(c)
                 a == [o EXCEPT !.hostsAdded = TRUE]
      <4>1. PICK s : copy' = [copy EXCEPT !.status = s] /\ (s = o \/ s = a)
        BY <3>1
      <4>2. o \in Status
        BY <3>2
      <4> HIDE DEF o
      <4>3. s.phase = o.phase /\ s.work = o.work
        BY <4>1, <4>2 DEF Status
      <4> USE DEF o
      <4> QED
        BY <1>1, <4>1, <4>3 DEF Object
    <3>5. CASE c = "graphd" /\ copy.suspend
      <4>1. copy.status.phase[c] # "Running"
        BY <2>2, <3>5, Users DEF NeedSuspend, CanSuspend
      <4> QED
        BY <3>3, <3>4, <3>5, <4>1
    <3>6. CASE ~(c = "graphd" /\ copy.suspend)
      <4>1. copy.suspend \in BOOLEAN
        BY <1>1 DEF Object
      <4> QED
        BY <3>3, <3>4, <3>6
    <3> QED
      BY <3>5, <3>6
  <2> QED
    BY <2>1, <2>2
<1> QED
  BY <1>2, <1>3, <1>5, <1>6 DEF Handles

LEMMA PastWalks ==
  ASSUME NEW c \in Comps
  PROVE  /\ at = "finalizer" \/ at = "metad" => ~Past(c)
         /\ at = "storaged" => (Past(c) <=> c = "metad")
         /\ at = "graphd" => (Past(c) <=> c # "graphd")
         /\ at \in {"version", "exporter", "console", "create", "annotate"} => Past(c)
         /\ at = "status" => (Past(c) <=> ~err)
  BY Ranks DEF Past, Handled, Comps

LEMMA PastWalksNext ==
  ASSUME NEW c \in Comps
  PROVE  /\ at' = "finalizer" \/ at' = "metad" => ~Past(c)'
         /\ at' = "storaged" => (Past(c)' <=> c = "metad")
         /\ at' = "graphd" => (Past(c)' <=> c # "graphd")
         /\ at' \in {"version", "exporter", "console", "create", "annotate"} => Past(c)'
         /\ at' = "status" => (Past(c)' <=> ~err')
  BY Ranks DEF Past, Handled, Comps

\* What SeenIsTrue says of one component
SeenOf(c) == /\ ~Past(c) /\ ~err => copy.status.phase[c] = nc.status.phase[c]
             /\ Past(c) /\ copy.status.phase[c] = nc.status.phase[c]
                   /\ copy.status.work[c] = "ready" =>
                      pod[c] = "ready" /\ (c = "graphd" => ~copy.suspend)
Reading == copy.suspend = nc.suspend /\ copy.reclaim = nc.reclaim /\ copy.version = nc.version

LEMMA SeenIs == SeenIsTrue <=> (Walking /\ ~queued => Reading /\ \A c \in Comps : SeenOf(c))
  BY DEF SeenIsTrue, SeenOf, Reading

\* The pass ends with an error, or goes on without having seen more
LEMMA SeenFrame ==
  ASSUME SeenIsTrue, Walking, ~queued, UNCHANGED pod,
         copy'.suspend = copy.suspend, copy'.reclaim = copy.reclaim, copy'.version = copy.version,
         nc'.suspend = nc.suspend, nc'.reclaim = nc.reclaim, nc'.version = nc.version,
         copy'.status = copy.status, nc'.status = nc.status,
         \/ at' = "status" /\ err'
         \/ \A c \in Comps : (Past(c)' <=> Past(c)) /\ err' = err
  PROVE  SeenIsTrue'
<1>1. Reading' /\ \A c \in Comps : SeenOf(c)
  BY SeenIs DEF Reading
<1>2. ASSUME NEW c \in Comps PROVE SeenOf(c)'
  BY <1>1, PastWalksNext DEF SeenOf
<1> QED
  BY <1>1, <1>2 DEF SeenIsTrue, SeenOf, Reading

LEMMA SeenStep == ASSUME TypeInv, ErrorEnds, SeenIsTrue, [Next]_vars PROVE SeenIsTrue'
<1> SUFFICES ASSUME Walking', ~queued' PROVE SeenIsTrue'
  BY DEF SeenIsTrue
<1>1. Undisturbed
  BY Disturbed
<1>2. nc \in Object /\ copy \in Object
  BY DEF TypeInv, Typed
<1>3. at = "status" => at \notin Walk
  BY DEF Walk
<1>4. CASE StartPass
  <2>1. at' = "finalizer" /\ copy' = nc /\ nc' = nc
    BY <1>4, WalkingNext DEF StartPass, Walk, pass
  <2>2. ASSUME NEW c \in Comps PROVE ~Past(c)' /\ nc'.status.phase[c] = copy'.status.phase[c]
    BY <2>1, PastWalksNext
  <2> QED
    BY <2>1, <2>2 DEF SeenIsTrue
<1>5. CASE AddFinalizer
  <2>1. /\ at = "finalizer" /\ Walking /\ ~queued /\ UNCHANGED pod
        /\ (at' = "metad" /\ err' = err) \/ (at' = "status" /\ err')
    BY <1>5, WalkingIs, Afterwards DEF AddFinalizer, Walk, Go, Fail, cluster
  <2>2. /\ copy'.suspend = copy.suspend /\ copy'.reclaim = copy.reclaim
        /\ copy'.version = copy.version /\ nc'.suspend = nc.suspend
        /\ nc'.reclaim = nc.reclaim /\ nc'.version = nc.version
        /\ copy'.status = copy.status /\ nc'.status = nc.status
    BY <1>2, <1>5 DEF AddFinalizer, Object
  <2> QED
    BY <2>1, <2>2, SeenFrame, PastWalks, PastWalksNext
<1>6. CASE SetClusterVersion \/ SyncExporter \/ SyncConsole \/ CreateConsole \/ Annotate
  <2>1. /\ at \in {"version", "exporter", "console", "create", "annotate"}
        /\ UNCHANGED <<nc, copy, pod, queued>>
        /\ \/ at' = "status" /\ err'
           \/ /\ at' \in {"exporter", "console", "create", "annotate", "status"}
              /\ err' = err
    BY <1>6, Afterwards DEF SetClusterVersion, SyncExporter, SyncConsole, CreateConsole, Annotate,
       Go, Fail, cluster
  <2>2. Walking /\ ~queued /\ ~err
    BY <2>1, WalkingIs DEF Walk, ErrorEnds
  <2>3. at' \in {"exporter", "console", "create", "annotate", "status"} /\ err' = err =>
           \A c \in Comps : Past(c)' <=> Past(c)
    BY <2>1, <2>2, PastWalks, PastWalksNext
  <2> QED
    BY <2>1, <2>2, <2>3, SeenFrame
<1>7. ASSUME NEW c \in Comps, ReconcileComponent(c) PROVE SeenIsTrue'
  <2>1. /\ at = c /\ Walking /\ ~queued /\ ~err /\ UNCHANGED <<nc, pod>>
    BY <1>7, WalkingIs DEF ReconcileComponent, Walk, Comps, ErrorEnds
  <2>2. Reading' /\ \A d \in Comps : SeenOf(d)
    BY <1>7, <2>1, ComponentSees, SeenIs DEF Reading
  <2>3. CASE at' = "status" /\ err'
    <3>1. ASSUME NEW d \in Comps PROVE SeenOf(d)'
      BY <2>3, PastWalksNext DEF SeenOf
    <3> QED
      BY <2>2, <3>1 DEF SeenIsTrue, SeenOf, Reading
  <2>4. CASE at' = After(c) /\ err' = err /\ at' # "status"
    <3>1. ~Past(c) /\ Past(c)' /\ \A d \in Comps \ {c} : Past(d)' <=> Past(d)
      BY <2>1, <2>4, PastWalks, PastWalksNext, Afterwards DEF Comps
    <3>2. ASSUME NEW d \in Comps \ {c} PROVE SeenOf(d)'
      BY <1>7, <2>1, <2>2, <2>4, <3>1, ComponentSees DEF SeenOf
    <3>3. SeenOf(c)'
      BY <1>7, <2>1, <2>2, <2>4, <3>1, ComponentSees DEF SeenOf
    <3> QED
      BY <2>2, <3>2, <3>3 DEF SeenIsTrue, SeenOf, Reading
  <2>5. After(c) # "status"
    BY Afterwards DEF Comps
  <2> QED
    BY <1>7, <2>3, <2>4, <2>5, ComponentSees
<1>8. CASE CallFails
  <2>1. Walking /\ ~queued /\ UNCHANGED <<nc, copy, pod>> /\ at' = "status" /\ err'
    BY <1>8, WalkingIs, WalkingNext DEF CallFails, EndPass, Fail, Walk, TypeInv, Typed, AtTyped
  <2> QED
    BY <2>1, SeenFrame
<1>9. CASE ConsoleGone \/ UNCHANGED vars \/ \E c \in Comps : ClaimGone(c) \/ Collect(c)
  <2>1. UNCHANGED <<nc, copy, pod, at, err, queued>>
    BY <1>9 DEF ConsoleGone, vars, cluster, pass, ClaimGone, Collect, Outside
  <2>2. \A c \in Comps : (Past(c)' <=> Past(c)) /\ err' = err
    BY <2>1 DEF Past, Handled
  <2> QED
    BY <2>1, <2>2, SeenFrame, WalkingIs, WalkingNext
<1> QED
  BY <1>1, <1>4, <1>5, <1>6, <1>7, <1>8, <1>9 DEF Undisturbed

-----------------------------------------------------------------------------
(* What a pass has done *)

LEMMA DoneStep == ASSUME TypeInv, ErrorEnds, ClaimsStay, VersionsGrow, DoneIsTrue, [Next]_vars
                  PROVE  DoneIsTrue'
<1> SUFFICES ASSUME Walking', ~queued' PROVE DoneIsTrue'
  BY DEF DoneIsTrue
<1>1. Undisturbed
  BY Disturbed
<1>2. ASSUME at' \in {"finalizer", "metad", "storaged", "graphd", "version", "exporter"}
                \/ (at' = "status" /\ err')
      PROVE  DoneIsTrue'
  BY <1>2 DEF DoneIsTrue, AtEnd
<1>3. CASE StartPass \/ AddFinalizer \/ SetClusterVersion \/ CallFails
  <2>1. at' \in {"finalizer", "metad", "exporter"} \/ (at' = "status" /\ err')
    BY <1>3, WalkingNext, Afterwards DEF StartPass, AddFinalizer, SetClusterVersion, CallFails,
       EndPass, Fail, Go, Walk, pass
  <2> QED
    BY <1>2, <2>1
<1>4. CASE \E c \in Comps : ReconcileComponent(c)
  <2>1. at' \in {"storaged", "graphd", "version"} \/ (at' = "status" /\ err')
    BY <1>4, ComponentSees, Afterwards DEF Comps, ReconcileComponent
  <2> QED
    BY <1>2, <2>1
<1>5. CASE SyncExporter
  BY <1>5, Afterwards DEF SyncExporter, Go, ExporterOf, DoneIsTrue, AtEnd
<1>6. CASE SyncConsole
  <2>1. /\ Walking /\ ~queued /\ at = "console" /\ UNCHANGED <<exporter, copy, claim, pod>>
        /\ \/ at' = "status" /\ err'
           \/ at' = "create"
           \/ at' = "annotate" /\ console.version = copy.version /\ UNCHANGED console
    BY <1>6, WalkingIs, Afterwards DEF SyncConsole, Fail, Go, ConsoleOf, Walk, cluster
  <2> QED
    BY <2>1 DEF DoneIsTrue, AtEnd
<1>7. CASE CreateConsole
  <2>1. /\ Walking /\ ~queued /\ at = "create" /\ UNCHANGED <<exporter, copy, claim, pod>>
        /\ \/ at' = "status" /\ err'
           \/ at' = "annotate" /\ console'.version = copy.version
    BY <1>7, WalkingIs, Afterwards DEF CreateConsole, Fail, Go, ConsoleOf, Walk, cluster
  <2> QED
    BY <2>1 DEF DoneIsTrue, AtEnd
<1>8. CASE Annotate
  <2>1. /\ Walking /\ ~queued /\ at = "annotate" /\ at' = "status"
        /\ UNCHANGED <<exporter, console, copy, pod>>
    BY <1>8, WalkingIs, Afterwards DEF Annotate, Go, Walk, extras
  <2>2. ASSUME NEW c \in Comps, pod[c] = "ready" PROVE claim'[c].ann = Bool(copy.reclaim)
    <3>1. c \in WithPod
      BY <2>2 DEF WithPod, ClaimsStay
    <3> QED
      BY <1>8, <3>1, MarkedClaims DEF Annotate
  <2> QED
    BY <2>1, <2>2 DEF DoneIsTrue, AtEnd
<1>9. CASE ConsoleGone \/ UNCHANGED vars \/ \E c \in Comps : ClaimGone(c) \/ Collect(c)
  <2>1. UNCHANGED <<copy, pod, at, err, exporter, queued>> /\ Walking /\ ~queued
    BY <1>9, WalkingIs, WalkingNext DEF ConsoleGone, vars, cluster, extras, pass, ClaimGone,
       Collect, Outside
  <2>2. CASE UNCHANGED console
    <3>1. ASSUME NEW c \in Comps, pod[c] = "ready" PROVE claim'[c] = claim[c]
      BY <1>9, <2>2, <3>1 DEF ConsoleGone, vars, cluster, ClaimGone, Collect, TypeInv, Typed
    <3> QED
      BY <2>1, <2>2, <3>1 DEF DoneIsTrue, AtEnd
  <2>3. CASE ConsoleGone
    <3>1. console.version # copy.version
      <4>1. console.version \in Nat /\ copy.version \in Nat
        BY BoundsAssumption DEF TypeInv, Typed, Object
      <4> QED
        BY <2>1, <2>3, <4>1 DEF ConsoleGone, VersionsGrow, ConsoleBehind
    <3> QED
      BY <2>1, <2>3, <3>1 DEF DoneIsTrue, AtEnd
  <2>4. UNCHANGED console \/ ConsoleGone
    BY <1>9 DEF vars, extras, ClaimGone, Collect, Outside
  <2> QED
    BY <2>2, <2>3, <2>4
<1> QED
  BY <1>1, <1>3, <1>4, <1>5, <1>6, <1>7, <1>8, <1>9 DEF Undisturbed

-----------------------------------------------------------------------------
(* The controller rests when all is done *)

\* The write of a status that wakes nobody
LEMMA LastWrite ==
  ASSUME TypeInv, ClaimsStay, VersionsGrow, SeenIsTrue, DoneIsTrue, WriteStatus, Asleep'
  PROVE  AsleepIsDone'
<1>1. /\ at = "status" /\ ~err /\ ~queued /\ nc' = nc /\ Final.ready
      /\ UNCHANGED <<pod, claim, exporter, console>>
  BY DEF WriteStatus, Asleep, cluster, extras
<1>2. /\ nc \in Object /\ nc.status \in Status /\ copy.status \in Status /\ nc.life = "live"
  BY <1>1, StatusOf DEF TypeInv, Typed, Asleep
<1>3. nc.status = Final
  BY <1>1, <1>2 DEF WriteStatus, Object
<1>4. /\ nc.status.ready /\ ReadyCondition
      /\ copy.status.phase = nc.status.phase
  BY <1>1, <1>2, <1>3 DEF Final, Status
<1>5. Walking /\ \A c \in Comps : Past(c)
  BY <1>1, WalkingIs, PastWalks
<1>6. /\ copy.suspend = nc.suspend /\ copy.reclaim = nc.reclaim /\ copy.version = nc.version
      /\ \A c \in Comps : pod[c] = "ready" /\ (c = "graphd" => ~copy.suspend)
  BY <1>1, <1>4, <1>5 DEF SeenIsTrue, ReadyCondition
<1>7. ~nc.suspend
  BY <1>6 DEF Comps
<1>8. exporter = nc.version /\ console.version = nc.version
  BY <1>1, <1>5, <1>6 DEF DoneIsTrue, AtEnd
<1>9. ~console.term
  <2>1. nc.version \in Nat
    BY <1>2 DEF Object
  <2> QED
    BY <1>8, <2>1 DEF VersionsGrow, ConsoleBehind
<1>10. \A c \in Comps : claim[c] # NoClaim /\ claim[c].ann = Bool(nc.reclaim)
  BY <1>1, <1>5, <1>6 DEF DoneIsTrue, AtEnd, ClaimsStay
<1> QED
  BY <1>1, <1>4, <1>7, <1>8, <1>9, <1>10 DEF AsleepIsDone

LEMMA AsleepStep == ASSUME TypeInv, RestInv, [Next]_vars PROVE AsleepIsDone'
<1> SUFFICES ASSUME Asleep' PROVE AsleepIsDone'
  BY DEF AsleepIsDone
<1> USE DEF RestInv
<1>1. CASE WriteStatus
  BY <1>1, LastWrite
<1>2. CASE ConsoleGone \/ UNCHANGED vars \/ \E c \in Comps : ClaimGone(c) \/ Collect(c)
  <2>1. UNCHANGED <<nc, at, queued, exporter>> /\ Asleep
    BY <1>2 DEF ConsoleGone, vars, extras, pass, ClaimGone, Collect, Outside, Asleep
  <2>2. ~ConsoleGone /\ \A c \in Comps : ~ClaimGone(c)
    BY <2>1 DEF ConsoleGone, ClaimGone, AsleepIsDone, Asleep, ClaimsStay
  <2>3. UNCHANGED <<claim, console>>
    BY <1>2, <2>2 DEF vars, cluster, extras, Collect, Outside
  <2> QED
    BY <2>1, <2>3 DEF AsleepIsDone
<1>3. ~(\/ StartPass \/ AddFinalizer \/ SetClusterVersion \/ SyncExporter \/ SyncConsole
        \/ CreateConsole \/ Annotate \/ DeleteGraphd \/ DeleteStoraged \/ ListClaims
        \/ DeleteClaim \/ \E c \in Comps : ReconcileComponent(c))
  BY Afterwards DEF Asleep, StartPass, AddFinalizer, SetClusterVersion, SyncExporter, SyncConsole,
     CreateConsole, Annotate, DeleteGraphd, DeleteStoraged, DeleteWorkload, ListClaims,
     DeleteClaim, ReconcileComponent, Sync, Proceed, Go, Fail, Comps
<1>4. ~RemoveFinalizer
  <2> SUFFICES ASSUME RemoveFinalizer PROVE FALSE
    OBVIOUS
  <2>1. nc.life # "live" /\ nc \in Object
    BY DEF RemoveFinalizer, ClaimsStay, DeleteSteps, TypeInv, Typed
  <2>2. nc'.life # "live"
    BY <2>1 DEF RemoveFinalizer, Object
  <2> QED
    BY <2>2 DEF Asleep
<1>5. ~(CallFails \/ Crash \/ RestoreAdvances \/ Suspend \/ SetReclaim \/ ChangeVersion \/ Delete)
  BY DEF Asleep, CallFails, Crash, RestoreAdvances, Suspend, SetReclaim, ChangeVersion, Delete,
     Change, Fail
<1>6. \A c \in Comps : ~(Evict(c) \/ CreatePod(c) \/ PodReady(c) \/ WorkloadGoes(c))
  BY DEF Asleep, Evict, CreatePod, PodReady, WorkloadGoes
<1> QED
  BY <1>1, <1>2, <1>3, <1>4, <1>5, <1>6 DEF Next, Operator, Kubernetes, ReconcileMetad,
     ReconcileStoraged, ReconcileGraphd, Comps

LEMMA RestInit == Init => RestInv
<1> SUFFICES ASSUME Init PROVE RestInv
  OBVIOUS
<1>1. ~Walking /\ at = "idle" /\ queued /\ ~err
  BY WalkingIs DEF Init, Walk
<1>2. nc.version = 1
  BY DEF Init, Created
<1>3. ClaimsStay
  BY <1>1 DEF Init, ClaimsStay, NoClaim, DeleteSteps
<1>4. VersionsGrow
  BY <1>1, <1>2 DEF Init, VersionsGrow, ConsoleBehind
<1> QED
  BY <1>1, <1>3, <1>4 DEF RestInv, ErrorEnds, SeenIsTrue, DoneIsTrue, AsleepIsDone, Asleep

LEMMA RestNext == TypeInv /\ RestInv /\ [Next]_vars => RestInv'
  BY ErrorStep, ClaimsStep, VersionsStep, SeenStep, DoneStep, AsleepStep DEF RestInv

\* RestsWhenDone for all constants: the controller goes to sleep only on a
\* cluster that is as its users want it, whatever fails, is lost, read late,
\* evicted or changed in the meantime (nebula_cluster_controller.go Reconcile,
\* nebula_cluster_control.go updateNebulaCluster)
THEOREM RestIsDone == Spec => []RestsWhenDone
<1>1. Init => Inv /\ RestInv
  BY InvInit, RestInit
<1>2. Inv /\ RestInv /\ [Next]_vars => Inv' /\ RestInv'
  BY InvNext, RestNext DEF Inv
<1>3. Inv /\ RestInv => RestsWhenDone
  BY TypeIs DEF Inv, RestsWhenDone
<1> QED
  BY <1>1, <1>2, <1>3, PTL DEF Spec
=============================================================================
