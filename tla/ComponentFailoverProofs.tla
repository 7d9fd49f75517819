---------------------- MODULE ComponentFailoverProofs ----------------------
(***************************************************************************)
(* The failover of metad and graphd is well typed.  With up to two faults  *)
(* it deletes, in an outage of a metad, only the claim that the metad had  *)
(* when it went offline, and leaves the metadata on a majority of members. *)
(***************************************************************************)
EXTENDS ComponentFailover, FiniteSetTheorems, TLAPS

USE NAssumption, BoundsAssumption

---------------------------------------------------------------------------
(* Types of the operators *)

\* The pods are those of metad and those of graphd.
LEMMA PodsAre ==
    /\ Of("metad") = Metads /\ Of("graphd") = Graphds
    /\ \A p \in Metads : p[1] = "metad" /\ p[2] < N /\ p \notin Graphds
    /\ \A p \in Graphds : p[1] = "graphd"
    /\ None \notin Pods
    /\ \A c \in Comps : Of(c) \subseteq Pods
<1>1. \A p \in Metads : p[1] = "metad" /\ p[2] \in 0 .. N - 1
  BY DEF Metads
<1>2. \A p \in Graphds : p[1] = "graphd"
  BY DEF Graphds
<1>3. None[1] = "metad" /\ None[2] = N
  BY DEF None
<1> QED
  BY <1>1, <1>2, <1>3 DEF Pods, Of, Comps

\* There are finitely many pods, N of them of metad.
LEMMA PodsFinite ==
    /\ IsFiniteSet(Metads) /\ Cardinality(Metads) = N
    /\ IsFiniteSet(Pods)
    /\ \A c \in Comps : \A S \in SUBSET Of(c) : IsFiniteSet(S) /\ Cardinality(S) \in Nat
<1>1. /\ IsFiniteSet({"metad"}) /\ Cardinality({"metad"}) = 1
      /\ IsFiniteSet({"graphd"})
  BY FS_Singleton
<1>2. /\ IsFiniteSet(0 .. N - 1) /\ Cardinality(0 .. N - 1) = N
      /\ IsFiniteSet(0 .. G - 1)
  BY FS_Interval, 0 \in Int, N - 1 \in Int, G - 1 \in Int
<1>3. /\ IsFiniteSet(Metads) /\ Cardinality(Metads) = 1 * N
      /\ IsFiniteSet(Graphds)
  BY <1>1, <1>2, FS_Product, Zenon DEF Metads, Graphds
<1>4. IsFiniteSet(Pods)
  BY <1>3, FS_Union DEF Pods
<1>5. ASSUME NEW c \in Comps, NEW S \in SUBSET Of(c)
      PROVE  IsFiniteSet(S) /\ Cardinality(S) \in Nat
  <2>1. IsFiniteSet(S)
    BY <1>4, <1>5, PodsAre, FS_Subset
  <2> QED
    BY <2>1, FS_CardinalityType
<1> QED
  BY <1>3, <1>4, <1>5

LEMMA HealthyType == Healthy \in StatusType
<1>1. NoFailure \in Failure
  BY DEF NoFailure, Failure
<1>2. \A c \in Comps : Cardinality(Of(c)) \in Nat
  BY PodsFinite
<1> QED
  BY <1>1, <1>2 DEF Healthy, StatusType

\* What the status sync and the steps of the failover write for a pod.
LEMMA FailureTypes ==
    ASSUME TypeOK, NEW p \in Pods
    PROVE  /\ NoFailure \in Failure /\ nc.failures[p] \in Failure /\ status.failures[p] \in Failure
           /\ Judge(p) \in Failure /\ Found(p) \in Nat
<1>1. NoFailure \in Failure /\ NewFailure \in Failure
  BY DEF NoFailure, NewFailure, Failure
<1>2. nc.failures[p] \in Failure /\ status.failures[p] \in Failure
  BY DEF TypeOK, StatusType
<1>3. Found(p) \in Nat
  BY DEF Found, TypeOK, Claim
<1>4. Confirm(p, Found(p)) \in Failure
  BY <1>2, <1>3 DEF Confirm, Failure
<1> QED
  BY <1>1, <1>2, <1>3, <1>4 DEF Judge

\* A flag set in the record of a pod leaves the copy a status.
LEMMA FlagTypes ==
    ASSUME TypeOK, NEW p \in Pods
    PROVE  /\ [nc EXCEPT !.failures[p].restarted = TRUE] \in StatusType
           /\ [nc EXCEPT !.failures[p].rebuilt = TRUE] \in StatusType
<1>1. /\ [nc.failures[p] EXCEPT !.restarted = TRUE] \in Failure
      /\ [nc.failures[p] EXCEPT !.rebuilt = TRUE] \in Failure
  BY FailureTypes DEF Failure
<1> QED
  BY <1>1 DEF TypeOK, StatusType

---------------------------------------------------------------------------
(* Type correctness *)

LEMMA TypeInit == Init => TypeOK
BY HealthyType DEF Init, TypeOK, Claim, Pods, Comps

LEMMA WatchType ==
    ASSUME TypeOK, StartPass \/ SyncStatus \/ ShouldRecover
    PROVE  TypeOK'
<1>1. CASE StartPass
  BY <1>1 DEF TypeOK, StartPass, spec, kube, budget
<1>2. CASE SyncStatus
  <2>1. Existing(comp) \in Nat
    BY PodsFinite DEF Existing, TypeOK
  <2> DEFINE f == [p \in Pods |-> IF p \in Of(comp) \ online THEN Judge(p) ELSE nc.failures[p]]
  <2>2. f \in [Pods -> Failure]
    BY FailureTypes
  <2>3. [nc.workload EXCEPT ![comp] = Existing(comp)] \in [Comps -> Nat]
    BY <2>1 DEF TypeOK, StatusType
  <2> HIDE DEF f
  <2>4. /\ [nc EXCEPT !.workload[comp] = Existing(comp)] \in StatusType
        /\ [failures |-> f, workload |-> [nc.workload EXCEPT ![comp] = Existing(comp)]] \in StatusType
    BY <2>2, <2>3 DEF TypeOK, StatusType
  <2>5. nc' \in StatusType /\ pc' \in {"recover", "end"} /\ victim' = victim /\ comp' = comp
    BY <1>2, <2>4 DEF SyncStatus, Goto, f, TypeOK
  <2>6. due' \subseteq Pods
    BY <1>2 DEF SyncStatus, TypeOK
  <2> QED
    BY <1>2, <2>5, <2>6 DEF TypeOK, SyncStatus, spec, kube, budget
<1>3. CASE ShouldRecover
  <2>1. [p \in Pods |-> IF p \in Back THEN NoFailure ELSE nc.failures[p]] \in [Pods -> Failure]
    BY FailureTypes
  <2>2. nc' \in StatusType /\ pc' \in {"end", "restart", "update"} /\ victim' = victim /\ comp' = comp
    BY <1>3, <2>1 DEF TypeOK, ShouldRecover, StatusType, Goto
  <2> QED
    BY <1>3, <2>2 DEF TypeOK, ShouldRecover, spec, kube, budget
<1> QED
  BY <1>1, <1>2, <1>3

\* The open failure hosts are pods of the component.
LEMMA FailedPods == ASSUME TypeOK PROVE Open \subseteq Failed /\ Failed \subseteq Of(comp) /\ Failed \subseteq Pods
BY PodsAre DEF Open, Failed, TypeOK

LEMMA FailoverType ==
    ASSUME TypeOK, Failover
    PROVE  TypeOK'
<1>a. \A p \in Pods : DeletePod(p) =>
        /\ pods' \in [Pods -> {"absent", "pending", "scheduled", "running", "ready", "terminating"}]
        /\ aged' \subseteq Pods
  BY DEF TypeOK, DeletePod
<1>1. CASE TryRestartPod
  <2>1. nc' \in StatusType
    BY <1>1, FlagTypes, FailedPods DEF TypeOK, TryRestartPod
  <2>2. /\ pods' \in [Pods -> {"absent", "pending", "scheduled", "running", "ready", "terminating"}]
        /\ aged' \subseteq Pods
    BY <1>1, <1>a, FailedPods DEF TryRestartPod, TypeOK
  <2>3. pc' \in {"end", "tolerate"} /\ comp' = comp /\ victim' = victim
    BY <1>1 DEF TryRestartPod, Goto
  <2> QED
    BY <1>1, <2>1, <2>2, <2>3 DEF TypeOK, TryRestartPod, spec, budget
<1>2. CASE ToleratePods
  <2>1. /\ nc' \in StatusType /\ pc' \in {"idle", "end", "rebuild"}
        /\ comp' \in Comps /\ victim' \in Pods \union {None}
    BY <1>2, HealthyType DEF ToleratePods, Forget, Goto, TypeOK, Comps
  <2> QED
    BY <1>2, <2>1 DEF TypeOK, ToleratePods, spec, kube, budget
<1>3. CASE RebuildPod
  <2>1. /\ pods' \in [Pods -> {"absent", "pending", "scheduled", "running", "ready", "terminating"}]
        /\ aged' \subseteq Pods
    BY <1>3, <1>a, FailedPods DEF RebuildPod, TypeOK
  <2>2. /\ pc' \in {"pending", "end", "claims"} /\ comp' = comp
        /\ victim' \in Pods \union {None}
    BY <1>3, FailedPods DEF RebuildPod, Goto, TypeOK
  <2> QED
    BY <1>3, <2>1, <2>2 DEF TypeOK, RebuildPod, spec, budget
<1>4. CASE DeleteClaim
  <2>1. nc' \in StatusType
    <3>1. CASE victim \in Pods
      BY <1>4, <3>1, FlagTypes DEF DeleteClaim, Rebuilt
    <3>2. CASE victim \notin Pods
      <4>1. Rebuilt = nc
        BY <3>2 DEF Rebuilt, TypeOK, StatusType
      <4> QED
        BY <1>4, <4>1 DEF DeleteClaim, TypeOK
    <3> QED
      BY <3>1, <3>2
  <2>2. claims' \in [Metads -> Claim]
    BY <1>4 DEF DeleteClaim, TypeOK, Claim
  <2> QED
    BY <1>4, <2>1, <2>2 DEF TypeOK, DeleteClaim, Goto, spec, budget
<1>5. CASE CheckPendingPod
  <2>1. claims' \in [Metads -> Claim]
    BY <1>5 DEF CheckPendingPod, TypeOK, Claim, kube
  <2>2. /\ pods' \in [Pods -> {"absent", "pending", "scheduled", "running", "ready", "terminating"}]
        /\ aged' \subseteq Pods
    BY <1>5, <1>a, FailedPods DEF CheckPendingPod, TypeOK, kube
  <2>3. data' \subseteq Metads /\ pc' \in {"end", "update"} /\ comp' = comp /\ victim' = victim
    BY <1>5 DEF CheckPendingPod, TypeOK, kube, Goto
  <2> QED
    BY <1>5, <2>1, <2>2, <2>3 DEF TypeOK, CheckPendingPod, spec, budget
<1> QED
  BY <1>1, <1>2, <1>3, <1>4, <1>5 DEF Failover

LEMMA PassType ==
    ASSUME TypeOK, UpdateWorkload \/ EndPass \/ CallFails \/ Crash \/ Scale
    PROVE  TypeOK'
<1>1. CASE UpdateWorkload
  BY <1>1 DEF TypeOK, UpdateWorkload, kube, budget, Comps
<1>2. CASE EndPass
  BY <1>2, HealthyType DEF TypeOK, EndPass, Forget, spec, kube, budget, Comps
<1>3. CASE CallFails
  BY <1>3 DEF TypeOK, CallFails, Fault, Goto, spec, kube
<1>4. CASE Crash
  BY <1>4, HealthyType DEF TypeOK, Crash, Fault, Forget, spec, kube, Comps
<1>5. CASE Scale
  BY <1>5 DEF TypeOK, Scale, kube, local
<1> QED
  BY <1>1, <1>2, <1>3, <1>4, <1>5

LEMMA NodeType ==
    ASSUME TypeOK, NEW p \in Pods, Node(p)
    PROVE  TypeOK'
<1> USE DEF Outside, spec, budget, local
<1>a. p \in Metads => claims[p] \in Claim
  BY DEF TypeOK
<1>1. CASE PodCreate(p)
  <2>1. claims' \in [Metads -> Claim]
    <3>1. p \in Metads => [uid |-> claims[p].uid + 1, state |-> "bound", lost |-> FALSE] \in Claim
      BY <1>a DEF Claim
    <3> QED
      BY <1>1, <3>1 DEF PodCreate, TypeOK
  <2> QED
    BY <1>1, <2>1 DEF TypeOK, PodCreate
<1>2. CASE PodSchedule(p) \/ PodReady(p) \/ Evict(p) \/ PodRecovers(p)
  BY <1>2 DEF TypeOK, PodSchedule, PodReady, Evict, PodRecovers
<1>3. CASE PodScaledIn(p)
  BY <1>3 DEF TypeOK, PodScaledIn, DeletePod
<1>4. CASE ClaimGone(p)
  <2>1. claims' \in [Metads -> Claim]
    BY <1>4, <1>a DEF ClaimGone, TypeOK, Claim
  <2> QED
    BY <1>4, <2>1 DEF TypeOK, ClaimGone
<1>5. CASE PodAges(p) \/ PeriodElapses(p) \/ CatchUp(p) \/ Heartbeat(p)
  BY <1>5 DEF TypeOK, PodAges, PeriodElapses, CatchUp, Heartbeat, Fault, kube
<1>6. CASE Silent(p) \/ Blip(p)
  <2>1. suspect' \in [Metads -> Nat]
    BY <1>6, FailureTypes DEF TypeOK, Silent, Blip
  <2> QED
    BY <1>6, <2>1 DEF TypeOK, Silent, Blip, Fault, kube
<1>7. CASE NodeDown(p)
  <2>1. claims' \in [Metads -> Claim]
    BY <1>7, <1>a DEF NodeDown, TypeOK, Claim
  <2> QED
    BY <1>7, <2>1 DEF TypeOK, NodeDown, Fault
<1>8. CASE PodCrash(p)
  BY <1>8 DEF TypeOK, PodCrash, Fault
<1> QED
  BY <1>1, <1>2, <1>3, <1>4, <1>5, <1>6, <1>7, <1>8 DEF Node

LEMMA TypeNext == TypeOK /\ [Next]_vars => TypeOK'
<1> SUFFICES ASSUME TypeOK, [Next]_vars PROVE TypeOK'
  OBVIOUS
<1>1. CASE UNCHANGED vars
  BY <1>1 DEF vars, spec, kube, local, budget, TypeOK
<1> QED
  BY <1>1, WatchType, FailoverType, PassType, NodeType
     DEF Next, Operator, MetadWatch, GraphdWatch, Watch, MetadFailover, GraphdFailover

\* The records of failures, the pods, the claims and the pass keep their types,
\* for any number of metads and graphds, any faults and any scaling of graphd
\* (metad_failover.go, graphd_failover.go).
THEOREM TypeCorrect == Spec => []TypeOK
BY TypeInit, TypeNext, PTL DEF Spec
---------------------------------------------------------------------------
(* What holds of a metad *)

\* The record of a failure in the status, and in the copy of the pass.
S(p) == status.failures[p]
F(p) == nc.failures[p]

\* At most two faults: with a third one, two passes can be lost around the deletion of
\* a claim, and the confirmation then takes its replacement for the claim that failed.
Careful == MaxFaults <= 2
\* No fault is left.
Spent == faults >= 2
Away(p) == pods[p] \in {"absent", "pending", "scheduled"}
Bound(p) == claims[p].state = "bound"

\* A member that nothing has happened to.
Fine(p) == /\ pods[p] = "ready" /\ p \in online /\ ~S(p).recorded /\ ~F(p).recorded
           /\ Bound(p) /\ ~claims[p].lost /\ p \in data
\* A fault concerns at most one member.
BadInv == /\ faults = 0 => \A p \in Metads : Fine(p)
          /\ ~Spent => \A p, q \in Metads : p = q \/ Fine(p) \/ Fine(q)

\* The steps of a failover follow each other.
PassInv == /\ pc = "restart" => \E p \in Failed : F(p).confirmed
           /\ pc = "claims" => victim \in Open

\* A record is empty until the host is recorded, and a restart in the copy is
\* saved when the pass goes on.
FlagsOk(f) == /\ f.confirmed \/ f.restarted \/ f.rebuilt => f.recorded
              /\ f.pvc # 0 => f.confirmed
Records(p) ==
    /\ FlagsOk(S(p)) /\ FlagsOk(F(p))
    /\ S(p).pvc <= claims[p].uid /\ F(p).pvc <= claims[p].uid
    /\ pc \notin {"idle", "end"} /\ F(p).restarted => S(p).restarted

\* What is on a lost node does not come back.
Volume(p) ==
    /\ pods[p] = "absent" => p \notin aged
    /\ claims[p].lost => p \notin data /\ pods[p] # "ready"

\* With at most one fault, a pod is away only after a restart, a restart comes
\* only after the confirmation, and both are in the status when the pass goes on.
Restarts(p) == ~Spent =>
    /\ S(p).restarted => S(p).confirmed
    /\ F(p).restarted => F(p).confirmed
    /\ S(p).restarted \/ F(p).restarted => Away(p) \/ pods[p] = "ready"
    /\ Away(p) => /\ S(p).restarted \/ (pc = "end" /\ F(p).restarted)
                  /\ pc # "idle" => F(p).restarted
    /\ comp = "metad" /\ pc \in {"tolerate", "rebuild", "claims", "pending"} /\ F(p).recorded
         => F(p).restarted

\* With at most one fault, only a member whose node is lost is rebuilt, once.
Given(p) == ~Bound(p) \/ (p \in aged /\ pods[p] \in {"pending", "scheduled"} /\ ~claims[p].lost)
Rebuilds(p) == ~Spent =>
    /\ ~Bound(p) => Away(p)
    /\ Given(p) => /\ S(p).rebuilt \/ (pc = "end" /\ F(p).rebuilt)
                   /\ pc # "idle" => F(p).rebuilt
    /\ comp = "metad" /\ ((pc = "rebuild" /\ p \in Open) \/ (pc = "claims" /\ p = victim))
         => Away(p) /\ Bound(p) /\ claims[p].lost

\* Well again, and no fault is left to change that.
Well(p) == pods[p] = "ready" /\ p \in online /\ ~F(p).recorded /\ Spent
\* A claim goes, and another comes, only after the failure is confirmed, which no
\* fault can make the status forget; a claim in a record is the suspect one.
Claimed(p) ==
    /\ ~Bound(p) => \/ S(p).confirmed
                    \/ pc = "end" /\ F(p).confirmed /\ Spent
                    \/ Well(p) /\ ~S(p).recorded
    /\ pc # "idle" /\ ~Bound(p) => F(p).confirmed \/ Well(p)
    /\ p \notin online /\ Found(p) # 0 /\ Found(p) # suspect[p] =>
         /\ S(p).confirmed \/ (pc = "end" /\ F(p).confirmed /\ Spent)
         /\ pc # "idle" => F(p).confirmed
    /\ S(p).confirmed /\ Found(p) # 0 /\ S(p).pvc = Found(p) => suspect[p] = Found(p)
    /\ F(p).confirmed /\ Found(p) # 0 /\ F(p).pvc = Found(p) => suspect[p] = Found(p)

MetadInv(p) == Records(p) /\ Volume(p) /\ Restarts(p) /\ Rebuilds(p) /\ Claimed(p)
OutageInv == BadInv /\ PassInv /\ \A p \in Metads : MetadInv(p)

\* A metad in the state.
LEMMA View ==
    ASSUME TypeOK, NEW p \in Metads
    PROVE  /\ p \in Pods /\ S(p) \in Failure /\ F(p) \in Failure /\ claims[p] \in Claim
           /\ pods[p] \in {"absent", "pending", "scheduled", "running", "ready", "terminating"}
           /\ suspect[p] \in Nat /\ faults \in Nat
           /\ Found(p) = IF claims[p].state # "none" THEN claims[p].uid ELSE 0
BY FailureTypes DEF TypeOK, S, F, Found, Pods

\* A step changes nothing of a metad.
Same(p) == /\ pods'[p] = pods[p] /\ (p \in aged' <=> p \in aged) /\ claims'[p] = claims[p]
           /\ (p \in online' <=> p \in online) /\ (p \in data' <=> p \in data)
           /\ suspect'[p] = suspect[p]
Counted == faults' = faults \/ (faults < MaxFaults /\ faults' = faults + 1)

LEMMA Untouched ==
    ASSUME TypeOK, NEW p \in Metads, MetadInv(p), Same(p), Counted, UNCHANGED <<status, local>>
    PROVE  MetadInv(p)'
<1>1. Found(p)' = Found(p)
  BY DEF Found, Same
<1>2. Spent => Spent'
  BY View DEF Counted, Spent
<1>3. S(p)' = S(p) /\ F(p)' = F(p) /\ pc' = pc /\ comp' = comp /\ victim' = victim
  BY DEF S, F, local
<1>4. (p \in Open)' <=> p \in Open
  BY DEF Open, Failed, local
<1>5. Records(p)' /\ Volume(p)'
  BY <1>3 DEF MetadInv, Records, Volume, Same
<1>6. Restarts(p)' /\ Rebuilds(p)'
  BY <1>2, <1>3, <1>4 DEF MetadInv, Restarts, Rebuilds, Same, Away, Bound, Given
<1>7. Claimed(p)'
  BY <1>1, <1>2, <1>3 DEF MetadInv, Claimed, Same, Bound, Well
<1> QED
  BY <1>5, <1>6, <1>7 DEF MetadInv

\* A step of a pod, of time or of a node concerns that pod only.
LEMMA Others ==
    ASSUME TypeOK, NEW h \in Pods, Node(h), NEW p \in Metads
    PROVE  /\ UNCHANGED <<status, local>> /\ Counted
           /\ p # h => Same(p)
<1>1. p \in Pods
  BY View
<1>2. CASE PodCreate(h) \/ PodSchedule(h) \/ PodReady(h) \/ PodScaledIn(h) \/ ClaimGone(h)
  BY <1>1, <1>2 DEF PodCreate, PodSchedule, PodReady, PodScaledIn, ClaimGone, DeletePod, Outside,
                    Same, Counted, budget, TypeOK
<1>3. CASE PodAges(h) \/ PeriodElapses(h) \/ CatchUp(h) \/ Heartbeat(h) \/ Silent(h) \/ Blip(h)
  BY <1>1, <1>3 DEF PodAges, PeriodElapses, CatchUp, Heartbeat, Silent, Blip, Fault, Outside,
                    Same, Counted, budget, kube, TypeOK
<1>4. CASE NodeDown(h) \/ Evict(h) \/ PodCrash(h) \/ PodRecovers(h)
  BY <1>1, <1>4 DEF NodeDown, Evict, PodCrash, PodRecovers, Fault, Outside,
                    Same, Counted, budget, TypeOK
<1> QED
  BY <1>2, <1>3, <1>4 DEF Node

\* A fault is the first and finds the metad fine, or leaves none.
LEMMA FaultStrikes ==
    ASSUME TypeOK, OutageInv, NEW p \in Metads, Fault
    PROVE  Spent' \/ (faults = 0 /\ Fine(p))
<1>1. faults \in Nat /\ faults' = faults + 1
  BY DEF TypeOK, Fault
<1>2. CASE faults = 0
  BY <1>2 DEF OutageInv, BadInv
<1>3. CASE faults # 0
  BY <1>1, <1>3 DEF Spent
<1> QED
  BY <1>2, <1>3

\* The pod of a metad and its claim come.
LEMMA PodComes ==
    ASSUME TypeOK, OutageInv, NEW p \in Metads, PodCreate(p) \/ PodSchedule(p) \/ PodReady(p) \/ PodRecovers(p)
    PROVE  MetadInv(p)'
<1>0. MetadInv(p) /\ p \in Pods /\ claims[p] \in Claim
  BY View DEF OutageInv
<1>1. /\ S(p)' = S(p) /\ F(p)' = F(p) /\ pc' = pc /\ comp' = comp /\ victim' = victim
      /\ Open' = Open /\ (Spent' <=> Spent) /\ online' = online /\ suspect' = suspect
      /\ aged' = aged /\ data' = data
  BY DEF PodCreate, PodSchedule, PodReady, PodRecovers, Outside, local, budget, S, F, Open, Failed, Spent
<1>2. CASE claims' = claims
  <2>1. /\ Found(p)' = Found(p) /\ claims'[p] = claims[p]
    BY <1>2 DEF Found
  <2>2. \/ pods[p] \in {"absent", "pending"} /\ pods'[p] = "pending" /\ claims[p].state # "none"
        \/ pods[p] = "pending" /\ pods'[p] = "scheduled" /\ Usable(p)
        \/ pods[p] \in {"scheduled", "running"} /\ pods'[p] = "ready" /\ Usable(p)
    BY <1>0, <1>2 DEF PodCreate, PodSchedule, PodReady, PodRecovers, TypeOK
  <2>3. Records(p)' /\ Volume(p)'
    BY <1>0, <1>1, <2>1, <2>2 DEF MetadInv, Records, Volume, Usable
  <2>4. Restarts(p)'
    BY <1>0, <1>1, <2>1, <2>2 DEF MetadInv, Restarts, Away
  <2>5. Rebuilds(p)'
    BY <1>0, <1>1, <2>1, <2>2 DEF MetadInv, Volume, Rebuilds, Away, Bound, Given, Usable
  <2>6. Claimed(p)'
    BY <1>0, <1>1, <2>1, <2>2 DEF MetadInv, Claimed, Bound, Well, Usable
  <2> QED
    BY <2>3, <2>4, <2>5, <2>6 DEF MetadInv
<1>3. CASE claims' # claims
  <2>1. /\ claims[p].state = "none" /\ pods[p] \in {"absent", "pending"} /\ pods'[p] = "pending"
        /\ claims'[p] = [uid |-> claims[p].uid + 1, state |-> "bound", lost |-> FALSE]
    BY <1>0, <1>3 DEF PodCreate, PodSchedule, PodReady, PodRecovers, TypeOK
  <2>2. /\ Found(p) = 0 /\ Found(p)' = claims[p].uid + 1 /\ claims[p].uid \in Nat
        /\ claims'[p].state = "bound" /\ ~claims'[p].lost /\ claims'[p].uid = claims[p].uid + 1
    BY <1>0, <2>1 DEF Found, Claim
  <2>3. S(p).pvc \in Nat /\ F(p).pvc \in Nat
    BY View DEF Failure
  <2>4. Records(p)' /\ Volume(p)'
    BY <1>0, <1>1, <2>1, <2>2, <2>3 DEF MetadInv, Records, Volume
  <2>5. Restarts(p)' /\ Rebuilds(p)'
    BY <1>0, <1>1, <2>1, <2>2 DEF MetadInv, Restarts, Rebuilds, Away, Bound, Given
  <2>6. Claimed(p)'
    BY <1>0, <1>1, <2>1, <2>2, <2>3 DEF MetadInv, Records, Claimed, Bound, Well
  <2> QED
    BY <2>4, <2>5, <2>6 DEF MetadInv
<1> QED
  BY <1>2, <1>3

\* A pod of metad is never scaled in, and its claim goes when the pod is away.
LEMMA ClaimGoes ==
    ASSUME TypeOK, OutageInv, NEW p \in Metads, PodScaledIn(p) \/ ClaimGone(p)
    PROVE  MetadInv(p)'
<1>0. MetadInv(p) /\ p \in Pods /\ claims[p] \in Claim
  BY View DEF OutageInv
<1>1. ClaimGone(p)
  BY PodsAre DEF PodScaledIn, Member
<1>2. /\ S(p)' = S(p) /\ F(p)' = F(p) /\ pc' = pc /\ comp' = comp /\ victim' = victim
      /\ Open' = Open /\ (Spent' <=> Spent) /\ online' = online /\ suspect' = suspect
      /\ aged' = aged /\ pods' = pods /\ data' = data \ {p}
  BY <1>1 DEF ClaimGone, Outside, local, budget, S, F, Open, Failed, Spent
<1>3. /\ claims[p].state = "deleting" /\ pods[p] \in {"absent", "pending"}
      /\ claims'[p].state = "none" /\ claims'[p].uid = claims[p].uid /\ claims'[p].lost = claims[p].lost
  BY <1>0, <1>1 DEF ClaimGone, TypeOK, Claim
<1>4. Found(p)' = 0
  BY <1>3 DEF Found
<1>5. Records(p)' /\ Volume(p)'
  BY <1>0, <1>2, <1>3 DEF MetadInv, Records, Volume
<1>6. Restarts(p)' /\ Rebuilds(p)'
  BY <1>0, <1>2, <1>3 DEF MetadInv, Restarts, Rebuilds, Away, Bound, Given
<1>7. Claimed(p)'
  BY <1>0, <1>2, <1>3, <1>4 DEF MetadInv, Claimed, Bound, Well
<1> QED
  BY <1>5, <1>6, <1>7 DEF MetadInv

\* Time goes on, and a member comes back.
LEMMA TimePasses ==
    ASSUME TypeOK, OutageInv, NEW p \in Metads,
           PodAges(p) \/ PeriodElapses(p) \/ CatchUp(p) \/ Heartbeat(p)
    PROVE  MetadInv(p)'
<1>0. MetadInv(p) /\ p \in Pods /\ claims[p] \in Claim
  BY View DEF OutageInv
<1>1. /\ S(p)' = S(p) /\ F(p)' = F(p) /\ pc' = pc /\ comp' = comp /\ victim' = victim
      /\ Open' = Open /\ suspect' = suspect
      /\ pods' = pods /\ claims' = claims
  BY DEF PodAges, PeriodElapses, CatchUp, Heartbeat, Outside, local, S, F, Open, Failed, kube
<1>2. Found(p)' = Found(p)
  BY <1>1 DEF Found
<1>3. CASE PodAges(p)
  <2>1. /\ pods[p] # "absent" /\ aged' = aged \union {p} /\ online' = online /\ data' = data
    BY <1>3 DEF PodAges
  <2>2. (Spent => Spent') /\ (Spent' \/ (Spent' <=> Spent))
    BY <1>3, View DEF PodAges, Fault, Spent, budget
  <2>3. ~Spent' => ~(pods[p] \in {"pending", "scheduled"} /\ Usable(p))
    <3>1. CASE pods[p] \in {"pending", "scheduled"} /\ Usable(p)
      BY <1>3, <3>1, FaultStrikes DEF PodAges, Fine
    <3> QED
      BY <3>1
  <2>4. Records(p)' /\ Volume(p)'
    BY <1>0, <1>1, <2>1 DEF MetadInv, Records, Volume
  <2>5. Restarts(p)'
    BY <1>0, <1>1, <2>1, <2>2 DEF MetadInv, Restarts, Away
  <2>6. Rebuilds(p)'
    BY <1>0, <1>1, <2>1, <2>2, <2>3 DEF MetadInv, Rebuilds, Away, Bound, Given, Usable
  <2>7. Claimed(p)'
    BY <1>0, <1>1, <1>2, <2>1, <2>2 DEF MetadInv, Claimed, Bound, Well
  <2> QED
    BY <2>4, <2>5, <2>6, <2>7 DEF MetadInv
<1>4. CASE PeriodElapses(p)
  <2>1. Same(p) /\ UNCHANGED <<status, local>> /\ Counted
    BY <1>4 DEF PeriodElapses, Same, Outside, kube, Counted, budget
  <2> QED
    BY <1>0, <2>1, Untouched
<1>5. CASE CatchUp(p) \/ Heartbeat(p)
  <2>1. /\ aged' = aged /\ (Spent' <=> Spent) /\ online \subseteq online'
        /\ pods[p] = "ready" /\ (data' = data \/ pods[p] = "ready")
    BY <1>5 DEF CatchUp, Heartbeat, Spent, budget, kube
  <2>2. Records(p)' /\ Volume(p)' /\ Restarts(p)' /\ Rebuilds(p)'
    BY <1>0, <1>1, <2>1 DEF MetadInv, Records, Volume, Restarts, Rebuilds, Away, Bound, Given
  <2>3. Claimed(p)'
    BY <1>0, <1>1, <1>2, <2>1 DEF MetadInv, Claimed, Bound, Well
  <2> QED
    BY <2>2, <2>3 DEF MetadInv
<1> QED
  BY <1>3, <1>4, <1>5

\* Heartbeats stop: the claim of this moment is the suspect one.
LEMMA GoesSilent ==
    ASSUME Careful, TypeOK, OutageInv, NEW p \in Metads, Silent(p) \/ Blip(p)
    PROVE  MetadInv(p)'
<1>0. MetadInv(p) /\ p \in Pods /\ claims[p] \in Claim /\ Found(p) \in Nat
  BY View, FailureTypes DEF OutageInv
<1>1. /\ S(p)' = S(p) /\ F(p)' = F(p) /\ pc' = pc /\ comp' = comp /\ victim' = victim
      /\ Open' = Open /\ pods' = pods /\ claims' = claims /\ aged' = aged /\ data' = data
      /\ p \in online /\ p \notin online' /\ suspect'[p] = Found(p)
  BY <1>0 DEF Silent, Blip, local, S, F, Open, Failed, kube, TypeOK
<1>2. Found(p)' = Found(p)
  BY <1>1 DEF Found
<1>3. /\ Spent => Spent' 
      /\ \/ pods[p] # "ready" /\ (Spent' <=> Spent)
         \/ ~Spent
  <2>1. CASE Silent(p)
    BY <2>1 DEF Silent, Spent, budget
  <2>2. CASE Blip(p)
    <3>1. faults \in Nat /\ faults' = faults + 1 /\ ~Spent
      BY <2>2 DEF Blip, Fault, TypeOK, Spent, Careful
    <3> QED
      BY <3>1 DEF Spent
  <2> QED
    BY <2>1, <2>2
<1>4. Records(p)' /\ Volume(p)'
  BY <1>0, <1>1 DEF MetadInv, Records, Volume
<1>5. Restarts(p)' /\ Rebuilds(p)'
  BY <1>0, <1>1, <1>3 DEF MetadInv, Restarts, Rebuilds, Away, Bound, Given
<1>6. Claimed(p)'
  BY <1>0, <1>1, <1>2, <1>3 DEF MetadInv, Claimed, Bound, Well
<1> QED
  BY <1>4, <1>5, <1>6 DEF MetadInv

\* The node of a pod is lost, or its process fails.
LEMMA PodFails ==
    ASSUME Careful, TypeOK, OutageInv, NEW p \in Metads, NodeDown(p) \/ PodCrash(p) \/ Evict(p)
    PROVE  MetadInv(p)'
<1>0. MetadInv(p) /\ p \in Pods /\ claims[p] \in Claim
  BY View DEF OutageInv
<1>1. /\ S(p)' = S(p) /\ F(p)' = F(p) /\ pc' = pc /\ comp' = comp /\ victim' = victim
      /\ Open' = Open /\ online' = online /\ suspect' = suspect /\ aged' = aged
      /\ pods[p] \in {"ready", "running"} /\ pods'[p] \in {"running", "terminating"}
      /\ claims'[p].uid = claims[p].uid /\ claims'[p].state = claims[p].state
      /\ \/ claims'[p].lost = claims[p].lost /\ data' = data
         \/ data' = data \ {p}
  BY <1>0 DEF NodeDown, PodCrash, Evict, Outside, local, S, F, Open, Failed, TypeOK, Claim
<1>2. Found(p)' = Found(p)
  BY <1>1 DEF Found
<1>3. CASE Evict(p)
  <2>1. (Spent' <=> Spent) /\ pods[p] = "running" /\ claims' = claims
    BY <1>3 DEF Evict, Spent, budget
  <2>2. Records(p)' /\ Volume(p)' /\ Restarts(p)' /\ Rebuilds(p)'
    BY <1>0, <1>1, <2>1 DEF MetadInv, Records, Volume, Restarts, Rebuilds, Away, Bound, Given
  <2>3. Claimed(p)'
    BY <1>0, <1>1, <1>2, <2>1 DEF MetadInv, Claimed, Bound, Well
  <2> QED
    BY <2>2, <2>3 DEF MetadInv
<1>4. CASE NodeDown(p) \/ PodCrash(p)
  <2>1. Fault
    BY <1>4 DEF NodeDown, PodCrash
  <2>2. ~Spent /\ (Spent' \/ Fine(p))
    BY <2>1, FaultStrikes DEF Fault, TypeOK, Spent, Careful
  <2>3. Records(p)' /\ Volume(p)'
    BY <1>0, <1>1 DEF MetadInv, Records, Volume
  <2>4. Restarts(p)' /\ Rebuilds(p)'
    BY <1>0, <1>1, <2>2 DEF MetadInv, Records, FlagsOk, Restarts, Rebuilds, Away, Bound, Given, Fine, Open, Failed, F
  <2>5. Claimed(p)'
    BY <1>0, <1>1, <1>2, <2>2 DEF MetadInv, Claimed, Rebuilds, Bound, Well, Away
  <2> QED
    BY <2>3, <2>4, <2>5 DEF MetadInv
<1> QED
  BY <1>3, <1>4

\* Whatever happens around the pass.
LEMMA WorldStep ==
    ASSUME Careful, TypeOK, OutageInv, NEW h \in Pods, Node(h), NEW p \in Metads
    PROVE  MetadInv(p)'
<1>1. CASE p # h
  BY <1>1, Others, Untouched DEF OutageInv
<1>2. CASE p = h
  BY <1>2, PodComes, ClaimGoes, TimePasses, GoesSilent, PodFails DEF Node
<1> QED
  BY <1>1, <1>2

---------------------------------------------------------------------------
(* The steps of a pass *)

\* The pods, claims, hosts and faults stay as they are.
Still == /\ UNCHANGED <<pods, aged, claims, data, online, suspect, faults>>
LEMMA StillIs ==
    ASSUME Still, NEW p \in Metads
    PROVE  /\ Found(p)' = Found(p) /\ (Away(p)' <=> Away(p)) /\ (Bound(p)' <=> Bound(p))
           /\ (Given(p)' <=> Given(p)) /\ (Spent' <=> Spent)
           /\ pods' = pods /\ aged' = aged /\ claims' = claims /\ data' = data
           /\ online' = online /\ suspect' = suspect
BY DEF Still, Found, Away, Bound, Given, Spent

\* A pass begins with the status, and goes on to graphd.
LEMMA PassBegins ==
    ASSUME TypeOK, OutageInv, NEW p \in Metads, StartPass \/ UpdateWorkload
    PROVE  MetadInv(p)'
<1>0. MetadInv(p)
  BY DEF OutageInv
<1>1. Still /\ S(p)' = S(p)
  BY DEF StartPass, UpdateWorkload, Still, kube, budget, S
<1>2. /\ pc \in {"idle", "update"} /\ pc' \in {"sync", "end"}
      /\ pc' = "end" => pc # "idle"
      /\ F(p)' = S(p) \/ (F(p)' = F(p) /\ pc # "idle")
      /\ pc = "idle" => F(p)' = S(p)
      /\ pc' = "end" => F(p)' = F(p)
  BY DEF StartPass, UpdateWorkload, F, S
<1>3. Records(p)' /\ Volume(p)'
  BY <1>0, <1>1, <1>2, StillIs DEF MetadInv, Records, Volume
<1>4. Restarts(p)' /\ Rebuilds(p)'
  BY <1>0, <1>1, <1>2, StillIs DEF MetadInv, Restarts, Rebuilds
<1>5. Claimed(p)'
  BY <1>0, <1>1, <1>2, StillIs DEF MetadInv, Claimed, Well
<1> QED
  BY <1>3, <1>4, <1>5 DEF MetadInv

\* What the status sync writes for a metad: a host that is offline is recorded,
\* and confirmed with the claim that it had.
LEMMA Judged ==
    ASSUME TypeOK, OutageInv, SyncStatus, NEW p \in Metads
    PROVE  \/ F(p)' = F(p)
           \/ F(p)' = NewFailure /\ ~F(p).recorded /\ p \notin online
           \/ /\ F(p)' = [F(p) EXCEPT !.confirmed = TRUE, !.pvc = Found(p)]
              /\ F(p).recorded /\ ~F(p).confirmed /\ p \notin online
<1>1. p \in Pods /\ Wanted(p[1]) = N /\ p[2] < N
  BY PodsAre DEF Wanted, Pods
<1>2. Judge(p) = IF ~F(p).recorded THEN NewFailure
                 ELSE IF p \in due /\ ~F(p).confirmed
                   THEN [F(p) EXCEPT !.confirmed = TRUE, !.pvc = Found(p)] ELSE F(p)
  BY <1>1 DEF Judge, Confirm, F, Metads
<1>3. F(p)' = F(p) \/ (p \notin online /\ F(p)' = Judge(p))
  BY <1>1 DEF SyncStatus, F, TypeOK, StatusType
<1> QED
  BY <1>2, <1>3

LEMMA SyncStep ==
    ASSUME TypeOK, OutageInv, NEW p \in Metads, SyncStatus
    PROVE  MetadInv(p)'
<1>0. MetadInv(p) /\ F(p) \in Failure /\ claims[p] \in Claim
  BY View DEF OutageInv
<1>1. Still /\ S(p)' = S(p) /\ pc = "sync" /\ pc' \in {"recover", "end"}
  BY DEF SyncStatus, Goto, Still, kube, budget, S
<1>2. /\ F(p)'.restarted = F(p).restarted /\ F(p)'.rebuilt = F(p).rebuilt
      /\ FlagsOk(F(p)')
      /\ \/ F(p)'.recorded = F(p).recorded /\ F(p)'.confirmed = F(p).confirmed /\ F(p)'.pvc = F(p).pvc
         \/ /\ p \notin online /\ ~F(p).confirmed /\ F(p)'.recorded
            /\ \/ ~F(p)'.confirmed /\ F(p)'.pvc = 0
               \/ F(p)'.confirmed /\ F(p)'.pvc = Found(p)
  BY <1>0, Judged DEF MetadInv, Records, FlagsOk, Failure, NewFailure, NoFailure
<1>3. Found(p) \in {0, claims[p].uid} /\ claims[p].uid \in Nat
  BY <1>0 DEF Found, Claim
<1>4. Records(p)' /\ Volume(p)'
  BY <1>0, <1>1, <1>2, <1>3, StillIs DEF MetadInv, Records, Volume
<1>5. Restarts(p)' /\ Rebuilds(p)'
  BY <1>0, <1>1, <1>2, StillIs DEF MetadInv, Restarts, Rebuilds
<1>6. Claimed(p)'
  BY <1>0, <1>1, <1>2, StillIs DEF MetadInv, Claimed, Well
<1> QED
  BY <1>4, <1>5, <1>6 DEF MetadInv

\* A host that is back is ready and online.
LEMMA RecoverStep ==
    ASSUME TypeOK, OutageInv, NEW p \in Metads, ShouldRecover
    PROVE  MetadInv(p)'
<1>0. MetadInv(p) /\ p \in Pods
  BY View DEF OutageInv
<1>1. Still /\ S(p)' = S(p) /\ pc = "recover" /\ pc' \in {"restart", "update", "end"}
  BY DEF ShouldRecover, Goto, Still, kube, budget, S
<1>2. \/ F(p)' = F(p)
      \/ F(p)' = NoFailure /\ pods[p] = "ready" /\ p \in online
  BY <1>0 DEF ShouldRecover, Back, Better, F, TypeOK, StatusType
<1>3. /\ ~NoFailure.recorded /\ ~NoFailure.confirmed /\ NoFailure.pvc = 0
      /\ ~NoFailure.restarted /\ ~NoFailure.rebuilt
  BY DEF NoFailure
<1>4. claims[p].uid \in Nat
  BY View DEF Claim
<1>5. Records(p)' /\ Volume(p)'
  BY <1>0, <1>1, <1>2, <1>3, <1>4, StillIs DEF MetadInv, Records, Volume, FlagsOk
<1>6. Restarts(p)'
  BY <1>0, <1>1, <1>2, <1>3, StillIs DEF MetadInv, Restarts, Away
<1>7. Rebuilds(p)'
  BY <1>0, <1>1, <1>2, <1>3, StillIs DEF MetadInv, Rebuilds, Away, Given
<1>8. Claimed(p)'
  <2>1. F(p)' = NoFailure /\ ~Bound(p) => Spent
    BY <1>0, <1>2, <1>1, <1>3, StillIs DEF MetadInv, Rebuilds, Away, Claimed, Well
  <2> QED
    BY <1>0, <1>1, <1>2, <1>3, <2>1, StillIs DEF MetadInv, Claimed, Well
<1> QED
  BY <1>5, <1>6, <1>7, <1>8 DEF MetadInv

\* The pass ends without having touched a metad.
LEMMA Ends ==
    ASSUME TypeOK, NEW p \in Metads, MetadInv(p), Same(p), Counted, pc # "idle", pc' = "end",
           S(p)' = S(p), F(p)' = F(p)
    PROVE  MetadInv(p)'
<1>1. Found(p)' = Found(p)
  BY DEF Found, Same
<1>2. Spent => Spent'
  BY View DEF Counted, Spent
<1>3. Records(p)' /\ Volume(p)'
  BY DEF MetadInv, Records, Volume, Same
<1>4. Restarts(p)' /\ Rebuilds(p)'
  BY <1>2 DEF MetadInv, Restarts, Rebuilds, Same, Away, Bound, Given
<1>5. Claimed(p)'
  BY <1>1, <1>2 DEF MetadInv, Claimed, Same, Bound, Well
<1> QED
  BY <1>3, <1>4, <1>5 DEF MetadInv

\* With at most one fault no two metads are recorded.
LEMMA OnlyOne ==
    ASSUME OutageInv, ~Spent, NEW p \in Metads, NEW q \in Metads, F(p).recorded, F(q).recorded
    PROVE  p = q
BY DEF OutageInv, BadInv, Fine

\* What the steps of the failover choose from.
LEMMA Choices ==
    ASSUME TypeOK
    PROVE  /\ \A q \in Failed : q \in Pods /\ F(q).recorded /\ q \in Of(comp)
           /\ \A q \in Open : q \in Failed /\ ~F(q).rebuilt
           /\ \A q \in Metads : q \in Failed <=> comp = "metad" /\ F(q).recorded
           /\ \A q \in Metads : q \in Open <=> comp = "metad" /\ F(q).recorded /\ ~F(q).rebuilt
           /\ \A q \in Of("metad") : q \in Metads
<1>1. comp \in {"metad", "graphd"}
  BY DEF TypeOK, Comps
<1> QED
  BY <1>1, PodsAre DEF Failed, Open, F, Comps

LEMMA RestartStep ==
    ASSUME TypeOK, OutageInv, NEW p \in Metads, TryRestartPod
    PROVE  MetadInv(p)'
<1>0. MetadInv(p) /\ p \in Pods /\ F(p) \in Failure /\ pc = "restart" /\ claims[p].uid \in Nat
  BY View DEF OutageInv, TryRestartPod, Claim
<1> DEFINE fresh == {q \in Failed : /\ ~nc.failures[q].restarted
                                    /\ pods[q] \in {"running", "ready", "terminating"}}
<1>1. ASSUME NEW q \in fresh, DeletePod(q), nc' = [nc EXCEPT !.failures[q].restarted = TRUE],
             Goto("end")
      PROVE  MetadInv(p)'
  <2>0. q \in Pods
    BY Choices
  <2>1. CASE p # q
    <3>1. Same(p) /\ Counted /\ pc' = "end" /\ S(p)' = S(p) /\ F(p)' = F(p)
      BY <1>0, <1>1, <2>0, <2>1 DEF TryRestartPod, DeletePod, Goto, Same, Counted, budget, S, F, TypeOK, StatusType
    <3> QED
      BY <1>0, <3>1, Ends
  <2>2. CASE p = q
    <3>1. /\ S(p)' = S(p) /\ F(p)' = [F(p) EXCEPT !.restarted = TRUE] /\ pc' = "end"
          /\ pods'[p] = "absent" /\ aged' = aged \ {p} /\ claims' = claims /\ data' = data
          /\ online' = online /\ suspect' = suspect /\ (Spent' <=> Spent) /\ Found(p)' = Found(p)
      BY <1>0, <1>1, <2>2 DEF TryRestartPod, DeletePod, Goto, budget, S, F, TypeOK, StatusType, Spent, Found
    <3>2. F(p).recorded /\ comp = "metad" /\ pods[p] \in {"running", "ready", "terminating"}
      BY <1>1, <2>2, Choices
    <3>3. ~Spent => F(p).confirmed
      <4>1. PICK r \in Failed : F(r).confirmed
        BY <1>0 DEF OutageInv, PassInv
      <4>2. r \in Metads /\ F(r).recorded
        BY <3>2, Choices
      <4> QED
        BY <3>2, <4>1, <4>2, OnlyOne
    <3>4. /\ F(p)'.restarted /\ F(p)'.recorded = F(p).recorded /\ F(p)'.confirmed = F(p).confirmed
          /\ F(p)'.pvc = F(p).pvc /\ F(p)'.rebuilt = F(p).rebuilt
      BY <1>0, <3>1 DEF Failure
    <3>5. Records(p)' /\ Volume(p)'
      BY <1>0, <3>1, <3>2, <3>4 DEF MetadInv, Records, Volume, FlagsOk
    <3>6. Restarts(p)' /\ Rebuilds(p)'
      BY <1>0, <3>1, <3>2, <3>3, <3>4 DEF MetadInv, Restarts, Rebuilds, Away, Bound, Given
    <3>7. Claimed(p)'
      BY <1>0, <3>1, <3>2, <3>4 DEF MetadInv, Claimed, Bound, Well
    <3> QED
      BY <3>5, <3>6, <3>7 DEF MetadInv
  <2> QED
    BY <2>1, <2>2
<1>2. ASSUME fresh = {}, Goto("tolerate"), UNCHANGED <<pods, aged, nc>>
      PROVE  MetadInv(p)'
  <2>1. Still /\ S(p)' = S(p) /\ F(p)' = F(p) /\ pc' = "tolerate" /\ comp' = comp
    BY <1>2 DEF TryRestartPod, Goto, Still, budget, S, F
  <2>2. comp = "metad" /\ F(p).recorded /\ ~F(p).restarted => Away(p)
    BY <1>0, <1>2, View, Choices DEF Away, F
  <2>3. Records(p)' /\ Volume(p)'
    BY <1>0, <2>1, StillIs DEF MetadInv, Records, Volume
  <2>4. Restarts(p)' /\ Rebuilds(p)'
    BY <1>0, <2>1, <2>2, StillIs DEF MetadInv, Restarts, Rebuilds
  <2>5. Claimed(p)'
    BY <1>0, <2>1, StillIs DEF MetadInv, Claimed, Well
  <2> QED
    BY <2>3, <2>4, <2>5 DEF MetadInv
<1> QED
  BY <1>1, <1>2 DEF TryRestartPod

LEMMA TolerateStep ==
    ASSUME TypeOK, OutageInv, NEW p \in Metads, ToleratePods
    PROVE  MetadInv(p)'
<1>0. MetadInv(p) /\ p \in Pods /\ pc = "tolerate" /\ claims[p].uid \in Nat
  BY View DEF OutageInv, ToleratePods, Claim
<1>1. Still /\ S(p)' = S(p)
  BY DEF ToleratePods, Still, kube, budget, S
<1>2. CASE Forget
  <2>1. /\ ~F(p)'.recorded /\ ~F(p)'.confirmed /\ F(p)'.pvc = 0
        /\ ~F(p)'.restarted /\ ~F(p)'.rebuilt /\ pc' = "idle"
    BY <1>0, <1>2 DEF Forget, Healthy, NoFailure, F
  <2>2. Records(p)' /\ Volume(p)'
    BY <1>0, <1>1, <2>1, StillIs DEF MetadInv, Records, Volume, FlagsOk
  <2>3. Restarts(p)' /\ Rebuilds(p)'
    BY <1>0, <1>1, <2>1, StillIs DEF MetadInv, Restarts, Rebuilds
  <2>4. Claimed(p)'
    BY <1>0, <1>1, <2>1, StillIs DEF MetadInv, Claimed, Well
  <2> QED
    BY <2>2, <2>3, <2>4 DEF MetadInv
<1>3. CASE Goto("end") /\ UNCHANGED nc
  <2>1. Same(p) /\ Counted /\ pc' = "end" /\ F(p)' = F(p)
    BY <1>1, <1>3 DEF Still, Same, Counted, Goto, F
  <2> QED
    BY <1>0, <1>1, <2>1, Ends
<1>4. CASE Goto("rebuild") /\ UNCHANGED nc /\ \A q \in Open : Waiting(q) /\ q \in aged
  <2>1. /\ F(p)' = F(p) /\ pc' = "rebuild" /\ comp' = comp /\ Open' = Open
    BY <1>4 DEF Goto, F, Open, Failed
  <2>2. p \in Open => pods[p] \in {"pending", "scheduled", "running"} /\ p \in aged
                      /\ comp = "metad" /\ F(p).recorded /\ ~F(p).rebuilt
    BY <1>4, Choices DEF Waiting
  <2>3. Records(p)' /\ Volume(p)'
    BY <1>0, <1>1, <2>1, StillIs DEF MetadInv, Records, Volume
  <2>4. Restarts(p)'
    BY <1>0, <1>1, <2>1, StillIs DEF MetadInv, Restarts
  <2>5. Rebuilds(p)'
    BY <1>0, <1>1, <2>1, <2>2, StillIs DEF MetadInv, Restarts, Rebuilds, Given, Away
  <2>6. Claimed(p)'
    BY <1>0, <1>1, <2>1, StillIs DEF MetadInv, Claimed, Well
  <2> QED
    BY <2>3, <2>4, <2>5, <2>6 DEF MetadInv
<1> QED
  BY <1>2, <1>3, <1>4 DEF ToleratePods, Waiting

LEMMA RebuildStep ==
    ASSUME TypeOK, OutageInv, NEW p \in Metads, RebuildPod
    PROVE  MetadInv(p)'
<1>0. MetadInv(p) /\ p \in Pods /\ pc = "rebuild" /\ claims[p].uid \in Nat
  BY View DEF OutageInv, RebuildPod, Claim
<1>1. /\ S(p)' = S(p) /\ F(p)' = F(p) /\ nc' = nc /\ claims' = claims /\ data' = data /\ online' = online
      /\ suspect' = suspect /\ (Spent' <=> Spent) /\ faults' = faults /\ comp' = comp
      /\ Found(p)' = Found(p)
  BY DEF RebuildPod, Goto, budget, S, F, Spent, Found
<1>2. CASE pc' = "end" /\ UNCHANGED <<pods, aged>>
  <2>1. Same(p) /\ Counted
    BY <1>1, <1>2 DEF Same, Counted
  <2> QED
    BY <1>0, <1>1, <1>2, <2>1, Ends
<1>3. CASE pc' = "pending" /\ Open = {} /\ UNCHANGED <<pods, aged>>
  <2>1. Still
    BY <1>1, <1>3 DEF Still
  <2>2. Records(p)' /\ Volume(p)' /\ Restarts(p)' /\ Rebuilds(p)'
    BY <1>0, <1>1, <1>3, <2>1, StillIs DEF MetadInv, Records, Volume, Restarts, Rebuilds
  <2>3. Claimed(p)'
    BY <1>0, <1>1, <1>3, <2>1, StillIs DEF MetadInv, Claimed, Well
  <2> QED
    BY <2>2, <2>3 DEF MetadInv
<1>4. ASSUME NEW q \in Open, pods[q] # "absent",
             UNCHANGED <<pods, aged>> \/ DeletePod(q), victim' = q, pc' = "claims"
      PROVE  MetadInv(p)'
  <2>1. CASE p # q
    <3>1. Same(p)
      BY <1>0, <1>1, <1>4, <2>1 DEF DeletePod, Same, TypeOK
    <3>2. Records(p)' /\ Volume(p)' /\ Restarts(p)' /\ Rebuilds(p)'
      BY <1>0, <1>1, <1>4, <2>1, <3>1
         DEF MetadInv, Records, Volume, Restarts, Rebuilds, Same, Away, Bound, Given
    <3>3. Claimed(p)'
      BY <1>0, <1>1, <1>4, <3>1 DEF MetadInv, Claimed, Well, Same, Bound
    <3> QED
      BY <3>2, <3>3 DEF MetadInv
  <2>2. CASE p = q
    <3>1. comp = "metad" /\ F(p).recorded /\ ~F(p).rebuilt
      BY <2>2, Choices
    <3>2. \/ pods'[p] = pods[p] /\ aged' = aged
          \/ pods'[p] = "absent" /\ aged' = aged \ {p}
      BY <1>0, <1>4, <2>2 DEF DeletePod, TypeOK
    <3>3. Records(p)' /\ Volume(p)'
      BY <1>0, <1>1, <1>4, <3>2 DEF MetadInv, Records, Volume
    <3>a. p \in Open /\ comp' = "metad" /\ pc' = "claims"
      BY <1>1, <1>4, <2>2, <3>1
    <3>b. ~Spent => /\ Away(p) /\ Bound(p) /\ claims[p].lost
                    /\ S(p).restarted /\ F(p).restarted /\ ~Given(p)
      <4>1. ~Spent => Away(p) /\ Bound(p) /\ claims[p].lost
        BY <1>0, <3>1, <3>a DEF MetadInv, Rebuilds
      <4>2. ~Spent => ~Given(p)
        BY <1>0, <3>1 DEF MetadInv, Rebuilds
      <4>3. ~Spent => F(p).restarted /\ S(p).restarted
        BY <1>0, <3>1 DEF MetadInv, Records, Restarts
      <4> QED
        BY <4>1, <4>2, <4>3
    <3>4. Restarts(p)'
      BY <1>0, <1>1, <1>4, <3>2, <3>b DEF MetadInv, Restarts, Away
    <3>4a. Rebuilds(p)'
      BY <1>0, <1>1, <1>4, <3>2, <3>b DEF MetadInv, Rebuilds, Away, Bound, Given
    <3>5. Claimed(p)'
      BY <1>0, <1>1, <1>4, <3>1, <3>2 DEF MetadInv, Claimed, Well, Bound
    <3> QED
      BY <3>3, <3>4, <3>4a, <3>5 DEF MetadInv
  <2> QED
    BY <2>1, <2>2
<1> QED
  BY <1>2, <1>3, <1>4 DEF RebuildPod, Goto

\* The claim of the victim goes if it is the one in the record.
LEMMA ClaimStep ==
    ASSUME TypeOK, OutageInv, NEW p \in Metads, DeleteClaim
    PROVE  MetadInv(p)'
<1>0. /\ MetadInv(p) /\ p \in Pods /\ pc = "claims" /\ F(p) \in Failure /\ claims[p] \in Claim
      /\ S(p)' = S(p) /\ pods' = pods /\ aged' = aged /\ data' = data /\ online' = online
      /\ suspect' = suspect /\ faults' = faults /\ pc' = "end"
  BY View DEF OutageInv, DeleteClaim, Goto, budget, S
<1>1. CASE p # victim
  <2>1. Same(p) /\ F(p)' = F(p) /\ Counted
    BY <1>0, <1>1 DEF DeleteClaim, Rebuilt, Same, Counted, F, TypeOK, StatusType
  <2> QED
    BY <1>0, <2>1, Ends
<1>2. CASE p = victim
  <2>1. comp = "metad" /\ F(p).recorded
    BY <1>0, <1>2, Choices DEF OutageInv, PassInv
  <2>2. /\ F(p)'.rebuilt /\ F(p)'.recorded = F(p).recorded /\ F(p)'.confirmed = F(p).confirmed
        /\ F(p)'.pvc = F(p).pvc /\ F(p)'.restarted = F(p).restarted
    BY <1>0, <1>2 DEF DeleteClaim, Rebuilt, F, TypeOK, StatusType, Failure
  <2>3. /\ Found(p)' = Found(p) /\ claims'[p].uid = claims[p].uid /\ claims'[p].lost = claims[p].lost
        /\ claims'[p].state = "bound" => claims[p].state = "bound"
        /\ claims'[p].state # "bound" => claims[p].state # "bound" \/ (Found(p) # 0 /\ Found(p) = F(p).pvc)
        /\ claims'[p].state # claims[p].state => Found(p) # 0 /\ Found(p) = F(p).pvc
    BY <1>0, <1>2 DEF DeleteClaim, Found, F, TypeOK, Claim
  <2>4. Found(p) # 0 /\ Found(p) = F(p).pvc => F(p).confirmed
    BY <1>0 DEF MetadInv, Records, FlagsOk
  <2>5. ~Spent => S(p).confirmed /\ F(p).confirmed /\ S(p).restarted /\ Away(p)
    BY <1>0, <1>2, <2>1 DEF MetadInv, Records, Restarts, Rebuilds
  <2>6. Spent' <=> Spent
    BY <1>0 DEF Spent
  <2>7. Records(p)' /\ Volume(p)'
    BY <1>0, <2>1, <2>2, <2>3 DEF MetadInv, Records, Volume, FlagsOk
  <2>8. Restarts(p)' /\ Rebuilds(p)'
    BY <1>0, <2>1, <2>2, <2>3, <2>5, <2>6 DEF MetadInv, Restarts, Rebuilds, Away, Bound, Given
  <2>9. Claimed(p)'
    BY <1>0, <2>1, <2>2, <2>3, <2>4, <2>5, <2>6 DEF MetadInv, Claimed, Bound, Well
  <2> QED
    BY <2>7, <2>8, <2>9 DEF MetadInv
<1> QED
  BY <1>1, <1>2

LEMMA PendingStep ==
    ASSUME TypeOK, OutageInv, NEW p \in Metads, CheckPendingPod
    PROVE  MetadInv(p)'
<1>0. /\ MetadInv(p) /\ p \in Pods /\ pc = "pending" /\ claims[p] \in Claim
      /\ S(p)' = S(p) /\ F(p)' = F(p) /\ online' = online
      /\ suspect' = suspect /\ faults' = faults /\ (Spent' <=> Spent)
  BY View DEF OutageInv, CheckPendingPod, budget, S, F, Spent
<1>1. CASE Goto("update") /\ UNCHANGED kube
  <2>1. Still /\ pc' = "update" /\ comp' = comp
    BY <1>0, <1>1 DEF Still, kube, Goto
  <2>2. Records(p)' /\ Volume(p)' /\ Restarts(p)' /\ Rebuilds(p)'
    BY <1>0, <2>1, StillIs DEF MetadInv, Records, Volume, Restarts, Rebuilds
  <2>3. Claimed(p)'
    BY <1>0, <2>1, StillIs DEF MetadInv, Claimed, Well
  <2> QED
    BY <2>2, <2>3 DEF MetadInv
<1>2. CASE Same(p) /\ pc' = "end"
  <2>1. Counted
    BY <1>0 DEF Counted
  <2> QED
    BY <1>0, <1>2, <2>1, Ends
<1>3. CASE /\ p \in Failed /\ claims[p].state = "deleting" /\ pc' = "end"
           /\ claims' = [claims EXCEPT ![p].state = "none"] /\ data' = data \ {p}
           /\ UNCHANGED <<pods, aged>>
  <2>1. /\ claims'[p].state = "none" /\ claims'[p].uid = claims[p].uid /\ claims'[p].lost = claims[p].lost
    BY <1>0, <1>3 DEF Claim, TypeOK
  <2>2. Found(p)' = 0 /\ F(p).recorded /\ comp = "metad"
    BY <1>3, <2>1, Choices DEF Found
  <2>3. Records(p)' /\ Volume(p)'
    BY <1>0, <1>3, <2>1 DEF MetadInv, Records, Volume
  <2>4. Restarts(p)' /\ Rebuilds(p)'
    BY <1>0, <1>3, <2>1 DEF MetadInv, Restarts, Rebuilds, Away, Bound, Given
  <2>5. Claimed(p)'
    BY <1>0, <1>3, <2>1, <2>2 DEF MetadInv, Claimed, Bound, Well
  <2> QED
    BY <2>3, <2>4, <2>5 DEF MetadInv
<1>4. CASE /\ p \in Failed /\ DeletePod(p) /\ pc' = "end" /\ pods[p] = "scheduled"
           /\ UNCHANGED <<claims, data>>
  <2>1. /\ pods'[p] = "absent" /\ aged' = aged \ {p} /\ Found(p)' = Found(p)
    BY <1>0, <1>4 DEF DeletePod, TypeOK, Found
  <2>2. F(p).recorded /\ comp = "metad"
    BY <1>4, Choices
  <2>3. Records(p)' /\ Volume(p)'
    BY <1>0, <1>4, <2>1 DEF MetadInv, Records, Volume
  <2>4. Restarts(p)' /\ Rebuilds(p)'
    BY <1>0, <1>4, <2>1 DEF MetadInv, Restarts, Rebuilds, Away, Bound, Given
  <2>5. Claimed(p)'
    BY <1>0, <1>4, <2>1, <2>2 DEF MetadInv, Claimed, Bound, Well
  <2> QED
    BY <2>3, <2>4, <2>5 DEF MetadInv
<1>5. ASSUME NEW q \in Failed, pc' = "end",
             \/ /\ claims[q].state = "deleting" /\ Found(q) # 0
                /\ claims' = [claims EXCEPT ![q].state = "none"] /\ data' = data \ {q}
                /\ UNCHANGED <<pods, aged>>
             \/ DeletePod(q) /\ pods[q] = "scheduled" /\ UNCHANGED <<claims, data>>
      PROVE  MetadInv(p)'
  <2>1. CASE p # q
    <3>1. Same(p)
      BY <1>0, <1>5, <2>1 DEF Same, DeletePod, TypeOK
    <3> QED
      BY <1>2, <1>5, <3>1
  <2>2. CASE p = q
    BY <1>3, <1>4, <1>5, <2>2
  <2> QED
    BY <2>1, <2>2
<1>6. CASE Goto("end") /\ UNCHANGED kube
  <2>1. Same(p) /\ pc' = "end"
    BY <1>0, <1>6 DEF Same, kube, Goto
  <2> QED
    BY <1>2, <2>1
<1> QED
  BY <1>1, <1>5, <1>6 DEF CheckPendingPod, Goto

\* The status is written, and the pass is over.
LEMMA EndStep ==
    ASSUME TypeOK, OutageInv, NEW p \in Metads, EndPass
    PROVE  MetadInv(p)'
<1>0. MetadInv(p) /\ claims[p].uid \in Nat
  BY View DEF OutageInv, Claim
<1>1. Still /\ pc = "end" /\ pc' = "idle" /\ S(p)' = F(p)
  BY DEF EndPass, Forget, Still, kube, budget, S, F
<1>2. /\ ~F(p)'.recorded /\ ~F(p)'.confirmed /\ F(p)'.pvc = 0
      /\ ~F(p)'.restarted /\ ~F(p)'.rebuilt
  BY View DEF EndPass, Forget, Healthy, NoFailure, F
<1>3. Records(p)' /\ Volume(p)'
  BY <1>0, <1>1, <1>2, StillIs DEF MetadInv, Records, Volume, FlagsOk
<1>4. Restarts(p)' /\ Rebuilds(p)'
  BY <1>0, <1>1, <1>2, StillIs DEF MetadInv, Restarts, Rebuilds
<1>5. Claimed(p)'
  BY <1>0, <1>1, <1>2, StillIs DEF MetadInv, Claimed, Well
<1> QED
  BY <1>3, <1>4, <1>5 DEF MetadInv

\* A call fails, or the operator restarts.
LEMMA FaultStep ==
    ASSUME Careful, TypeOK, OutageInv, NEW p \in Metads, CallFails \/ Crash
    PROVE  MetadInv(p)'
<1>0. MetadInv(p) /\ claims[p].uid \in Nat
  BY View DEF OutageInv, Claim
<1>1. /\ S(p)' = S(p) /\ Fault /\ Same(p) /\ ~Spent
  BY DEF CallFails, Crash, kube, S, Same, Fault, Spent, Careful, TypeOK
<1>2. CASE CallFails
  <2>1. pc # "idle" /\ pc' = "end" /\ F(p)' = F(p) /\ Counted
    BY <1>1, <1>2 DEF CallFails, Goto, F, Counted, Fault
  <2> QED
    BY <1>0, <1>1, <2>1, Ends
<1>3. CASE Crash
  <2>1. /\ ~F(p)'.recorded /\ ~F(p)'.confirmed /\ F(p)'.pvc = 0
        /\ ~F(p)'.restarted /\ ~F(p)'.rebuilt /\ pc' = "idle"
    BY <1>3, View DEF Crash, Forget, Healthy, NoFailure, F
  <2>2. Spent' \/ Fine(p)
    BY <1>1, FaultStrikes
  <2>3. Found(p)' = Found(p)
    BY <1>1 DEF Found, Same
  <2>4. Records(p)' /\ Volume(p)'
    BY <1>0, <1>1, <2>1 DEF MetadInv, Records, Volume, FlagsOk, Same
  <2>5. Restarts(p)' /\ Rebuilds(p)'
    BY <1>0, <1>1, <2>1, <2>2 DEF MetadInv, Records, FlagsOk, Restarts, Rebuilds, Fine, Same, Away, Bound, Given
  <2>6. Claimed(p)'
    BY <1>0, <1>1, <2>1, <2>2, <2>3 DEF MetadInv, Claimed, Rebuilds, Restarts, Fine, Same, Away, Bound, Well
  <2> QED
    BY <2>4, <2>5, <2>6 DEF MetadInv
<1> QED
  BY <1>2, <1>3

---------------------------------------------------------------------------
(* One fault, one metad *)

\* What the pass does to a metad that it did not record.
LEMMA FineInPass ==
    ASSUME TypeOK, OutageInv, NEW p \in Metads, Fine(p), Operator \/ CallFails \/ Crash \/ Scale
    PROVE  Fine(p)'
<1>0. pc = "claims" => p # victim
  BY Choices, View DEF Fine, OutageInv, PassInv
<1>1. p \in Pods /\ p \notin Failed /\ p \notin Open
  BY Choices, View DEF Fine
<1>n. ~NoFailure.recorded
  BY DEF NoFailure
<1>2. CASE StartPass \/ UpdateWorkload \/ Scale
  BY <1>2 DEF StartPass, UpdateWorkload, Scale, Fine, kube, local, S, F, Bound
<1>3. CASE SyncStatus
  BY <1>3, Judged DEF SyncStatus, kube, Fine, S, Bound
<1>4. CASE ShouldRecover
  BY <1>1, <1>4, <1>n DEF ShouldRecover, kube, Fine, S, F, Bound, TypeOK, StatusType
<1>5. CASE TryRestartPod
  BY <1>1, <1>5, Choices DEF TryRestartPod, DeletePod, Fine, S, F, Bound, TypeOK, StatusType
<1>6. CASE ToleratePods
  BY <1>1, <1>6, <1>n DEF ToleratePods, Forget, Healthy, kube, Fine, S, F, Bound
<1>7. CASE RebuildPod
  BY <1>1, <1>7 DEF RebuildPod, DeletePod, Fine, S, F, Bound, TypeOK
<1>8. CASE DeleteClaim
  BY <1>0, <1>1, <1>8 DEF DeleteClaim, Rebuilt, Fine, S, F, Bound, TypeOK, StatusType
<1>9. CASE CheckPendingPod
  BY <1>1, <1>9 DEF CheckPendingPod, DeletePod, kube, Fine, S, F, Bound, TypeOK
<1>10. CASE EndPass
  BY <1>1, <1>10, <1>n DEF EndPass, Forget, Healthy, kube, Fine, S, F, Bound
<1>11. CASE CallFails \/ Crash
  BY <1>1, <1>11, <1>n DEF CallFails, Crash, Forget, Healthy, kube, Fine, S, F, Bound
<1> QED
  BY <1>2, <1>3, <1>4, <1>5, <1>6, <1>7, <1>8, <1>9, <1>10, <1>11
     DEF Operator, MetadWatch, GraphdWatch, Watch, MetadFailover, GraphdFailover, Failover

\* A pod that is ready goes down only with a fault.
LEMMA FineAround ==
    ASSUME TypeOK, OutageInv, NEW h \in Pods, Node(h), NEW p \in Metads, Fine(p),
           p # h \/ faults' = faults
    PROVE  Fine(p)'
<1>0. S(p)' = S(p) /\ F(p)' = F(p) /\ p \in Pods
  BY Others, View DEF S, F, local
<1>1. CASE p # h
  BY <1>0, <1>1, Others DEF Same, Fine, Bound
<1>2. CASE p = h
  <2>1. ~PodCreate(h) /\ ~PodSchedule(h) /\ ~PodReady(h) /\ ~Silent(h) /\ ~Evict(h) /\ ~PodRecovers(h)
        /\ ~ClaimGone(h)
    BY <1>2 DEF PodCreate, PodSchedule, PodReady, Silent, Evict, PodRecovers, ClaimGone, Fine, Bound
  <2>2. ~PodScaledIn(h)
    BY <1>2, PodsAre DEF PodScaledIn, Member
  <2>3. ~Blip(h) /\ ~NodeDown(h) /\ ~PodCrash(h)
    BY <1>2 DEF Blip, NodeDown, PodCrash, Fault, TypeOK
  <2>4. CASE PodAges(h) \/ PeriodElapses(h) \/ CatchUp(h) \/ Heartbeat(h)
    BY <1>0, <2>4 DEF PodAges, PeriodElapses, CatchUp, Heartbeat, kube, Fine, Bound
  <2> QED
    BY <2>1, <2>2, <2>3, <2>4 DEF Node
<1> QED
  BY <1>1, <1>2

LEMMA FaultsCount == ASSUME TypeOK, Next PROVE Counted
<1>1. CASE Operator \/ CallFails \/ Crash \/ Scale
  BY <1>1 DEF Counted, Operator, MetadWatch, GraphdWatch, Watch, MetadFailover, GraphdFailover, Failover,
     StartPass, SyncStatus, ShouldRecover, TryRestartPod, ToleratePods, RebuildPod, DeleteClaim,
     CheckPendingPod, UpdateWorkload, EndPass, CallFails, Crash, Scale, Fault, budget
<1>2. ASSUME NEW h \in Pods, Node(h) PROVE Counted
  <2>1. <<"metad", 0>> \in Metads
    BY DEF Metads
  <2> QED
    BY <1>2, <2>1, Others
<1> QED
  BY <1>1, <1>2 DEF Next

LEMMA BadStep ==
    ASSUME TypeOK, OutageInv, Next
    PROVE  BadInv'
<1>1. PICK h \in Pods : \A p \in Metads : Fine(p) /\ (p # h \/ faults' = faults) => Fine(p)'
  <2>1. CASE Operator \/ CallFails \/ Crash \/ Scale
    <3>1. <<"metad", 0>> \in Pods
      BY DEF Metads, Pods
    <3> QED
      BY <2>1, <3>1, FineInPass
  <2>2. CASE \E h \in Pods : Node(h)
    BY <2>2, FineAround
  <2> QED
    BY <2>1, <2>2 DEF Next
<1>2. Counted /\ faults \in Nat
  BY FaultsCount DEF TypeOK
<1>3. CASE faults' = faults
  BY <1>1, <1>3 DEF OutageInv, BadInv, Spent
<1>4. CASE faults' = faults + 1
  <2>1. faults' # 0 /\ (Spent' \/ faults = 0)
    BY <1>2, <1>4 DEF Spent
  <2>2. faults = 0 => \A p \in Metads : Fine(p)
    BY DEF OutageInv, BadInv
  <2> QED
    BY <1>1, <2>1, <2>2 DEF BadInv
<1> QED
  BY <1>2, <1>3, <1>4 DEF Counted

LEMMA PassStep ==
    ASSUME TypeOK, OutageInv, Next
    PROVE  PassInv'
<1>1. CASE UNCHANGED local
  BY <1>1 DEF local, OutageInv, PassInv, Failed, Open, F
<1>2. CASE ShouldRecover
  <2>1. ASSUME pc' = "restart"
        PROVE  \E p \in Failed' : F(p)'.confirmed
    <3>1. Back = {} /\ \E p \in Failed : nc.failures[p].confirmed
      BY <1>2, <2>1 DEF ShouldRecover, Goto
    <3>2. nc'.failures = nc.failures
      BY <1>2, <2>1, <3>1 DEF ShouldRecover, Goto, TypeOK, StatusType
    <3>3. comp' = comp
      BY <1>2 DEF ShouldRecover, Goto
    <3> QED
      BY <3>1, <3>2, <3>3 DEF Failed, F
  <2>2. pc' # "claims"
    BY <1>2 DEF ShouldRecover, Goto
  <2> QED
    BY <2>1, <2>2 DEF PassInv
<1>3. CASE RebuildPod
  <2>1. pc' # "restart"
    BY <1>3 DEF RebuildPod, Goto
  <2>2. ASSUME pc' = "claims" PROVE victim' \in Open'
    BY <1>3, <2>2 DEF RebuildPod, Goto, Open, Failed
  <2> QED
    BY <2>1, <2>2 DEF PassInv
<1>4. CASE StartPass \/ SyncStatus \/ TryRestartPod \/ ToleratePods \/ DeleteClaim \/ CheckPendingPod
           \/ UpdateWorkload \/ EndPass \/ CallFails \/ Crash
  <2>1. pc' \notin {"restart", "claims"}
    BY <1>4 DEF StartPass, SyncStatus, TryRestartPod, ToleratePods, DeleteClaim, CheckPendingPod,
                UpdateWorkload, EndPass, CallFails, Crash, Goto, Forget
  <2> QED
    BY <2>1 DEF PassInv
<1>5. ASSUME NEW h \in Pods, Node(h) PROVE UNCHANGED local
  <2>1. <<"metad", 0>> \in Metads
    BY DEF Metads
  <2> QED
    BY <1>5, <2>1, Others
<1>6. CASE Scale
  BY <1>1, <1>6 DEF Scale
<1> QED
  BY <1>1, <1>2, <1>3, <1>4, <1>5, <1>6
     DEF Next, Operator, MetadWatch, GraphdWatch, Watch, MetadFailover, GraphdFailover, Failover

\* At the start nothing has happened.
LEMMA OutageInit == Init => OutageInv
<1> SUFFICES ASSUME Init PROVE OutageInv
  OBVIOUS
<1>1. pc = "idle" /\ faults = 0 /\ status = Healthy /\ nc = Healthy
  BY DEF Init
<1>2. ASSUME NEW p \in Metads
      PROVE  /\ p \in Pods /\ S(p) = NoFailure /\ F(p) = NoFailure
             /\ pods[p] = "ready" /\ p \in online /\ p \in data /\ suspect[p] = 0
             /\ claims[p] = [uid |-> 1, state |-> "bound", lost |-> FALSE] /\ Found(p) = 1
  BY <1>1 DEF Init, Healthy, S, F, Pods, Found
<1>3. /\ ~NoFailure.recorded /\ ~NoFailure.confirmed /\ NoFailure.pvc = 0
      /\ ~NoFailure.restarted /\ ~NoFailure.rebuilt
  BY DEF NoFailure
<1>4. BadInv
  BY <1>1, <1>2, <1>3 DEF BadInv, Fine, Bound
<1>5. PassInv
  BY <1>1 DEF PassInv
<1>6. ASSUME NEW p \in Metads PROVE MetadInv(p)
  <2>1. Records(p) /\ Volume(p)
    BY <1>1, <1>2, <1>3 DEF Records, FlagsOk, Volume
  <2>2. Restarts(p) /\ Rebuilds(p)
    BY <1>1, <1>2, <1>3 DEF Restarts, Rebuilds, Away, Bound, Given
  <2>3. Claimed(p)
    BY <1>1, <1>2, <1>3 DEF Claimed, Bound
  <2> QED
    BY <2>1, <2>2, <2>3 DEF MetadInv
<1> QED
  BY <1>4, <1>5, <1>6 DEF OutageInv

LEMMA OutageStep == Careful /\ TypeOK /\ OutageInv /\ [Next]_vars => OutageInv'
<1> SUFFICES ASSUME Careful, TypeOK, OutageInv, [Next]_vars PROVE OutageInv'
  OBVIOUS
<1>1. CASE Next
  <2>1. ASSUME NEW p \in Metads PROVE MetadInv(p)'
    <3>1. CASE Operator
      BY <3>1, PassBegins, SyncStep, RecoverStep, RestartStep, TolerateStep, RebuildStep, ClaimStep,
         PendingStep, EndStep
         DEF Operator, MetadWatch, GraphdWatch, Watch, MetadFailover, GraphdFailover, Failover
    <3>2. CASE Scale
      <4>1. Same(p) /\ Counted /\ UNCHANGED <<status, local>>
        BY <3>2 DEF Scale, Same, Counted, kube
      <4> QED
        BY <4>1, Untouched DEF OutageInv
    <3> QED
      BY <1>1, <3>1, <3>2, FaultStep, WorldStep DEF Next
  <2> QED
    BY <1>1, <2>1, BadStep, PassStep DEF OutageInv
<1>2. CASE UNCHANGED vars
  <2>1. ASSUME NEW p \in Metads PROVE MetadInv(p)'
    <3>1. Same(p) /\ Counted /\ UNCHANGED <<status, local>>
      BY <1>2 DEF vars, Same, Counted, kube, budget
    <3> QED
      BY <3>1, Untouched DEF OutageInv
  <2>2. BadInv' /\ PassInv'
    BY <1>2 DEF vars, kube, budget, local, OutageInv, BadInv, PassInv, Fine, Spent, Bound, S, F, Failed, Open
  <2> QED
    BY <2>1, <2>2 DEF OutageInv
<1> QED
  BY <1>1, <1>2

LEMMA OutageKnown == Careful /\ Spec => [](TypeOK /\ OutageInv)
<1>1. CASE Careful
  <2>1. Init => TypeOK /\ OutageInv
    BY TypeInit, OutageInit
  <2>2. TypeOK /\ OutageInv /\ [Next]_vars => (TypeOK /\ OutageInv)'
    BY <1>1, TypeNext, OutageStep
  <2> QED
    BY <2>1, <2>2, PTL DEF Spec
<1>2. CASE ~Careful
  BY <1>2
<1> QED
  BY <1>1, <1>2

---------------------------------------------------------------------------
(* The two promises *)

\* A claim is marked only by the step that deletes the claim of the victim.
LEMMA DeletesOnlyVictims ==
    ASSUME TypeOK, [Next]_vars, NEW p \in Metads,
           claims[p].state = "bound", claims'[p].state = "deleting"
    PROVE  /\ DeleteClaim /\ p = victim /\ Found(p) # 0 /\ Found(p) = F(p).pvc
           /\ claims[p].uid = Found(p)
<1>1. claims' # claims
  OBVIOUS
<1>2. CASE DeleteClaim
  BY <1>2 DEF DeleteClaim, Found, F, TypeOK
<1>3. CASE CheckPendingPod
  BY <1>3 DEF CheckPendingPod, kube, TypeOK
<1>4. ASSUME NEW h \in Pods, PodCreate(h) \/ ClaimGone(h) \/ NodeDown(h) PROVE FALSE
  BY <1>4 DEF PodCreate, ClaimGone, NodeDown, TypeOK, Claim
<1>5. \/ DeleteClaim \/ CheckPendingPod
      \/ \E h \in Pods : PodCreate(h) \/ ClaimGone(h) \/ NodeDown(h)
  BY <1>1 DEF Next, vars, kube, Operator, MetadWatch, GraphdWatch, Watch, MetadFailover, GraphdFailover,
     Failover, StartPass, SyncStatus, ShouldRecover, TryRestartPod, ToleratePods, RebuildPod,
     UpdateWorkload, EndPass, CallFails, Crash, Scale, Node, PodSchedule, PodReady, PodScaledIn,
     PodAges, PeriodElapses, CatchUp, Heartbeat, Silent, Blip, Evict, PodCrash, PodRecovers
<1> QED
  BY <1>2, <1>3, <1>4, <1>5

\* For any number of metads and graphds and any scaling of graphd, with up to
\* two faults (lost nodes, failed processes, lost heartbeats, lost passes): in
\* one outage of a metad, failover deletes the claim it had when it went offline
\* and none that replaced it (metad_failover.go deleteFailurePodAndPVC).
THEOREM OneClaimOnly == Careful /\ Spec => OneClaimPerOutage
<1>1. TypeOK /\ OutageInv /\ [Next]_vars => [~DeletesReplacement]_vars
  <2> SUFFICES ASSUME TypeOK, OutageInv, [Next]_vars, DeletesReplacement PROVE FALSE
    OBVIOUS
  <2>1. PICK p \in Metads : /\ claims[p].state = "bound" /\ claims'[p].state = "deleting"
                            /\ claims[p].uid # suspect[p]
    BY DEF DeletesReplacement
  <2>2. /\ Found(p) # 0 /\ Found(p) = F(p).pvc /\ claims[p].uid = Found(p)
    BY <2>1, DeletesOnlyVictims
  <2>3. Records(p) /\ Claimed(p)
    BY DEF OutageInv, MetadInv
  <2> QED
    BY <2>1, <2>2, <2>3 DEF Records, FlagsOk, Claimed
<1> QED
  BY <1>1, OutageKnown, PTL DEF Spec, OneClaimPerOutage

\* A member that keeps its metadata: its claim stays, as it runs or starts in
\* time, and the pass is not about to rebuild it.
Safe(p) == /\ p \in data /\ Bound(p) /\ ~claims[p].lost
           /\ pods[p] = "ready" \/ (Away(p) /\ p \notin aged)
           /\ ~(pc \in {"rebuild", "claims"} /\ p \in Open /\ comp = "metad")
SafeInv == Majority({p \in Metads : Safe(p)})

LEMMA MajorityGrows ==
    ASSUME NEW A \in SUBSET Metads, NEW B \in SUBSET Metads, A \subseteq B, Majority(A)
    PROVE  Majority(B)
<1>1. IsFiniteSet(B) /\ Cardinality(A) <= Cardinality(B)
  BY PodsFinite, FS_Subset
<1>2. Cardinality(A) \in Nat /\ Cardinality(B) \in Nat
  BY <1>1, FS_Subset, FS_CardinalityType
<1> QED
  BY <1>1, <1>2 DEF Majority

\* A member that is fine is safe, and one that is ready with its data is fine
\* as long as a fault is left.
LEMMA FineIsSafe == ASSUME TypeOK, OutageInv, NEW p \in Metads, Fine(p) PROVE Safe(p)
BY Choices DEF Fine, Safe
LEMMA ReadyIsSafe ==
    ASSUME TypeOK, OutageInv, ~Spent, NEW p \in Metads, p \in data, pods[p] = "ready"
    PROVE  Safe(p)
<1>1. Bound(p) /\ ~claims[p].lost
  BY DEF OutageInv, MetadInv, Rebuilds, Volume, Away
<1>2. ASSUME pc = "rebuild", p \in Open, comp = "metad" PROVE FALSE
  BY <1>2 DEF OutageInv, MetadInv, Rebuilds, Away
<1>3. ASSUME pc = "claims", p \in Open, comp = "metad" PROVE FALSE
  <2>1. victim \in Metads /\ F(victim).recorded /\ F(p).recorded
    BY <1>3, Choices DEF OutageInv, PassInv
  <2>2. p = victim
    BY <2>1, OnlyOne
  <2> QED
    BY <1>3, <2>2 DEF OutageInv, MetadInv, Rebuilds, Away
<1> QED
  BY <1>1, <1>2, <1>3 DEF Safe

\* No step of a pass makes a safe member unsafe.
LEMMA SafeInPass ==
    ASSUME TypeOK, OutageInv, NEW p \in Metads, Safe(p), Operator \/ CallFails \/ Crash \/ Scale
    PROVE  Safe(p)'
<1>1. p \in Pods /\ pods[p] \in {"ready", "absent", "pending", "scheduled"}
  BY View DEF Safe, Away
<1>2. CASE StartPass \/ SyncStatus \/ ShouldRecover \/ UpdateWorkload \/ EndPass \/ CallFails \/ Crash
  <2>1. UNCHANGED kube /\ pc' \notin {"rebuild", "claims"}
    BY <1>2 DEF StartPass, SyncStatus, ShouldRecover, UpdateWorkload, EndPass, CallFails, Crash, Goto, Forget
  <2> QED
    BY <2>1 DEF Safe, kube, Bound, Away
<1>3. CASE Scale
  BY <1>3 DEF Scale, Safe, kube, local, Bound, Away, Open, Failed
<1>4. CASE TryRestartPod
  <2>1. /\ pc' \notin {"rebuild", "claims"} /\ claims' = claims /\ data' = data
        /\ \/ pods'[p] = pods[p] /\ aged' \subseteq aged
           \/ pods'[p] = "absent" /\ p \notin aged'
    BY <1>1, <1>4, Choices DEF TryRestartPod, Goto, DeletePod, TypeOK
  <2> QED
    BY <2>1 DEF Safe, Bound, Away
<1>5. CASE ToleratePods
  <2>1. UNCHANGED kube /\ pc' # "claims"
    BY <1>5 DEF ToleratePods, Goto, Forget
  <2>2. ASSUME pc' = "rebuild" PROVE p \notin Open'
    <3>1. /\ nc' = nc /\ comp' = comp
          /\ \A q \in Open : pods[q] # "ready" /\ Waiting(q) /\ q \in aged
      BY <1>5, <2>2 DEF ToleratePods, Goto, Forget
    <3>2. p \notin Open
      BY <3>1 DEF Safe
    <3> QED
      BY <3>1, <3>2 DEF Open, Failed
  <2> QED
    BY <2>1, <2>2 DEF Safe, kube, Bound, Away
<1>6. CASE RebuildPod
  <2>1. p \notin Open
    BY <1>6, Choices DEF RebuildPod, Safe
  <2>2. /\ Open' = Open /\ claims' = claims /\ data' = data
    BY <1>6 DEF RebuildPod, Open, Failed, Goto
  <2>3. pods'[p] = pods[p] /\ aged' \subseteq aged
    BY <1>1, <1>6, <2>1 DEF RebuildPod, DeletePod, TypeOK
  <2> QED
    BY <2>1, <2>2, <2>3 DEF Safe, Bound, Away
<1>7. CASE DeleteClaim
  <2>1. pc' = "end" /\ UNCHANGED <<pods, aged, data>>
    BY <1>7 DEF DeleteClaim, Goto
  <2>2. claims'[p] = claims[p] \/ p = victim
    BY <1>7 DEF DeleteClaim, TypeOK
  <2>3. ASSUME p = victim, claims'[p] # claims[p] PROVE FALSE
    <3>1. p \in Open /\ comp = "metad" /\ pc = "claims"
      BY <1>7, <2>3, Choices DEF DeleteClaim, OutageInv, PassInv
    <3> QED
      BY <3>1 DEF Safe
  <2> QED
    BY <2>1, <2>2, <2>3 DEF Safe, Bound, Away
<1>8. CASE CheckPendingPod
  <2>1. /\ pc' \notin {"rebuild", "claims"} /\ claims'[p] = claims[p] /\ (p \in data' <=> p \in data)
        /\ pods'[p] = pods[p] /\ (p \in aged' => p \in aged)
    BY <1>1, <1>8 DEF CheckPendingPod, Goto, DeletePod, TypeOK, Safe, Bound, kube
  <2> QED
    BY <2>1 DEF Safe, Bound, Away
<1> QED
  BY <1>2, <1>3, <1>4, <1>5, <1>6, <1>7, <1>8
     DEF Operator, MetadWatch, GraphdWatch, Watch, MetadFailover, GraphdFailover, Failover

\* Nor does a step around it, but for a fault that hits its pod.
Struck(p) == \/ NodeDown(p) \/ PodCrash(p)
             \/ PodAges(p) /\ Fault /\ pods[p] \in {"pending", "scheduled"}
LEMMA SafeAround ==
    ASSUME TypeOK, OutageInv, NEW h \in Pods, Node(h), NEW p \in Metads, Safe(p),
           p # h \/ ~Struck(p)
    PROVE  Safe(p)'
<1>0. UNCHANGED local /\ p \in Pods /\ Open' = Open
  BY Others, View DEF local, Open, Failed
<1>1. CASE p # h
  BY <1>0, <1>1, Others DEF Same, Safe, Bound, Away, local
<1>2. CASE p = h
  <2>1. ~ClaimGone(p) /\ ~Evict(p) /\ ~PodRecovers(p) /\ ~PodScaledIn(p) /\ Usable(p)
    BY PodsAre DEF ClaimGone, Evict, PodRecovers, PodScaledIn, Member, Safe, Bound, Away, Usable
  <2>2. CASE PodCreate(p) \/ PodSchedule(p) \/ PodReady(p)
    <3>1. /\ claims' = claims /\ data' = data /\ aged' = aged /\ p \notin aged
          /\ pods'[p] \in {"pending", "scheduled", "ready"}
      BY <1>0, <2>2 DEF PodCreate, PodSchedule, PodReady, Safe, Bound, Away, TypeOK
    <3> QED
      BY <1>0, <3>1 DEF Safe, Bound, Away, local
  <2>3. CASE PodAges(p)
    <3>1. pods[p] = "ready"
      BY <1>2, <2>1, <2>3 DEF PodAges, Struck, Safe, Away
    <3> QED
      BY <1>0, <2>3, <3>1 DEF PodAges, Safe, Bound, Away, local
  <2>4. CASE PeriodElapses(p) \/ CatchUp(p) \/ Heartbeat(p) \/ Silent(p) \/ Blip(p)
    <3>1. claims' = claims /\ pods' = pods /\ aged' = aged /\ data \subseteq data'
      BY <2>4 DEF PeriodElapses, CatchUp, Heartbeat, Silent, Blip, kube
    <3> QED
      BY <1>0, <3>1 DEF Safe, Bound, Away, local
  <2> QED
    BY <1>2, <2>1, <2>2, <2>3, <2>4 DEF Node, Struck
<1> QED
  BY <1>1, <1>2

\* A fault that hits a pod leaves a majority safe: the pods that make up for it
\* run with their data, or it is the second fault of one and the same pod.
LEMMA SafeStruck ==
    ASSUME N >= 3, Minority, Careful, TypeOK, OutageInv, NEW h \in Metads, Node(h), Struck(h)
    PROVE  SafeInv'
<1> DEFINE T == {p \in Metads : Safe(p)}
<1>0. h \in Pods /\ ~Spent
  <2>1. Fault
    BY DEF Struck, NodeDown, PodCrash
  <2> QED
    BY <2>1, View DEF Fault, TypeOK, Spent, Careful
<1>1. ASSUME NEW A \in SUBSET Metads, Majority(A), \A p \in A : Safe(p) /\ p # h
      PROVE  SafeInv'
  <2>1. \A p \in A : Safe(p)'
    BY <1>0, <1>1, SafeAround
  <2>2. A \subseteq T' /\ T' \subseteq Metads
    BY <2>1
  <2> QED
    BY <1>1, <2>2, MajorityGrows DEF SafeInv
<1>2. CASE NodeDown(h) \/ PodCrash(h)
  <2> DEFINE A == {q \in data \ {h} : pods[q] = "ready"}
  <2>1. Majority(A) /\ A \subseteq Metads
    BY <1>2 DEF NodeDown, PodCrash, Spare, TypeOK
  <2>2. \A p \in A : Safe(p) /\ p # h
    BY <1>0, <2>1, ReadyIsSafe
  <2> QED
    BY <1>1, <2>1, <2>2
<1>3. CASE PodAges(h) /\ pods[h] \in {"pending", "scheduled"}
  <2> DEFINE A == Metads \ {h}
  <2>1. ~Fine(h)
    BY <1>3 DEF Fine
  <2>2. \A p \in A : Fine(p)
    BY <1>0, <2>1 DEF OutageInv, BadInv
  <2>3. \A p \in A : Safe(p) /\ p # h
    BY <2>2, FineIsSafe
  <2>4. Majority(A)
    <3>1. Cardinality(A) = N - 1
      BY PodsFinite, FS_RemoveElement
    <3> QED
      BY <3>1 DEF Majority
  <2> QED
    BY <1>1, <2>3, <2>4
<1> QED
  BY <1>2, <1>3 DEF Struck

LEMMA SafeStep ==
    ASSUME N >= 3, Minority, Careful, TypeOK, OutageInv, SafeInv, [Next]_vars
    PROVE  SafeInv'
<1> DEFINE T == {p \in Metads : Safe(p)}
<1>1. ASSUME \A p \in Metads : Safe(p) => Safe(p)' PROVE SafeInv'
  <2>1. T \subseteq T' /\ T \subseteq Metads /\ T' \subseteq Metads
    BY <1>1
  <2> QED
    BY <2>1, MajorityGrows DEF SafeInv
<1>2. CASE UNCHANGED vars
  BY <1>1, <1>2 DEF vars, kube, local, Safe, Bound, Away, Open, Failed
<1>3. CASE Operator \/ CallFails \/ Crash \/ Scale
  BY <1>1, <1>3, SafeInPass
<1>4. ASSUME NEW h \in Pods, Node(h) PROVE SafeInv'
  <2>1. CASE h \in Metads /\ Struck(h)
    BY <1>4, <2>1, SafeStruck
  <2>2. CASE ~(h \in Metads /\ Struck(h))
    BY <1>1, <1>4, <2>2, SafeAround
  <2> QED
    BY <2>1, <2>2
<1> QED
  BY <1>2, <1>3, <1>4 DEF Next

\* For any number of metads from three on, any number of graphds and any scaling,
\* with up to two faults each of which leaves metad a majority: whatever failover
\* rebuilds, a majority of the members has the metadata on its volumes. The
\* members that are safe are a majority (metad_failover.go Failover).
THEOREM MajorityKeepsData == N >= 3 /\ Minority /\ Careful /\ Spec => []MetadataKept
<1>1. CASE N >= 3 /\ Minority /\ Careful
  <2>1. Init => SafeInv
    <3> SUFFICES ASSUME Init PROVE SafeInv
      OBVIOUS
    <3>1. TypeOK /\ OutageInv /\ \A p \in Metads : Fine(p)
      BY TypeInit, OutageInit DEF OutageInv, BadInv, Init
    <3>2. {p \in Metads : Safe(p)} = Metads
      BY <3>1, FineIsSafe
    <3>3. Majority(Metads)
      BY PodsFinite DEF Majority
    <3> QED
      BY <3>2, <3>3 DEF SafeInv
  <2>2. TypeOK /\ OutageInv /\ SafeInv /\ [Next]_vars => SafeInv'
    BY <1>1, SafeStep
  <2>3. TypeOK /\ SafeInv => MetadataKept
    <3> SUFFICES ASSUME TypeOK, SafeInv PROVE MetadataKept
      OBVIOUS
    <3>1. {p \in Metads : Safe(p)} \subseteq data /\ data \subseteq Metads
      BY DEF Safe, TypeOK
    <3> QED
      BY <3>1, MajorityGrows DEF SafeInv, MetadataKept
  <2> QED
    BY <1>1, <2>1, <2>2, <2>3, OutageKnown, PTL DEF Spec
<1>2. CASE ~(N >= 3 /\ Minority /\ Careful)
  BY <1>2
<1> QED
  BY <1>1, <1>2
=============================================================================
