---------------------------- MODULE UpdateProofs ----------------------------
(***************************************************************************)
(* What is proved of updates: the rolling update of storaged, for any      *)
(* number of replicas, spaces, templates, faults and changes; the order of *)
(* the components in a rollout; and the flags that make pods be replaced.  *)
(* Each part has an inductive invariant of its own.  The parts share no    *)
(* step, and the names of some variables only; what they assume of their   *)
(* constants is the condition of each theorem.                             *)
(***************************************************************************)
EXTENDS StoragedUpdate, FiniteSetTheorems, WellFoundedInduction, TLAPS

CONSTANTS
    Size, Sizes, MaxVersion, MaxScales,                   \* ClusterRollout
    Dynamic, Static, Documented, MaxValue, MaxImage, Returns, \* DynamicFlags
    MaxEdits, MaxDown                                     \* both
VARIABLES
    spec, queued, nc,                                     \* of both
    phase, revision, scale,                               \* ClusterRollout
    cm, next                                              \* DynamicFlags
Rollout == INSTANCE ClusterRollout
Config == INSTANCE DynamicFlags

\* The constants of the model.
Constants ==
    /\ Replicas \in Nat \ {0} /\ Parts \in Nat \ {0}
    /\ MaxChanges \in Nat /\ MaxRestarts \in Nat /\ MaxMetad \in Nat
    /\ MaxTimeouts \in Nat /\ MaxFaults \in Nat

-----------------------------------------------------------------------------
(* The pod that is updated next *)

LEMMA HasLargest == ASSUME NEW n \in Nat, NEW S, S \subseteq 0 .. n, S # {}
                    PROVE  \E m \in S : \A k \in S : k <= m
<1> DEFINE T == {i \in Nat : \E m \in S : i = n - m}
<1>1. PICK s \in S : TRUE
  OBVIOUS
<1>2. T \subseteq Nat /\ n - s \in T
  <2>1. s \in 0 .. n
    BY <1>1
  <2> QED
    BY <2>1
<1>3. \E x \in T : \A y \in T : <<y, x>> \notin OpToRel(<, Nat)
  <2>1. T # {}
    BY <1>2
  <2> HIDE DEF T
  <2> QED
    BY <1>2, <2>1, NatLessThanWellFounded, WFMin
<1>4. PICK x \in T : \A y \in T : ~(y < x)
  BY <1>2, <1>3 DEF OpToRel
<1>5. PICK m \in S : x = n - m
  OBVIOUS
<1>6. ASSUME NEW k \in S PROVE k <= m
  <2>1. k \in 0 .. n /\ m \in 0 .. n
    OBVIOUS
  <2>2. n - k \in T
    BY <2>1
  <2> QED
    BY <1>4, <1>5, <2>1, <2>2
<1> QED
  BY <1>6

\* getNextUpdatePod names the highest pod without the update revision, if there is one.
LEMMA NextIs == ASSUME Constants
                PROVE  /\ Stale = {} => GetNextUpdatePod = None
                       /\ Stale # {} => /\ GetNextUpdatePod \in Stale
                                        /\ \A o \in Stale : o <= GetNextUpdatePod
<1>1. CASE Stale = {}
  BY <1>1 DEF GetNextUpdatePod, Stale
<1>2. CASE Stale # {}
  <2>1. Replicas \in Nat /\ Stale \subseteq 0 .. Replicas
    BY DEF Constants, Stale, Ords
  <2>2. \E m \in Stale : \A k \in Stale : k <= m
    BY <1>2, <2>1, HasLargest
  <2>3. GetNextUpdatePod = CHOOSE o \in Stale : \A p \in Stale : p <= o
    BY <1>2 DEF GetNextUpdatePod, Stale
  <2> QED
    BY <1>2, <2>2, <2>3
<1> QED
  BY <1>1, <1>2

LEMMA NoneIs == ASSUME Constants PROVE None \notin Ords /\ None \in 0 .. Replicas
                                       /\ Ords \subseteq 0 .. Replicas /\ 0 \in Ords
  BY DEF Constants, None, Ords

-----------------------------------------------------------------------------
(* Types *)

Pod == [rev : Templates, state : States, begin : {"none", "fresh", "expired"}]
Whats == {"changes", "restarts", "metad", "timeouts", "faults"}
TypeInv == TypeOK /\ budget \in [Whats -> Nat]

LEMMA Spent == ASSUME budget \in [Whats -> Nat], NEW w \in Whats, Spend(w)
               PROVE  budget' \in [Whats -> Nat]
  BY DEF Spend

LEMMA PodTyped ==
  ASSUME pods \in [Ords -> Pod], NEW o
  PROVE  /\ \A x \in States : [pods EXCEPT ![o].state = x] \in [Ords -> Pod]
         /\ \A y \in {"none", "fresh", "expired"} : [pods EXCEPT ![o].begin = y] \in [Ords -> Pod]
  BY DEF Pod

LEMMA BeginTyped == ASSUME pods \in [Ords -> Pod], NEW o, BeginTransfer(o)
                    PROVE  pods' \in [Ords -> Pod]
<1>1. CASE pods[o].begin = "none"
  <2>1. pods' = [pods EXCEPT ![o].begin = "fresh"]
    BY <1>1 DEF BeginTransfer
  <2> QED
    BY <2>1, PodTyped
<1>2. CASE pods[o].begin # "none"
  BY <1>2 DEF BeginTransfer
<1> QED
  BY <1>1, <1>2

LEMMA MovedTyped == ASSUME TypeOK, NEW s \in Spaces, NEW o, NEW L \in Moved(s, o)
                    PROVE  /\ [leads EXCEPT ![s] = L] \in [Spaces -> (SUBSET Ords) \ {{}}]
                           /\ \A t \in Spaces : Cardinality([leads EXCEPT ![s] = L][t]) <= Parts
<1>1. L \in (SUBSET Ords) \ {{}} /\ Cardinality(L) <= Parts
  <2>1. L \in SUBSET Ords /\ L # {}
    BY DEF Moved
  <2>2. Cardinality(L) <= Parts
    BY DEF Moved
  <2> QED
    BY <2>1, <2>2
<1>2. leads \in [Spaces -> (SUBSET Ords) \ {{}}] /\ \A t \in Spaces : Cardinality(leads[t]) <= Parts
  BY DEF TypeOK
<1>3. ASSUME NEW t \in Spaces
      PROVE [leads EXCEPT ![s] = L][t] = IF t = s THEN L ELSE leads[t]
  BY <1>2
<1> QED
  BY <1>1, <1>2, <1>3

-----------------------------------------------------------------------------
LEMMA TypeInvInit == ASSUME Constants, Init PROVE TypeInv
<1>1. want \in Templates /\ sts \in Workload /\ old \in Workload /\ new \in Workload
  BY NoneIs DEF Init, Workload, Constants
<1>2. pods \in [Ords -> [rev : Templates, state : States, begin : {"none", "fresh", "expired"}]]
  BY <1>1 DEF Init, Fresh, States
<1>3. leads \in [Spaces -> (SUBSET Ords) \ {{}}] /\ \A s \in Spaces : Cardinality(leads[s]) <= Parts
  <2>1. ASSUME NEW L \in SUBSET Ords, Cardinality(L) = IF Parts < Replicas THEN Parts ELSE Replicas
        PROVE  L # {} /\ Cardinality(L) <= Parts
    BY <2>1, FS_EmptySet DEF Constants
  <2>2. leads \in [Spaces -> {L \in SUBSET Ords :
                        Cardinality(L) = IF Parts < Replicas THEN Parts ELSE Replicas}]
    BY DEF Init
  <2>3. ASSUME NEW s \in Spaces
        PROVE  leads[s] \in (SUBSET Ords) \ {{}} /\ Cardinality(leads[s]) <= Parts
    BY <2>1, <2>2
  <2> QED
    BY <2>2, <2>3
<1>4. status \in StatusType /\ st \in StatusType
  BY DEF Init, StatusType
<1>5. budget \in [Whats -> Nat]
  BY DEF Init, Constants, Whats
<1>6. seen \in Seen
  BY <1>1 DEF Init, Seen
<1> QED
  BY <1>1, <1>2, <1>3, <1>4, <1>5, <1>6, NoneIs DEF Init, TypeInv, TypeOK

LEMMA PassTyped ==
  ASSUME Constants, TypeOK, NEW n \in 0 .. Replicas, NEW t \in Templates
  PROVE  /\ [tmpl |-> t, partition |-> n, ordinal |-> None] \in Workload
         /\ [new EXCEPT !.partition = n] \in Workload
         /\ [sts EXCEPT !.ordinal = n] \in Workload
         /\ sts.tmpl \in Templates /\ sts.partition \in 0 .. Replicas
  BY NoneIs DEF TypeOK, Workload

LEMMA StatusTyped ==
  ASSUME NEW s \in StatusType, NEW B \in SUBSET Spaces, NEW l \in {"nil", "recent", "due"}
  PROVE  /\ [s EXCEPT !.last = l] \in StatusType
         /\ [s EXCEPT !.balanced = B] \in StatusType
         /\ SyncPhase(s) \in StatusType
         /\ Done(s) \in StatusType
         /\ s.balanced \in SUBSET Spaces
  BY DEF StatusType, SyncPhase, Done

LEMMA SeenTyped ==
  ASSUME TypeOK
  PROVE  /\ [seen EXCEPT !.fresh = FALSE] \in Seen
         /\ [seen EXCEPT !.cur = seen.upd] \in Seen
         /\ [seen EXCEPT !.upd = sts.tmpl, !.fresh = TRUE] \in Seen
         /\ seen.upd \in Templates /\ seen.cur \in Templates /\ seen.fresh \in BOOLEAN
  BY DEF TypeOK, Seen, Workload

LEMMA UpdateTargetTyped == ASSUME Constants, TypeOK
                           PROVE  UpdateTarget \in Workload /\ Generated \in Workload
<1>1. Generated \in Workload
  BY NoneIs DEF Generated, Workload, TypeOK, Constants
<1>2. [Generated EXCEPT !.tmpl = sts.tmpl] \in Workload
      /\ [Generated EXCEPT !.partition = sts.partition] \in Workload
  BY <1>1 DEF Workload, TypeOK
<1> QED
  BY <1>1, <1>2 DEF UpdateTarget

\* The steps of the pass that leave the cluster alone.
LEMMA PassTypeInv ==
  ASSUME Constants, TypeInv,
         \/ StartReconcile \/ CheckUpdate \/ EndTransfer \/ UpdateRunningPhase \/ EndReconcile
         \/ Balance \/ CallFails \/ Crash \/ IntervalPasses
  PROVE  TypeInv'
<1> USE DEF TypeInv
<1>1. CASE StartReconcile
  <2>1. st' \in StatusType
    BY <1>1, StatusTyped DEF StartReconcile, TypeOK
  <2>2. new' \in Workload
    BY <1>1, UpdateTargetTyped DEF StartReconcile
  <2> QED
    BY <1>1, <2>1, <2>2 DEF StartReconcile, TypeOK, cluster
<1>2. CASE CheckUpdate
  <2>1. new' \in Workload /\ idx' \in 0 .. Replicas /\ todo' \subseteq Spaces
    BY <1>2, NoneIs, PassTyped DEF CheckUpdate, TypeOK, Leader
  <2> QED
    BY <1>2, <2>1 DEF CheckUpdate, TypeOK, cluster
<1>3. CASE EndTransfer
  BY <1>3, NoneIs DEF EndTransfer, Save, TypeOK, cluster
<1>4. CASE UpdateRunningPhase
  BY <1>4, StatusTyped DEF UpdateRunningPhase, TypeOK, cluster
<1>5. CASE EndReconcile
  BY <1>5 DEF EndReconcile, TypeOK, cluster
<1>6. CASE Balance
  <2>1. st' \in StatusType
    BY <1>6, StatusTyped DEF Balance, TypeOK
  <2> QED
    BY <1>6, <2>1 DEF Balance, TypeOK, cluster
<1>7. CASE CallFails
  <2>1. budget' \in [Whats -> Nat]
    BY <1>7, Spent DEF CallFails, Whats
  <2> QED
    BY <1>7, <2>1, NoneIs DEF CallFails, Save, TypeOK, cluster
<1>8. CASE Crash
  <2>1. budget' \in [Whats -> Nat]
    BY <1>8, Spent DEF Crash, Whats
  <2> QED
    BY <1>8, <2>1, NoneIs DEF Crash, TypeOK, cluster
<1>9. CASE IntervalPasses
  <2>1. status' \in StatusType
    BY <1>9, StatusTyped DEF IntervalPasses, TypeOK
  <2> QED
    BY <1>9, <2>1 DEF IntervalPasses, TypeOK, cluster
<1> QED
  BY <1>1, <1>2, <1>3, <1>4, <1>5, <1>6, <1>7, <1>8, <1>9

\* The steps of the pass that change pods, leaders, jobs or the workload.
LEMMA WorkTypeInv ==
  ASSUME Constants, TypeInv,
         \/ UpdateStoragedPod \/ RestartPod \/ DeletePod \/ UpdateWorkload
         \/ \E s \in Spaces : TransLeader(s) \/ BalanceLeader(s)
  PROVE  TypeInv'
<1> USE DEF TypeInv
<1>0. pods \in [Ords -> Pod]
  BY DEF TypeOK, Pod
<1>1. CASE UpdateStoragedPod
  <2>1. GetNextUpdatePod \in 0 .. Replicas
    BY NextIs, NoneIs DEF Stale
  <2>2. new' \in Workload /\ idx' \in 0 .. Replicas /\ todo' \subseteq Spaces
    BY <1>1, <2>1, PassTyped, NoneIs DEF UpdateStoragedPod, Save, TypeOK
  <2>3. pods' \in [Ords -> Pod]
    BY <1>0, <1>1, BeginTyped DEF UpdateStoragedPod
  <2>4. pc' \in {"save", "restart", "check", "leaders"} /\ err' \in BOOLEAN
    BY <1>1 DEF UpdateStoragedPod, Save, TypeOK
  <2> QED
    BY <1>1, <2>2, <2>3, <2>4 DEF UpdateStoragedPod, TypeOK, Pod
<1>2. CASE RestartPod
  <2>1. old.ordinal \in 0 .. Replicas
    BY DEF TypeOK, Workload
  <2>2. pods' \in [Ords -> Pod]
    BY <1>0, <1>2, BeginTyped DEF RestartPod
  <2>3. idx' \in 0 .. Replicas /\ todo' \subseteq Spaces /\ pc' \in {"workload", "delete", "transfer"}
    BY <1>2, <2>1 DEF RestartPod, TypeOK, Leader
  <2> QED
    BY <1>2, <2>2, <2>3 DEF RestartPod, TypeOK, Pod
<1>3. CASE DeletePod
  <2>1. pods' \in [Ords -> Pod]
    BY <1>0, <1>3, PodTyped DEF DeletePod, States
  <2> QED
    BY <1>3, <2>1, NoneIs DEF DeletePod, TypeOK, Pod
<1>4. CASE UpdateWorkload
  <2>1. seen' \in Seen
    BY <1>4, SeenTyped DEF UpdateWorkload, TypeOK
  <2>2. sts' \in Workload
    BY <1>4 DEF UpdateWorkload, Written, TypeOK
  <2> QED
    BY <1>4, <2>1, <2>2, NoneIs DEF UpdateWorkload, Save, TypeOK
<1>5. ASSUME NEW s \in Spaces, TransLeader(s) PROVE TypeInv'
  <2>1. /\ leads' \in [Spaces -> (SUBSET Ords) \ {{}}]
        /\ \A t \in Spaces : Cardinality(leads'[t]) <= Parts
    <3>1. CASE UNCHANGED leads
      BY <3>1 DEF TypeOK
    <3>2. CASE leads' \in {[leads EXCEPT ![s] = L] : L \in Moved(s, idx)}
      BY <3>2, MovedTyped
    <3> QED
      BY <1>5, <3>1, <3>2 DEF TransLeader
  <2>2. budget' \in [Whats -> Nat]
    BY <1>5, Spent DEF TransLeader, Whats
  <2>3. todo' \subseteq Spaces /\ err' \in BOOLEAN
    BY <1>5 DEF TransLeader, TodoAfterFailure, TypeOK
  <2> QED
    BY <1>5, <2>1, <2>2, <2>3 DEF TransLeader, TypeOK
<1>6. ASSUME NEW s \in Spaces, BalanceLeader(s) PROVE TypeInv'
  <2>1. st' \in StatusType
    <3>1. st.balanced \union {s} \in SUBSET Spaces
      BY DEF TypeOK, StatusType
    <3>2. /\ st \in StatusType /\ [st EXCEPT !.last = "recent"] \in StatusType
          /\ [st EXCEPT !.balanced = st.balanced \union {s}] \in StatusType
      BY <3>1, StatusTyped DEF TypeOK
    <3> QED
      BY <1>6, <3>2 DEF BalanceLeader
  <2>2. budget' \in [Whats -> Nat]
    BY <1>6, Spent DEF BalanceLeader, Whats
  <2>3. /\ jobs' \subseteq Spaces /\ todo' \subseteq Spaces /\ idx' \in 0 .. Replicas
        /\ err' \in BOOLEAN /\ pc' \in {"leaders", "balance", "save"}
    BY <1>6, NoneIs DEF BalanceLeader, Save, TypeOK
  <2> QED
    BY <1>6, <2>1, <2>2, <2>3 DEF BalanceLeader, TypeOK
<1> QED
  BY <1>1, <1>2, <1>3, <1>4, <1>5, <1>6

\* The StatefulSet, the pods, metad, time and users.
LEMMA OtherTypeInv ==
  ASSUME Constants, TypeInv,
         \/ Observe \/ CompleteRollingUpdate \/ MetadUpdates
         \/ \E o \in Ords : \/ RollPod(o) \/ PodReplaced(o) \/ PodRuns(o) \/ PodReady(o)
                            \/ TransferTimeout(o) \/ AskRestart(o)
         \/ \E s \in Spaces : LeadersBalanced(s) \/ \E o \in Ords : Elect(s, o)
         \/ \E t \in Templates : ChangeTemplate(t)
  PROVE  TypeInv'
<1> USE DEF TypeInv
<1>0. pods \in [Ords -> Pod]
  BY DEF TypeOK, Pod
<1>1. CASE Observe
  BY <1>1, SeenTyped DEF Observe, TypeOK, pass
<1>2. CASE CompleteRollingUpdate
  BY <1>2, SeenTyped DEF CompleteRollingUpdate, TypeOK, pass
<1>3. CASE MetadUpdates
  <2>1. budget' \in [Whats -> Nat]
    BY <1>3, Spent DEF MetadUpdates, Whats
  <2> QED
    BY <1>3, <2>1 DEF MetadUpdates, TypeOK, pass
<1>4. ASSUME NEW o \in Ords, RollPod(o) PROVE TypeInv'
  <2>1. pods' \in [Ords -> Pod]
    BY <1>0, <1>4, PodTyped DEF RollPod, States
  <2> QED
    BY <1>4, <2>1 DEF RollPod, TypeOK, pass, Pod
<1>5. ASSUME NEW o \in Ords, NEW p \in Pod, Becomes(o, p) PROVE TypeInv'
  <2>1. pods' \in [Ords -> Pod]
    BY <1>0, <1>5 DEF Becomes
  <2> QED
    BY <1>5, <2>1 DEF Becomes, TypeOK, pass, Pod
<1>6. ASSUME NEW o \in Ords, PodReplaced(o) PROVE TypeInv'
  <2>1. [rev |-> IF o >= sts.partition THEN seen.upd ELSE seen.cur,
         state |-> "pending", begin |-> "none"] \in Pod
    BY SeenTyped DEF Pod, States
  <2> QED
    BY <1>5, <1>6, <2>1 DEF PodReplaced
<1>7. ASSUME NEW o \in Ords, PodRuns(o) \/ PodReady(o) PROVE TypeInv'
  <2>1. [pods[o] EXCEPT !.state = "running"] \in Pod /\ [pods[o] EXCEPT !.state = "ready"] \in Pod
    BY <1>0 DEF Pod, States
  <2> QED
    BY <1>5, <1>7, <2>1 DEF PodRuns, PodReady
<1>8. ASSUME NEW o \in Ords, TransferTimeout(o) PROVE TypeInv'
  <2>1. pods' \in [Ords -> Pod] /\ budget' \in [Whats -> Nat]
    BY <1>0, <1>8, PodTyped, Spent DEF TransferTimeout, Whats
  <2> QED
    BY <1>8, <2>1 DEF TransferTimeout, TypeOK, pass, Pod
<1>9. ASSUME NEW o \in Ords, AskRestart(o) PROVE TypeInv'
  <2>1. sts' \in Workload /\ budget' \in [Whats -> Nat]
    BY <1>9, PassTyped, NoneIs, Spent DEF AskRestart, Whats, TypeOK
  <2> QED
    BY <1>9, <2>1 DEF AskRestart, TypeOK, pass
<1>10. ASSUME NEW s \in Spaces, LeadersBalanced(s) PROVE TypeInv'
  <2> DEFINE all == leads[s] \union {o \in Ords : Ready(o)}
  <2>1. all \in (SUBSET Ords) \ {{}}
    BY DEF TypeOK
  <2>2. leads' = IF Cardinality(all) <= Parts THEN [leads EXCEPT ![s] = all] ELSE leads
    BY <1>10 DEF LeadersBalanced
  <2>3. /\ leads' \in [Spaces -> (SUBSET Ords) \ {{}}]
        /\ \A t \in Spaces : Cardinality(leads'[t]) <= Parts
    <3> HIDE DEF all
    <3> QED
      BY <2>1, <2>2 DEF TypeOK
  <2> QED
    BY <1>10, <2>3 DEF LeadersBalanced, TypeOK, pass
<1>11. ASSUME NEW s \in Spaces, NEW o \in Ords, Elect(s, o) PROVE TypeInv'
  <2>1. /\ leads' \in [Spaces -> (SUBSET Ords) \ {{}}]
        /\ \A t \in Spaces : Cardinality(leads'[t]) <= Parts
    BY <1>11, MovedTyped DEF Elect
  <2> QED
    BY <1>11, <2>1 DEF Elect, TypeOK, pass
<1>12. ASSUME NEW t \in Templates, ChangeTemplate(t) PROVE TypeInv'
  <2>1. budget' \in [Whats -> Nat]
    BY <1>12, Spent DEF ChangeTemplate, Whats
  <2> QED
    BY <1>12, <2>1 DEF ChangeTemplate, TypeOK, pass
<1> QED
  BY <1>1, <1>2, <1>3, <1>4, <1>6, <1>7, <1>8, <1>9, <1>10, <1>11, <1>12

LEMMA TypeInvStep == ASSUME Constants, TypeInv, [Next]_vars PROVE TypeInv'
<1>1. CASE Next
  BY <1>1, PassTypeInv, WorkTypeInv, OtherTypeInv DEF Next, Operator, StatefulSet
<1>2. CASE UNCHANGED vars
  BY <1>2 DEF vars, TypeInv, TypeOK
<1> QED
  BY <1>1, <1>2

\* The types of the update: every space has leaders, no more than its partitions, and the pass
\* works on workloads, pods and spaces that exist (UpdateStoragedPod, RestartPod, BalanceLeader).
THEOREM TypeCorrect == Constants /\ Spec => []TypeOK
<1>1. Constants /\ Init => TypeInv
  BY TypeInvInit
<1>2. Constants /\ TypeInv /\ [Next]_vars => TypeInv'
  BY TypeInvStep
<1>3. TypeInv => TypeOK
  BY DEF TypeInv
<1>4. Constants => Constants'
  BY DEF Constants
<1> QED
  BY <1>1, <1>2, <1>3, <1>4, PTL DEF Spec

-----------------------------------------------------------------------------
(* A calm update: users wait for the last one, and no pod is restarted     *)

Calm == Constants /\ Patient /\ Prompt /\ MaxRestarts = 0
CalmInv == TypeInv /\ budget.restarts = 0 /\ UpdateInv

\* No step of the calm update has to do with a restart.
LEMMA Unrestarted ==
  ASSUME Calm, CalmInv
  PROVE  /\ ~RestartPod \/ (pc' = "workload" /\ UNCHANGED <<pods, idx, todo, begun>>)
         /\ ~DeletePod /\ ~Balance
         /\ \A o \in Ords : ~AskRestart(o)
<1>1. ~DeletePod /\ ~Balance /\ old.ordinal = None
  BY DEF CalmInv, UpdateInv, PassHolds, DeletePod, Balance
<1>2. \A o \in Ords : ~AskRestart(o)
  BY DEF CalmInv, AskRestart, Spend
<1> QED
  BY <1>1, <1>2 DEF RestartPod

LEMMA CalmInvInit == ASSUME Calm, Init PROVE CalmInv
<1>1. TypeInv
  BY TypeInvInit DEF Calm
<1>2. budget.restarts = 0
  BY DEF Calm, Init
<1>3. Stale = {} /\ ~Changing
  BY DEF Init, Stale, Changing, Fresh
<1>4. AtRest
  BY <1>3 DEF AtRest
<1>5. PassHolds
  BY DEF Init, PassHolds
<1>6. BalancedLast
  BY <1>3 DEF Init, BalancedLast, Fresh
<1> QED
  BY <1>1, <1>2, <1>4, <1>5, <1>6 DEF CalmInv, UpdateInv

\* The steps of the pass on its own copy of the status.
LEMMA PassUpdateInv ==
  ASSUME Calm, CalmInv,
         \/ StartReconcile \/ CheckUpdate \/ EndTransfer \/ EndReconcile \/ CallFails \/ Crash
         \/ IntervalPasses
  PROVE  UpdateInv'
<1> USE DEF CalmInv, UpdateInv, Changing, Stale, Ready, cluster, ghost
<1>0. Ords' = Ords /\ None' = None
  BY DEF Ords, None
<1>1. CASE StartReconcile
  <2>1. AtRest'
    BY <1>1 DEF StartReconcile, AtRest, SyncPhase, IsUpdating, PassHolds, Calm
  <2>2. PassHolds'
    <3>1. sts \in Workload /\ st' \in StatusType /\ Generated \in Workload
      BY <1>1, UpdateTargetTyped, StatusTyped DEF StartReconcile, TypeInv, TypeOK, Calm
    <3>2. Generated = [tmpl |-> want, partition |-> Replicas, ordinal |-> None]
      BY DEF Generated
    <3>3. seen.fresh /\ seen.upd = sts.tmpl /\ sts.ordinal = None
      BY <1>1 DEF StartReconcile, PassHolds, Calm
    <3>4. Changing => st'.phase = "Running"
      BY <1>1, <3>3 DEF StartReconcile, SyncPhase, IsUpdating, AtRest
    <3>5. ASSUME pc' = "next" PROVE st'.phase = "Update" /\ ~Changing /\ new' = sts
      <4>1. CallsUpdate(st') /\ ~metad /\ PodTemplateEqual(Generated, sts) /\ new' = UpdateTarget
        BY <1>1, <3>5 DEF StartReconcile
      <4>2. st'.phase = "Update"
        BY <4>1 DEF CallsUpdate
      <4>3. new' = [Generated EXCEPT !.partition = sts.partition] /\ want = sts.tmpl
        BY <3>4, <4>1, <4>2 DEF UpdateTarget
      <4> QED
        BY <3>1, <3>2, <3>3, <3>4, <4>2, <4>3 DEF Workload
    <3>6. ASSUME pc' # "next"
          PROVE  pc' = "restart" /\ new'.partition = Replicas /\ new'.ordinal = None
                 /\ new'.tmpl \in {want, sts.tmpl}
      <4>1. /\ pc' = "restart"
            /\ \/ new' = Generated
               \/ new' = UpdateTarget /\ ~(~metad /\ PodTemplateEqual(Generated, sts))
        <5>1. CASE CallsUpdate(st')
          BY <1>1, <3>6, <5>1 DEF StartReconcile
        <5>2. CASE ~CallsUpdate(st')
          BY <1>1, <3>6, <5>2 DEF StartReconcile
        <5> QED
          BY <5>1, <5>2
      <4>2. new' = Generated \/ new' = [Generated EXCEPT !.tmpl = sts.tmpl]
        BY <4>1 DEF UpdateTarget
      <4> QED
        BY <3>2, <4>1, <4>2
    <3>7. UNCHANGED <<want, sts, seen>> /\ old' = sts /\ pc' \in {"next", "restart"}
      BY <1>1 DEF StartReconcile
    <3> QED
      BY <3>1, <3>3, <3>5, <3>6, <3>7 DEF PassHolds
  <2>3. BalancedLast'
    BY <1>1 DEF StartReconcile, BalancedLast, SyncPhase, IsUpdating, PassHolds
  <2> QED
    BY <2>1, <2>2, <2>3 DEF UpdateInv
<1>2. CASE CheckUpdate
  <2>1. AtRest'
    BY <1>2 DEF CheckUpdate, AtRest
  <2>2. PassHolds'
    BY <1>2 DEF CheckUpdate, PassHolds, TypeInv, TypeOK, Workload
  <2>3. BalancedLast'
    BY <1>2 DEF CheckUpdate, BalancedLast
  <2> QED
    BY <2>1, <2>2, <2>3 DEF UpdateInv
<1>3. CASE EndTransfer
  <2>1. AtRest'
    BY <1>3 DEF EndTransfer, AtRest, Save
  <2>2. PassHolds'
    BY <1>3 DEF EndTransfer, PassHolds, Save
  <2>3. BalancedLast'
    BY <1>3 DEF EndTransfer, BalancedLast, Save
  <2> QED
    BY <2>1, <2>2, <2>3 DEF UpdateInv
<1>4. CASE EndReconcile
  <2>1. AtRest'
    BY <1>4 DEF EndReconcile, AtRest
  <2>2. PassHolds'
    BY <1>4 DEF EndReconcile, PassHolds
  <2>3. BalancedLast'
    BY <1>4 DEF EndReconcile, BalancedLast
  <2> QED
    BY <2>1, <2>2, <2>3 DEF UpdateInv
<1>5. CASE CallFails
  <2>1. AtRest'
    BY <1>5 DEF CallFails, AtRest, Save
  <2>2. PassHolds'
    BY <1>5 DEF CallFails, PassHolds, Save
  <2>3. BalancedLast'
    BY <1>5 DEF CallFails, BalancedLast, Save
  <2> QED
    BY <2>1, <2>2, <2>3 DEF UpdateInv
<1>6. CASE Crash
  <2>1. AtRest'
    BY <1>6 DEF Crash, AtRest
  <2>2. PassHolds'
    BY <1>6 DEF Crash, PassHolds
  <2>3. BalancedLast'
    BY <1>6 DEF Crash, BalancedLast
  <2> QED
    BY <2>1, <2>2, <2>3 DEF UpdateInv
<1>7. CASE IntervalPasses
  <2>1. AtRest'
    BY <1>7 DEF IntervalPasses, AtRest, PassHolds, TypeInv, TypeOK, StatusType
  <2>2. PassHolds'
    BY <1>7 DEF IntervalPasses, PassHolds, PassHolds, TypeInv, TypeOK, StatusType
  <2>3. BalancedLast'
    BY <1>7 DEF IntervalPasses, BalancedLast, PassHolds, TypeInv, TypeOK, StatusType
  <2> QED
    BY <2>1, <2>2, <2>3 DEF UpdateInv
<1> QED
  BY <1>1, <1>2, <1>3, <1>4, <1>5, <1>6, <1>7

\* The steps of the pass that change the pods, the leaders, the jobs or the workload.
LEMMA WorkUpdateInv ==
  ASSUME Calm, CalmInv, Replicas > 1,
         \/ UpdateStoragedPod \/ UpdateRunningPhase \/ UpdateWorkload
         \/ \E s \in Spaces : TransLeader(s) \/ BalanceLeader(s)
  PROVE  UpdateInv'
<1> USE DEF CalmInv, UpdateInv, Changing, Stale, Ready, cluster, ghost
<1>0. Ords' = Ords /\ None' = None
  BY DEF Ords, None
<1>1. CASE UpdateStoragedPod
  <2>1. AtRest'
    BY <1>1, NextIs, NoneIs DEF UpdateStoragedPod, AtRest, PassHolds, Save, BeginTransfer, TypeInv,
         TypeOK, Workload, Calm, Pod
  <2>2. PassHolds'
    BY <1>1, NextIs, NoneIs DEF UpdateStoragedPod, PassHolds, PassHolds, Save, BeginTransfer,
         TypeInv, TypeOK, Workload, Calm, Pod
  <2>3. BalancedLast'
    BY <1>1, NextIs, NoneIs DEF UpdateStoragedPod, BalancedLast, PassHolds, Save, BeginTransfer,
         TypeInv, TypeOK, Workload, Calm, Pod
  <2> QED
    BY <2>1, <2>2, <2>3 DEF UpdateInv
<1>2. CASE UpdateRunningPhase
  <2>1. AtRest'
    BY <1>2 DEF UpdateRunningPhase, AtRest, Done, PassHolds, AtRest
  <2>2. PassHolds'
    BY <1>2 DEF UpdateRunningPhase, PassHolds, Done, PassHolds, AtRest
  <2>3. BalancedLast'
    <3>1. todo = {} /\ pc = "leaders"
      BY <1>2 DEF UpdateRunningPhase
    <3>2. checked = Spaces
      BY <3>1 DEF BalancedLast
    <3>3. Stale = {} /\ ~Changing
      BY <3>1 DEF BalancedLast, PassHolds
    <3>4. st'.phase = "Running" /\ st'.balanced = {} /\ pc' = "restart"
      <4>1. st' = Done(st) /\ pc' = "restart"
        BY <1>2 DEF UpdateRunningPhase
      <4>2. Spaces = {} => st.balanced = {}
        BY DEF BalancedLast
      <4>3. st \in StatusType
        BY DEF TypeInv, TypeOK
      <4> QED
        BY <4>1, <4>2, <4>3 DEF Done, StatusType
    <3>5. UNCHANGED <<want, sts, seen, pods, jobs, status, checked>>
      BY <1>2 DEF UpdateRunningPhase
    <3> QED
      BY <3>2, <3>3, <3>4, <3>5 DEF BalancedLast
  <2> QED
    BY <2>1, <2>2, <2>3 DEF UpdateInv
<1>3. CASE UpdateWorkload
  <2>1. AtRest'
    BY <1>3 DEF UpdateWorkload, AtRest, Save, Written, PassHolds, AtRest, TypeInv, TypeOK,
         Workload, Seen, ObjectEqual
  <2>2. PassHolds'
    BY <1>3 DEF UpdateWorkload, PassHolds, Save, Written, PassHolds, AtRest, TypeInv, TypeOK,
         Workload, Seen, ObjectEqual
  <2>3. BalancedLast'
    BY <1>3 DEF UpdateWorkload, BalancedLast, Save, Written, PassHolds, AtRest, TypeInv, TypeOK,
         Workload, Seen, ObjectEqual
  <2> QED
    BY <2>1, <2>2, <2>3 DEF UpdateInv
<1>4. ASSUME NEW s \in Spaces, TransLeader(s) PROVE UpdateInv'
  <2>1. AtRest'
    BY <1>4 DEF TransLeader, AtRest
  <2>2. PassHolds'
    BY <1>4 DEF TransLeader, PassHolds
  <2>3. BalancedLast'
    BY <1>4 DEF TransLeader, BalancedLast
  <2> QED
    BY <2>1, <2>2, <2>3 DEF UpdateInv
<1>5. ASSUME NEW s \in Spaces, BalanceLeader(s) PROVE UpdateInv'
  <2>1. AtRest'
    BY <1>5 DEF BalanceLeader, AtRest, PassHolds, Save, TypeInv, TypeOK, StatusType
  <2>2. PassHolds'
    BY <1>5 DEF BalanceLeader, PassHolds, PassHolds, Save, TypeInv, TypeOK, StatusType
  <2>3. BalancedLast'
    BY <1>5 DEF BalanceLeader, BalancedLast, PassHolds, Save, TypeInv, TypeOK, StatusType
  <2> QED
    BY <2>1, <2>2, <2>3 DEF UpdateInv
<1> QED
  BY <1>1, <1>2, <1>3, <1>4, <1>5

LEMMA RestartUpdateInv == ASSUME Calm, CalmInv, RestartPod PROVE UpdateInv'
<1> USE DEF CalmInv, UpdateInv, Changing, Stale, Ready
<1>0. Ords' = Ords /\ None' = None
  BY DEF Ords, None
<1>1. pc = "restart" /\ pc' = "workload"
      /\ UNCHANGED <<want, sts, seen, pods, jobs, status, st, old, new, checked>>
  BY Unrestarted DEF RestartPod
<1>2. AtRest'
  BY <1>1 DEF AtRest
<1>3. PassHolds'
  BY <1>1 DEF PassHolds
<1>4. BalancedLast'
  BY <1>1 DEF BalancedLast
<1> QED
  BY <1>2, <1>3, <1>4

\* The StatefulSet, the pods, metad, time and users.
LEMMA OtherUpdateInv ==
  ASSUME Calm, CalmInv,
         \/ Observe \/ CompleteRollingUpdate \/ MetadUpdates
         \/ \E o \in Ords : \/ RollPod(o) \/ PodReplaced(o) \/ PodRuns(o) \/ PodReady(o)
                            \/ TransferTimeout(o)
         \/ \E s \in Spaces : LeadersBalanced(s) \/ \E o \in Ords : Elect(s, o)
         \/ \E t \in Templates : ChangeTemplate(t)
  PROVE  UpdateInv'
<1> USE DEF CalmInv, UpdateInv, Changing, Stale, Ready, pass, ghost
<1>0. Ords' = Ords /\ None' = None
  BY DEF Ords, None
<1>1. CASE Observe
  <2>1. AtRest'
    BY <1>1 DEF Observe, AtRest, AtRest, PassHolds, TypeInv, TypeOK, Seen
  <2>2. PassHolds'
    BY <1>1 DEF Observe, PassHolds, AtRest, PassHolds, TypeInv, TypeOK, Seen
  <2>3. BalancedLast'
    BY <1>1 DEF Observe, BalancedLast, AtRest, PassHolds, TypeInv, TypeOK, Seen
  <2> QED
    BY <2>1, <2>2, <2>3 DEF UpdateInv
<1>2. CASE CompleteRollingUpdate
  <2>1. AtRest'
    BY <1>2 DEF CompleteRollingUpdate, AtRest, AtRest, PassHolds, TypeInv, TypeOK, Seen
  <2>2. PassHolds'
    BY <1>2 DEF CompleteRollingUpdate, PassHolds, AtRest, PassHolds, TypeInv, TypeOK, Seen
  <2>3. BalancedLast'
    BY <1>2 DEF CompleteRollingUpdate, BalancedLast, AtRest, PassHolds, TypeInv, TypeOK, Seen
  <2> QED
    BY <2>1, <2>2, <2>3 DEF UpdateInv
<1>3. CASE MetadUpdates
  <2>1. AtRest'
    BY <1>3 DEF MetadUpdates, AtRest
  <2>2. PassHolds'
    BY <1>3 DEF MetadUpdates, PassHolds
  <2>3. BalancedLast'
    BY <1>3 DEF MetadUpdates, BalancedLast
  <2> QED
    BY <2>1, <2>2, <2>3 DEF UpdateInv
<1>4. ASSUME NEW o \in Ords, RollPod(o) PROVE UpdateInv'
  <2>1. AtRest'
    BY <1>4 DEF RollPod, AtRest, Rolls, AtRest, TypeInv, TypeOK
  <2>2. PassHolds'
    BY <1>4 DEF RollPod, PassHolds, Rolls, AtRest, TypeInv, TypeOK
  <2>3. BalancedLast'
    BY <1>4 DEF RollPod, BalancedLast, Rolls, AtRest, TypeInv, TypeOK
  <2> QED
    BY <2>1, <2>2, <2>3 DEF UpdateInv
<1>5. ASSUME NEW o \in Ords, PodReplaced(o) PROVE UpdateInv'
  <2>1. AtRest'
    BY <1>5 DEF PodReplaced, AtRest, Becomes, AtRest, TypeInv, TypeOK
  <2>2. PassHolds'
    BY <1>5 DEF PodReplaced, PassHolds, Becomes, AtRest, TypeInv, TypeOK
  <2>3. BalancedLast'
    BY <1>5 DEF PodReplaced, BalancedLast, Becomes, AtRest, TypeInv, TypeOK
  <2> QED
    BY <2>1, <2>2, <2>3 DEF UpdateInv
<1>6. ASSUME NEW o \in Ords, PodRuns(o) \/ PodReady(o) PROVE UpdateInv'
  <2>1. AtRest'
    BY <1>6 DEF PodRuns, PodReady, AtRest, Becomes, AtRest, TypeInv, TypeOK
  <2>2. PassHolds'
    BY <1>6 DEF PodRuns, PodReady, PassHolds, Becomes, AtRest, TypeInv, TypeOK
  <2>3. BalancedLast'
    BY <1>6 DEF PodRuns, PodReady, BalancedLast, Becomes, AtRest, TypeInv, TypeOK
  <2> QED
    BY <2>1, <2>2, <2>3 DEF UpdateInv
<1>7. ASSUME NEW o \in Ords, TransferTimeout(o) PROVE UpdateInv'
  <2>1. AtRest'
    BY <1>7 DEF TransferTimeout, AtRest, TypeInv, TypeOK
  <2>2. PassHolds'
    BY <1>7 DEF TransferTimeout, PassHolds, TypeInv, TypeOK
  <2>3. BalancedLast'
    BY <1>7 DEF TransferTimeout, BalancedLast, TypeInv, TypeOK
  <2> QED
    BY <2>1, <2>2, <2>3 DEF UpdateInv
<1>8. ASSUME NEW s \in Spaces, LeadersBalanced(s) PROVE UpdateInv'
  <2>1. AtRest'
    BY <1>8 DEF LeadersBalanced, AtRest
  <2>2. PassHolds'
    BY <1>8 DEF LeadersBalanced, PassHolds
  <2>3. BalancedLast'
    BY <1>8 DEF LeadersBalanced, BalancedLast
  <2> QED
    BY <2>1, <2>2, <2>3 DEF UpdateInv
<1>9. ASSUME NEW s \in Spaces, NEW o \in Ords, Elect(s, o) PROVE UpdateInv'
  <2>1. AtRest'
    BY <1>9 DEF Elect, AtRest
  <2>2. PassHolds'
    BY <1>9 DEF Elect, PassHolds
  <2>3. BalancedLast'
    BY <1>9 DEF Elect, BalancedLast
  <2> QED
    BY <2>1, <2>2, <2>3 DEF UpdateInv
<1>10. ASSUME NEW t \in Templates, ChangeTemplate(t) PROVE UpdateInv'
  <2>1. AtRest'
    BY <1>10 DEF ChangeTemplate, AtRest, Calm, Settled, IsUpdating, Generated, PassHolds
  <2>2. PassHolds'
    BY <1>10 DEF ChangeTemplate, PassHolds, Calm, Settled, IsUpdating, Generated, PassHolds
  <2>3. BalancedLast'
    BY <1>10 DEF ChangeTemplate, BalancedLast, Calm, Settled, IsUpdating, Generated, PassHolds
  <2> QED
    BY <2>1, <2>2, <2>3 DEF UpdateInv
<1> QED
  BY <1>1, <1>2, <1>3, <1>4, <1>5, <1>6, <1>7, <1>8, <1>9, <1>10

\* A bound that is used up stays used up.
LEMMA Budgets == ASSUME TypeInv, Next, NEW k \in Whats, budget[k] = 0
                 PROVE  budget'[k] = 0
<1>1. UNCHANGED budget \/ \E w \in Whats : Spend(w)
  BY DEF Next, StartReconcile, Operator, UpdateStoragedPod, CheckUpdate, EndTransfer,
         UpdateRunningPhase, RestartPod, DeletePod, Balance, UpdateWorkload, EndReconcile,
         TransLeader, BalanceLeader, CallFails, Crash, StatefulSet, Observe,
         CompleteRollingUpdate, RollPod, PodReplaced, Becomes, IntervalPasses, PodRuns, PodReady,
         TransferTimeout, AskRestart, LeadersBalanced, Elect, ChangeTemplate, MetadUpdates, Whats
<1>2. ASSUME NEW w \in Whats, Spend(w) PROVE budget'[k] = 0
  <2>1. budget \in [Whats -> Nat] /\ budget[w] > 0 /\ budget' = [budget EXCEPT ![w] = @ - 1]
    BY <1>2 DEF Spend, TypeInv
  <2>2. w # k
    BY <2>1
  <2> QED
    BY <2>1, <2>2
<1> QED
  BY <1>1, <1>2

LEMMA CalmInvStep == ASSUME Calm, Replicas > 1, CalmInv, [Next]_vars PROVE CalmInv'
<1>1. CASE Next
  <2>1. TypeInv'
    BY <1>1, TypeInvStep DEF Calm, CalmInv
  <2>2. budget'.restarts = 0
    BY <1>1, Budgets DEF CalmInv, Whats
  <2>3. UpdateInv'
    <3>1. CASE RestartPod
      BY <3>1, RestartUpdateInv
    <3> QED
      BY <1>1, <3>1, Unrestarted, PassUpdateInv, WorkUpdateInv, OtherUpdateInv
         DEF Next, Operator, StatefulSet
  <2> QED
    BY <2>1, <2>2, <2>3 DEF CalmInv
<1>2. CASE UNCHANGED vars
  <2>1. TypeInv'
    BY <1>2, TypeInvStep DEF Calm, CalmInv
  <2>2. UpdateInv'
    BY <1>2 DEF CalmInv, UpdateInv, AtRest, PassHolds, BalancedLast, Changing, Stale, Ready, vars,
                Ords, None
  <2> QED
    BY <1>2, <2>1, <2>2 DEF CalmInv, vars
<1> QED
  BY <1>1, <1>2

\* A step of the calm update sets the phase to Running only when the update is done.
LEMMA DoneStep == ASSUME Calm, CalmInv, [Next]_vars PROVE ~RunsEarly
<1> SUFFICES ASSUME RunsEarly PROVE FALSE
  OBVIOUS
<1>1. status.phase = "Update" /\ status'.phase = "Running"
  BY DEF RunsEarly
<1>2. EndReconcile
  <2>1. status' # status
    BY <1>1
  <2>2. ~IntervalPasses
    BY <1>1 DEF IntervalPasses, CalmInv, TypeInv, TypeOK, StatusType
  <2> QED
    BY <2>1, <2>2, Unrestarted
       DEF Next, StartReconcile, Operator, UpdateStoragedPod, CheckUpdate, EndTransfer,
         UpdateRunningPhase, RestartPod, UpdateWorkload,
         TransLeader, BalanceLeader, CallFails, Crash, StatefulSet, Observe,
         CompleteRollingUpdate, RollPod, PodReplaced, Becomes, PodRuns, PodReady,
         TransferTimeout, LeadersBalanced, Elect, ChangeTemplate, MetadUpdates, vars
<1>3. st.phase = "Running"
  BY <1>1, <1>2 DEF EndReconcile
<1>4. checked = Spaces /\ Stale = {} /\ ~Changing
  BY <1>1, <1>3 DEF CalmInv, UpdateInv, BalancedLast
<1> QED
  BY <1>4 DEF RunsEarly, Stale, Changing

\* Running means done: with users who wait for the last update, the phase returns to Running
\* only when every pod has the template of the workload and the leaders of every space were
\* found balanced after the last pod was ended (getNextUpdatePod, updateRunningPhase), with any
\* number of pods above one, spaces, failed calls and crashes of the operator.
THEOREM UpdateDone == Calm /\ Replicas > 1 /\ Spec => RunningIsDone
<1>1. Calm /\ Init => CalmInv
  BY CalmInvInit
<1>2. Calm /\ Replicas > 1 /\ CalmInv /\ [Next]_vars => CalmInv'
  BY CalmInvStep
<1>3. Calm /\ CalmInv /\ [Next]_vars => [~RunsEarly]_vars
  BY DoneStep
<1>4. Calm => Calm'
  BY DEF Calm, Constants
<1>5. Replicas > 1 => (Replicas > 1)'
  OBVIOUS
<1> QED
  BY <1>1, <1>2, <1>3, <1>4, <1>5, PTL DEF Spec, RunningIsDone

-----------------------------------------------------------------------------
(* Leaders: no transfer reaches its timeout                                *)

Watched == Calm /\ Replicas > 1 /\ MaxTimeouts = 0 /\ ~NoTransfer
LeadInv == CalmInv /\ budget.timeouts = 0 /\ LeaderInv

LEMMA LeadInvInit == ASSUME Watched, Init PROVE LeadInv
<1>1. CalmInv /\ budget.timeouts = 0
  BY CalmInvInit DEF Watched, Init
<1>2. LeaderInv
  BY DEF Init, LeaderInv, Fresh, Ready, Stale
<1> QED
  BY <1>1, <1>2 DEF LeadInv

\* A step that moves no leader, ends no pod and makes none stale.
LEMMA PassLeaderInv ==
  ASSUME Watched, LeadInv,
         \/ StartReconcile \/ CheckUpdate \/ EndTransfer \/ UpdateRunningPhase \/ EndReconcile
         \/ CallFails \/ Crash \/ IntervalPasses \/ RestartPod \/ UpdateStoragedPod
         \/ UpdateWorkload \/ MetadUpdates
         \/ \E s \in Spaces : BalanceLeader(s)
         \/ \E t \in Templates : ChangeTemplate(t)
  PROVE  LeaderInv'
<1> USE DEF LeadInv, Ready, Leader, Stale, cluster, ghost, pass
<1>0. Ords' = Ords
  BY DEF Ords
<1>1. CASE StartReconcile
  <2>1. pc' \in {"next", "restart"} /\ UNCHANGED <<pods, leads, sts, seen, jobs>>
    BY <1>1 DEF StartReconcile
  <2>2. ASSUME pc' = "restart" PROVE new'.partition = Replicas
    <3>1. Generated = [tmpl |-> want, partition |-> Replicas, ordinal |-> None]
      BY DEF Generated
    <3>2. /\ new' = Generated \/ new' = UpdateTarget
          /\ new' = UpdateTarget => metad \/ ~PodTemplateEqual(Generated, sts) \/ new' = Generated
      <4>1. CASE CallsUpdate(st')
        BY <1>1, <2>2, <4>1 DEF StartReconcile
      <4>2. CASE ~CallsUpdate(st')
        BY <1>1, <4>2 DEF StartReconcile
      <4> QED
        BY <4>1, <4>2
    <3>3. new' = Generated \/ new' = [Generated EXCEPT !.tmpl = sts.tmpl]
      BY <3>2 DEF UpdateTarget
    <3> QED
      BY <3>1, <3>3
  <2>3. \A o \in Ords : ~(o >= Replicas)
    BY DEF Ords, Watched, Calm, Constants
  <2> QED
    BY <2>1, <2>2, <2>3 DEF LeaderInv
<1>2. CASE CheckUpdate
  BY <1>2 DEF CheckUpdate, LeaderInv, ReadyToUpdate, CalmInv, UpdateInv, PassHolds, BalancedLast,
       TypeInv, TypeOK, Workload, Ords
<1>3. CASE EndTransfer
  BY <1>3 DEF EndTransfer, LeaderInv, Save
<1>4. CASE UpdateRunningPhase
  BY <1>4 DEF UpdateRunningPhase, LeaderInv, CalmInv, UpdateInv, PassHolds, BalancedLast
<1>5. CASE EndReconcile
  BY <1>5 DEF EndReconcile, LeaderInv
<1>6. CASE CallFails
  BY <1>6 DEF CallFails, LeaderInv, Save
<1>7. CASE Crash
  BY <1>7 DEF Crash, LeaderInv
<1>8. CASE IntervalPasses
  BY <1>8 DEF IntervalPasses, LeaderInv
<1>9. CASE RestartPod
  BY <1>9, Unrestarted DEF RestartPod, LeaderInv, Watched
<1>10. CASE UpdateStoragedPod
  <2>1. UNCHANGED <<sts, seen, leads, jobs>>
    BY <1>10 DEF UpdateStoragedPod
  <2>2. CASE pc' = "save" /\ UNCHANGED <<pods, new>>
    BY <2>1, <2>2 DEF LeaderInv
  <2>3. CASE pc' = "leaders" /\ UNCHANGED pods
    BY <2>1, <2>3 DEF LeaderInv
  <2>4. CASE GetNextUpdatePod # None /\ BeginTransfer(GetNextUpdatePod)
             /\ idx' = GetNextUpdatePod /\ pc' = "check"
    <3>1. Stale # {} /\ idx' \in Stale /\ \A o \in Stale : o <= idx'
      <4>1. Stale # {}
        BY <2>4, NextIs DEF Watched, Calm
      <4> QED
        BY <2>4, <4>1, NextIs DEF Watched, Calm
    <3>2. jobs = {}
      BY <3>1 DEF CalmInv, UpdateInv, BalancedLast
    <3>3. ASSUME NEW o \in Ords
          PROVE  pods'[o].rev = pods[o].rev /\ pods'[o].state = pods[o].state
                 /\ pods'[o].begin # "expired"
      <4>1. pods \in [Ords -> Pod] /\ pods[o].begin # "expired"
        BY DEF CalmInv, TypeInv, TypeOK, Pod, LeaderInv
      <4>2. pods' = pods \/ pods' = [pods EXCEPT ![GetNextUpdatePod].begin = "fresh"]
        BY <2>4 DEF BeginTransfer
      <4> QED
        BY <4>1, <4>2 DEF Pod
    <3>4. Stale' = Stale /\ \A o \in Ords : Ready(o)' = Ready(o) /\ Leader(o)' = Leader(o)
      BY <1>0, <2>1, <3>3
    <3> QED
      BY <1>0, <2>1, <2>4, <3>1, <3>2, <3>3, <3>4 DEF LeaderInv
  <2> QED
    BY <1>10, <2>2, <2>3, <2>4 DEF UpdateStoragedPod, Save, Watched
<1>11. CASE UpdateWorkload
  <2>1. pc = "workload" /\ pc' = "save" /\ (sts' = sts \/ sts' = new) /\ UNCHANGED <<pods, leads>>
    BY <1>11 DEF UpdateWorkload, Save, Written
  <2>2. seen'.upd = seen.upd
    BY <1>11 DEF UpdateWorkload, CalmInv, TypeInv, TypeOK, Seen
  <2> QED
    BY <1>0, <2>1, <2>2 DEF LeaderInv
<1>12. CASE MetadUpdates
  BY <1>12 DEF MetadUpdates, LeaderInv
<1>13. ASSUME NEW s \in Spaces, BalanceLeader(s) PROVE LeaderInv'
  BY <1>13 DEF BalanceLeader, LeaderInv, Save, CalmInv, UpdateInv, PassHolds, BalancedLast
<1>14. ASSUME NEW t \in Templates, ChangeTemplate(t) PROVE LeaderInv'
  BY <1>14 DEF ChangeTemplate, LeaderInv
<1> QED
  BY <1>1, <1>2, <1>3, <1>4, <1>5, <1>6, <1>7, <1>8, <1>9, <1>10, <1>11, <1>12, <1>13, <1>14

\* The leaders move, pods end and start, and the StatefulSet notices a new template.
LEMMA MoveLeaderInv ==
  ASSUME Watched, LeadInv,
         \/ Observe \/ CompleteRollingUpdate
         \/ \E o \in Ords : \/ RollPod(o) \/ PodReplaced(o) \/ PodRuns(o) \/ PodReady(o)
                            \/ TransferTimeout(o)
         \/ \E s \in Spaces : \/ TransLeader(s) \/ LeadersBalanced(s)
                              \/ \E o \in Ords : Elect(s, o)
  PROVE  LeaderInv'
<1> USE DEF LeadInv, Ready, Leader, Stale, cluster, ghost, pass
<1>0. Ords' = Ords
  BY DEF Ords
<1>1. CASE Observe
  BY <1>1 DEF Observe, LeaderInv, AtRest, Changing, CalmInv, UpdateInv, PassHolds, BalancedLast,
       TypeInv, TypeOK, Seen, Ords, Calm, Constants, Watched, Workload
<1>2. CASE CompleteRollingUpdate
  BY <1>2 DEF CompleteRollingUpdate, LeaderInv, TypeInv, TypeOK, Seen, CalmInv
<1>3. ASSUME NEW o \in Ords, RollPod(o) PROVE LeaderInv'
  BY <1>3 DEF RollPod, LeaderInv, Rolls, TypeInv, TypeOK, CalmInv
<1>4. ASSUME NEW o \in Ords, PodReplaced(o) PROVE LeaderInv'
  <2>1. /\ pods[o].state = "term"
        /\ pods' = [pods EXCEPT ![o] = [rev |-> IF o >= sts.partition THEN seen.upd ELSE seen.cur,
                                       state |-> "pending", begin |-> "none"]]
        /\ UNCHANGED <<sts, seen, leads, jobs, pc, idx, new>>
    BY <1>4 DEF PodReplaced, Becomes
  <2>2. o \in Stale /\ ~Ready(o)
    BY <2>1 DEF CalmInv, UpdateInv, BalancedLast
  <2>3. pods'[o].state = "pending" /\ pods'[o].begin = "none"
        /\ \A p \in Ords \ {o} : pods'[p] = pods[p]
    BY <2>1 DEF CalmInv, TypeInv, TypeOK
  <2>4. Stale' \subseteq Stale /\ Stale \ {o} \subseteq Stale'
    BY <1>0, <2>1, <2>2, <2>3
  <2>5. \A p \in Ords : (Ready(p)' <=> Ready(p)) /\ Leader(p)' = Leader(p)
    BY <2>1, <2>2, <2>3
  <2>6. Leader(o) = {}
    BY <2>2 DEF LeaderInv
  <2> QED
    BY <1>0, <2>1, <2>3, <2>4, <2>5, <2>6 DEF LeaderInv
<1>5. ASSUME NEW o \in Ords, PodRuns(o) \/ PodReady(o) PROVE LeaderInv'
  <2>1. /\ pods' = [pods EXCEPT ![o] = [pods[o] EXCEPT !.state = pods'[o].state]]
        /\ Ready(o) => FALSE
        /\ UNCHANGED <<sts, seen, leads, jobs, pc, idx, new>>
    BY <1>5 DEF PodRuns, PodReady, Becomes, CalmInv, TypeInv, TypeOK
  <2>2. ASSUME NEW p \in Ords
        PROVE  pods'[p].rev = pods[p].rev /\ pods'[p].begin = pods[p].begin
               /\ (Ready(p) => Ready(p)')
    BY <2>1, <2>2 DEF CalmInv, TypeInv, TypeOK
  <2>3. Stale' = Stale /\ \A p \in Ords : Leader(p)' = Leader(p)
    BY <1>0, <2>1, <2>2
  <2> QED
    BY <1>0, <2>1, <2>2, <2>3 DEF LeaderInv
<1>6. ASSUME NEW o \in Ords, TransferTimeout(o) PROVE LeaderInv'
  BY <1>6 DEF TransferTimeout, LeaderInv, Spend
<1>7. ASSUME NEW s \in Spaces, TransLeader(s) PROVE LeaderInv'
  <2>1. pc = "transfer" /\ UNCHANGED <<pc, sts, seen, pods, jobs, idx, new>>
    BY <1>7 DEF TransLeader
  <2>2. CASE UNCHANGED leads
    BY <1>0, <2>1, <2>2 DEF LeaderInv
  <2>3. CASE leads' \in {[leads EXCEPT ![s] = L] : L \in Moved(s, idx)}
    <3>1. PICK L \in Moved(s, idx) : leads' = [leads EXCEPT ![s] = L]
      BY <2>3
    <3>2. ASSUME NEW o \in Ords, ~Ready(o) PROVE Leader(o)' \subseteq Leader(o)
      BY <3>1, <3>2 DEF Moved, CalmInv, TypeInv, TypeOK
    <3>3. ASSUME NEW o \in Stale PROVE ~(o >= sts.partition)
      <4>1. o <= idx /\ idx < sts.partition
        BY <2>1 DEF LeaderInv
      <4>2. o \in Nat /\ idx \in Nat /\ sts.partition \in Nat
        BY DEF CalmInv, TypeInv, TypeOK, Ords, Workload
      <4> QED
        BY <4>1, <4>2
    <3>4. Stale' = Stale
      BY <1>0, <2>1
    <3> QED
      BY <1>0, <2>1, <3>2, <3>3, <3>4 DEF LeaderInv
  <2> QED
    BY <1>7, <2>2, <2>3 DEF TransLeader
<1>8. ASSUME NEW s \in Spaces, LeadersBalanced(s) PROVE LeaderInv'
  BY <1>8 DEF LeadersBalanced, LeaderInv, CalmInv, UpdateInv, PassHolds, BalancedLast, TypeInv, TypeOK
<1>9. ASSUME NEW s \in Spaces, NEW o \in Ords, Elect(s, o) PROVE LeaderInv'
  BY <1>9 DEF Elect, LeaderInv, TypeInv, TypeOK, CalmInv, States
<1> QED
  BY <1>1, <1>2, <1>3, <1>4, <1>5, <1>6, <1>7, <1>8, <1>9

LEMMA LeadInvStep == ASSUME Watched, LeadInv, [Next]_vars PROVE LeadInv'
<1>1. CalmInv'
  BY CalmInvStep DEF Watched, LeadInv
<1>2. CASE Next
  <2>1. budget'.timeouts = 0
    BY <1>2, Budgets DEF LeadInv, CalmInv, Whats
  <2>2. LeaderInv'
    <3>1. CalmInv /\ Calm
      BY DEF LeadInv, Watched
    <3> QED
      BY <1>2, <3>1, Unrestarted, PassLeaderInv, MoveLeaderInv DEF Next, Operator, StatefulSet
  <2> QED
    BY <1>1, <2>1, <2>2 DEF LeadInv
<1>3. CASE UNCHANGED vars
  <2>1. LeaderInv'
    BY <1>3 DEF LeadInv, LeaderInv, Ready, Leader, Stale, Ords, vars
  <2> QED
    BY <1>1, <1>3, <2>1 DEF LeadInv, vars
<1> QED
  BY <1>2, <1>3

\* A pod that a step ends leads nothing.
LEMMA EndStep == ASSUME Watched, LeadInv, [Next]_vars PROVE ~EndsLeader
<1> SUFFICES ASSUME NEW o \in Ords, Terminated(o), Leader(o) # {} PROVE FALSE
  BY DEF EndsLeader
<1>1. Calm /\ CalmInv /\ pods' # pods
  BY DEF Terminated, Watched, LeadInv
<1>2. RollPod(o)
  <2>1. ASSUME NEW p \in Ords, pods' = [pods EXCEPT ![p].state = "term"] PROVE p = o
    BY <2>1 DEF Terminated, LeadInv, CalmInv, TypeInv, TypeOK
  <2>2. ASSUME NEW p \in Ords, NEW x \in Pod, x.state # "term", pods' = [pods EXCEPT ![p] = x]
        PROVE FALSE
    BY <2>2 DEF Terminated, LeadInv, CalmInv, TypeInv, TypeOK
  <2>3. ASSUME NEW p, BeginTransfer(p) PROVE FALSE
    BY <2>3 DEF BeginTransfer, Terminated, LeadInv, CalmInv, TypeInv, TypeOK
  <2>4. ASSUME NEW p \in Ords, PodReplaced(p) PROVE FALSE
    <3>1. seen.upd \in Templates /\ seen.cur \in Templates
      BY DEF LeadInv, CalmInv, TypeInv, TypeOK, Seen
    <3> DEFINE x == [rev |-> IF p >= sts.partition THEN seen.upd ELSE seen.cur,
                     state |-> "pending", begin |-> "none"]
    <3>2. x \in Pod /\ x.state # "term"
      BY <3>1 DEF Pod, States
    <3>3. pods' = [pods EXCEPT ![p] = x]
      BY <2>4 DEF PodReplaced, Becomes
    <3> HIDE DEF x
    <3> QED
      BY <2>2, <3>2, <3>3
  <2>5. ASSUME NEW p \in Ords, PodRuns(p) \/ PodReady(p) PROVE FALSE
    <3>1. pods[p] \in Pod
      BY DEF LeadInv, CalmInv, TypeInv, TypeOK, Pod
    <3>2. /\ [pods[p] EXCEPT !.state = "running"] \in Pod
          /\ [pods[p] EXCEPT !.state = "ready"] \in Pod
      BY <3>1 DEF Pod, States
    <3> QED
      BY <2>2, <2>5, <3>1, <3>2 DEF PodRuns, PodReady, Becomes, Pod
  <2>6. ASSUME NEW p \in Ords, TransferTimeout(p) PROVE FALSE
    BY <2>6 DEF TransferTimeout, Spend, LeadInv
  <2>7. ~UpdateStoragedPod
    BY <1>1, <2>3 DEF UpdateStoragedPod
  <2>8. PICK p \in Ords : RollPod(p)
    BY <1>1, <2>4, <2>5, <2>6, <2>7, Unrestarted
       DEF Next, StartReconcile, Operator, CheckUpdate, EndTransfer, UpdateRunningPhase,
           UpdateWorkload, EndReconcile, TransLeader, BalanceLeader, CallFails, Crash, StatefulSet,
           Observe, CompleteRollingUpdate, IntervalPasses, LeadersBalanced, Elect,
           ChangeTemplate, MetadUpdates, cluster, vars
  <2> QED
    BY <2>1, <2>8 DEF RollPod
<1>3. o \in Stale /\ o >= sts.partition
  BY <1>2 DEF RollPod, Rolls, Stale
<1> QED
  BY <1>3 DEF LeadInv, LeaderInv

\* Leaders leave first: with users who wait for the last update and transfers that are not cut
\* off by TransLeaderTimeout, a rolling update never ends a pod that leads a partition, whatever
\* leaders metad elects and moves meanwhile, and whichever calls and transfers fail or
\* restarts of the operator interrupt it (updateStoragedPod, readyToUpdate, transLeaderIfNecessary).
THEOREM LeadersStayMoved == Calm /\ MaxTimeouts = 0 /\ Spec => LeadersMoved
<1>1. CASE Replicas > 1 /\ ~NoTransfer
  <2>1. Calm /\ MaxTimeouts = 0 /\ Replicas > 1 /\ ~NoTransfer <=> Watched
    BY DEF Watched
  <2>2. Watched /\ Init => LeadInv
    BY LeadInvInit
  <2>3. Watched /\ LeadInv /\ [Next]_vars => LeadInv'
    BY LeadInvStep
  <2>4. Watched /\ LeadInv /\ [Next]_vars => [~EndsLeader]_vars
    BY EndStep
  <2>5. Watched => Watched'
    BY DEF Watched, Calm, Constants, NoTransfer
  <2> QED
    BY <1>1, <2>1, <2>2, <2>3, <2>4, <2>5, PTL DEF Spec, LeadersMoved
<1>2. Calm /\ ~(Replicas > 1 /\ ~NoTransfer) => NoTransfer
  BY DEF Calm, Constants, NoTransfer
<1>3. CASE NoTransfer
  <2>1. NoTransfer /\ [Next]_vars => [~EndsLeader]_vars
    BY DEF EndsLeader
  <2>2. NoTransfer => NoTransfer'
    BY DEF NoTransfer
  <2> QED
    BY <1>3, <2>1, <2>2, PTL DEF Spec, LeadersMoved
<1> QED
  BY <1>1, <1>2, <1>3

-----------------------------------------------------------------------------
(* The rollout of the components *)

\* What the model assumes of the constants; the sizes are bounded, as they are finite.
RolloutConstants ==
    /\ Size \in Nat \ {0} /\ Sizes # {} /\ \E n \in Nat : Sizes \subseteq 1 .. n
    /\ MaxVersion \in Nat

\* There is a largest size.
LEMMA LargestSize ==
    ASSUME RolloutConstants
    PROVE  /\ Rollout!MaxSize \in Nat \ {0} /\ Size <= Rollout!MaxSize
           /\ \A k \in Sizes : k \in Nat \ {0} /\ k <= Rollout!MaxSize
<1> DEFINE S == Sizes \union {Size}
<1>1. PICK n \in Nat : Sizes \subseteq 1 .. n
  BY DEF RolloutConstants
<1>2. Size \in Nat \ {0}
  BY DEF RolloutConstants
<1>3. n + Size \in Nat /\ S \subseteq 0 .. n + Size /\ S # {}
  BY <1>1, <1>2
<1>4. \E m \in S : \A k \in S : k <= m
  <2> HIDE DEF S
  <2> QED
    BY <1>3, HasLargest
<1>5. Rollout!MaxSize \in S /\ \A k \in S : k <= Rollout!MaxSize
  BY <1>4 DEF Rollout!MaxSize
<1> QED
  BY <1>1, <1>2, <1>5

\* The types of the variables; graphd has the replicas that users ask for.
RolloutTyped ==
    /\ spec \in Rollout!Specs /\ nc \in Rollout!Specs
    /\ sts \in [Rollout!Comps -> Rollout!Workload]
    /\ seen \in [Rollout!Comps -> Rollout!Status]
    /\ pods \in [Rollout!Comps -> [Rollout!Ords -> Rollout!Pod]]
    /\ phase \in [Rollout!Comps -> Rollout!Phases] /\ phase["metad"] \in {"Running", "Update"}
    /\ revision \in [Rollout!Comps -> 0 .. MaxVersion]
    /\ scale \in BOOLEAN /\ queued \in BOOLEAN /\ pc \in Rollout!Comps \union {"idle"}
    /\ sts["graphd"].size \in Sizes
LEMMA RolloutTypes == RolloutTyped <=> Rollout!TypeOK /\ sts["graphd"].size \in Sizes
BY DEF RolloutTyped, Rollout!TypeOK

\* The replicas of a component.
LEMMA SizeIs ==
    ASSUME RolloutConstants, NEW n \in Rollout!Specs, NEW c \in Rollout!Comps
    PROVE  /\ Rollout!SizeOf(c, n) \in Sizes \union {Size}
           /\ Rollout!SizeOf(c, n) \in 1 .. Rollout!MaxSize
<1>1. n.size \in Sizes
  BY DEF Rollout!Specs
<1>2. Rollout!SizeOf(c, n) \in Sizes \union {Size}
  BY <1>1 DEF Rollout!SizeOf
<1>3. Rollout!MaxSize \in Nat /\ \A k \in Sizes \union {Size} : k \in Nat \ {0} /\ k <= Rollout!MaxSize
  BY LargestSize DEF RolloutConstants
<1> QED
  BY <1>2, <1>3

\* At the start everything is at version 0.
LEMMA RolloutTypeInit == RolloutConstants /\ Rollout!Init => RolloutTyped
<1> SUFFICES ASSUME RolloutConstants, Rollout!Init PROVE RolloutTyped
  OBVIOUS
<1>1. PICK n \in Sizes : spec = [version |-> 0, flags |-> FALSE, size |-> n]
  BY DEF Rollout!Init
<1>2. spec \in Rollout!Specs /\ nc = spec
  BY <1>1 DEF Rollout!Init, Rollout!Specs, RolloutConstants
<1>3. sts \in [Rollout!Comps -> Rollout!Workload]
  <2>1. \A c \in Rollout!Comps : [version |-> 0, part |-> Rollout!SizeOf(c, spec),
            size |-> Rollout!SizeOf(c, spec), flags |-> FALSE, last |-> 0] \in Rollout!Workload
    <3> SUFFICES ASSUME NEW c \in Rollout!Comps
                 PROVE  [version |-> 0, part |-> Rollout!SizeOf(c, spec),
                         size |-> Rollout!SizeOf(c, spec), flags |-> FALSE, last |-> 0]
                             \in Rollout!Workload
      OBVIOUS
    <3>1. /\ Rollout!SizeOf(c, spec) \in Sizes \union {Size}
          /\ Rollout!SizeOf(c, spec) \in 0 .. Rollout!MaxSize
      BY <1>2, SizeIs, LargestSize
    <3>2. 0 \in 0 .. MaxVersion
      BY DEF RolloutConstants
    <3> QED
      BY <3>1, <3>2 DEF Rollout!Workload
  <2> QED
    BY <2>1 DEF Rollout!Init
<1>4. seen \in [Rollout!Comps -> Rollout!Status]
  <2>1. \A c \in Rollout!Comps : [cur |-> 0, upd |-> 0, size |-> Rollout!SizeOf(c, spec),
            fresh |-> TRUE, ready |-> Rollout!SizeOf(c, spec),
            updated |-> Rollout!SizeOf(c, spec)] \in Rollout!Status
    BY <1>2, SizeIs, LargestSize DEF Rollout!Status, RolloutConstants
  <2> QED
    BY <2>1 DEF Rollout!Init
<1>5. pods \in [Rollout!Comps -> [Rollout!Ords -> Rollout!Pod]]
  BY DEF Rollout!Init, Rollout!Pod, RolloutConstants
<1>6. sts["graphd"].size \in Sizes
  <2>1. "graphd" \in Rollout!Comps /\ spec.size \in Sizes
    BY <1>2 DEF Rollout!Comps, Rollout!Specs
  <2>2. sts["graphd"].size = Rollout!SizeOf("graphd", spec)
    BY <2>1 DEF Rollout!Init
  <2> QED
    BY <2>1, <2>2 DEF Rollout!SizeOf
<1>7. revision \in [Rollout!Comps -> 0 .. MaxVersion]
  BY DEF Rollout!Init, RolloutConstants
<1> QED
  BY <1>2, <1>3, <1>4, <1>5, <1>6, <1>7
     DEF Rollout!Init, RolloutTyped, Rollout!Comps, Rollout!Phases

\* getNextUpdatePod names an ordinal of the workload, or none.
LEMMA NextPodIs ==
    ASSUME RolloutConstants, NEW c \in Rollout!Comps
    PROVE  Rollout!NextUpdatePod(c) \in 0 .. Rollout!MaxSize
<1> DEFINE S == {o \in Rollout!Ords : o < sts[c].size /\ pods[c][o].version # seen[c].upd}
<1>1. Rollout!MaxSize \in Nat \ {0} /\ S \subseteq 0 .. Rollout!MaxSize
  BY LargestSize DEF Rollout!Ords
<1>2. CASE S = {}
  BY <1>1, <1>2 DEF Rollout!NextUpdatePod, Rollout!None
<1>3. CASE S # {}
  <2>1. \E m \in S : \A k \in S : k <= m
    <3> HIDE DEF S
    <3> QED
      BY <1>1, <1>3, HasLargest
  <2>2. Rollout!NextUpdatePod(c) = CHOOSE o \in S : \A p \in S : p <= o
    BY <1>3 DEF Rollout!NextUpdatePod
  <2> QED
    BY <1>1, <2>1, <2>2
<1> QED
  BY <1>2, <1>3
\* A workload that a pass may write for a component: it has the version that the
\* pass read, or keeps its own; only when it keeps its own, and metad is not being
\* updated, the partition lets pods be replaced.
Writable(c, w) ==
    /\ w \in Rollout!Workload /\ (c = "graphd" => w.size \in Sizes)
    /\ w.version = nc.version \/ (c # "metad" /\ w.version = sts[c].version)
    /\ w.part < w.size => /\ w.version = sts[c].version
                          /\ c # "metad" => phase["metad"] # "Update"

\* The workload that is generated, and the one with another version or partition.
LEMMA GeneratedIs ==
    ASSUME RolloutConstants, RolloutTyped, NEW c \in Rollout!Comps
    PROVE  /\ Rollout!Generated(c) \in Rollout!Workload
           /\ Rollout!Generated(c).version = nc.version
           /\ Rollout!Generated(c).part = Rollout!Generated(c).size
           /\ c = "graphd" => Rollout!Generated(c).size \in Sizes
<1>1. /\ Rollout!SizeOf(c, nc) \in Sizes \union {Size}
      /\ Rollout!SizeOf(c, nc) \in 0 .. Rollout!MaxSize
  BY SizeIs, LargestSize DEF RolloutTyped
<1>2. sts[c] \in Rollout!Workload /\ nc \in Rollout!Specs
  BY DEF RolloutTyped
<1>3. sts[c].last \in {0} \union Sizes /\ nc.version \in 0 .. MaxVersion /\ nc.flags \in BOOLEAN
  BY <1>2 DEF Rollout!Workload, Rollout!Specs
<1>4. c = "graphd" => Rollout!SizeOf(c, nc) \in Sizes
  BY <1>2 DEF Rollout!Specs, Rollout!SizeOf
<1> QED
  BY <1>1, <1>3, <1>4, Zenon DEF Rollout!Generated, Rollout!Workload

\* What is written when Update holds the template back, sets the partition, or
\* lets the new template through.
LEMMA TargetIs ==
    ASSUME RolloutConstants, RolloutTyped, NEW c \in Rollout!Comps, NEW ph
    PROVE  Writable(c, Rollout!Target(c, ph))
<1> DEFINE g == Rollout!Generated(c)
<1>1. /\ g \in Rollout!Workload /\ g.version = nc.version /\ g.part = g.size
      /\ c = "graphd" => g.size \in Sizes
  BY GeneratedIs
<1>2. sts[c] \in Rollout!Workload /\ sts[c].version \in 0 .. MaxVersion
      /\ sts[c].part \in 0 .. Rollout!MaxSize
  BY DEF RolloutTyped, Rollout!Workload
<1>3. g.size \in Nat
  BY <1>1, LargestSize DEF Rollout!Workload, RolloutConstants
<1> HIDE DEF g
<1>4. CASE Rollout!Target(c, ph) = Rollout!SetLastConfig(c, g) /\ Rollout!Held(c, ph)
  <2>1. c # "metad"
    BY <1>4 DEF Rollout!Held
  <2>2. Rollout!Target(c, ph) = [g EXCEPT !.version = sts[c].version]
    BY <1>4 DEF Rollout!SetLastConfig
  <2>3. Rollout!Target(c, ph) \in Rollout!Workload
    BY <1>1, <1>2, <2>2, Zenon DEF Rollout!Workload
  <2>4. /\ Rollout!Target(c, ph).version = sts[c].version
        /\ Rollout!Target(c, ph).part = g.part /\ Rollout!Target(c, ph).size = g.size
    BY <1>1, <2>2 DEF Rollout!Workload
  <2> QED
    BY <1>1, <1>3, <2>1, <2>3, <2>4 DEF Writable
<1>5. CASE Rollout!Target(c, ph) = Rollout!SetPartition(c, g) /\ Rollout!Rolls(c, ph)
  <2> DEFINE p == IF Rollout!NextUpdatePod(c) = Rollout!None THEN sts[c].part
                  ELSE Rollout!NextUpdatePod(c)
  <2>1. p \in 0 .. Rollout!MaxSize
    BY <1>2, NextPodIs
  <2>2. Rollout!Target(c, ph) = [g EXCEPT !.part = p]
    BY <1>5 DEF Rollout!SetPartition
  <2> HIDE DEF p
  <2>3. Rollout!Target(c, ph) \in Rollout!Workload
    BY <1>1, <2>1, <2>2, Zenon DEF Rollout!Workload
  <2>4. Rollout!Target(c, ph).version = g.version /\ Rollout!Target(c, ph).size = g.size
    BY <1>1, <2>2 DEF Rollout!Workload
  <2>5. /\ nc.version = sts[c].version
        /\ c # "metad" => phase["metad"] # "Update"
    BY <1>5 DEF Rollout!Rolls, Rollout!Equal, Rollout!Held
  <2> QED
    BY <1>1, <2>3, <2>4, <2>5 DEF Writable
<1>6. CASE Rollout!Target(c, ph) = g
  BY <1>1, <1>3, <1>6 DEF Writable
<1> QED
  BY <1>4, <1>5, <1>6 DEF Rollout!Target, g

\* What synchronising a component does to its workload and its phase.
Synced(c, ph) ==
    /\ phase' \in {[phase EXCEPT ![c] = ph], [phase EXCEPT ![c] = Rollout!PhaseAfter(c, ph)]}
    /\ revision' = [revision EXCEPT ![c] = seen[c].upd]
    /\ queued' \in BOOLEAN
    /\ \/ pc' = "idle" /\ UNCHANGED <<sts, seen>>
       \/ /\ pc' = Rollout!After(c)
          /\ \E w : /\ Writable(c, w)
                    /\ sts' = [sts EXCEPT ![c] = w]
                    /\ seen' = seen \/ seen' = [seen EXCEPT ![c].fresh = FALSE]
                    /\ seen'[c].fresh => w.version = sts[c].version

\* Writing the workload of a component.
LEMMA WriteMoves ==
    ASSUME RolloutConstants, RolloutTyped, NEW c \in Rollout!Comps, NEW ph, Rollout!Write(c, ph)
    PROVE  \E w : /\ Writable(c, w)
                  /\ sts' = [sts EXCEPT ![c] = w]
                  /\ seen' = seen \/ seen' = [seen EXCEPT ![c].fresh = FALSE]
                  /\ seen'[c].fresh => w.version = sts[c].version
<1> DEFINE t == Rollout!Target(c, ph)
           w == [t EXCEPT !.last = Rollout!LastReplicas(c)]
<1>1. Writable(c, t) /\ t \in Rollout!Workload
  BY TargetIs DEF Writable
<1>2. sts[c] \in Rollout!Workload /\ sts[c].last \in {0} \union Sizes
  BY DEF RolloutTyped, Rollout!Workload
<1>3. Rollout!LastReplicas(c) \in {0} \union Sizes
  BY <1>2 DEF Rollout!LastReplicas, RolloutTyped
<1>4. seen[c] \in Rollout!Status /\ seen \in [Rollout!Comps -> Rollout!Status]
      /\ sts \in [Rollout!Comps -> Rollout!Workload]
  BY DEF RolloutTyped
<1> HIDE DEF t
<1>5. /\ w \in Rollout!Workload /\ w.version = t.version /\ w.part = t.part /\ w.size = t.size
      /\ w.flags = t.flags
  BY <1>1, <1>3 DEF Rollout!Workload
<1>6. Writable(c, w)
  BY <1>1, <1>5 DEF Writable
<1>7. CASE Rollout!ObjectEqual(w, sts[c])
  <2>1. [w EXCEPT !.last = 0] = [sts[c] EXCEPT !.last = 0]
    BY <1>7 DEF Rollout!ObjectEqual
  <2>2. /\ [w EXCEPT !.last = 0].version = w.version /\ [w EXCEPT !.last = 0].part = w.part
        /\ [w EXCEPT !.last = 0].size = w.size
    BY <1>5 DEF Rollout!Workload
  <2>3. /\ [sts[c] EXCEPT !.last = 0].version = sts[c].version
        /\ [sts[c] EXCEPT !.last = 0].part = sts[c].part
        /\ [sts[c] EXCEPT !.last = 0].size = sts[c].size
    BY <1>2 DEF Rollout!Workload
  <2>4. Writable(c, sts[c])
    BY <1>2, <1>6, <2>1, <2>2, <2>3 DEF Writable
  <2>5. UNCHANGED <<sts, seen>>
    BY <1>7 DEF Rollout!Write, t
  <2> QED
    BY <1>4, <2>4, <2>5
<1>8. CASE ~Rollout!ObjectEqual(w, sts[c])
  <2> DEFINE f == /\ seen[c].fresh /\ w.version = sts[c].version
                  /\ w.part = sts[c].part /\ w.size = sts[c].size
  <2>1. sts' = [sts EXCEPT ![c] = w] /\ seen' = [seen EXCEPT ![c].fresh = f]
    BY <1>8 DEF Rollout!Write, t
  <2>2. CASE f
    <3>1. seen' = [seen EXCEPT ![c].fresh = TRUE] /\ seen[c].fresh = TRUE
      BY <1>4, <2>1, <2>2 DEF Rollout!Status
    <3>2. [seen[c] EXCEPT !.fresh = TRUE] = seen[c]
      BY <1>4, <3>1, Zenon DEF Rollout!Status
    <3>3. seen' = seen
      BY <1>4, <3>1, <3>2
    <3> QED
      BY <1>6, <2>1, <2>2, <3>3
  <2>3. CASE ~f
    <3>1. seen' = [seen EXCEPT ![c].fresh = FALSE]
      BY <2>1, <2>3
    <3>2. seen'[c].fresh = FALSE
      BY <1>4, <3>1 DEF Rollout!Status
    <3> QED
      BY <1>6, <2>1, <3>1, <3>2
  <2> QED
    BY <2>2, <2>3
<1> QED
  BY <1>7, <1>8

\* Synchronising a component moves it as described.
LEMMA SyncMoves ==
    ASSUME RolloutConstants, RolloutTyped, NEW c \in Rollout!Comps, NEW ph, Rollout!Sync(c, ph)
    PROVE  Synced(c, ph)
<1>0. revision' = [revision EXCEPT ![c] = seen[c].upd]
  BY DEF Rollout!Sync
<1>1. CASE UNCHANGED <<sts, seen>> /\ Rollout!Requeue /\ phase' = [phase EXCEPT ![c] = ph]
  BY <1>0, <1>1 DEF Synced, Rollout!Requeue
<1>2. CASE /\ Rollout!Write(c, ph) /\ phase' = [phase EXCEPT ![c] = Rollout!PhaseAfter(c, ph)]
           /\ pc' = Rollout!After(c)
           /\ queued' = (queued \/ ~Rollout!IsReady(c) \/ sts' # sts)
  <2>1. queued' \in BOOLEAN
    BY <1>2
  <2> QED
    BY <1>0, <1>2, <2>1, WriteMoves DEF Synced
<1> QED
  BY <1>1, <1>2 DEF Rollout!Sync
\* The phases that a component may get.
LEMMA PhaseIs ==
    ASSUME RolloutTyped, NEW c \in Rollout!Comps, NEW ph \in Rollout!Phases
    PROVE  /\ Rollout!NewPhase(c) \in Rollout!Phases /\ Rollout!PhaseAfter(c, ph) \in Rollout!Phases
           /\ Rollout!NewPhase("metad") \in {"Running", "Update"}
           /\ Rollout!PhaseAfter("metad", ph) = ph
<1>1. phase["storaged"] \in Rollout!Phases
  BY DEF RolloutTyped, Rollout!Comps
<1>2. Rollout!MetadPhase \in {"Running", "Update"}
  BY DEF Rollout!MetadPhase
<1>3. Rollout!StoragedPhase \in Rollout!Phases
  BY <1>1 DEF Rollout!StoragedPhase, Rollout!Phases
<1>4. Rollout!GraphdPhase \in Rollout!Phases
  BY DEF Rollout!GraphdPhase, Rollout!Phases
<1>5. Rollout!PhaseAfter(c, ph) \in Rollout!Phases /\ Rollout!PhaseAfter("metad", ph) = ph
  BY DEF Rollout!PhaseAfter, Rollout!Phases
<1> QED
  BY <1>2, <1>3, <1>4, <1>5 DEF Rollout!NewPhase, Rollout!Comps, Rollout!Phases

\* Synchronising a component keeps the types.
LEMMA SyncTypes ==
    ASSUME RolloutConstants, RolloutTyped, NEW c \in Rollout!Comps, NEW ph \in Rollout!Phases,
           c = "metad" => ph \in {"Running", "Update"},
           Synced(c, ph), UNCHANGED <<spec, pods, nc>>, scale' \in BOOLEAN
    PROVE  RolloutTyped'
<1>1. /\ phase' \in [Rollout!Comps -> Rollout!Phases]
      /\ phase'["metad"] \in {"Running", "Update"}
  <2>1. PICK q \in Rollout!Phases : /\ phase' = [phase EXCEPT ![c] = q]
                                    /\ c = "metad" => q \in {"Running", "Update"}
    BY PhaseIs DEF Synced
  <2> QED
    BY <2>1 DEF RolloutTyped
<1>2. /\ sts' \in [Rollout!Comps -> Rollout!Workload]
      /\ seen' \in [Rollout!Comps -> Rollout!Status]
      /\ sts'["graphd"].size \in Sizes
  <2>1. CASE UNCHANGED <<sts, seen>>
    BY <2>1 DEF RolloutTyped
  <2>2. ASSUME NEW w, Writable(c, w), sts' = [sts EXCEPT ![c] = w],
               seen' = seen \/ seen' = [seen EXCEPT ![c].fresh = FALSE]
        PROVE  /\ sts' \in [Rollout!Comps -> Rollout!Workload]
               /\ seen' \in [Rollout!Comps -> Rollout!Status]
               /\ sts'["graphd"].size \in Sizes
    <3>1. w \in Rollout!Workload /\ (c = "graphd" => w.size \in Sizes)
      BY <2>2 DEF Writable
    <3>2. sts' \in [Rollout!Comps -> Rollout!Workload] /\ sts'["graphd"].size \in Sizes
      BY <2>2, <3>1 DEF RolloutTyped
    <3>3. seen[c] \in Rollout!Status
      BY DEF RolloutTyped
    <3>4. [seen[c] EXCEPT !.fresh = FALSE] \in Rollout!Status
      BY <3>3, Zenon DEF Rollout!Status
    <3>5. seen' \in [Rollout!Comps -> Rollout!Status]
      BY <2>2, <3>4 DEF RolloutTyped
    <3> QED
      BY <3>2, <3>5
  <2> QED
    BY <2>1, <2>2 DEF Synced
<1>3. pc' \in Rollout!Comps \union {"idle"} /\ queued' \in BOOLEAN
  BY DEF Synced, Rollout!After, Rollout!Comps
<1>4. revision' \in [Rollout!Comps -> 0 .. MaxVersion]
  BY DEF Synced, RolloutTyped, Rollout!Status
<1> QED
  BY <1>1, <1>2, <1>3, <1>4 DEF RolloutTyped

\* The instance counts with the same Cardinality.
LEMMA RolloutCardinality ==
    ASSUME NEW S, NEW n, Cardinality(S) = n PROVE Rollout!Cardinality(S) = n
BY Zenon DEF Rollout!Cardinality, Cardinality

\* There are no more pods than ordinals.
LEMMA CountIs ==
    ASSUME RolloutConstants, NEW S, S \subseteq Rollout!Ords
    PROVE  Rollout!Cardinality(S) \in 0 .. Rollout!MaxSize
<1>1. Rollout!MaxSize \in Nat \ {0}
  BY LargestSize
<1>2. IsFiniteSet(Rollout!Ords) /\ Cardinality(Rollout!Ords) = Rollout!MaxSize
  BY <1>1, FS_Interval DEF Rollout!Ords
<1>3. IsFiniteSet(S) /\ Cardinality(S) <= Cardinality(Rollout!Ords)
  BY <1>2, FS_Subset
<1>4. Cardinality(S) \in Nat
  BY <1>3, FS_CardinalityType
<1> QED
  BY <1>1, <1>2, <1>3, <1>4, RolloutCardinality

\* The status that the StatefulSet controller reports.
LEMMA ObservedIs ==
    ASSUME RolloutConstants, RolloutTyped, NEW c \in Rollout!Comps
    PROVE  Rollout!Observed(c) \in Rollout!Status
<1> DEFINE here == Rollout!Here(c)
           ready == {o \in here : pods[c][o].state = "ready"}
           updated == {o \in here : pods[c][o].version = sts[c].version}
<1>1. here \subseteq Rollout!Ords /\ ready \subseteq Rollout!Ords /\ updated \subseteq Rollout!Ords
  BY DEF Rollout!Here
<1>2. /\ Rollout!Cardinality(here) \in 0 .. Rollout!MaxSize
      /\ Rollout!Cardinality(ready) \in 0 .. Rollout!MaxSize
      /\ Rollout!Cardinality(updated) \in 0 .. Rollout!MaxSize
  BY <1>1, CountIs
<1>3. sts[c].version \in 0 .. MaxVersion /\ seen[c].cur \in 0 .. MaxVersion
  BY DEF RolloutTyped, Rollout!Workload, Rollout!Status
<1> QED
  BY <1>2, <1>3, Zenon DEF Rollout!Observed, Rollout!Status

\* A pod is created with one of the two revisions of the status.
LEMMA PodTypes ==
    ASSUME RolloutTyped, NEW c \in Rollout!Comps, NEW o \in Rollout!Ords, NEW p \in Rollout!Pod,
           Rollout!SetPod(c, o, p)
    PROVE  RolloutTyped'
<1>1. pods' \in [Rollout!Comps -> [Rollout!Ords -> Rollout!Pod]]
  BY DEF RolloutTyped, Rollout!SetPod
<1> QED
  BY <1>1 DEF RolloutTyped, Rollout!SetPod

\* Every step keeps the types.
LEMMA RolloutTypeStep ==
    RolloutConstants /\ RolloutTyped /\ [Rollout!Next]_(Rollout!vars) => RolloutTyped'
<1> SUFFICES ASSUME RolloutConstants, RolloutTyped, [Rollout!Next]_(Rollout!vars) PROVE RolloutTyped'
  OBVIOUS
<1>1. CASE Rollout!StartPass
  BY <1>1 DEF Rollout!StartPass, RolloutTyped, Rollout!Comps
<1>2. CASE Rollout!SyncMetadWorkload
  <2>1. Rollout!NewPhase("metad") \in {"Running", "Update"}
    BY PhaseIs DEF Rollout!Comps, Rollout!Phases
  <2>2. "metad" \in Rollout!Comps /\ Rollout!NewPhase("metad") \in Rollout!Phases
    BY <2>1 DEF Rollout!Comps, Rollout!Phases
  <2>3. Synced("metad", Rollout!NewPhase("metad"))
    BY <1>2, <2>2, SyncMoves DEF Rollout!SyncMetadWorkload
  <2> QED
    BY <1>2, <2>1, <2>2, <2>3, SyncTypes DEF Rollout!SyncMetadWorkload, RolloutTyped
<1>3. CASE Rollout!SyncStoragedWorkload
  <2>1. PICK ph \in {"ScaleOut", "Running", Rollout!NewPhase("storaged")} :
            Rollout!Sync("storaged", ph) /\ scale' \in BOOLEAN
    BY <1>3 DEF Rollout!SyncStoragedWorkload, RolloutTyped
  <2>2. "storaged" \in Rollout!Comps /\ ph \in Rollout!Phases
    BY PhaseIs DEF Rollout!Comps, Rollout!Phases
  <2>3. Synced("storaged", ph)
    BY <2>1, <2>2, SyncMoves
  <2> QED
    BY <1>3, <2>1, <2>2, <2>3, SyncTypes DEF Rollout!SyncStoragedWorkload
<1>4. CASE Rollout!SyncGraphdWorkload
  <2>1. "graphd" \in Rollout!Comps /\ Rollout!NewPhase("graphd") \in Rollout!Phases
    BY PhaseIs DEF Rollout!Comps, Rollout!Phases
  <2>2. Synced("graphd", Rollout!NewPhase("graphd"))
    BY <1>4, <2>1, SyncMoves DEF Rollout!SyncGraphdWorkload
  <2> QED
    BY <1>4, <2>1, <2>2, SyncTypes DEF Rollout!SyncGraphdWorkload, RolloutTyped
<1>5. CASE Rollout!Edit
  <2>1. spec \in Rollout!Specs
    BY DEF RolloutTyped
  <2>2. spec' \in Rollout!Specs
    <3>1. CASE spec.version < MaxVersion /\ spec' = [spec EXCEPT !.version = @ + 1]
      <4>1. spec.version + 1 \in 0 .. MaxVersion
        BY <2>1, <3>1 DEF Rollout!Specs, RolloutConstants
      <4> QED
        BY <2>1, <3>1, <4>1, Zenon DEF Rollout!Specs
    <3>2. CASE spec' = [spec EXCEPT !.flags = ~@]
      BY <2>1, <3>2, Zenon DEF Rollout!Specs
    <3>3. CASE \E n \in Sizes \ {spec.size} : spec' = [spec EXCEPT !.size = n]
      BY <2>1, <3>3, Zenon DEF Rollout!Specs
    <3> QED
      BY <1>5, <3>1, <3>2, <3>3 DEF Rollout!Edit
  <2> QED
    BY <1>5, <2>2 DEF Rollout!Edit, RolloutTyped
<1>6. CASE Rollout!ScaleStoraged
  BY <1>6 DEF Rollout!ScaleStoraged, RolloutTyped
<1>7. ASSUME NEW c \in Rollout!Comps, Rollout!Observe(c) PROVE RolloutTyped'
  <2>1. seen' \in [Rollout!Comps -> Rollout!Status]
    BY <1>7, ObservedIs DEF Rollout!Observe, RolloutTyped
  <2> QED
    BY <1>7, <2>1 DEF Rollout!Observe, RolloutTyped
<1>8. ASSUME NEW c \in Rollout!Comps, NEW o \in Rollout!Ords,
             \/ Rollout!Roll(c, o) \/ Rollout!Create(c, o) \/ Rollout!PodReady(c, o)
             \/ Rollout!ScaledIn(c, o) \/ Rollout!Down(c, o)
      PROVE  RolloutTyped'
  <2>1. pods[c][o] \in Rollout!Pod
    BY DEF RolloutTyped
  <2>2. seen[c].upd \in 0 .. MaxVersion /\ seen[c].cur \in 0 .. MaxVersion /\ 0 \in 0 .. MaxVersion
    BY DEF RolloutTyped, Rollout!Status, RolloutConstants
  <2>3. PICK p : Rollout!SetPod(c, o, p) /\ p \in
            {[pods[c][o] EXCEPT !.state = "gone"], [pods[c][o] EXCEPT !.state = "ready"],
             [version |-> 0, state |-> "gone"], [version |-> seen[c].upd, state |-> "pending"],
             [version |-> seen[c].cur, state |-> "pending"]}
    BY <1>8, Zenon DEF Rollout!Roll, Rollout!Create, Rollout!PodReady, Rollout!ScaledIn, Rollout!Down
  <2>4. p \in Rollout!Pod
    <3>1. /\ [pods[c][o] EXCEPT !.state = "gone"] \in Rollout!Pod
          /\ [pods[c][o] EXCEPT !.state = "ready"] \in Rollout!Pod
      BY <2>1, Zenon DEF Rollout!Pod
    <3>2. /\ [version |-> 0, state |-> "gone"] \in Rollout!Pod
          /\ [version |-> seen[c].upd, state |-> "pending"] \in Rollout!Pod
          /\ [version |-> seen[c].cur, state |-> "pending"] \in Rollout!Pod
      BY <2>2, Zenon DEF Rollout!Pod
    <3> QED
      BY <2>3, <3>1, <3>2
  <2> QED
    BY <2>3, <2>4, PodTypes
<1>9. CASE UNCHANGED Rollout!vars
  BY <1>9 DEF Rollout!vars, RolloutTyped
<1> QED
  BY <1>1, <1>2, <1>3, <1>4, <1>5, <1>6, <1>7, <1>8, <1>9
     DEF Rollout!Next, Rollout!Operator, Rollout!Kubernetes
-----------------------------------------------------------------------------
(* Metad is rolled out first *)

\* The current version of metad: none of its pods is older, and no pod of
\* storaged or graphd is newer.
Floor == seen["metad"].cur
\* The versions of a workload and of its status are in order, and none is ahead
\* of metad.
VersionsInOrder(c) ==
    /\ sts[c].version <= sts["metad"].version
    /\ seen[c].cur <= seen[c].upd /\ seen[c].upd <= sts[c].version
    /\ seen[c].fresh => seen[c].upd = sts[c].version
\* What the Update phase of metad holds back: pods, and the version that new
\* pods would get, when the partition lets some be replaced.
HeldBack(d) ==
    /\ seen[d].cur <= Floor
    /\ \A o \in Rollout!Here(d) : pods[d][o].version <= Floor
    /\ sts[d].part < sts[d].size => sts[d].version <= Floor
\* Between the phases of metad and of a component: when metad is not updated in
\* this pass, the version that the component has had so far is on all of metad.
Released ==
    phase["metad"] # "Update" =>
        /\ pc = "storaged" => sts["storaged"].version <= Floor
        /\ pc \in {"storaged", "graphd"} => sts["graphd"].version <= Floor
\* The versions that a pass reads and writes.
PassVersions ==
    /\ sts["metad"].version <= spec.version /\ nc.version <= spec.version
    /\ pc # "idle" => sts["metad"].version <= nc.version
    /\ pc \in {"storaged", "graphd"} => sts["metad"].version = nc.version
    /\ pc = "metad" => seen["metad"].fresh
RolloutInv ==
    /\ PassVersions /\ Released
    /\ \A c \in Rollout!Comps : VersionsInOrder(c)
    /\ \A o \in Rollout!Here("metad") : Floor <= pods["metad"][o].version
    /\ \A d \in {"storaged", "graphd"} : HeldBack(d)

\* The pods that are not gone, and the versions, as numbers.
LEMMA RolloutNumbers ==
    ASSUME RolloutConstants, RolloutTyped
    PROVE  /\ \A c \in Rollout!Comps :
                 /\ sts[c].version \in Nat /\ sts[c].part \in Nat /\ sts[c].size \in Nat \ {0}
                 /\ seen[c].cur \in Nat /\ seen[c].upd \in Nat /\ seen[c].fresh \in BOOLEAN
                 /\ sts[c].size <= Rollout!MaxSize
           /\ \A c \in Rollout!Comps, o \in Rollout!Ords : pods[c][o].version \in Nat
           /\ spec.version \in Nat /\ nc.version \in Nat
           /\ \A c \in Rollout!Comps : Rollout!Here(c) \subseteq Rollout!Ords
<1>1. ASSUME NEW c \in Rollout!Comps
      PROVE  /\ sts[c].version \in Nat /\ sts[c].part \in Nat /\ sts[c].size \in Nat \ {0}
             /\ sts[c].size <= Rollout!MaxSize
  <2>1. /\ sts[c].version \in 0 .. MaxVersion /\ sts[c].part \in 0 .. Rollout!MaxSize
        /\ sts[c].size \in Sizes \union {Size}
    BY DEF RolloutTyped, Rollout!Workload
  <2>2. sts[c].size \in Nat \ {0} /\ sts[c].size <= Rollout!MaxSize
    BY <2>1, LargestSize DEF RolloutConstants
  <2> QED
    BY <2>1, <2>2, LargestSize DEF RolloutConstants
<1>2. ASSUME NEW c \in Rollout!Comps
      PROVE  seen[c].cur \in Nat /\ seen[c].upd \in Nat /\ seen[c].fresh \in BOOLEAN
  BY DEF RolloutTyped, Rollout!Status, RolloutConstants
<1>3. ASSUME NEW c \in Rollout!Comps, NEW o \in Rollout!Ords PROVE pods[c][o].version \in Nat
  BY DEF RolloutTyped, Rollout!Pod, RolloutConstants
<1>4. spec.version \in Nat /\ nc.version \in Nat
  BY DEF RolloutTyped, Rollout!Specs, RolloutConstants
<1> QED
  BY <1>1, <1>2, <1>3, <1>4 DEF Rollout!Here

\* At the start all versions are 0, and no partition lets a pod be replaced.
LEMMA RolloutInvInit == RolloutConstants /\ Rollout!Init => RolloutInv
<1> SUFFICES ASSUME RolloutConstants, Rollout!Init PROVE RolloutInv
  OBVIOUS
<1>1. RolloutTyped
  BY RolloutTypeInit
<1>2. \A c \in Rollout!Comps :
          /\ sts[c].version = 0 /\ sts[c].part = sts[c].size /\ sts[c].size \in Nat
          /\ seen[c].cur = 0 /\ seen[c].upd = 0
          /\ \A o \in Rollout!Here(c) : pods[c][o].version = 0
  BY <1>1, RolloutNumbers DEF Rollout!Init, Rollout!Here
<1>3. spec.version = 0 /\ nc.version = 0 /\ pc = "idle"
  BY DEF Rollout!Init
<1> QED
  BY <1>2, <1>3 DEF RolloutInv, PassVersions, Released, VersionsInOrder, HeldBack, Floor, Rollout!Comps

\* Synchronising storaged or graphd: the partition lets pods be replaced only by
\* a version that is on all of metad.
LEMMA SyncHeldBack ==
    ASSUME RolloutConstants, RolloutTyped, RolloutInv, RolloutTyped',
           NEW d \in {"storaged", "graphd"}, NEW ph, pc = d,
           Synced(d, ph), UNCHANGED <<spec, pods, nc>>
    PROVE  RolloutInv'
<1> DEFINE e == IF d = "storaged" THEN "graphd" ELSE "storaged"
<1>1. d \in Rollout!Comps /\ e \in Rollout!Comps /\ "metad" \in Rollout!Comps
      /\ Rollout!Comps = {"metad", d, e}
  BY DEF Rollout!Comps
<1>2. phase'["metad"] = phase["metad"]
  BY DEF Synced, RolloutTyped, Rollout!Comps
<1>3. UNCHANGED <<sts["metad"], seen["metad"], sts[e], seen[e]>>
  BY <1>1 DEF Synced, RolloutTyped
<1>4. Rollout!Here(d)' = Rollout!Here(d) /\ Rollout!Here(e)' = Rollout!Here(e)
      /\ Rollout!Here("metad")' = Rollout!Here("metad")
  BY DEF Rollout!Here
<1>5. pc' \in {"idle", Rollout!After(d)} /\ pc' \in {"idle", "graphd"}
  BY DEF Synced, Rollout!After
<1>6. seen'[d].cur = seen[d].cur /\ seen'[d].upd = seen[d].upd
  BY <1>1 DEF Synced, RolloutTyped, Rollout!Status
<1>7. /\ sts'[d].version <= sts["metad"].version /\ sts[d].version <= sts'[d].version
      /\ seen'[d].fresh => seen[d].upd = sts'[d].version
      /\ sts'[d].part < sts'[d].size => sts'[d].version <= Floor
  <2>1. CASE UNCHANGED <<sts, seen>>
    BY <1>1, <2>1, RolloutNumbers DEF RolloutInv, VersionsInOrder, HeldBack
  <2>2. ASSUME NEW w, Writable(d, w), sts' = [sts EXCEPT ![d] = w],
               seen' = seen \/ seen' = [seen EXCEPT ![d].fresh = FALSE],
               seen'[d].fresh => w.version = sts[d].version
        PROVE  /\ sts'[d].version <= sts["metad"].version /\ sts[d].version <= sts'[d].version
               /\ seen'[d].fresh => seen[d].upd = sts'[d].version
               /\ sts'[d].part < sts'[d].size => sts'[d].version <= Floor
    <3>1. sts'[d] = w /\ (seen'[d].fresh => seen[d].fresh)
      BY <1>1, <2>2 DEF RolloutTyped, Rollout!Status
    <3>2. sts["metad"].version = nc.version
      BY DEF RolloutInv, PassVersions
    <3> QED
      BY <1>1, <2>2, <3>1, <3>2, RolloutNumbers
         DEF Writable, RolloutInv, Released, VersionsInOrder, HeldBack
  <2> QED
    BY <2>1, <2>2 DEF Synced
<1>8. PassVersions'
  BY <1>3, <1>5 DEF RolloutInv, PassVersions
<1>9. Released'
  BY <1>1, <1>2, <1>3, <1>5 DEF RolloutInv, Released, Floor, Synced, Rollout!After
<1>10. \A c \in Rollout!Comps : VersionsInOrder(c)'
  <2>1. VersionsInOrder(d)'
    <3>1. VersionsInOrder(d)
      BY <1>1 DEF RolloutInv
    <3>2. sts'[d].version \in Nat
      BY <1>1 DEF RolloutTyped, Rollout!Workload, RolloutConstants
    <3> QED
      BY <1>1, <1>3, <1>6, <1>7, <3>1, <3>2, RolloutNumbers DEF VersionsInOrder
  <2>2. VersionsInOrder(e)' /\ VersionsInOrder("metad")'
    BY <1>1, <1>3 DEF RolloutInv, VersionsInOrder
  <2> QED
    BY <1>1, <2>1, <2>2
<1>11. HeldBack(d)' /\ HeldBack(e)'
  BY <1>1, <1>3, <1>4, <1>6, <1>7 DEF RolloutInv, HeldBack, Floor
<1>12. \A o \in Rollout!Here("metad")' : Floor' <= pods'["metad"][o].version
  BY <1>3, <1>4 DEF RolloutInv, Floor
<1> QED
  BY <1>8, <1>9, <1>10, <1>11, <1>12 DEF RolloutInv
\* Synchronising metad: when its phase is not Update, all its pods have the version
\* that the others have at most.
LEMMA SyncMetadFirst ==
    ASSUME RolloutConstants, RolloutTyped, RolloutInv, Rollout!SyncMetadWorkload
    PROVE  RolloutInv'
<1> DEFINE ph == Rollout!NewPhase("metad")
<1>1. "metad" \in Rollout!Comps /\ "storaged" \in Rollout!Comps /\ "graphd" \in Rollout!Comps
  BY DEF Rollout!Comps
<1>2. ph \in {"Running", "Update"} /\ ph = Rollout!MetadPhase /\ ph \in Rollout!Phases
  BY DEF Rollout!NewPhase, Rollout!MetadPhase, Rollout!Phases
<1>3. Synced("metad", ph) /\ pc = "metad" /\ UNCHANGED <<spec, pods, nc>>
  BY <1>1, SyncMoves DEF Rollout!SyncMetadWorkload
<1>4. phase'["metad"] = ph
  BY <1>1, <1>2, <1>3, PhaseIs DEF Synced, RolloutTyped
<1>5. ph # "Update" => seen["metad"].upd = Floor
  BY <1>2 DEF Rollout!MetadPhase, Rollout!IsUpdating, Floor
<1> HIDE DEF ph
<1>6. \A d \in {"storaged", "graphd"} : UNCHANGED <<sts[d], seen[d]>>
  BY <1>1, <1>3 DEF Synced, RolloutTyped
<1>7. \A c \in Rollout!Comps : Rollout!Here(c)' = Rollout!Here(c)
  BY <1>3 DEF Rollout!Here
<1>8. seen'["metad"].cur = seen["metad"].cur /\ seen'["metad"].upd = seen["metad"].upd
  BY <1>1, <1>3 DEF Synced, RolloutTyped, Rollout!Status
<1>9. /\ sts["metad"].version <= sts'["metad"].version /\ sts'["metad"].version <= spec.version
      /\ seen'["metad"].fresh => seen["metad"].upd = sts'["metad"].version
      /\ pc' \in {"storaged", "idle"}
      /\ pc' = "storaged" => sts'["metad"].version = nc.version
  <2>1. CASE UNCHANGED <<sts, seen>> /\ pc' = "idle"
    BY <1>1, <2>1, RolloutNumbers DEF RolloutInv, VersionsInOrder, PassVersions
  <2>2. ASSUME NEW w, Writable("metad", w), sts' = [sts EXCEPT !["metad"] = w],
               seen' = seen \/ seen' = [seen EXCEPT !["metad"].fresh = FALSE],
               seen'["metad"].fresh => w.version = sts["metad"].version,
               pc' = Rollout!After("metad")
        PROVE  /\ sts["metad"].version <= sts'["metad"].version
               /\ sts'["metad"].version <= spec.version
               /\ seen'["metad"].fresh => seen["metad"].upd = sts'["metad"].version
               /\ pc' = "storaged" /\ sts'["metad"].version = nc.version
    <3>1. sts'["metad"] = w /\ (seen'["metad"].fresh => seen["metad"].fresh)
      BY <1>1, <2>2 DEF RolloutTyped, Rollout!Status
    <3>2. sts["metad"].version <= nc.version /\ nc.version <= spec.version
      BY <1>3 DEF RolloutInv, PassVersions
    <3>3. w.version = nc.version /\ pc' = "storaged"
      BY <2>2 DEF Writable, Rollout!After
    <3> QED
      BY <1>1, <2>2, <3>1, <3>2, <3>3 DEF RolloutInv, VersionsInOrder
  <2> QED
    BY <1>3, <2>1, <2>2 DEF Synced
<1>10. sts'["metad"].version \in Nat
  <2>1. sts'["metad"].version = sts["metad"].version \/ sts'["metad"].version = nc.version
    BY <1>1, <1>3 DEF Synced, Writable, RolloutTyped
  <2> QED
    BY <1>1, <2>1, RolloutNumbers
<1>11. PassVersions'
  BY <1>3, <1>9, <1>10, RolloutNumbers DEF RolloutInv, PassVersions
<1>12. Released'
  <2>1. seen["metad"].upd = sts["metad"].version
    BY <1>1, <1>3 DEF RolloutInv, PassVersions, VersionsInOrder
  <2>2. ph # "Update" => /\ sts["storaged"].version <= Floor
                         /\ sts["graphd"].version <= Floor
    BY <1>1, <1>5, <2>1 DEF RolloutInv, VersionsInOrder
  <2> QED
    BY <1>4, <1>6, <1>8, <2>2 DEF Released, Floor
<1>13. \A c \in Rollout!Comps : VersionsInOrder(c)'
  <2>1. VersionsInOrder("metad")'
    BY <1>1, <1>8, <1>9, <1>10, RolloutNumbers DEF RolloutInv, VersionsInOrder
  <2>2. ASSUME NEW d \in {"storaged", "graphd"} PROVE VersionsInOrder(d)'
    <3>1. d \in Rollout!Comps /\ VersionsInOrder(d)
      BY <1>1 DEF RolloutInv
    <3> QED
      BY <1>1, <1>6, <1>9, <1>10, <3>1, RolloutNumbers DEF VersionsInOrder
  <2> QED
    BY <2>1, <2>2 DEF Rollout!Comps
<1>14. \A d \in {"storaged", "graphd"} : HeldBack(d)'
  BY <1>1, <1>3, <1>6, <1>7, <1>8 DEF RolloutInv, HeldBack, Floor
<1>15. \A o \in Rollout!Here("metad")' : Floor' <= pods'["metad"][o].version
  BY <1>1, <1>3, <1>7, <1>8 DEF RolloutInv, Floor
<1> QED
  BY <1>11, <1>12, <1>13, <1>14, <1>15 DEF RolloutInv

\* The StatefulSet controller reports a new current version of a component only
\* when all its pods have it.
LEMMA ObserveOrder ==
    ASSUME RolloutConstants, RolloutTyped, RolloutInv, NEW c \in Rollout!Comps, Rollout!Observe(c)
    PROVE  RolloutInv'
<1>1. seen' = [seen EXCEPT ![c] = Rollout!Observed(c)]
      /\ UNCHANGED <<spec, sts, pods, phase, pc, nc>>
  BY DEF Rollout!Observe
<1>2. seen'[c] = Rollout!Observed(c) /\ \A d \in Rollout!Comps : d # c => seen'[d] = seen[d]
  BY <1>1 DEF RolloutTyped
<1>3. seen'[c].upd = sts[c].version /\ seen'[c].fresh = TRUE
  BY <1>2 DEF Rollout!Observed
<1>4. \/ seen'[c].cur = seen[c].cur
      \/ /\ seen'[c].cur = sts[c].version
         /\ Rollout!Here(c) = 0 .. sts[c].size - 1
         /\ \A o \in Rollout!Here(c) : pods[c][o].version = sts[c].version
  BY <1>2 DEF Rollout!Observed
<1>5. seen[c].cur <= seen'[c].cur /\ seen'[c].cur <= sts[c].version
  BY <1>4, RolloutNumbers DEF RolloutInv, VersionsInOrder
<1>6. \A d \in Rollout!Comps : Rollout!Here(d)' = Rollout!Here(d)
  BY <1>1 DEF Rollout!Here
<1>7. Floor <= Floor' /\ Floor \in Nat /\ Floor' \in Nat
  <2>1. "metad" \in Rollout!Comps
    BY DEF Rollout!Comps
  <2> QED
    BY <1>2, <1>4, <1>5, <2>1, RolloutNumbers DEF Floor
<1>8. PassVersions'
  BY <1>1, <1>2, <1>3 DEF RolloutInv, PassVersions, Rollout!Comps
<1>9. Released'
  <2>1. sts["storaged"].version \in Nat /\ sts["graphd"].version \in Nat
    BY RolloutNumbers DEF Rollout!Comps
  <2> QED
    BY <1>1, <1>7, <2>1 DEF RolloutInv, Released
<1>10. \A d \in Rollout!Comps : VersionsInOrder(d)'
  <2> SUFFICES ASSUME NEW d \in Rollout!Comps PROVE VersionsInOrder(d)'
    OBVIOUS
  <2>1. VersionsInOrder(d)
    BY DEF RolloutInv
  <2>2. CASE d # c
    BY <1>1, <1>2, <2>1, <2>2 DEF VersionsInOrder
  <2>3. CASE d = c
    BY <1>1, <1>3, <1>5, <2>1, <2>3, RolloutNumbers DEF VersionsInOrder
  <2> QED
    BY <2>2, <2>3
<1>11. ASSUME NEW d \in {"storaged", "graphd"} PROVE HeldBack(d)'
  <2>1. d \in Rollout!Comps /\ HeldBack(d)
    BY DEF RolloutInv, Rollout!Comps
  <2>2. \A o \in Rollout!Here(d) : pods[d][o].version <= Floor'
    BY <1>7, <2>1, RolloutNumbers DEF HeldBack
  <2>3. sts[d].part < sts[d].size => sts[d].version <= Floor'
    BY <1>7, <2>1, RolloutNumbers DEF HeldBack
  <2>4. seen'[d].cur <= Floor'
    <3>1. CASE seen'[d].cur = seen[d].cur
      BY <1>7, <2>1, <3>1, RolloutNumbers DEF HeldBack
    <3>2. CASE /\ seen'[d].cur = sts[d].version
               /\ Rollout!Here(d) = 0 .. sts[d].size - 1
               /\ \A o \in Rollout!Here(d) : pods[d][o].version = sts[d].version
      <4>1. 0 \in Rollout!Here(d)
        BY <2>1, <3>2, RolloutNumbers
      <4> QED
        BY <2>2, <3>2, <4>1
    <3> QED
      BY <1>2, <1>4, <2>1, <3>1, <3>2
  <2> QED
    BY <1>1, <1>6, <2>1, <2>2, <2>3, <2>4 DEF HeldBack
<1>12. \A o \in Rollout!Here("metad") : Floor' <= pods["metad"][o].version
  <2>1. "metad" \in Rollout!Comps
    BY DEF Rollout!Comps
  <2>2. CASE Floor' = Floor
    BY <2>2 DEF RolloutInv
  <2>3. CASE c = "metad" /\ Floor' # Floor
    <3>1. Floor' = sts[c].version /\ \A o \in Rollout!Here(c) : pods[c][o].version = sts[c].version
      BY <1>4, <2>3 DEF Floor
    <3> QED
      BY <1>7, <2>3, <3>1
  <2> QED
    BY <1>2, <2>1, <2>2, <2>3 DEF Floor
<1> QED
  BY <1>1, <1>6, <1>8, <1>9, <1>10, <1>11, <1>12 DEF RolloutInv, Rollout!Comps

\* A pod changes: it is gone, or keeps its version, or is created with the current
\* version or, when it is not protected, with the version of the workload.
LEMMA PodOrder ==
    ASSUME RolloutConstants, RolloutTyped, RolloutInv,
           NEW c \in Rollout!Comps, NEW o \in Rollout!Ords, NEW p, Rollout!SetPod(c, o, p),
           \/ p.state = "gone"
           \/ pods[c][o].state # "gone" /\ p.version = pods[c][o].version
           \/ p.version = seen[c].cur
           \/ /\ o >= sts[c].part /\ o < sts[c].size /\ seen[c].fresh /\ p.version = seen[c].upd
    PROVE  RolloutInv'
<1>1. pods' = [pods EXCEPT ![c][o] = p] /\ UNCHANGED <<spec, sts, seen, phase, pc, nc>>
  BY DEF Rollout!SetPod
<1>2. /\ \A d \in Rollout!Comps, q \in Rollout!Ords :
            <<d, q>> # <<c, o>> => pods'[d][q] = pods[d][q]
      /\ pods'[c][o] = p
  BY <1>1 DEF RolloutTyped
<1>3. Floor' = Floor /\ Floor \in Nat
  BY <1>1, RolloutNumbers DEF Floor, Rollout!Comps
<1>4. p.state # "gone" => \/ o \in Rollout!Here(c) /\ p.version = pods[c][o].version
                          \/ p.version = seen[c].cur
                          \/ p.version = sts[c].version /\ sts[c].part < sts[c].size
  <2>1. CASE o >= sts[c].part /\ o < sts[c].size /\ seen[c].fresh /\ p.version = seen[c].upd
    <3>1. o \in Nat
      BY LargestSize DEF Rollout!Ords
    <3> QED
      BY <2>1, <3>1, RolloutNumbers DEF RolloutInv, VersionsInOrder
  <2> QED
    BY <2>1 DEF Rollout!Here
<1>5. ASSUME NEW d \in {"storaged", "graphd"} PROVE HeldBack(d)'
  <2>1. d \in Rollout!Comps /\ HeldBack(d)
    BY DEF RolloutInv, Rollout!Comps
  <2>2. ASSUME NEW q \in Rollout!Here(d)' PROVE pods'[d][q].version <= Floor
    <3>1. q \in Rollout!Ords /\ pods'[d][q].state # "gone"
      BY DEF Rollout!Here
    <3>2. CASE <<d, q>> = <<c, o>>
      BY <1>2, <1>4, <2>1, <3>1, <3>2 DEF HeldBack
    <3>3. CASE <<d, q>> # <<c, o>>
      BY <1>2, <2>1, <3>1, <3>3 DEF HeldBack, Rollout!Here
    <3> QED
      BY <3>2, <3>3
  <2> QED
    BY <1>1, <1>3, <2>1, <2>2 DEF HeldBack
<1>6. ASSUME NEW q \in Rollout!Here("metad")' PROVE Floor <= pods'["metad"][q].version
  <2>1. q \in Rollout!Ords /\ pods'["metad"][q].state # "gone" /\ "metad" \in Rollout!Comps
    BY DEF Rollout!Here, Rollout!Comps
  <2>2. CASE c = "metad" /\ q = o
    <3>1. Floor <= sts["metad"].version
      BY <2>1, RolloutNumbers DEF RolloutInv, VersionsInOrder, Floor
    <3> QED
      BY <1>2, <1>3, <1>4, <2>1, <2>2, <3>1 DEF RolloutInv, Floor
  <2>3. CASE <<"metad", q>> # <<c, o>>
    BY <1>2, <2>1, <2>3 DEF RolloutInv, Rollout!Here
  <2> QED
    BY <2>2, <2>3
<1>7. PassVersions' /\ Released' /\ \A d \in Rollout!Comps : VersionsInOrder(d)'
  BY <1>1, <1>3 DEF RolloutInv, PassVersions, Released, VersionsInOrder
<1> QED
  BY <1>3, <1>5, <1>6, <1>7 DEF RolloutInv
\* Every step keeps the order, when passes start with a status that is up to date.
LEMMA RolloutInvStep ==
    RolloutConstants /\ Prompt /\ RolloutTyped /\ RolloutInv /\ [Rollout!Next]_(Rollout!vars)
        => RolloutInv'
<1> SUFFICES ASSUME RolloutConstants, Prompt, RolloutTyped, RolloutInv,
                    [Rollout!Next]_(Rollout!vars)
             PROVE  RolloutInv'
  OBVIOUS
<1>0. RolloutTyped'
  BY RolloutTypeStep
<1>1. CASE Rollout!StartPass
  <2>1. /\ nc' = spec /\ pc' = "metad" /\ UNCHANGED <<spec, sts, seen, pods, phase>>
        /\ seen["metad"].fresh
    BY <1>1 DEF Rollout!StartPass, Rollout!Comps
  <2>2. PassVersions'
    BY <2>1, RolloutNumbers DEF RolloutInv, PassVersions
  <2>3. Released'
    BY <2>1 DEF Released
  <2>4. /\ \A c \in Rollout!Comps : VersionsInOrder(c)'
        /\ \A o \in Rollout!Here("metad")' : Floor' <= pods'["metad"][o].version
        /\ \A d \in {"storaged", "graphd"} : HeldBack(d)'
    BY <2>1 DEF RolloutInv, VersionsInOrder, HeldBack, Floor, Rollout!Here
  <2> QED
    BY <2>2, <2>3, <2>4 DEF RolloutInv
<1>2. CASE Rollout!SyncMetadWorkload
  BY <1>2, SyncMetadFirst
<1>3. CASE Rollout!SyncStoragedWorkload
  <2>1. PICK ph : Rollout!Sync("storaged", ph)
    BY <1>3 DEF Rollout!SyncStoragedWorkload
  <2>2. Synced("storaged", ph)
    BY <2>1, SyncMoves DEF Rollout!Comps
  <2>3. pc = "storaged" /\ UNCHANGED <<spec, pods, nc>>
    BY <1>3 DEF Rollout!SyncStoragedWorkload
  <2> QED
    BY <1>0, <2>2, <2>3, SyncHeldBack
<1>4. CASE Rollout!SyncGraphdWorkload
  <2>1. Synced("graphd", Rollout!NewPhase("graphd"))
    BY <1>4, SyncMoves DEF Rollout!SyncGraphdWorkload, Rollout!Comps
  <2>2. pc = "graphd" /\ UNCHANGED <<spec, pods, nc>>
    BY <1>4 DEF Rollout!SyncGraphdWorkload
  <2> QED
    BY <1>0, <2>1, <2>2, SyncHeldBack
<1>5. CASE Rollout!Edit
  <2>1. spec.version <= spec'.version /\ UNCHANGED <<sts, seen, pods, phase, pc, nc>>
    <3>1. spec \in Rollout!Specs
      BY DEF RolloutTyped
    <3> QED
      BY <1>5, <3>1, RolloutNumbers DEF Rollout!Edit, Rollout!Specs
  <2>2. PassVersions'
    <3>1. spec' \in Rollout!Specs
      BY <1>0 DEF RolloutTyped, Rollout!Specs
    <3>2. spec'.version \in Nat
      BY <3>1 DEF Rollout!Specs, RolloutConstants
    <3>3. sts["metad"].version \in Nat
      BY RolloutNumbers DEF Rollout!Comps
    <3> QED
      BY <2>1, <3>2, <3>3, RolloutNumbers DEF RolloutInv, PassVersions
  <2> QED
    BY <2>1, <2>2 DEF RolloutInv, Released, VersionsInOrder, HeldBack, Floor, Rollout!Here
<1>6. CASE Rollout!ScaleStoraged \/ UNCHANGED Rollout!vars
  <2>1. UNCHANGED <<spec, sts, seen, pods, phase, pc, nc>>
    BY <1>6 DEF Rollout!ScaleStoraged, Rollout!vars
  <2> QED
    BY <2>1 DEF RolloutInv, PassVersions, Released, VersionsInOrder, HeldBack, Floor, Rollout!Here
<1>7. ASSUME NEW c \in Rollout!Comps, Rollout!Observe(c) PROVE RolloutInv'
  BY <1>7, ObserveOrder
<1>8. ASSUME NEW c \in Rollout!Comps, NEW o \in Rollout!Ords,
             \/ Rollout!Roll(c, o) \/ Rollout!PodReady(c, o)
             \/ Rollout!ScaledIn(c, o) \/ Rollout!Down(c, o)
      PROVE  RolloutInv'
  <2>1. pods[c][o] \in Rollout!Pod
    BY DEF RolloutTyped
  <2>2. PICK p : /\ Rollout!SetPod(c, o, p)
                 /\ \/ p = [pods[c][o] EXCEPT !.state = "gone"]
                    \/ p = [pods[c][o] EXCEPT !.state = "ready"] /\ pods[c][o].state = "pending"
                    \/ p = [version |-> 0, state |-> "gone"]
    BY <1>8, Zenon DEF Rollout!Roll, Rollout!PodReady, Rollout!ScaledIn, Rollout!Down
  <2>3. p.state = "gone" \/ (pods[c][o].state # "gone" /\ p.version = pods[c][o].version)
    BY <2>1, <2>2 DEF Rollout!Pod
  <2> QED
    BY <2>2, <2>3, PodOrder
<1>9. ASSUME NEW c \in Rollout!Comps, NEW o \in Rollout!Ords, Rollout!Create(c, o)
      PROVE  RolloutInv'
  <2> DEFINE p == [version |-> IF o >= sts[c].part THEN seen[c].upd ELSE seen[c].cur,
                   state |-> "pending"]
  <2>1. Rollout!SetPod(c, o, p) /\ seen[c].fresh /\ o < sts[c].size
    BY <1>9 DEF Rollout!Create
  <2>2. p.version = seen[c].cur \/ (o >= sts[c].part /\ p.version = seen[c].upd)
    OBVIOUS
  <2> HIDE DEF p
  <2> QED
    BY <2>1, <2>2, PodOrder
<1> QED
  BY <1>1, <1>2, <1>3, <1>4, <1>5, <1>6, <1>7, <1>8, <1>9
     DEF Rollout!Next, Rollout!Operator, Rollout!Kubernetes

\* Every variable of the rollout keeps its type.
THEOREM RolloutTypeCorrect == RolloutConstants => (Rollout!Safety => []Rollout!TypeOK)
<1> SUFFICES ASSUME RolloutConstants PROVE Rollout!Safety => []Rollout!TypeOK
  OBVIOUS
<1>1. Rollout!Init => RolloutTyped
  BY RolloutTypeInit
<1>2. RolloutTyped /\ [Rollout!Next]_(Rollout!vars) => RolloutTyped'
  BY RolloutTypeStep
<1>3. RolloutTyped => Rollout!TypeOK
  BY RolloutTypes
<1> QED
  BY <1>1, <1>2, <1>3, PTL DEF Rollout!Safety

\* No pod of storaged or graphd is ever newer than a pod of metad, for any number
\* of versions that follow each other at any time, of replicas, of scalings of
\* storaged and graphd, of pods that go down and of failed writes, as long as a
\* pass reads statuses that are up to date (storaged_updater.go and
\* graphd_updater.go Update, helper.go setLastConfig).
THEOREM MetadRollsFirst == RolloutConstants /\ Prompt => (Rollout!Safety => []Rollout!MetadFirst)
<1> SUFFICES ASSUME RolloutConstants, Prompt PROVE Rollout!Safety => []Rollout!MetadFirst
  OBVIOUS
<1>1. Rollout!Init => RolloutTyped /\ RolloutInv
  BY RolloutTypeInit, RolloutInvInit
<1>2. RolloutTyped /\ RolloutInv /\ [Rollout!Next]_(Rollout!vars) => RolloutTyped' /\ RolloutInv'
  BY RolloutTypeStep, RolloutInvStep
<1>3. ASSUME RolloutTyped, RolloutInv, NEW d \in {"storaged", "graphd"}
      PROVE  Rollout!Before("metad", d)
  <2> SUFFICES ASSUME NEW o \in Rollout!Here("metad"), NEW q \in Rollout!Here(d)
               PROVE  pods["metad"][o].version >= pods[d][q].version
    BY DEF Rollout!Before, Rollout!Live
  <2>1. pods["metad"][o].version \in Nat /\ pods[d][q].version \in Nat /\ Floor \in Nat
    BY <1>3, RolloutNumbers DEF Floor, Rollout!Comps
  <2>2. Floor <= pods["metad"][o].version /\ pods[d][q].version <= Floor
    BY <1>3 DEF RolloutInv, HeldBack
  <2> QED
    BY <2>1, <2>2
<1>4. RolloutTyped /\ RolloutInv => Rollout!MetadFirst
  BY <1>3 DEF Rollout!MetadFirst
<1> QED
  BY <1>1, <1>2, <1>4, PTL DEF Rollout!Safety

-----------------------------------------------------------------------------
(* The flags of a component *)

\* What the model needs of its constants.
FlagsConstants == Replicas \in Nat \ {0} /\ MaxValue \in Nat \ {0} /\ MaxImage \in Nat

\* The hash of a template is made of the static flags only, each with a value:
\* the sets of templates, workloads, statuses and pods are smaller than their types.
Hashes == [Static -> 0 .. MaxValue]
HashedTemplate == [image : 0 .. MaxImage, hash : Hashes]
HashedWorkload == [tmpl : HashedTemplate, flags : Config!Configs(Dynamic), part : 0 .. Replicas]
HashedStatus == [cur : HashedTemplate, upd : HashedTemplate, size : 0 .. Replicas,
                 ready : 0 .. Replicas, updated : 0 .. Replicas, fresh : BOOLEAN]
HashedPod == [rev : HashedTemplate, state : {"gone", "init", "starting", "crashed", "ready"},
              conf : Hashes, file : Config!Configs(Dynamic), run : [Dynamic -> 0 .. MaxValue]]
PassSteps == {"idle", "status", "flags", "workload", "end"}
FlagsInv ==
    /\ spec \in Config!Specs /\ nc \in Config!Specs /\ cm \in Hashes
    /\ sts \in HashedWorkload /\ seen \in HashedStatus /\ new \in HashedWorkload
    /\ old \in [sts : HashedWorkload, seen : HashedStatus]
    /\ pods \in [Config!Ords -> HashedPod]
    /\ queued \in BOOLEAN /\ err \in BOOLEAN /\ pc \in PassSteps
    /\ next \in 0 .. Replicas
    /\ pc = "workload" => next \in {0, Replicas}
    /\ pc = "flags" => next \in Config!Ords

\* A config: some of the flags, with values.
LEMMA ConfigIs ==
    ASSUME NEW F, NEW c
    PROVE  c \in Config!Configs(F) <=> /\ DOMAIN c \subseteq F
                                       /\ c = [f \in DOMAIN c |-> c[f]]
                                       /\ \A f \in DOMAIN c : c[f] \in 1 .. MaxValue
<1>1. ASSUME c \in Config!Configs(F)
      PROVE  /\ DOMAIN c \subseteq F /\ c = [f \in DOMAIN c |-> c[f]]
             /\ \A f \in DOMAIN c : c[f] \in 1 .. MaxValue
  <2>1. PICK D \in SUBSET F : c \in [D -> 1 .. MaxValue]
    BY <1>1, Zenon DEF Config!Configs
  <2> QED
    BY <2>1
<1>2. ASSUME DOMAIN c \subseteq F, c = [f \in DOMAIN c |-> c[f]],
             \A f \in DOMAIN c : c[f] \in 1 .. MaxValue
      PROVE  c \in Config!Configs(F)
  <2>1. c \in [DOMAIN c -> 1 .. MaxValue]
    BY <1>2
  <2> QED
    BY <1>2, <2>1, Zenon DEF Config!Configs
<1> QED
  BY <1>1, <1>2

\* Some flags of a config are a config.
LEMMA OnlyIs ==
    ASSUME NEW F, NEW c \in Config!Configs(F), NEW G
    PROVE  Config!Only(c, G) \in Config!Configs(F) /\ Config!Only(c, G) \in Config!Configs(G)
<1>1. /\ DOMAIN c \subseteq F
      /\ \A f \in DOMAIN c : c[f] \in 1 .. MaxValue
  BY ConfigIs
<1>2. Config!Only(c, G) = [f \in DOMAIN c \cap G |-> c[f]]
  BY DEF Config!Only
<1>3. /\ DOMAIN Config!Only(c, G) = DOMAIN c \cap G
      /\ Config!Only(c, G) = [f \in DOMAIN Config!Only(c, G) |-> Config!Only(c, G)[f]]
      /\ \A f \in DOMAIN Config!Only(c, G) : Config!Only(c, G)[f] \in 1 .. MaxValue
  BY <1>1, <1>2
<1> QED
  BY <1>1, <1>3, ConfigIs

\* The file of a config has the static flags.
LEMMA FileIs ==
    ASSUME FlagsConstants, NEW F, NEW c \in Config!Configs(F)
    PROVE  Config!AppendCustomConfig(Config!StaticOrStartupFlags(c)) \in Hashes
<1> DEFINE s == Config!StaticOrStartupFlags(c)
<1>1. s \in Config!Configs(Static)
  BY OnlyIs DEF Config!StaticOrStartupFlags
<1> HIDE DEF s
<1>2. /\ DOMAIN s \subseteq Static
      /\ \A f \in DOMAIN s : s[f] \in 1 .. MaxValue
  BY <1>1, ConfigIs
<1>3. Static \union DOMAIN s = Static
  BY <1>2
<1>4. \A f \in Static : (IF f \in DOMAIN s THEN s[f] ELSE 0) \in 0 .. MaxValue
  BY <1>2 DEF FlagsConstants
<1>5. Config!AppendCustomConfig(s) = [f \in Static |-> IF f \in DOMAIN s THEN s[f] ELSE 0]
  BY <1>3 DEF Config!AppendCustomConfig
<1>6. Config!AppendCustomConfig(s) \in Hashes
  BY <1>4, <1>5 DEF Hashes
<1> QED
  BY <1>6 DEF s

\* The workload that is generated hashes static flags only.
LEMMA GeneratedHash ==
    ASSUME FlagsConstants, NEW n \in Config!Specs
    PROVE  Config!Generated(n) \in HashedWorkload /\ Config!Running(n) \in HashedStatus
<1>1. n.config \in Config!Configs(Config!Flags) /\ n.image \in 0 .. MaxImage
  BY DEF Config!Specs
<1>2. Config!AppendCustomConfig(Config!StaticOrStartupFlags(n.config)) \in Hashes
  BY <1>1, FileIs
<1>3. Config!SeparateFlags(n.config) \in Config!Configs(Dynamic)
  BY <1>1, OnlyIs DEF Config!SeparateFlags
<1>4. Replicas \in 0 .. Replicas
  BY DEF FlagsConstants
<1>5. Config!Generated(n) \in HashedWorkload
  BY <1>1, <1>2, <1>3, <1>4, Zenon DEF Config!Generated, HashedWorkload, HashedTemplate
<1>6. Config!Generated(n).tmpl \in HashedTemplate
  BY <1>5 DEF HashedWorkload
<1> QED
  BY <1>4, <1>5, <1>6, Zenon DEF Config!Running, HashedStatus

\* The flags of a process.
LEMMA EffectiveIs ==
    ASSUME FlagsConstants, NEW c, \A f \in DOMAIN c : c[f] \in 0 .. MaxValue
    PROVE  Config!Effective(c) \in [Dynamic -> 0 .. MaxValue]
BY DEF Config!Effective, FlagsConstants

\* What the pass knows when there is none.
LEMMA NoSpecIs == FlagsConstants => Config!NoSpec \in Config!Specs
<1> SUFFICES ASSUME FlagsConstants PROVE Config!NoSpec \in Config!Specs
  OBVIOUS
<1>1. <<>> \in Config!Configs(Config!Flags)
  <2>1. DOMAIN <<>> = {} /\ <<>> = [f \in {} |-> 0]
    OBVIOUS
  <2>2. <<>> \in [{} -> 1 .. MaxValue]
    BY <2>1
  <2> QED
    BY <2>2, Zenon DEF Config!Configs
<1>2. 0 \in 0 .. MaxImage
  BY DEF FlagsConstants
<1> QED
  BY <1>1, <1>2, Zenon DEF Config!NoSpec, Config!Specs
\* The smaller sets are subsets of the types.
LEMMA FlagsTypes == FlagsConstants /\ FlagsInv => Config!TypeOK
<1> SUFFICES ASSUME FlagsConstants, FlagsInv PROVE Config!TypeOK
  OBVIOUS
<1>1. Hashes \subseteq Config!Files
  BY Zenon DEF Hashes, Config!Files, Config!Flags
<1>2. HashedTemplate \subseteq Config!Template
  BY <1>1 DEF HashedTemplate, Config!Template
<1>3. HashedWorkload \subseteq Config!Workload
  BY <1>2 DEF HashedWorkload, Config!Workload
<1>4. HashedStatus \subseteq Config!WorkloadStatus
  BY <1>2 DEF HashedStatus, Config!WorkloadStatus
<1>5. HashedPod \subseteq Config!Pod
  BY <1>1, <1>2 DEF HashedPod, Config!Pod
<1>6. [Config!Ords -> HashedPod] \subseteq [Config!Ords -> Config!Pod]
  BY <1>5
<1>7. [sts : HashedWorkload, seen : HashedStatus]
          \subseteq [sts : Config!Workload, seen : Config!WorkloadStatus]
  BY <1>3, <1>4
<1> QED
  BY <1>1, <1>3, <1>4, <1>6, <1>7, Zenon DEF FlagsInv, PassSteps, Config!TypeOK

\* A pod that is up has what its workload says.
LEMMA FreshIs ==
    ASSUME FlagsConstants, NEW w \in HashedWorkload PROVE Config!Fresh(w) \in HashedPod
<1>1. w.tmpl \in HashedTemplate /\ w.tmpl.hash \in Hashes /\ w.flags \in Config!Configs(Dynamic)
  BY DEF HashedWorkload, HashedTemplate
<1>2. \A f \in DOMAIN w.flags : w.flags[f] \in 0 .. MaxValue
  BY <1>1, ConfigIs DEF FlagsConstants
<1>3. Config!Effective(w.flags) \in [Dynamic -> 0 .. MaxValue]
  BY <1>2, EffectiveIs
<1> QED
  BY <1>1, <1>3, Zenon DEF Config!Fresh, HashedPod

\* The first pod, and past the last.
LEMMA NextBounds ==
    FlagsConstants =>
        /\ 0 \in 0 .. Replicas /\ 0 \in Config!Ords
        /\ \A o \in Config!Ords :
              o + 1 \in 0 .. Replicas /\ (o + 1 # Replicas => o + 1 \in Config!Ords)
BY DEF FlagsConstants, Config!Ords

\* At the start.
LEMMA FlagsInvInit == FlagsConstants /\ Config!Init => FlagsInv
<1> SUFFICES ASSUME FlagsConstants, Config!Init PROVE FlagsInv
  OBVIOUS
<1>1. spec \in Config!Specs
  <2>1. PICK c \in Config!Configs(Config!Flags), i \in {0} : spec = [config |-> c, image |-> i]
    BY DEF Config!Init
  <2> QED
    BY <2>1 DEF Config!Specs, FlagsConstants
<1>2. sts \in HashedWorkload /\ seen \in HashedStatus
  BY <1>1, GeneratedHash DEF Config!Init
<1>3. cm \in Hashes
  BY <1>2 DEF Config!Init, HashedWorkload, HashedTemplate
<1>4. pods \in [Config!Ords -> HashedPod]
  BY <1>2, FreshIs DEF Config!Init
<1>5. /\ nc \in Config!Specs /\ new \in HashedWorkload
      /\ old \in [sts : HashedWorkload, seen : HashedStatus]
  BY NoSpecIs, GeneratedHash DEF Config!Init
<1>6. queued \in BOOLEAN /\ err \in BOOLEAN /\ pc = "idle" /\ next \in 0 .. Replicas
  <2>1. queued = FALSE /\ err = FALSE /\ pc = "idle" /\ next = 0
    BY Zenon DEF Config!Init
  <2> QED
    BY <2>1, NextBounds, Zenon
<1> QED
  BY <1>1, <1>2, <1>3, <1>4, <1>5, <1>6 DEF FlagsInv, PassSteps

\* getNextUpdatePod names an ordinal, or none.
LEMMA NextFlagsPod == FlagsConstants => Config!NextUpdatePod \in 0 .. Replicas
<1> DEFINE S == {o \in Config!Ords : pods[o].rev # old.seen.upd}
<1> SUFFICES ASSUME FlagsConstants PROVE Config!NextUpdatePod \in 0 .. Replicas
  OBVIOUS
<1>1. Replicas \in Nat /\ S \subseteq 0 .. Replicas
  BY DEF Config!Ords, FlagsConstants
<1>2. CASE S = {}
  BY <1>1, <1>2 DEF Config!NextUpdatePod, Config!None
<1>3. CASE S # {}
  <2>1. \E m \in S : \A k \in S : k <= m
    <3> HIDE DEF S
    <3> QED
      BY <1>1, <1>3, HasLargest
  <2>2. Config!NextUpdatePod = CHOOSE o \in S : \A p \in S : p <= o
    BY <1>3 DEF Config!NextUpdatePod
  <2> QED
    BY <1>1, <2>1, <2>2
<1> QED
  BY <1>2, <1>3

\* The instance counts with the same Cardinality.
LEMMA FlagsCardinality ==
    ASSUME NEW S, NEW n, Cardinality(S) = n PROVE Config!Cardinality(S) = n
BY Zenon DEF Config!Cardinality, Cardinality

\* The status that the StatefulSet controller reports.
LEMMA FlagsObserved == FlagsConstants /\ FlagsInv => Config!Observed \in HashedStatus
<1> SUFFICES ASSUME FlagsConstants, FlagsInv PROVE Config!Observed \in HashedStatus
  OBVIOUS
<1>1. ASSUME NEW S, S \subseteq Config!Ords PROVE Config!Cardinality(S) \in 0 .. Replicas
  <2>1. IsFiniteSet(Config!Ords) /\ Cardinality(Config!Ords) = Replicas
    BY FS_Interval DEF Config!Ords, FlagsConstants
  <2>2. IsFiniteSet(S) /\ Cardinality(S) <= Cardinality(Config!Ords)
    BY <1>1, <2>1, FS_Subset
  <2>3. Cardinality(S) \in Nat
    BY <2>2, FS_CardinalityType
  <2> QED
    BY <2>1, <2>2, <2>3, FlagsCardinality DEF FlagsConstants
<1>2. sts.tmpl \in HashedTemplate /\ seen.cur \in HashedTemplate
  BY DEF FlagsInv, HashedWorkload, HashedStatus
<1>3. /\ Config!Cardinality({o \in Config!Ords : pods[o].state # "gone"}) \in 0 .. Replicas
      /\ Config!Cardinality({o \in Config!Ords : pods[o].state = "ready"}) \in 0 .. Replicas
      /\ Config!Cardinality({o \in Config!Ords : pods[o].state # "gone" /\ pods[o].rev = sts.tmpl})
             \in 0 .. Replicas
  <2>1. /\ {o \in Config!Ords : pods[o].state # "gone"} \subseteq Config!Ords
        /\ {o \in Config!Ords : pods[o].state = "ready"} \subseteq Config!Ords
        /\ {o \in Config!Ords : pods[o].state # "gone" /\ pods[o].rev = sts.tmpl}
               \subseteq Config!Ords
    OBVIOUS
  <2> QED
    BY <1>1, <2>1, Zenon
<1> QED
  BY <1>2, <1>3, Zenon DEF Config!Observed, HashedStatus

\* Steps that change one pod and nothing else of the invariant.
LEMMA FlagsPodStep ==
    ASSUME FlagsInv, NEW o \in Config!Ords, NEW p \in HashedPod, pods' = [pods EXCEPT ![o] = p],
           UNCHANGED <<spec, cm, sts, seen, queued, Config!pass>>
    PROVE  FlagsInv'
<1>1. pods' \in [Config!Ords -> HashedPod]
  BY DEF FlagsInv
<1> QED
  BY <1>1 DEF FlagsInv, Config!pass

\* Putting flags to a pod keeps its template.
LEMMA PutIs ==
    ASSUME FlagsConstants, FlagsInv, NEW o \in Config!Ords, Config!Put(o)
    PROVE  pods' \in [Config!Ords -> HashedPod]
<1> DEFINE put == Config!FlagsToPut(old.sts.flags, new.flags)
           all == Config!MergeStringMaps(pods[o].run, put)
<1>1. new.flags \in Config!Configs(Dynamic) /\ pods[o] \in HashedPod
  BY DEF FlagsInv, HashedWorkload
<1>2. \A f \in DOMAIN new.flags : new.flags[f] \in 0 .. MaxValue
  BY <1>1, ConfigIs DEF FlagsConstants
<1>3. \A f \in DOMAIN put : put[f] \in 0 .. MaxValue
  BY <1>2 DEF Config!FlagsToPut, Config!MergeStringMaps, FlagsConstants
<1>4. pods[o].run \in [Dynamic -> 0 .. MaxValue]
  BY <1>1 DEF HashedPod
<1> HIDE DEF put
<1>5. \A f \in DOMAIN all : all[f] \in 0 .. MaxValue
  BY <1>3, <1>4 DEF Config!MergeStringMaps
<1>6. Config!Effective(all) \in [Dynamic -> 0 .. MaxValue]
  BY <1>5, EffectiveIs
<1>7. [pods[o] EXCEPT !.run = Config!Effective(all)] \in HashedPod
  BY <1>1, <1>6, Zenon DEF HashedPod
<1>8. pods' = [pods EXCEPT ![o] = [pods[o] EXCEPT !.run = Config!Effective(all)]]
  BY DEF Config!Put, put, FlagsInv
<1> QED
  BY <1>7, <1>8 DEF FlagsInv
\* The steps of a pass.
LEMMA FlagsPass == FlagsConstants /\ FlagsInv /\ Config!Operator => FlagsInv'
<1> SUFFICES ASSUME FlagsConstants, FlagsInv, Config!Operator PROVE FlagsInv'
  OBVIOUS
<1>1. CASE Config!SyncConfigMap
  <2>1. /\ nc' = spec /\ old' = [sts |-> sts, seen |-> seen] /\ queued' = FALSE
        /\ UNCHANGED <<spec, sts, seen, pods, new>>
    BY <1>1 DEF Config!SyncConfigMap
  <2>2. old' \in [sts : HashedWorkload, seen : HashedStatus]
    BY <2>1 DEF FlagsInv
  <2>3. \/ /\ cm' = Config!AppendCustomConfig(Config!StaticOrStartupFlags(spec.config))
           /\ pc' = "status" /\ UNCHANGED <<err, next>>
        \/ cm' = cm /\ err' = TRUE /\ pc' = "end" /\ next' = 0
    BY <1>1, Zenon DEF Config!SyncConfigMap, Config!CreateOrUpdateConfigMap, Config!Fail
  <2>4. cm' \in Hashes
    <3>1. spec.config \in Config!Configs(Config!Flags)
      BY DEF FlagsInv, Config!Specs
    <3> QED
      BY <2>3, <3>1, FileIs DEF FlagsInv
  <2>5. err' \in BOOLEAN /\ pc' \in {"status", "end"} /\ next' \in 0 .. Replicas
    BY <2>3, NextBounds, Zenon DEF FlagsInv
  <2> QED
    BY <2>1, <2>2, <2>4, <2>5, Zenon DEF FlagsInv, PassSteps
<1>2. CASE Config!Update
  <2> DEFINE w == Config!Generated(nc)
  <2>1. w \in HashedWorkload
    BY GeneratedHash DEF FlagsInv
  <2>2. Config!Partition(w) \in HashedWorkload
    <3> DEFINE p == IF Config!NextUpdatePod = Config!None THEN old.sts.part
                    ELSE Config!NextUpdatePod
    <3>1. p \in 0 .. Replicas
      BY NextFlagsPod DEF FlagsInv, HashedWorkload
    <3>2. Config!Partition(w) = [w EXCEPT !.part = p]
      BY DEF Config!Partition
    <3> HIDE DEF p, w
    <3> QED
      BY <2>1, <3>1, <3>2, Zenon DEF HashedWorkload
  <2>3. UNCHANGED <<spec, cm, sts, seen, pods, queued, nc, old>>
    BY <1>2 DEF Config!Update
  <2> HIDE DEF w
  <2>4. /\ new' \in {new, w, Config!Partition(w)} /\ err' \in {err, TRUE}
        /\ pc' \in {"flags", "workload", "end"} /\ next' = 0
    BY <1>2, Zenon DEF Config!Update, Config!Fail, w
  <2>5. new' \in HashedWorkload /\ err' \in BOOLEAN /\ 0 \in 0 .. Replicas /\ 0 \in Config!Ords
    BY <2>1, <2>2, <2>4, NextBounds, Zenon DEF FlagsInv
  <2> QED
    BY <2>3, <2>4, <2>5 DEF FlagsInv, PassSteps
<1>3. CASE Config!PutFlags
  <2>1. next \in Config!Ords /\ pc = "flags"
    BY <1>3 DEF Config!PutFlags, FlagsInv
  <2>2. UNCHANGED <<spec, cm, sts, seen, queued, nc, old, new>>
    BY <1>3 DEF Config!PutFlags
  <2>3. pods' \in [Config!Ords -> HashedPod]
    <3>1. Config!Put(next) \/ UNCHANGED pods
      BY <1>3 DEF Config!PutFlags
    <3> QED
      BY <2>1, <3>1, PutIs DEF FlagsInv
  <2>4. \/ /\ next' = next + 1 /\ pc' = (IF next' = Replicas THEN "workload" ELSE "flags")
           /\ err' = err
        \/ err' = TRUE /\ pc' = "end" /\ next' = 0
    BY <1>3 DEF Config!PutFlags, Config!Fail
  <2>5. /\ err' \in BOOLEAN /\ pc' \in PassSteps /\ next' \in 0 .. Replicas
        /\ pc' = "workload" => next' \in {0, Replicas}
        /\ pc' = "flags" => next' \in Config!Ords
    <3>1. err' \in BOOLEAN /\ pc' \in PassSteps
      BY <2>4, Zenon DEF FlagsInv, PassSteps
    <3>2. /\ next' \in 0 .. Replicas /\ (pc' = "workload" => next' = Replicas)
          /\ pc' = "flags" => next' \in Config!Ords
      <4>1. /\ next + 1 \in 0 .. Replicas /\ (next + 1 # Replicas => next + 1 \in Config!Ords)
            /\ 0 \in 0 .. Replicas
        BY <2>1, NextBounds, Zenon
      <4>2. CASE next' = next + 1 /\ pc' = (IF next' = Replicas THEN "workload" ELSE "flags")
        BY <4>1, <4>2
      <4>3. CASE pc' = "end" /\ next' = 0
        BY <4>1, <4>3
      <4> QED
        BY <2>4, <4>2, <4>3
    <3> QED
      BY <3>1, <3>2
  <2> QED
    BY <2>2, <2>3, <2>5 DEF FlagsInv, Config!Ords
<1>4. CASE Config!UpdateWorkload
  <2>1. UNCHANGED <<spec, cm, pods, nc, old, new>>
    BY <1>4 DEF Config!UpdateWorkload
  <2>2. /\ \/ UNCHANGED <<sts, seen>>
           \/ sts' = new /\ \E f \in BOOLEAN : seen' = [seen EXCEPT !.fresh = f]
        /\ queued' \in {queued, TRUE} /\ err' \in {err, TRUE} /\ pc' = "end" /\ next' \in {next, 0}
    <3>1. CASE Config!Fail /\ UNCHANGED <<sts, seen, queued>>
      BY <3>1 DEF Config!Fail
    <3>2. CASE /\ sts' = new /\ pc' = "end" /\ queued' = TRUE /\ UNCHANGED <<next, err>>
               /\ seen' = [seen EXCEPT !.fresh = @ /\ new.tmpl = sts.tmpl /\ new.part = sts.part]
      <4>1. (seen.fresh /\ new.tmpl = sts.tmpl /\ new.part = sts.part) \in BOOLEAN
        BY DEF FlagsInv, HashedStatus
      <4> QED
        BY <3>2, <4>1, Zenon
    <3> QED
      BY <1>4, <3>1, <3>2 DEF Config!UpdateWorkload
  <2>3. sts' \in HashedWorkload /\ seen' \in HashedStatus
    <3>1. \A f \in BOOLEAN : [seen EXCEPT !.fresh = f] \in HashedStatus
      <4>1. seen \in HashedStatus
        BY DEF FlagsInv
      <4> QED
        BY <4>1, Zenon DEF HashedStatus
    <3> QED
      BY <2>2, <3>1 DEF FlagsInv
  <2>4. queued' \in BOOLEAN /\ err' \in BOOLEAN /\ next' \in 0 .. Replicas
    BY <2>2, NextBounds, Zenon DEF FlagsInv
  <2> QED
    BY <2>1, <2>2, <2>3, <2>4, Zenon DEF FlagsInv, PassSteps
<1>5. CASE Config!EndPass
  <2>1. /\ pc' = "idle" /\ err' = FALSE /\ next' = 0 /\ nc' = Config!NoSpec
        /\ new' = Config!Generated(Config!NoSpec)
        /\ old' = [sts |-> Config!Generated(Config!NoSpec), seen |-> Config!Running(Config!NoSpec)]
        /\ UNCHANGED <<spec, cm, sts, seen, pods>>
    BY <1>5, Zenon DEF Config!EndPass
  <2>2. queued' \in BOOLEAN
    BY <1>5 DEF Config!EndPass, FlagsInv
  <2>3. /\ nc' \in Config!Specs /\ new' \in HashedWorkload
        /\ old' \in [sts : HashedWorkload, seen : HashedStatus]
    BY <2>1, NoSpecIs, GeneratedHash
  <2>4. next' \in 0 .. Replicas
    BY <2>1 DEF FlagsConstants
  <2> QED
    BY <2>1, <2>2, <2>3, <2>4, Zenon DEF FlagsInv, PassSteps
<1> QED
  BY <1>1, <1>2, <1>3, <1>4, <1>5 DEF Config!Operator

\* What users write is a specification.
LEMMA FlagsEdit == FlagsConstants /\ FlagsInv /\ Config!Edit => spec' \in Config!Specs
<1> SUFFICES ASSUME FlagsConstants, FlagsInv, Config!Edit PROVE spec' \in Config!Specs
  OBVIOUS
<1> DEFINE All == Config!Flags
<1>1. spec \in Config!Specs /\ spec.config \in Config!Configs(All)
  BY DEF FlagsInv, Config!Specs
<1>2. \A c \in Config!Configs(All) : [spec EXCEPT !.config = c] \in Config!Specs
  BY <1>1, Zenon DEF Config!Specs
<1>3. ASSUME NEW f \in All, NEW v \in 1 .. MaxValue,
             spec' = [spec EXCEPT !.config = Config!MergeStringMaps(@, [x \in {f} |-> v])]
      PROVE  spec' \in Config!Specs
  <2> DEFINE m == Config!MergeStringMaps(spec.config, [x \in {f} |-> v])
  <2>1. /\ DOMAIN spec.config \subseteq All
        /\ \A g \in DOMAIN spec.config : spec.config[g] \in 1 .. MaxValue
    BY <1>1, ConfigIs
  <2>2. /\ DOMAIN m \subseteq All /\ m = [g \in DOMAIN m |-> m[g]]
        /\ \A g \in DOMAIN m : m[g] \in 1 .. MaxValue
    BY <2>1 DEF Config!MergeStringMaps
  <2>3. m \in Config!Configs(All)
    <3> HIDE DEF m, All
    <3> QED
      BY <2>2, ConfigIs
  <2>4. spec' = [spec EXCEPT !.config = m]
    BY <1>3, Zenon
  <2> QED
    BY <1>2, <2>3, <2>4
<1>4. ASSUME NEW f \in DOMAIN spec.config,
             spec' = [spec EXCEPT !.config = Config!Only(@, All \ {f})]
      PROVE  spec' \in Config!Specs
  <2>1. Config!Only(spec.config, All \ {f}) \in Config!Configs(All)
    BY <1>1, OnlyIs
  <2>2. spec' = [spec EXCEPT !.config = Config!Only(spec.config, All \ {f})]
    BY <1>4, Zenon
  <2> QED
    BY <1>2, <2>1, <2>2
<1>5. ASSUME NEW i \in 0 .. MaxImage, spec' = [spec EXCEPT !.image = i]
      PROVE  spec' \in Config!Specs
  BY <1>1, <1>5, Zenon DEF Config!Specs
<1> QED
  BY <1>3, <1>4, <1>5, Zenon DEF Config!Edit

\* Every step keeps the templates to the static flags.
LEMMA FlagsInvStep == FlagsConstants /\ FlagsInv /\ [Config!Next]_(Config!vars) => FlagsInv'
<1> SUFFICES ASSUME FlagsConstants, FlagsInv, [Config!Next]_(Config!vars) PROVE FlagsInv'
  OBVIOUS
<1>1. CASE Config!Operator
  BY <1>1, FlagsPass
<1>2. CASE Config!Edit
  <2>1. spec' \in Config!Specs
    BY <1>2, FlagsEdit
  <2>2. queued' = TRUE /\ UNCHANGED <<cm, sts, seen, pods, Config!pass>>
    BY <1>2 DEF Config!Edit
  <2> QED
    BY <2>1, <2>2 DEF FlagsInv, Config!pass
<1>3. CASE Config!Observe
  <2>1. /\ seen' = Config!Observed /\ queued' = TRUE
        /\ UNCHANGED <<spec, cm, sts, pods, Config!pass>>
    BY <1>3 DEF Config!Observe
  <2>2. seen' \in HashedStatus
    BY <2>1, FlagsObserved
  <2> QED
    BY <2>1, <2>2 DEF FlagsInv, Config!pass
<1>4. ASSUME NEW o \in Config!Ords,
             \/ Config!Roll(o) \/ Config!Create(o) \/ Config!InitContainer(o)
             \/ Config!PostStart(o) \/ Config!Restart(o) \/ Config!Down(o)
      PROVE  FlagsInv'
  <2>1. pods \in [Config!Ords -> HashedPod] /\ pods[o] \in HashedPod
    BY DEF FlagsInv
  <2>2. /\ sts.flags \in Config!Configs(Dynamic) /\ cm \in Hashes
        /\ seen.upd \in HashedTemplate /\ seen.cur \in HashedTemplate
    BY DEF FlagsInv, HashedWorkload, HashedStatus
  <2>3. Config!Effective(pods[o].file) \in [Dynamic -> 0 .. MaxValue]
    <3>1. pods[o].file \in Config!Configs(Dynamic)
      BY <2>1 DEF HashedPod
    <3>2. \A f \in DOMAIN pods[o].file : pods[o].file[f] \in 0 .. MaxValue
      BY <3>1, ConfigIs DEF FlagsConstants
    <3> QED
      BY <3>2, EffectiveIs
  <2>4. UNCHANGED <<spec, cm, sts, seen, queued, Config!pass>>
    BY <1>4, Zenon DEF Config!Roll, Config!Create, Config!InitContainer, Config!PostStart,
                       Config!Restart, Config!Down
  <2>5. CASE Config!Roll(o) \/ Config!Down(o)
    <3>1. PICK s \in {"crashed", "gone"} : pods' = [pods EXCEPT ![o].state = s]
      BY <2>5 DEF Config!Roll, Config!Down
    <3>2. [pods[o] EXCEPT !.state = s] \in HashedPod
      BY <2>1, Zenon DEF HashedPod
    <3>3. pods' = [pods EXCEPT ![o] = [pods[o] EXCEPT !.state = s]]
      BY <2>1, <3>1
    <3> QED
      BY <2>4, <3>2, <3>3, FlagsPodStep
  <2>6. CASE Config!Create(o)
    <3> DEFINE r == IF o >= sts.part THEN seen.upd ELSE seen.cur
    <3>1. pods' = [pods EXCEPT ![o].state = "init", ![o].rev = r]
      BY <2>6 DEF Config!Create
    <3>2. r \in HashedTemplate
      BY <2>2
    <3> HIDE DEF r
    <3>3. [pods[o] EXCEPT !.state = "init", !.rev = r] \in HashedPod
      BY <2>1, <3>2, Zenon DEF HashedPod
    <3>4. pods' = [pods EXCEPT ![o] = [pods[o] EXCEPT !.state = "init", !.rev = r]]
      BY <2>1, <3>1
    <3> QED
      BY <2>4, <3>3, <3>4, FlagsPodStep
  <2>7. CASE Config!InitContainer(o)
    <3>1. [pods[o] EXCEPT !.state = "starting", !.file = sts.flags, !.conf = cm] \in HashedPod
      BY <2>1, <2>2, Zenon DEF HashedPod
    <3>2. pods' = [pods EXCEPT ![o] =
                      [pods[o] EXCEPT !.state = "starting", !.file = sts.flags, !.conf = cm]]
      BY <2>1, <2>7 DEF Config!InitContainer
    <3> QED
      BY <2>4, <3>1, <3>2, FlagsPodStep
  <2>8. CASE Config!PostStart(o)
    <3> DEFINE e == Config!Effective(pods[o].file)
    <3>1. pods' = [pods EXCEPT ![o].state = "ready", ![o].run = e]
      BY <2>8 DEF Config!PostStart
    <3>2. e \in [Dynamic -> 0 .. MaxValue]
      BY <2>3
    <3> HIDE DEF e
    <3>3. [pods[o] EXCEPT !.state = "ready", !.run = e] \in HashedPod
      BY <2>1, <3>2, Zenon DEF HashedPod
    <3>4. pods' = [pods EXCEPT ![o] = [pods[o] EXCEPT !.state = "ready", !.run = e]]
      BY <2>1, <3>1
    <3> QED
      BY <2>4, <3>3, <3>4, FlagsPodStep
  <2>9. CASE Config!Restart(o)
    <3> DEFINE e == Config!Effective(pods[o].file)
    <3>1. pods' = [pods EXCEPT ![o].state = "ready", ![o].conf = cm, ![o].run = e]
      BY <2>9 DEF Config!Restart
    <3>2. e \in [Dynamic -> 0 .. MaxValue]
      BY <2>3
    <3> HIDE DEF e
    <3>3. [pods[o] EXCEPT !.state = "ready", !.conf = cm, !.run = e] \in HashedPod
      BY <2>1, <2>2, <3>2, Zenon DEF HashedPod
    <3>4. pods' = [pods EXCEPT ![o] = [pods[o] EXCEPT !.state = "ready", !.conf = cm, !.run = e]]
      BY <2>1, <3>1
    <3> QED
      BY <2>4, <3>3, <3>4, FlagsPodStep
  <2> QED
    BY <1>4, <2>5, <2>6, <2>7, <2>8, <2>9
<1>5. CASE UNCHANGED Config!vars
  BY <1>5 DEF Config!vars, FlagsInv
<1> QED
  BY <1>1, <1>2, <1>3, <1>4, <1>5 DEF Config!Next, Config!Kubernetes

\* Every variable of the flags keeps its type; a pass writes its workload only
\* after its flags were put to all pods or to none.
THEOREM FlagsTypeCorrect == FlagsConstants => (Config!Safety => []Config!TypeOK)
<1> SUFFICES ASSUME FlagsConstants PROVE Config!Safety => []Config!TypeOK
  OBVIOUS
<1> QED
  BY FlagsInvInit, FlagsInvStep, FlagsTypes, PTL DEF Config!Safety

\* A pod is replaced only for another image or for a flag that the documentation
\* does not call dynamic, when it calls no flag dynamic that the operator holds to
\* be static, for any number of flags, values, edits, crashes and failed calls
\* (helper.go staticOrStartupFlags, metad_updater.go Update).
THEOREM FlagsRollForStatic ==
    FlagsConstants /\ Documented \cap Static = {} => (Config!Safety => Config!NoNeedlessRoll)
<1> SUFFICES ASSUME FlagsConstants, Documented \cap Static = {}
             PROVE  Config!Safety => Config!NoNeedlessRoll
  OBVIOUS
<1>1. ASSUME FlagsInv, NEW o \in Config!Ords, Config!Roll(o)
      PROVE  Config!Undocumented(pods[o].rev, sts.tmpl)
  <2> DEFINE a == pods[o].rev
             b == sts.tmpl
  <2>1. a \in HashedTemplate /\ b \in HashedTemplate /\ a # b
    BY <1>1 DEF FlagsInv, HashedPod, HashedWorkload, Config!Roll
  <2> HIDE DEF a, b
  <2>2. a.hash \in Hashes /\ b.hash \in Hashes /\ (a.image # b.image \/ a.hash # b.hash)
    BY <2>1 DEF HashedTemplate
  <2>3. CASE a.hash # b.hash
    <3>1. PICK f \in Static : a.hash[f] # b.hash[f]
      BY <2>2, <2>3 DEF Hashes
    <3>2. f \in (DOMAIN a.hash \union DOMAIN b.hash) \ Documented
      BY <2>2, <3>1 DEF Hashes
    <3> QED
      BY <3>1, <3>2 DEF Config!Undocumented, a, b
  <2>4. CASE a.image # b.image
    BY <2>4 DEF Config!Undocumented, a, b
  <2> QED
    BY <2>2, <2>3, <2>4
<1>2. FlagsInv => ~Config!RollsNeedlessly
  BY <1>1 DEF Config!RollsNeedlessly
<1>3. FlagsInv /\ [Config!Next]_(Config!vars) => [~Config!RollsNeedlessly]_(Config!vars)
  BY <1>2
<1> QED
  BY <1>3, FlagsInvInit, FlagsInvStep, PTL DEF Config!Safety, Config!NoNeedlessRoll
=============================================================================
