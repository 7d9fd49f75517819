--------------------------- MODULE StoragedUpdate ---------------------------
(***************************************************************************)
(* The rolling update of the storaged StatefulSet and the restart of one   *)
(* of its pods: storagedUpdater with the parts of syncStoragedWorkload     *)
(* that lead to it.  The operator lowers the partition of the update       *)
(* strategy pod by pod, each time waiting until the pod leads nothing (or  *)
(* for TransLeaderTimeout), and balances the leaders at the end.  The      *)
(* StatefulSet controller replaces the pods, metad and raft move leaders.  *)
(*                                                                         *)
(* A template is a pod spec and the annotations of the template (the hash  *)
(* of the config map and the restart timestamp); its revision is the       *)
(* template itself.  Of a space the model keeps which hosts lead one of    *)
(* its partitions.  The replicas do not change here.                       *)
(***************************************************************************)
EXTENDS Naturals, FiniteSets

CONSTANTS Replicas,     \* spec.storaged.replicas
          Spaces,       \* graph spaces, all with a replica factor above 1
          Parts,        \* partitions of a space
          Templates,    \* templates users ask for, records [spec, ann]
          Bad,          \* the templates whose pods never start
          ForceUpdate,  \* spec.storaged.enableForceUpdate
          Concurrent,   \* spec.storaged.concurrentTransfer
          Patient,      \* users act only on a settled cluster
          Prompt,       \* the StatefulSet controller observes a change before the next pass
          MaxChanges,   \* changes of the template
          MaxRestarts,  \* restart annotations
          MaxMetad,     \* updates of metad
          MaxTimeouts,  \* leader transfers that reach TransLeaderTimeout
          MaxFaults     \* failed calls, failed transfers, crashes of the operator

Ords == 0 .. Replicas - 1
None == Replicas               \* no restart annotation, no next pod

VARIABLES
    want,     \* the template that the NebulaCluster asks for
    sts,      \* the StatefulSet: template, partition, restart annotation
    seen,     \* its status: update and current revision, is it up to date
    pods,     \* per ordinal: revision, state, begin of the leader transfer
    leads,    \* per space: the hosts that lead a partition
    jobs,     \* spaces whose leaders metad is balancing
    metad,    \* is metad in its Update phase
    status,   \* the storaged status stored in the API server
    pc, st,   \* the pass and its copy of the status
    old, new, \* the workload it read and the one it will write
    idx,      \* the pod it is about to update or restart
    todo,     \* spaces whose leaders it has still to look at
    err,      \* a transfer failed
    budget,   \* what is left of the bounds
    begun,    \* ghost: the update revision when the transfer of a pod began
    kills,    \* ghost: deletions of the pod that the annotation names
    checked   \* ghost: spaces seen balanced since a pod was last ended

cluster == <<want, sts, seen, pods, leads, jobs, metad>>
pass == <<pc, st, old, new, idx, todo, err>>
ghost == <<begun, kills, checked>>
vars == <<want, sts, seen, pods, leads, jobs, metad, status, pc, st, old, new, idx, todo, err,
          budget, begun, kills, checked>>

States == {"pending", "running", "ready", "term"}
StatusType == [phase : {"Running", "Update"}, balanced : SUBSET Spaces,
               last : {"nil", "recent", "due"}]
Workload == [tmpl : Templates, partition : 0 .. Replicas, ordinal : 0 .. Replicas]
Seen == [upd : Templates, cur : Templates, fresh : BOOLEAN]

\* Types.  A space always has a leader, known to metad if not alive.
TypeOK ==
    /\ want \in Templates /\ sts \in Workload /\ seen \in Seen
    /\ pods \in [Ords -> [rev : Templates, state : States, begin : {"none", "fresh", "expired"}]]
    /\ leads \in [Spaces -> (SUBSET Ords) \ {{}}] /\ \A s \in Spaces : Cardinality(leads[s]) <= Parts
    /\ jobs \subseteq Spaces /\ metad \in BOOLEAN
    /\ status \in StatusType /\ st \in StatusType
    /\ pc \in {"idle", "next", "check", "transfer", "leaders", "restart", "delete", "balance",
               "workload", "save"}
    /\ old \in Workload /\ new \in Workload /\ idx \in 0 .. Replicas
    /\ todo \subseteq Spaces /\ err \in BOOLEAN

Fresh(t) == [rev |-> t, state |-> "ready", begin |-> "none"]
Init ==
    /\ want \in Templates \ Bad
    /\ sts = [tmpl |-> want, partition |-> Replicas, ordinal |-> None]
    /\ seen = [upd |-> want, cur |-> want, fresh |-> TRUE]
    /\ pods = [o \in Ords |-> Fresh(want)]
    /\ leads \in [Spaces -> {L \in SUBSET Ords : Cardinality(L) = IF Parts < Replicas THEN Parts ELSE Replicas}]
    /\ jobs = {} /\ metad = FALSE
    /\ status = [phase |-> "Running", balanced |-> {}, last |-> "nil"]
    /\ pc = "idle" /\ st = status /\ old = sts /\ new = sts /\ idx = None /\ todo = {}
    /\ err = FALSE
    /\ budget = [changes |-> MaxChanges, restarts |-> MaxRestarts, metad |-> 2 * MaxMetad,
                 timeouts |-> MaxTimeouts, faults |-> MaxFaults]
    /\ begun = [o \in Ords |-> want] /\ kills = 0 /\ checked = {}

-----------------------------------------------------------------------------
(* Helpers *)

Spend(what) == budget[what] > 0 /\ budget' = [budget EXCEPT ![what] = @ - 1]
Ready(o) == pods[o].state = "ready"
Leader(o) == {s \in Spaces : o \in leads[s]}

\* PodTemplateEqual: only the pod spec of the template that was last applied.
PodTemplateEqual(new_, old_) == new_.tmpl.spec = old_.tmpl.spec
\* ObjectEqual: annotations (the restart annotation counts), template and update strategy.
ObjectEqual(new_, old_) == new_ = old_

\* isUpdating, IsUpdating: the revisions differ, the status is not up to date, or some pod
\* does not have the update revision.  (The pods are compared with the revision of this pass;
\* the code has that of the pass before, as ClusterRollout models it.)
IsUpdating ==
    \/ seen.cur # seen.upd \/ ~seen.fresh
    \/ \E o \in Ords : pods[o].rev # seen.upd

\* A pass is over: it saves its status; without a change of state the next one starts.
Save == pc' = "save" /\ todo' = {} /\ err' = FALSE /\ idx' = None

-----------------------------------------------------------------------------
(* The pass of the operator *)

\* The workload that the pass generates; its partition is the number of replicas, which
\* protects all pods.
Generated == [tmpl |-> want, partition |-> Replicas, ordinal |-> None]

\* syncNebulaClusterStatus: storaged enters the Update phase, but not while metad is in it.
SyncPhase(s) == IF IsUpdating /\ ~metad THEN [s EXCEPT !.phase = "Update"] ELSE s

\* Update is called when the pod spec differs, or in the Update phase.
CallsUpdate(s) == ~PodTemplateEqual(Generated, sts) \/ s.phase = "Update"

\* Mutant: a new pod spec is written with the partition of the update that is under way.
UpdateTargetUnprotected ==
    IF metad THEN [Generated EXCEPT !.tmpl = sts.tmpl]
    ELSE [Generated EXCEPT !.partition = sts.partition]
\* The first part of Update: setLastConfig keeps the template while metad is updated, a new
\* pod spec is written with all pods protected, and otherwise the partition stays.
UpdateTarget ==
    IF metad THEN [Generated EXCEPT !.tmpl = sts.tmpl]
    ELSE IF ~PodTemplateEqual(Generated, sts) THEN Generated
    ELSE [Generated EXCEPT !.partition = sts.partition]

\* The pass reads the cluster and the workload and decides what is to be written.
StartReconcile ==
    /\ pc = "idle" /\ (Prompt => seen.fresh)
    /\ old' = sts /\ st' = SyncPhase(status)
    /\ new' = IF CallsUpdate(st') THEN UpdateTarget ELSE Generated
    /\ pc' = IF CallsUpdate(st') /\ ~metad /\ PodTemplateEqual(Generated, sts)
             THEN "next" ELSE "restart"
    /\ UNCHANGED <<cluster, status, idx, todo, err, budget, ghost>>

\* getNextUpdatePod: the highest pod that does not have the update revision.
GetNextUpdatePod ==
    LET stale == {o \in Ords : pods[o].rev # seen.upd}
    IN  IF stale = {} THEN None ELSE CHOOSE o \in stale : \A p \in stale : p <= o

\* Mutant: any pod that does not run ends the pass.
BlockedByAny(next) == \E o \in Ords : pods[o].state = "pending"
\* The pods above it must run, or the pass ends.
Blocked(next) == \E o \in Ords : /\ next = None \/ o > next
                                 /\ pods[o].state = "pending"

\* Without spaces, with fewer than three replicas or forced, nothing is to be transferred.
NoTransfer == Spaces = {} \/ Replicas < 3 \/ ForceUpdate

\* The annotation that starts the timeout, if the pod does not have it.
BeginTransfer(o) ==
    IF pods[o].begin = "none"
    THEN /\ pods' = [pods EXCEPT ![o].begin = "fresh"]
         /\ begun' = [begun EXCEPT ![o] = seen.upd]
    ELSE UNCHANGED <<pods, begun>>

UpdateStoragedPod ==
    /\ pc = "next"
    /\ LET next == GetNextUpdatePod IN
       \/ /\ Blocked(next) /\ Save
          /\ UNCHANGED <<pods, new, begun>>
       \/ /\ ~Blocked(next) /\ next # None /\ NoTransfer
          /\ new' = [new EXCEPT !.partition = next] /\ pc' = "restart"
          /\ UNCHANGED <<pods, idx, todo, err, begun>>
       \/ /\ ~Blocked(next) /\ next # None /\ ~NoTransfer
          /\ BeginTransfer(next) /\ idx' = next /\ pc' = "check"
          /\ UNCHANGED <<new, todo, err>>
       \/ /\ ~Blocked(next) /\ next = None
          /\ todo' = IF Replicas = 1 THEN {} ELSE Spaces
          /\ pc' = "leaders" /\ UNCHANGED <<pods, new, idx, err, begun>>
    /\ UNCHANGED <<want, sts, seen, leads, jobs, metad, status, st, old, budget, kills, checked>>

\* readyToUpdate: metad lists no leader on the host, or the timeout is over.
ReadyToUpdate(o) == Leader(o) = {} \/ pods[o].begin = "expired"

\* The pod is updated by the partition, or else its leaders are transferred.
CheckUpdate ==
    /\ pc = "check"
    /\ \/ /\ ReadyToUpdate(idx)
          /\ new' = [new EXCEPT !.partition = idx] /\ pc' = "restart" /\ idx' = None
          /\ UNCHANGED <<todo>>
       \/ /\ ~ReadyToUpdate(idx)
          /\ todo' = Leader(idx) /\ pc' = "transfer" /\ UNCHANGED <<new, idx>>
    /\ UNCHANGED <<cluster, status, st, old, err, budget, ghost>>

\* transLeader: the partitions of a space move to other members, which must be up.
Moved(s, o) == {L \in SUBSET Ords : /\ L # {} /\ o \notin L /\ leads[s] \ {o} \subseteq L
                                    /\ \A p \in L \ leads[s] : Ready(p)
                                    /\ Cardinality(L) <= Parts}

\* What is left after a failure: one space after the other, the first failure ends it; or all
\* at once in async groups, which wait for every worker.
TodoAfterFailure(s) == IF Concurrent THEN todo \ {s} ELSE {}

\* transLeaderIfNecessary.  The pass then ends with an error and does not write the workload.
TransLeader(s) ==
    /\ pc = "transfer" /\ s \in todo
    /\ \/ /\ leads' \in {[leads EXCEPT ![s] = L] : L \in Moved(s, idx)}
          /\ todo' = todo \ {s} /\ UNCHANGED <<err, budget>>
       \/ /\ Spend("faults") \/ (Moved(s, idx) = {} /\ UNCHANGED budget)
          /\ err' = TRUE /\ todo' = TodoAfterFailure(s) /\ UNCHANGED leads
    /\ UNCHANGED <<want, sts, seen, pods, jobs, metad, status, pc, st, old, new, idx, ghost>>
EndTransfer ==
    /\ pc = "transfer" /\ todo = {} /\ Save
    /\ UNCHANGED <<cluster, status, st, old, new, budget, ghost>>

\* IsLeaderBalanced: every host that is ONLINE leads a partition.
IsLeaderBalanced(s) == {o \in Ords : Ready(o)} \subseteq leads[s]

\* balanceLeader, for the update and for the restart: per space wait, check, or submit a job
\* and end the pass.  The spaces done are kept in the status.
BalanceLeader(s) ==
    /\ pc \in {"leaders", "balance"} /\ s \in todo
    /\ \/ /\ s \in st.balanced /\ todo' = todo \ {s}
          /\ UNCHANGED <<st, jobs, pc, idx, err, budget, checked>>
       \/ /\ s \notin st.balanced /\ st.last # "due" /\ Save
          /\ st' = [st EXCEPT !.last = "recent"] /\ UNCHANGED <<jobs, budget, checked>>
       \/ /\ s \notin st.balanced /\ st.last = "due" /\ IsLeaderBalanced(s)
          /\ st' = [st EXCEPT !.balanced = @ \union {s}] /\ todo' = todo \ {s}
          /\ checked' = checked \union {s} /\ UNCHANGED <<jobs, pc, idx, err, budget>>
       \/ /\ s \notin st.balanced /\ st.last = "due" /\ ~IsLeaderBalanced(s) /\ Save
          /\ UNCHANGED checked
          /\ \/ st' = [st EXCEPT !.last = "recent"] /\ jobs' = jobs \union {s} /\ UNCHANGED budget
             \/ Spend("faults") /\ UNCHANGED <<st, jobs>>
    /\ UNCHANGED <<want, sts, seen, pods, leads, metad, status, old, new, begun, kills>>

\* Mutant: the update ends without forgetting which spaces are balanced.
DoneKeepsSpaces(s) == [s EXCEPT !.last = "nil", !.phase = "Running"]
\* What the end of the update sets; where nothing was to be balanced, only the phase.
Done(s) == IF Spaces = {} \/ Replicas = 1 THEN [s EXCEPT !.phase = "Running"]
           ELSE [phase |-> "Running", balanced |-> {}, last |-> "nil"]

\* updateRunningPhase.
UpdateRunningPhase ==
    /\ pc = "leaders" /\ todo = {}
    /\ st' = Done(st) /\ pc' = "restart"
    /\ UNCHANGED <<cluster, status, old, new, idx, todo, err, budget, ghost>>

\* RestartPod for the ordinal of the annotation of the workload that was read.
RestartPod ==
    /\ pc = "restart"
    /\ \/ /\ old.ordinal = None /\ pc' = "workload"
          /\ UNCHANGED <<pods, idx, todo, begun>>
       \/ /\ old.ordinal # None /\ NoTransfer
          /\ idx' = old.ordinal /\ pc' = "delete" /\ UNCHANGED <<pods, todo, begun>>
       \/ /\ old.ordinal # None /\ ~NoTransfer
          /\ BeginTransfer(old.ordinal) /\ idx' = old.ordinal
          /\ \/ ReadyToUpdate(idx') /\ pc' = "delete" /\ UNCHANGED todo
             \/ ~ReadyToUpdate(idx') /\ pc' = "transfer" /\ todo' = Leader(idx')
    /\ UNCHANGED <<want, sts, seen, leads, jobs, metad, status, st, old, new, err, budget, kills,
                   checked>>

DeletePod ==
    /\ pc = "delete"
    /\ pods' = [pods EXCEPT ![idx].state = "term"]
    /\ kills' = IF pods[idx].state # "term" /\ kills < 2 THEN kills + 1 ELSE kills
    /\ idx' = None /\ todo' = Spaces /\ pc' = "balance" /\ checked' = {}
    /\ UNCHANGED <<want, sts, seen, leads, jobs, metad, status, st, old, new, err, budget, begun>>

\* Balance after the restart; it writes the status.
Balance ==
    /\ pc = "balance" /\ todo = {}
    /\ st' = IF Spaces = {} THEN st ELSE [st EXCEPT !.balanced = {}]
    /\ status' = IF Spaces = {} THEN status ELSE st'
    /\ pc' = "workload"
    /\ UNCHANGED <<cluster, old, new, idx, todo, err, budget, ghost>>

\* The annotations written are those of the new workload, so the restart annotation goes.
Written == new
\* UpdateWorkload: a difference from what was read is written over what is there now.
UpdateWorkload ==
    /\ pc = "workload" /\ Save
    /\ \/ /\ ObjectEqual(new, old) /\ UNCHANGED <<sts, seen, kills>>
       \/ /\ ~ObjectEqual(new, old) /\ sts' = Written /\ kills' = IF Written.ordinal = None THEN 0 ELSE kills
          /\ seen' = IF new.tmpl = sts.tmpl /\ new.partition = sts.partition THEN seen
                     ELSE [seen EXCEPT !.fresh = FALSE]
    /\ UNCHANGED <<want, pods, leads, jobs, metad, status, st, old, new, budget, begun, checked>>

\* UpdateNebulaClusterStatus at the end of every pass.
EndReconcile ==
    /\ pc = "save" /\ pc' = "idle" /\ status' = st
    /\ old' = sts /\ new' = sts
    /\ UNCHANGED <<cluster, st, idx, todo, err, budget, ghost>>

\* A call fails: the pass ends early and still saves its status.
CallFails ==
    /\ pc \in {"next", "leaders", "restart", "delete", "balance", "workload"}
    /\ Spend("faults") /\ Save
    /\ UNCHANGED <<cluster, status, st, old, new, ghost>>
\* The operator restarts, or the status cannot be written.
Crash ==
    /\ pc # "idle" /\ Spend("faults") /\ pc' = "idle"
    /\ st' = status /\ old' = sts /\ new' = sts /\ idx' = None /\ todo' = {} /\ err' = FALSE
    /\ UNCHANGED <<cluster, status, ghost>>

-----------------------------------------------------------------------------
(* The StatefulSet controller, kubelet, metad, time *)

Observe ==
    /\ ~seen.fresh /\ seen' = [seen EXCEPT !.upd = sts.tmpl, !.fresh = TRUE]
    /\ UNCHANGED <<want, sts, pods, leads, jobs, metad, status, pass, budget, ghost>>

\* From the highest ordinal down to the partition, one unhealthy pod at a time.
Rolls(o) ==
    /\ seen.fresh /\ o >= sts.partition /\ pods[o].rev # seen.upd /\ pods[o].state # "term"
    /\ \A p \in Ords : p > o => Ready(p) /\ pods[p].rev = seen.upd
RollPod(o) ==
    /\ Rolls(o) /\ pods' = [pods EXCEPT ![o].state = "term"] /\ checked' = {}
    /\ UNCHANGED <<want, sts, seen, leads, jobs, metad, status, pass, budget, begun, kills>>
CompleteRollingUpdate ==
    /\ seen.fresh /\ seen.cur # seen.upd
    /\ \A o \in Ords : Ready(o) /\ pods[o].rev = seen.upd
    /\ seen' = [seen EXCEPT !.cur = seen.upd]
    /\ UNCHANGED <<want, sts, pods, leads, jobs, metad, status, pass, budget, ghost>>

Becomes(o, pod) ==
    /\ pods' = [pods EXCEPT ![o] = pod]
    /\ UNCHANGED <<want, sts, seen, leads, jobs, metad, status, pass, budget, ghost>>
\* A new pod has the update revision from the partition on, below it the current one.
PodReplaced(o) ==
    /\ pods[o].state = "term" /\ seen.fresh
    /\ Becomes(o, [rev |-> IF o >= sts.partition THEN seen.upd ELSE seen.cur,
                   state |-> "pending", begin |-> "none"])
PodRuns(o) == pods[o].state = "pending" /\ pods[o].rev \notin Bad
              /\ Becomes(o, [pods[o] EXCEPT !.state = "running"])
PodReady(o) == pods[o].state = "running" /\ Becomes(o, [pods[o] EXCEPT !.state = "ready"])

\* Followers elect a leader for the partitions of a pod that is gone.
Elect(s, o) ==
    /\ o \in leads[s] /\ pods[o].state \in {"pending", "running"}
    /\ leads' \in {[leads EXCEPT ![s] = L] : L \in Moved(s, o)}
    /\ UNCHANGED <<want, sts, seen, pods, jobs, metad, status, pass, budget, ghost>>
\* A job of metad gives every host that is up a partition to lead, if there are enough.
LeadersBalanced(s) ==
    /\ s \in jobs /\ jobs' = jobs \ {s}
    /\ LET all == leads[s] \union {o \in Ords : Ready(o)}
       IN  leads' = IF Cardinality(all) <= Parts THEN [leads EXCEPT ![s] = all] ELSE leads
    /\ UNCHANGED <<want, sts, seen, pods, metad, status, pass, budget, ghost>>

IntervalPasses ==
    /\ pc = "idle" /\ status.last = "recent"
    /\ status' = [status EXCEPT !.last = "due"] /\ st' = status'
    /\ UNCHANGED <<cluster, pc, old, new, idx, todo, err, budget, ghost>>
TransferTimeout(o) ==
    /\ pods[o].begin = "fresh" /\ Spend("timeouts")
    /\ pods' = [pods EXCEPT ![o].begin = "expired"]
    /\ UNCHANGED <<want, sts, seen, leads, jobs, metad, status, pass, ghost>>

-----------------------------------------------------------------------------
(* Users *)

Settled == /\ status.phase = "Running" /\ ~IsUpdating /\ jobs = {}
           /\ sts = Generated
           /\ \A o \in Ords : Ready(o) /\ pods[o].rev = want

\* A new image or resources, a custom flag or a restart timestamp.
ChangeTemplate(t) ==
    /\ t # want /\ (Patient => Settled /\ pc = "idle") /\ Spend("changes")
    /\ want' = t
    /\ UNCHANGED <<sts, seen, pods, leads, jobs, metad, status, pass, ghost>>
\* The annotation nebula-graph.io/restart-ordinal.
AskRestart(o) ==
    /\ sts.ordinal = None /\ (Patient => Settled /\ pc = "idle") /\ Spend("restarts")
    /\ sts' = [sts EXCEPT !.ordinal = o]
    /\ UNCHANGED <<want, seen, pods, leads, jobs, metad, status, pass, ghost>>
\* Metad is updated by the same passes before storaged.
MetadUpdates ==
    /\ pc = "idle" /\ Spend("metad") /\ metad' = ~metad
    /\ UNCHANGED <<want, sts, seen, pods, leads, jobs, status, pass, ghost>>

Operator ==
    \/ UpdateStoragedPod \/ CheckUpdate \/ EndTransfer \/ UpdateRunningPhase \/ RestartPod
    \/ DeletePod \/ Balance \/ UpdateWorkload \/ EndReconcile
    \/ \E s \in Spaces : TransLeader(s) \/ BalanceLeader(s)
StatefulSet == Observe \/ CompleteRollingUpdate \/ \E o \in Ords : RollPod(o) \/ PodReplaced(o)
Next ==
    \/ StartReconcile \/ Operator \/ CallFails \/ Crash \/ StatefulSet \/ IntervalPasses
    \/ \E o \in Ords : PodRuns(o) \/ PodReady(o) \/ TransferTimeout(o) \/ AskRestart(o)
    \/ \E s \in Spaces : LeadersBalanced(s) \/ \E o \in Ords : Elect(s, o)
    \/ \E t \in Templates : ChangeTemplate(t)
    \/ MetadUpdates

\* The passes go on (a pass that ends with an error is requeued, and a change of the workload
\* or its pods starts one), and the controllers and metad do their work.
Fairness ==
    /\ WF_vars(StartReconcile) /\ WF_vars(Operator) /\ WF_vars(Observe)
    /\ WF_vars(CompleteRollingUpdate) /\ SF_vars(IntervalPasses) /\ WF_vars(metad /\ MetadUpdates)
    /\ \A o \in Ords : /\ WF_vars(RollPod(o)) /\ WF_vars(PodReplaced(o)) /\ WF_vars(PodRuns(o))
                       /\ WF_vars(PodReady(o)) 
    /\ \A s \in Spaces : WF_vars(LeadersBalanced(s)) /\ \A o \in Ords : WF_vars(Elect(s, o))
Spec == Init /\ [][Next]_vars /\ Fairness

-----------------------------------------------------------------------------
(* Properties *)

Terminated(o) == pods[o].state # "term" /\ pods'[o].state = "term"

\* A rolling update or a restart ends a pod only when it leads no partition, unless forced or
\* the transfer of its leaders has taken TransLeaderTimeout (updateStoragedPod, RestartPod).
EndsLeader ==
    \E o \in Ords : Terminated(o) /\ ~NoTransfer /\ Leader(o) # {} /\ pods[o].begin # "expired"
LeadersMoved == [][~EndsLeader]_vars

\* The timeout is that of the transfer this update has begun, not of an earlier one: a pod that
\* leads partitions is ended only if its transfer began for the revision it is updated to.
TimeoutIsOwn ==
    [][\A o \in Ords : Terminated(o) /\ ~NoTransfer /\ Leader(o) # {} => begun[o] = seen.upd]_vars

\* The phase returns to Running only when all pods have the template of the workload, and
\* the leaders of every space were found balanced after the last pod was ended: no result of
\* an earlier update or restart stands in for it (getNextUpdatePod, updateRunningPhase).
RunsEarly ==
    /\ status.phase = "Update" /\ status'.phase = "Running"
    /\ ~(checked = Spaces /\ \A o \in Ords : pods[o].rev = sts.tmpl)
RunningIsDone == [][~RunsEarly]_vars

\* A restart annotation ends its pod once.
RestartOnce == kills <= 1

\* Once users stop at a template whose pods start, the pods get it, the phase is Running again,
\* no restart is left and the partition protects the pods from the next template, whatever
\* was the template before (Update, updateRunningPhase, UpdateWorkload).
UpdateCompletes == <>[](want \notin Bad) => <>[]Settled
-----------------------------------------------------------------------------
(* Why a calm update moves leaders and is done when it says so: users wait for the last one *)

Stale == {o \in Ords : pods[o].rev # seen.upd}
\* A template is asked for or written and not yet observed.
Changing == want # sts.tmpl \/ seen.upd # sts.tmpl

\* Until then all is as the last update left it.
AtRest ==
    Changing => /\ status.phase = "Running" /\ st.phase = "Running" /\ jobs = {}
                /\ \A o \in Ords : Ready(o) /\ pods[o].rev = seen.upd
                /\ sts.partition = Replicas
                /\ want # sts.tmpl => seen.fresh /\ seen.cur = seen.upd
\* A pass works with what it has read, and a new template protects all pods.
PassHolds ==
    /\ seen.fresh => seen.upd = sts.tmpl
    /\ pc \notin {"idle", "save"} => seen.fresh
    /\ pc = "idle" => st = status
    /\ pc \notin {"delete", "balance"}
    /\ sts.ordinal = None /\ old.ordinal = None /\ new.ordinal = None
    /\ pc \in {"next", "check", "transfer", "leaders"} =>
          st.phase = "Update" /\ ~Changing /\ new = sts
    /\ pc \in {"restart", "workload"} =>
          new.tmpl \in {want, sts.tmpl} /\ (Changing => new.partition = Replicas)
\* Leaders are balanced once all pods are updated, and what was found balanced still is.
BalancedLast ==
    /\ \A o \in Ords : pods[o].state = "term" => o \in Stale
    /\ Stale # {} => jobs = {} /\ status.balanced = {} /\ st.balanced = {}
    /\ status.phase = "Running" => status.balanced = {}
    /\ st.phase = "Running" => st.balanced = {}
    /\ status.balanced \subseteq checked /\ st.balanced \subseteq checked /\ checked \subseteq Spaces
    /\ pc = "leaders" => Stale = {} /\ Spaces \ todo \subseteq checked
    /\ status.phase = "Update" /\ st.phase = "Running" =>
          checked = Spaces /\ Stale = {} /\ ~Changing
UpdateInv == AtRest /\ PassHolds /\ BalancedLast

\* No leaders are on the pods that the partition lets go, nor come back to them.
LeaderInv ==
    /\ \A o \in Ords : pods[o].begin # "expired"
    /\ \A o \in Ords : ~Ready(o) => Leader(o) = {}
    /\ \A o \in Stale : o >= sts.partition => Leader(o) = {}
    /\ pc \in {"restart", "workload"} => \A o \in Stale : o >= new.partition => Leader(o) = {}
    /\ pc \in {"check", "transfer"} => jobs = {} /\ \A o \in Stale : o <= idx
    /\ pc = "check" => idx \in Stale \/ Leader(idx) = {}
    /\ pc = "transfer" => idx < sts.partition
=============================================================================
