--------------------------- MODULE ClusterRollout ---------------------------
(***************************************************************************)
(* A new version of metad, storaged and graphd, and new replicas of graphd *)
(* at the same time: how the phases of the components make them wait for   *)
(* each other.  The pass goes through the components in order; each reads  *)
(* its workload, derives its phase, and writes the workload with the       *)
(* partition that lets the StatefulSet controller replace the next pod.    *)
(*                                                                         *)
(* The version of a component stands for its pod spec.  What storaged does *)
(* within a scaling or a step of its update is in StoragedScale and        *)
(* StoragedUpdate; a component reads and writes its workload in one step,  *)
(* what can happen in between is in DynamicFlags and StoragedUpdate.       *)
(***************************************************************************)
EXTENDS Naturals, FiniteSets

CONSTANTS Size,        \* replicas of metad and storaged
          Sizes,       \* replicas of graphd that users ask for
          MaxVersion,  \* versions, which users only raise, for all components together
          Prompt,      \* the StatefulSet controller observes a change before the next pass
          MaxEdits,    \* changes of the NebulaCluster
          MaxScales,   \* scalings of storaged
          MaxDown,     \* pods that go down
          MaxFaults    \* failed writes

ASSUME RolloutAssumption ==
    /\ Size \in Nat \ {0} /\ Sizes \subseteq Nat \ {0} /\ Sizes # {} /\ IsFiniteSet(Sizes)
    /\ Prompt \in BOOLEAN
    /\ {MaxVersion, MaxEdits, MaxScales, MaxDown, MaxFaults} \subseteq Nat

Comps == {"metad", "storaged", "graphd"}
MaxSize == CHOOSE n \in Sizes \union {Size} : \A k \in Sizes \union {Size} : k <= n
Ords == 0 .. MaxSize - 1
None == MaxSize

VARIABLES
    spec,    \* the NebulaCluster: version, dynamic flags and replicas of graphd
    sts,     \* per component: version, partition, replicas, flags and last-replicas annotation
    seen,    \* per component: the status of the StatefulSet
    pods,    \* per component and ordinal
    phase,   \* per component: the phase in the status of the NebulaCluster
    revision, \* and the update revision there, of the pass before
    scale,   \* storaged has to be scaled
    queued, pc, nc, \* the queue, the pass, the NebulaCluster that it read
    budget

vars == <<spec, sts, seen, pods, phase, revision, scale, queued, pc, nc, budget>>

Specs == [version : 0 .. MaxVersion, flags : BOOLEAN, size : Sizes]
Phases == {"Running", "Update", "ScaleIn", "ScaleOut"}
Workload == [version : 0 .. MaxVersion, part : 0 .. MaxSize, size : Sizes \union {Size},
             flags : BOOLEAN, last : {0} \union Sizes]
Status == [cur : 0 .. MaxVersion, upd : 0 .. MaxVersion, size : 0 .. MaxSize, ready : 0 .. MaxSize,
           updated : 0 .. MaxSize, fresh : BOOLEAN]
Pod == [version : 0 .. MaxVersion, state : {"gone", "pending", "ready"}]

\* Types.  Only storaged and graphd have scaling phases.  A partition may be above the replicas:
\* in a scale-in setPartition may name a pod that is going to be removed.
TypeOK ==
    /\ spec \in Specs /\ nc \in Specs
    /\ sts \in [Comps -> Workload]
    /\ seen \in [Comps -> Status] /\ pods \in [Comps -> [Ords -> Pod]]
    /\ phase \in [Comps -> Phases] /\ phase["metad"] \in {"Running", "Update"}
    /\ revision \in [Comps -> 0 .. MaxVersion]
    /\ scale \in BOOLEAN /\ queued \in BOOLEAN /\ pc \in Comps \union {"idle"}

Spend(what) == budget[what] > 0 /\ budget' = [budget EXCEPT ![what] = @ - 1]
SizeOf(c, n) == IF c = "graphd" THEN n.size ELSE Size

Init ==
    /\ \E n \in Sizes : spec = [version |-> 0, flags |-> FALSE, size |-> n]
    /\ nc = spec
    /\ sts = [c \in Comps |-> [version |-> 0, part |-> SizeOf(c, spec), size |-> SizeOf(c, spec),
                               flags |-> FALSE, last |-> 0]]
    /\ seen = [c \in Comps |-> [cur |-> 0, upd |-> 0, size |-> SizeOf(c, spec), fresh |-> TRUE,
                                ready |-> SizeOf(c, spec), updated |-> SizeOf(c, spec)]]
    /\ pods = [c \in Comps |-> [o \in Ords |->
                [version |-> 0, state |-> IF o < SizeOf(c, spec) THEN "ready" ELSE "gone"]]]
    /\ phase = [c \in Comps |-> "Running"] /\ revision = [c \in Comps |-> 0]
    /\ scale = FALSE /\ queued = FALSE /\ pc = "idle"
    /\ budget = [edits |-> MaxEdits, scales |-> MaxScales, down |-> MaxDown, faults |-> MaxFaults]

-----------------------------------------------------------------------------
(* The pass of the operator *)

\* isUpdating with extender.IsUpdating: the revisions differ, or the status is older than the
\* spec and the replicas are right, or a pod does not have the update revision that the
\* NebulaCluster knows.
IsUpdating(c) ==
    \/ seen[c].cur # seen[c].upd
    \/ ~seen[c].fresh /\ sts[c].size = seen[c].size
    \/ \E o \in Ords : pods[c][o].state # "gone" /\ pods[c][o].version # revision[c]

\* IsReady with rollingUpdateDone.
IsReady(c) == /\ seen[c].ready = SizeOf(c, nc) /\ seen[c].size = seen[c].ready
              /\ seen[c].updated = seen[c].size /\ seen[c].cur = seen[c].upd

\* syncNebulaClusterStatus of the three components: metad is updated or not, ...
MetadPhase == IF IsUpdating("metad") THEN "Update" ELSE "Running"
\* ... storaged does not begin an update while it is scaled or metad is updated (its scaler and
\* its updater set the phase back), ...
StoragedPhase ==
    IF IsUpdating("storaged") /\ phase["storaged"] \notin {"ScaleIn", "ScaleOut"}
          /\ phase["metad"] # "Update"
    THEN "Update" ELSE phase["storaged"]
\* ... and graphd compares the replicas with those of the workload and of its annotation.
GraphdPhase ==
    LET w == sts["graphd"] IN
    IF IsUpdating("graphd") /\ phase["metad"] # "Update" THEN "Update"
    ELSE IF nc.size < w.size \/ (w.last # 0 /\ nc.size < w.last) THEN "ScaleIn"
    ELSE IF nc.size > w.size \/ (w.last # 0 /\ nc.size > w.last) THEN "ScaleOut"
    ELSE "Running"
NewPhase(c) == CASE c = "metad" -> MetadPhase
                 [] c = "storaged" -> StoragedPhase
                 [] c = "graphd" -> GraphdPhase

\* Mutant: graphd waits for metad only.
HeldByMetad(c, ph) == c # "metad" /\ phase["metad"] = "Update"
\* Update of storagedUpdater and of graphUpdater begins with the components before it; metad
\* waits for nobody.
Held(c, ph) ==
    \/ c # "metad" /\ phase["metad"] = "Update"
    \/ c = "storaged" /\ ph \in {"ScaleIn", "ScaleOut"}
    \/ c = "graphd" /\ phase["storaged"] \in {"Update", "ScaleIn", "ScaleOut"}

\* getNextUpdatePod, and where it fails.
NextUpdatePod(c) ==
    LET stale == {o \in Ords : o < sts[c].size /\ pods[c][o].version # seen[c].upd}
    IN  IF stale = {} THEN None ELSE CHOOSE o \in stale : \A p \in stale : p <= o
Blocked(c) ==
    LET next == NextUpdatePod(c) IN
    \E o \in Ords : /\ o < sts[c].size /\ (next = None \/ o >= next)
                    /\ pods[c][o].state = "gone" \/ (o # next /\ pods[c][o].state = "pending")

\* The workload that is generated, which protects all pods.
Generated(c) == [version |-> nc.version, part |-> SizeOf(c, nc), size |-> SizeOf(c, nc),
                 flags |-> c = "graphd" /\ nc.flags, last |-> sts[c].last]
\* setLastConfig: the template that was applied last.
SetLastConfig(c, w) == [w EXCEPT !.version = sts[c].version]
\* Mutant: the partition is not lowered.
KeepPartition(c, w) == w
\* setPartition, SetUpdatePartition.
SetPartition(c, w) ==
    [w EXCEPT !.part = IF NextUpdatePod(c) = None THEN sts[c].part ELSE NextUpdatePod(c)]

\* Update is called when the pod spec differs or in the Update phase; it holds the template
\* back, or lets a new template be written, or sets the partition.
Equal(c) == nc.version = sts[c].version
Rolls(c, ph) == ph = "Update" /\ ~Held(c, ph) /\ Equal(c)
Target(c, ph) ==
    IF (~Equal(c) \/ ph = "Update") /\ Held(c, ph) THEN SetLastConfig(c, Generated(c))
    ELSE IF Rolls(c, ph) THEN SetPartition(c, Generated(c))
    ELSE Generated(c)

\* SetLastReplicasAnnotation changes the workload that was read, of graphd only.
LastReplicas(c) ==
    IF c = "graphd" /\ Equal(c) /\ IsReady(c) THEN sts[c].size ELSE sts[c].last
\* ObjectEqual: the annotation with the last replicas does not count.
ObjectEqual(a, b) == [a EXCEPT !.last = 0] = [b EXCEPT !.last = 0]

\* Storaged leaves the Update phase with its last pod.
PhaseAfter(c, ph) == IF c = "storaged" /\ Rolls(c, ph) /\ NextUpdatePod(c) = None THEN "Running" ELSE ph

After(c) == CASE c = "metad" -> "storaged" [] c = "storaged" -> "graphd" [] c = "graphd" -> "idle"
Requeue == queued' = TRUE /\ pc' = "idle"

\* The component is synchronised with the phase ph; the write is an event.
Write(c, ph) ==
    LET w == [Target(c, ph) EXCEPT !.last = LastReplicas(c)] IN
    IF ObjectEqual(w, sts[c]) THEN UNCHANGED <<sts, seen>>
    ELSE /\ sts' = [sts EXCEPT ![c] = w]
         /\ seen' = [seen EXCEPT ![c].fresh = @ /\ w.version = sts[c].version
                                              /\ w.part = sts[c].part /\ w.size = sts[c].size]
Sync(c, ph) ==
    /\ revision' = [revision EXCEPT ![c] = seen[c].upd]
    /\ \/ /\ Rolls(c, ph) /\ Blocked(c) /\ Requeue
          /\ phase' = [phase EXCEPT ![c] = ph] /\ UNCHANGED <<sts, seen, budget>>
       \/ /\ ~(Rolls(c, ph) /\ Blocked(c)) /\ Write(c, ph)
          /\ phase' = [phase EXCEPT ![c] = PhaseAfter(c, ph)] /\ UNCHANGED budget
          /\ pc' = After(c) /\ queued' = (queued \/ ~IsReady(c) \/ sts' # sts)
       \/ /\ ~(Rolls(c, ph) /\ Blocked(c)) /\ Spend("faults") /\ Requeue
          /\ phase' = [phase EXCEPT ![c] = ph] /\ UNCHANGED <<sts, seen>>

\* A pass starts when something happened; scaling storaged ends its passes with an error.
StartPass ==
    /\ pc = "idle" /\ (queued \/ scale)
    /\ (Prompt => \A c \in Comps : seen[c].fresh)
    /\ queued' = FALSE /\ pc' = "metad" /\ nc' = spec
    /\ UNCHANGED <<spec, sts, seen, pods, phase, revision, scale, budget>>
SyncMetadWorkload ==
    /\ pc = "metad" /\ Sync("metad", NewPhase("metad")) /\ UNCHANGED <<spec, pods, scale, nc>>
\* The scaler runs after the phase was derived; it takes a number of passes, and sets the phase
\* back in its last one.
SyncStoragedWorkload ==
    /\ pc = "storaged" /\ UNCHANGED <<spec, pods, nc>>
    /\ \/ scale /\ Sync("storaged", "ScaleOut") /\ UNCHANGED scale
       \/ scale /\ phase["storaged"] = "ScaleOut" /\ Sync("storaged", "Running") /\ scale' = FALSE
       \/ ~scale /\ Sync("storaged", NewPhase("storaged")) /\ UNCHANGED scale
SyncGraphdWorkload ==
    /\ pc = "graphd" /\ Sync("graphd", NewPhase("graphd")) /\ UNCHANGED <<spec, pods, scale, nc>>

Operator == StartPass \/ SyncMetadWorkload \/ SyncStoragedWorkload \/ SyncGraphdWorkload

-----------------------------------------------------------------------------
(* Users and Kubernetes *)

Edit ==
    /\ Spend("edits") /\ queued' = TRUE
    /\ \/ spec.version < MaxVersion /\ spec' = [spec EXCEPT !.version = @ + 1]
       \/ spec' = [spec EXCEPT !.flags = ~@]
       \/ \E n \in Sizes \ {spec.size} : spec' = [spec EXCEPT !.size = n]
    /\ UNCHANGED <<sts, seen, pods, phase, revision, scale, pc, nc>>
\* The replicas of storaged change; the validating webhook asks for the Running phase.
ScaleStoraged ==
    /\ ~scale /\ phase["storaged"] = "Running" /\ Spend("scales") /\ scale' = TRUE /\ queued' = TRUE
    /\ UNCHANGED <<spec, sts, seen, pods, phase, revision, pc, nc>>

Here(c) == {o \in Ords : pods[c][o].state # "gone"}
Observed(c) ==
    LET ready == {o \in Here(c) : pods[c][o].state = "ready"}
        updated == {o \in Here(c) : pods[c][o].version = sts[c].version}
    IN [cur |-> IF Here(c) = 0 .. sts[c].size - 1 /\ ready = Here(c) /\ updated = Here(c)
                THEN sts[c].version ELSE seen[c].cur,
        upd |-> sts[c].version, size |-> Cardinality(Here(c)), ready |-> Cardinality(ready),
        updated |-> Cardinality(updated), fresh |-> TRUE]
Observe(c) ==
    /\ seen[c] # Observed(c) /\ seen' = [seen EXCEPT ![c] = Observed(c)] /\ queued' = TRUE
    /\ UNCHANGED <<spec, sts, pods, phase, revision, scale, pc, nc, budget>>

SetPod(c, o, p) ==
    /\ pods' = [pods EXCEPT ![c][o] = p]
    /\ UNCHANGED <<spec, sts, seen, phase, revision, scale, queued, pc, nc>>
\* The highest pod that is not protected and not updated is deleted when those above are ready.
Roll(c, o) ==
    /\ seen[c].fresh /\ o >= sts[c].part /\ o < sts[c].size
    /\ pods[c][o].state # "gone" /\ pods[c][o].version # sts[c].version
    /\ \A p \in Ords : p > o /\ p < sts[c].size =>
          pods[c][p].state = "ready" /\ pods[c][p].version = sts[c].version
    /\ SetPod(c, o, [pods[c][o] EXCEPT !.state = "gone"]) /\ UNCHANGED budget
Create(c, o) ==
    /\ seen[c].fresh /\ o < sts[c].size /\ pods[c][o].state = "gone"
    /\ SetPod(c, o, [version |-> IF o >= sts[c].part THEN seen[c].upd ELSE seen[c].cur,
                     state |-> "pending"])
    /\ UNCHANGED budget
PodReady(c, o) ==
    /\ pods[c][o].state = "pending"
    /\ SetPod(c, o, [pods[c][o] EXCEPT !.state = "ready"]) /\ UNCHANGED budget
ScaledIn(c, o) ==
    /\ seen[c].fresh /\ o >= sts[c].size /\ pods[c][o].state # "gone"
    /\ SetPod(c, o, [version |-> 0, state |-> "gone"]) /\ UNCHANGED budget
Down(c, o) ==
    /\ pods[c][o].state = "ready" /\ Spend("down")
    /\ SetPod(c, o, [pods[c][o] EXCEPT !.state = "gone"])

Kubernetes(c) ==
    \/ Observe(c)
    \/ \E o \in Ords : Roll(c, o) \/ Create(c, o) \/ PodReady(c, o) \/ ScaledIn(c, o)

Next == \/ Operator \/ Edit \/ ScaleStoraged
        \/ \E c \in Comps : Kubernetes(c) \/ \E o \in Ords : Down(c, o)
Safety == Init /\ [][Next]_vars

\* Scaling storaged takes only finitely many passes.
ScaleEnds == pc = "storaged" /\ scale /\ phase["storaged"] = "ScaleOut" /\ SyncStoragedWorkload /\ ~scale'
Fairness ==
    /\ WF_vars(Operator) /\ SF_vars(ScaleEnds)
    /\ \A c \in Comps : WF_vars(Observe(c)) /\ \A o \in Ords :
          WF_vars(Roll(c, o)) /\ WF_vars(Create(c, o)) /\ WF_vars(PodReady(c, o)) /\ WF_vars(ScaledIn(c, o))
Spec == Safety /\ Fairness

-----------------------------------------------------------------------------
(* Properties *)

Live(c) == {pods[c][o].version : o \in Here(c)}
Before(c, d) == \A v \in Live(c), w \in Live(d) : v >= w
\* No pod of storaged or graphd is newer than one of metad: the Update phase of metad and
\* setLastConfig hold the others back, also when a version comes while the last one is being
\* rolled out, and while storaged is being scaled.
MetadFirst == Before("metad", "storaged") /\ Before("metad", "graphd")
\* No pod of graphd is newer than one of storaged, as long as storaged is not scaled: the Update
\* phase of storaged holds graphd back, also when graphd gets other replicas meanwhile.
GraphdLast == Before("storaged", "graphd")

\* The version and the replicas that users ask for are reached: no component waits for ever.
RolloutDone ==
    \A c \in Comps : /\ Here(c) = 0 .. SizeOf(c, spec) - 1
                     /\ \A o \in Here(c) : pods[c][o] = [version |-> spec.version, state |-> "ready"]
RolloutCompletes == <>[]RolloutDone

\* After scaling, graphd is in the Running phase again, which canSuspendComponent asks for: the
\* annotation with the last replicas follows the replicas when the workload is ready.
PhaseReturns == <>[](phase["graphd"] = "Running")
=============================================================================
