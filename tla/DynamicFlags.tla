---------------------------- MODULE DynamicFlags ----------------------------
(***************************************************************************)
(* How the custom flags of a component reach its pods: syncMetadWorkload   *)
(* with metadUpdater.  (Storaged and graphd run the same steps; when they  *)
(* have to wait is in StoragedUpdate and ClusterRollout.)  Static flags go *)
(* into the config map, whose hash is an annotation of the pod template,   *)
(* and take a rolling update.  Dynamic flags go into an annotation of the  *)
(* StatefulSet; a pod loads them from there when it starts, and the        *)
(* operator puts them to the pods that run, over HTTP and one by one.      *)
(*                                                                         *)
(* A config is a function from the flags that are set to their values; 0   *)
(* is the default of every flag.  The hash of a config is the config.  The *)
(* revision of a pod is its template: the image and the hash.              *)
(***************************************************************************)
EXTENDS Naturals, FiniteSets

CONSTANTS Replicas,   \* spec.metad.replicas
          Dynamic,    \* the flags of the map DynamicFlags
          Static,     \* other flags of the configuration file
          Documented, \* flags that the documentation calls dynamic
          MaxValue,   \* values of a flag
          MaxImage,   \* versions of the image
          Returns,    \* users may return to an earlier value of a static flag
          Patient,    \* users wait until the operator is done before they edit again
          MaxEdits,   \* changes of the NebulaCluster
          MaxDown,    \* crashes of containers and deletions of pods
          MaxFaults   \* failed calls

Ords == 0 .. Replicas - 1
None == Replicas
Flags == Dynamic \union Static
\* Configs over some flags: custom values for a part of them.
\* Files has the values that are in the configuration file.
Configs(F) == UNION {[D -> 1 .. MaxValue] : D \in SUBSET F}
Files == UNION {[D -> 0 .. MaxValue] : D \in SUBSET Flags}
Only(config, F) == [f \in DOMAIN config \cap F |-> config[f]]

VARIABLES
    spec,    \* the NebulaCluster: config and image of metad
    cm,      \* the ConfigMap: the flags of the configuration file
    sts,     \* the StatefulSet: template, annotation of the dynamic flags, partition
    seen,    \* its status: revisions, ready and updated replicas, is it up to date
    pods,    \* per ordinal: revision, state, config file, flags.json, flags in use
    queued,  \* the NebulaCluster is in the work queue
    pc, nc,  \* the pass and the NebulaCluster that it read
    old,     \* the workload and its status that it read
    new,     \* the workload that it will write
    next,    \* the next pod to which flags are put
    err,     \* the pass ends with an error
    budget   \* what is left of the bounds

pass == <<pc, nc, old, new, next, err>>
vars == <<spec, cm, sts, seen, pods, queued, pc, nc, old, new, next, err, budget>>

Specs == [config : Configs(Flags), image : 0 .. MaxImage]
Template == [image : 0 .. MaxImage, hash : Files]
Workload == [tmpl : Template, flags : Configs(Dynamic), part : 0 .. Replicas]
WorkloadStatus == [cur : Template, upd : Template, size : 0 .. Replicas, ready : 0 .. Replicas,
                   updated : 0 .. Replicas, fresh : BOOLEAN]
Pod == [rev : Template, state : {"gone", "init", "starting", "crashed", "ready"},
        conf : Files, file : Configs(Dynamic), run : [Dynamic -> 0 .. MaxValue]]

\* Types.  A pass writes its workload only after its flags were put to all pods or to none.
TypeOK ==
    /\ spec \in Specs /\ cm \in Files /\ sts \in Workload /\ seen \in WorkloadStatus
    /\ pods \in [Ords -> Pod] /\ queued \in BOOLEAN /\ err \in BOOLEAN
    /\ pc \in {"idle", "status", "flags", "workload", "end"}
    /\ nc \in Specs /\ old \in [sts : Workload, seen : WorkloadStatus] /\ new \in Workload
    /\ next \in 0 .. Replicas /\ (pc = "workload" => next \in {0, Replicas})

-----------------------------------------------------------------------------
(* Helpers *)

Spend(what) == budget[what] > 0 /\ budget' = [budget EXCEPT ![what] = @ - 1]

\* The flags of a process: the ones it was given, and the defaults of the others.
Effective(flags) == [f \in Dynamic |-> IF f \in DOMAIN flags THEN flags[f] ELSE 0]

\* Mutant: dynamic flags are written to the configuration file as well.
AllFlags(config) == config
\* staticOrStartupFlags: the flags that are not in the map DynamicFlags.
StaticOrStartupFlags(config) == Only(config, Static)
\* separateFlags: the dynamic ones, which generateStatefulSet writes into the annotation.
SeparateFlags(config) == Only(config, Dynamic)

\* AppendCustomConfig: the custom values in, or after, the lines of the file's template.
AppendCustomConfig(custom) ==
    [f \in Static \union DOMAIN custom |-> IF f \in DOMAIN custom THEN custom[f] ELSE 0]

\* generateWorkload, generateStatefulSet: the partition protects all pods.
Generated(n) ==
    [tmpl |-> [image |-> n.image, hash |-> AppendCustomConfig(StaticOrStartupFlags(n.config))],
     flags |-> SeparateFlags(n.config), part |-> Replicas]

\* PodTemplateEqual compares the pod spec, in which the image is and the hash is not.
PodTemplateEqual(a, b) == a.tmpl.image = b.tmpl.image
\* IsReady, rollingUpdateDone: of the status that the pass read.
IsReady(s) == s.ready = Replicas /\ s.updated = Replicas /\ s.cur = s.upd

\* MergeStringMaps: the values of the second map overwrite those of the first.
MergeStringMaps(m, n) ==
    [f \in DOMAIN m \union DOMAIN n |-> IF f \in DOMAIN n THEN n[f] ELSE m[f]]
\* IntersectionDifference, ResetMap: the flags of the new annotation and, for
\* those that only the old one has, their defaults.
FlagsToPut(o, n) == MergeStringMaps(n, [f \in DOMAIN o \ DOMAIN n |-> 0])

\* What the pass knows when there is none, and the status of a workload that is up.
NoSpec == [config |-> <<>>, image |-> 0]
Running(n) == [cur |-> Generated(n).tmpl, upd |-> Generated(n).tmpl, size |-> Replicas,
               ready |-> Replicas, updated |-> Replicas, fresh |-> TRUE]
Fresh(s) == [rev |-> s.tmpl, state |-> "ready", conf |-> s.tmpl.hash, file |-> s.flags,
             run |-> Effective(s.flags)]
Init ==
    /\ spec \in [config : {c \in Configs(Flags) : \A f \in DOMAIN c : f \in Dynamic /\ c[f] = 1},
                 image : {0}]
    /\ sts = Generated(spec) /\ cm = sts.tmpl.hash
    /\ seen = Running(spec)
    /\ pods = [o \in Ords |-> Fresh(sts)]
    /\ queued = FALSE /\ pc = "idle" /\ next = 0 /\ err = FALSE
    /\ nc = NoSpec /\ old = [sts |-> Generated(NoSpec), seen |-> Running(NoSpec)] /\ new = Generated(NoSpec)
    /\ budget = [edits |-> MaxEdits, down |-> MaxDown, faults |-> MaxFaults]

-----------------------------------------------------------------------------
(* The pass of the operator *)

Fail == err' = TRUE /\ pc' = "end" /\ next' = 0

\* CreateOrUpdateConfigMap: created, or its data replaced, also after a conflict.
CreateOrUpdateConfigMap(data) == cm' = data

\* The pass reads the NebulaCluster and the workload; syncConfigMap writes the ConfigMap.
SyncConfigMap ==
    /\ pc = "idle" /\ queued
    /\ nc' = spec /\ old' = [sts |-> sts, seen |-> seen] /\ queued' = FALSE
    /\ \/ /\ CreateOrUpdateConfigMap(AppendCustomConfig(StaticOrStartupFlags(spec.config)))
          /\ pc' = "status"
          /\ UNCHANGED <<err, next, budget>>
       \/ Spend("faults") /\ Fail /\ UNCHANGED cm
    /\ UNCHANGED <<spec, sts, seen, pods, new>>

\* isUpdating: by the status that was read, or a pod without the update revision.  (The code
\* has that of the pass before, as ClusterRollout models it.)
IsUpdating ==
    \/ old.seen.cur # old.seen.upd
    \/ ~old.seen.fresh /\ old.seen.size = Replicas
    \/ \E o \in Ords : pods[o].state # "gone" /\ pods[o].rev # old.seen.upd

\* getNextUpdatePod: the highest pod without the update revision, None if all have it.
NextUpdatePod ==
    LET stale == {o \in Ords : pods[o].rev # old.seen.upd}
    IN  IF stale = {} THEN None ELSE CHOOSE o \in stale : \A p \in stale : p <= o
\* It fails at a pod that is missing, or that has the revision and does not run.
Blocked ==
    \E o \in Ords : /\ NextUpdatePod = None \/ o >= NextUpdatePod
                    /\ \/ pods[o].state = "gone"
                       \/ o # NextUpdatePod /\ pods[o].state \in {"init", "starting"}

\* metadUpdater.Update, for a pod spec that was already written.
Partition(w) == [w EXCEPT !.part = IF NextUpdatePod = None THEN old.sts.part ELSE NextUpdatePod]

\* Mutant: flags are sent when the annotation has to change.
SendChanged(o, n) == o # n
\* updateDynamicFlags: there is something to send unless both annotations are empty.
SendFlags(o, n) == DOMAIN o \union DOMAIN n # {}

\* The status of the pass, then Update; the flags are put when the pod spec was already
\* written and the workload is ready, and left out otherwise.
Update ==
    /\ pc = "status"
    /\ LET w == Generated(nc) equal == PodTemplateEqual(w, old.sts) IN
       \/ /\ equal /\ IsUpdating /\ Blocked /\ Fail /\ UNCHANGED new
       \/ /\ ~(equal /\ IsUpdating /\ Blocked)
          /\ new' = IF equal /\ IsUpdating THEN Partition(w) ELSE w
          /\ pc' = IF equal /\ IsReady(old.seen) /\ SendFlags(old.sts.flags, w.flags)
                   THEN "flags" ELSE "workload"
          /\ next' = 0 /\ UNCHANGED err
    /\ UNCHANGED <<spec, cm, sts, seen, pods, queued, nc, old, budget>>

\* The /flags endpoint of a pod sets the flags of the request.
Put(o) == pods' = [pods EXCEPT ![o].run =
                    Effective(MergeStringMaps(@, FlagsToPut(old.sts.flags, new.flags)))]

\* updateDynamicFlags: the endpoints in their order.  A pod that is not up does not answer; the
\* request may also fail, before or after it had its effect.  The first failure ends the pass.
PutFlags ==
    /\ pc = "flags"
    /\ \/ /\ pods[next].state = "ready" /\ Put(next)
          /\ next' = next + 1 /\ pc' = IF next' = Replicas THEN "workload" ELSE "flags"
          /\ UNCHANGED <<err, budget>>
       \/ pods[next].state # "ready" /\ Fail /\ UNCHANGED <<pods, budget>>
       \/ pods[next].state = "ready" /\ Spend("faults") /\ Fail /\ (Put(next) \/ UNCHANGED pods)
    /\ UNCHANGED <<spec, cm, sts, seen, queued, nc, old, new>>

\* extender.UpdateWorkload: written when something differs, over whatever is there.  A write is
\* an event; one that changes the spec makes the status old.
UpdateWorkload ==
    /\ pc = "workload"
    /\ \/ /\ new = old.sts /\ pc' = "end" /\ UNCHANGED <<sts, seen, queued, next, err, budget>>
       \/ /\ new # old.sts /\ sts' = new /\ pc' = "end" /\ queued' = TRUE
          /\ seen' = [seen EXCEPT !.fresh = @ /\ new.tmpl = sts.tmpl /\ new.part = sts.part]
          /\ UNCHANGED <<next, err, budget>>
       \/ new # old.sts /\ Spend("faults") /\ Fail /\ UNCHANGED <<sts, seen, queued>>
    /\ UNCHANGED <<spec, cm, pods, nc, old, new>>

\* UpdateNebulaCluster: an error, or a component that is not ready, puts it into the queue again.
EndPass ==
    /\ pc = "end" /\ pc' = "idle" /\ err' = FALSE /\ next' = 0
    /\ queued' = (queued \/ err \/ ~IsReady(old.seen))
    /\ nc' = NoSpec /\ new' = Generated(NoSpec)
    /\ old' = [sts |-> Generated(NoSpec), seen |-> Running(NoSpec)]
    /\ UNCHANGED <<spec, cm, sts, seen, pods, budget>>

Operator == SyncConfigMap \/ Update \/ PutFlags \/ UpdateWorkload \/ EndPass

-----------------------------------------------------------------------------
(* Kubernetes and the users *)

\* Users set or unset a flag, or change the image.  Unless they return to earlier values, the
\* values of static flags and the image only grow.
Grown(f, v) == f \in DOMAIN spec.config => v > spec.config[f]
Edit ==
    /\ Spend("edits") /\ queued' = TRUE /\ (Patient => pc = "idle" /\ ~queued)
    /\ \/ \E f \in Flags, v \in 1 .. MaxValue :
             /\ ~(f \in Dynamic \/ Returns) => Grown(f, v)
             /\ spec' = [spec EXCEPT !.config = MergeStringMaps(@, [x \in {f} |-> v])]
       \/ \E f \in DOMAIN spec.config :
             /\ f \in Dynamic \/ Returns
             /\ spec' = [spec EXCEPT !.config = Only(@, Flags \ {f})]
       \/ \E i \in 0 .. MaxImage : (Returns \/ i > spec.image) /\ spec' = [spec EXCEPT !.image = i]
    /\ spec' # spec
    /\ UNCHANGED <<cm, sts, seen, pods, pass>>

\* The StatefulSet controller: it reports the state of the pods ...
Observed ==
    LET size == Cardinality({o \in Ords : pods[o].state # "gone"})
        ready == Cardinality({o \in Ords : pods[o].state = "ready"})
        updated == Cardinality({o \in Ords : pods[o].state # "gone" /\ pods[o].rev = sts.tmpl})
    IN [cur |-> IF updated = Replicas /\ ready = Replicas THEN sts.tmpl ELSE seen.cur,
        upd |-> sts.tmpl, size |-> size, ready |-> ready, updated |-> updated, fresh |-> TRUE]
Observe ==
    /\ seen # Observed /\ seen' = Observed /\ queued' = TRUE
    /\ UNCHANGED <<spec, cm, sts, pods, pass, budget>>

\* ... deletes the highest pod that is not protected and not updated, when those above are
\* healthy ...
Roll(o) ==
    /\ o >= sts.part /\ seen.fresh /\ seen.upd = sts.tmpl
    /\ pods[o].state # "gone" /\ pods[o].rev # sts.tmpl
    /\ \A p \in Ords : p > o => pods[p].state = "ready" /\ pods[p].rev = sts.tmpl
    /\ pods' = [pods EXCEPT ![o].state = "gone"]
    /\ UNCHANGED <<spec, cm, sts, seen, queued, pass, budget>>
\* ... and creates missing pods, protected ones with the current revision.
Create(o) ==
    /\ pods[o].state = "gone" /\ seen.fresh
    /\ pods' = [pods EXCEPT ![o].state = "init", ![o].rev = IF o >= sts.part THEN seen.upd ELSE seen.cur]
    /\ UNCHANGED <<spec, cm, sts, seen, queued, pass, budget>>

\* genDynamicFlagsContainer: the init container stores the annotation of the StatefulSet in
\* flags.json; the volume with the ConfigMap is mounted.
InitContainer(o) ==
    /\ pods[o].state = "init"
    /\ pods' = [pods EXCEPT ![o].state = "starting", ![o].file = sts.flags, ![o].conf = cm]
    /\ UNCHANGED <<spec, cm, sts, seen, queued, pass, budget>>
\* generateNebulaContainers: the process starts, the post-start hook puts flags.json to it
\* (again and again until it answers).  The readiness probe takes longer than the report to
\* the API that the pod is not ready.
PostStart(o) ==
    /\ pods[o].state = "starting" /\ seen.ready < Replicas
    /\ pods' = [pods EXCEPT ![o].state = "ready", ![o].run = Effective(pods[o].file)]
    /\ UNCHANGED <<spec, cm, sts, seen, queued, pass, budget>>

\* A container crashes, or a pod is deleted.
Down(o) ==
    /\ pods[o].state = "ready" /\ Spend("down")
    /\ \E s \in {"crashed", "gone"} : pods' = [pods EXCEPT ![o].state = s]
    /\ UNCHANGED <<spec, cm, sts, seen, queued, pass>>
\* The container restarts in its pod: no init container runs, but the hook does, and the mount
\* shows the ConfigMap of now.
Restart(o) ==
    /\ pods[o].state = "crashed" /\ seen.ready < Replicas
    /\ pods' = [pods EXCEPT ![o].state = "ready", ![o].conf = cm, ![o].run = Effective(pods[o].file)]
    /\ UNCHANGED <<spec, cm, sts, seen, queued, pass, budget>>

Kubernetes ==
    \/ Observe
    \/ \E o \in Ords : Roll(o) \/ Create(o) \/ InitContainer(o) \/ PostStart(o) \/ Restart(o)

Next == Operator \/ Kubernetes \/ Edit \/ \E o \in Ords : Down(o)
Safety == Init /\ [][Next]_vars

\* The operator works on what is queued, Kubernetes goes on.  Users need not act and nothing
\* has to fail.
Fairness ==
    /\ WF_vars(Operator) /\ WF_vars(Observe)
    /\ \A o \in Ords : WF_vars(Roll(o)) /\ WF_vars(Create(o)) /\ WF_vars(InitContainer(o))
                       /\ WF_vars(PostStart(o)) /\ WF_vars(Restart(o))
Spec == Safety /\ Fairness

-----------------------------------------------------------------------------
(* Properties *)

\* The update replaces a pod only when a flag that is not dynamic by the documentation, or the
\* image, differs from what the pod was created with: staticOrStartupFlags keeps dynamic flags
\* out of the hash, and the partition protects the pods before the template is settled.
Undocumented(a, b) ==
    \/ a.image # b.image
    \/ \E f \in (DOMAIN a.hash \union DOMAIN b.hash) \ Documented :
          f \notin DOMAIN a.hash \cap DOMAIN b.hash \/ a.hash[f] # b.hash[f]
RollsNeedlessly == \E o \in Ords : Roll(o) /\ ~Undocumented(pods[o].rev, sts.tmpl)
NoNeedlessRoll == [][~RollsNeedlessly]_vars

\* A dynamic flag that is set reaches every pod in the end, whatever crashes, restarts with an
\* old flags.json, or fails in between: updateDynamicFlags sends all flags in every pass.
SetIsSettled ==
    \A o \in Ords : /\ pods[o].state = "ready"
                    /\ \A f \in DOMAIN spec.config \cap Dynamic : pods[o].run[f] = spec.config[f]
SetSettles == <>[]SetIsSettled

\* Static flags and the image reach every pod in the end: the hash of the config map changes
\* the revision, and metadUpdater lowers the partition pod by pod.
StaticIsSettled ==
    \A o \in Ords : /\ pods[o].conf = AppendCustomConfig(Only(spec.config, Static))
                    /\ pods[o].rev.image = spec.image
StaticSettles == <>[]StaticIsSettled

\* A dynamic flag that users unset has its default on every pod in the end: updateDynamicFlags
\* finds it in the annotation, which is not overwritten before all pods were told.
ResetIsSettled == \A o \in Ords : \A f \in Dynamic \ DOMAIN spec.config : pods[o].run[f] = 0
ResetSettles == <>[]ResetIsSettled
=============================================================================
