------------------------------ MODULE MCRollout ------------------------------
(***************************************************************************)
(* The order of the components in a rollout, the flags of their pods, and  *)
(* the zones of their pods in the end, for TLC.  The three share no state: *)
(* the variable `setting', chosen once, says which of them a behaviour is  *)
(* of and what may happen to it; the variables of the others stay 0.       *)
(***************************************************************************)
EXTENDS ClusterRollout

VARIABLES
    setting,
    cm, old, new, next, err,                                         \* DynamicFlags
    replicas, size, claim, hosts, lister, cmLister, cycle, full, op  \* NodeZone

\* Storaged is scaled while a version and flags come, and a write fails
Scaled == INSTANCE ClusterRollout WITH
    Size <- 1, Sizes <- {1}, MaxVersion <- 1, Prompt <- TRUE,
    MaxEdits <- 2, MaxScales <- 1, MaxDown <- 0, MaxFaults <- 1
\* A version or flags, and a scaling, with passes before the status is observed
Alive == INSTANCE ClusterRollout WITH
    Size <- 1, Sizes <- {1}, MaxVersion <- 1, Prompt <- FALSE,
    MaxEdits <- 1, MaxScales <- 1, MaxDown <- 0, MaxFaults <- 0
\* A pod goes down before, during or after the rollout of a version or flags
Downed == INSTANCE ClusterRollout WITH
    Size <- 1, Sizes <- {1}, MaxVersion <- 1, Prompt <- TRUE,
    MaxEdits <- 1, MaxScales <- 0, MaxDown <- 1, MaxFaults <- 0

\* Users change a flag and return it to its earlier value, at any time
Edits == INSTANCE DynamicFlags WITH
    Replicas <- 2, Dynamic <- {"v"}, Static <- {"s"}, Documented <- {"v"},
    MaxValue <- 1, MaxImage <- 0, Returns <- TRUE, Patient <- FALSE,
    MaxEdits <- 2, MaxDown <- 0, MaxFaults <- 0
\* Users raise static flags and the image, at any time
Raised == INSTANCE DynamicFlags WITH
    Replicas <- 2, Dynamic <- {}, Static <- {"s"}, Documented <- {},
    MaxValue <- 1, MaxImage <- 1, Returns <- FALSE, Patient <- FALSE,
    MaxEdits <- 2, MaxDown <- 0, MaxFaults <- 0
\* Users change a dynamic flag and the image, at any time
Image == INSTANCE DynamicFlags WITH
    Replicas <- 2, Dynamic <- {"v"}, Static <- {}, Documented <- {"v"},
    MaxValue <- 1, MaxImage <- 1, Returns <- FALSE, Patient <- FALSE,
    MaxEdits <- 2, MaxDown <- 0, MaxFaults <- 0
\* Users set a flag, and a pod goes down before, meanwhile or afterwards
Set == INSTANCE DynamicFlags WITH
    Replicas <- 2, Dynamic <- {"v"}, Static <- {"s"}, Documented <- {"v"},
    MaxValue <- 1, MaxImage <- 0, Returns <- FALSE, Patient <- FALSE,
    MaxEdits <- 1, MaxDown <- 1, MaxFaults <- 0
\* Users unset dynamic flags, one change after the other, and calls fail
Reset == INSTANCE DynamicFlags WITH
    Replicas <- 2, Dynamic <- {"v", "w"}, Static <- {}, Documented <- {"v", "w"},
    MaxValue <- 2, MaxImage <- 0, Returns <- FALSE, Patient <- TRUE,
    MaxEdits <- 3, MaxDown <- 0, MaxFaults <- 2

\* Storaged is scaled and one of its pods is evicted
Az == <<"az1", "az2", "az3">>
Stored == INSTANCE NodeZone WITH
    Component <- "storaged", Zones <- {"az1", "az2", "az3"}, Sizes <- {1, 2}, Patient <- TRUE,
    MaxEdits <- 1, MaxEvictions <- 1, MaxRebuilds <- 0, MaxFull <- 0, MaxFaults <- 0
\* Two pods of a group of graphd start
Graph == INSTANCE NodeZone WITH
    Component <- "graphd", Zones <- {"az1", "az2", "az3"}, Sizes <- {2}, Patient <- TRUE,
    MaxEdits <- 0, MaxEvictions <- 0, MaxRebuilds <- 0, MaxFull <- 0, MaxFaults <- 0

ofFlags == <<old, new, next, err>>
ofZones == <<replicas, size, claim, hosts, lister, cmLister, cycle, full, op>>
allVars == <<setting, vars, cm, ofFlags, ofZones>>

\* Zones are alike: those that do not occur in the state are chosen in their order, which leaves
\* one of the behaviours that differ only in the names of zones
InUse ==
    UNION {{pods[o].zone, claim[o], cm[o], hosts[o], lister[o], cmLister[o], op.map[o]} :
               o \in DOMAIN pods} \union {cycle.zone, op.zone}
ZonesInOrder ==
    cycle' # cycle => \A i \in 1 .. 3 : cycle'.zone = Az[i] =>
        Az[i] \in InUse \/ \A j \in 1 .. i - 1 : Az[j] \in InUse

RolloutSettings == {"order", "scaled", "live", "downed"}
FlagsSettings == {"edits", "raised", "image", "set", "reset"}
ZonesSettings == {"stored", "graph"}
MCInit ==
    /\ \/ setting = "order" /\ Init
       \/ setting = "scaled" /\ Scaled!Init
       \/ setting = "live" /\ Alive!Init
       \/ setting = "downed" /\ Downed!Init
       \/ setting = "edits" /\ Edits!Init
       \/ setting = "raised" /\ Raised!Init
       \/ setting = "image" /\ Image!Init
       \/ setting = "set" /\ Set!Init
       \/ setting = "reset" /\ Reset!Init
       \/ setting = "stored" /\ Stored!Init
       \/ setting = "graph" /\ Graph!Init
    /\ IF setting \in RolloutSettings THEN cm = 0 ELSE revision = 0
    /\ setting \notin FlagsSettings => old = 0 /\ new = 0 /\ next = 0 /\ err = 0
    /\ setting \in FlagsSettings => phase = 0 /\ scale = 0
    /\ setting \in ZonesSettings => spec = 0 /\ sts = 0 /\ seen = 0 /\ scale = 0 /\ nc = 0
    /\ setting \notin ZonesSettings =>
          /\ replicas = 0 /\ size = 0 /\ claim = 0 /\ hosts = 0 /\ lister = 0 /\ cmLister = 0
          /\ cycle = 0 /\ full = 0 /\ op = 0

MCNext ==
    /\ UNCHANGED setting
    /\ \/ /\ \/ setting = "order" /\ Next
             \/ setting = "scaled" /\ Scaled!Next
             \/ setting = "live" /\ Alive!Next
             \/ setting = "downed" /\ Downed!Next
          /\ UNCHANGED <<cm, ofFlags, ofZones>>
       \/ /\ \/ setting = "edits" /\ Edits!Next
             \/ setting = "raised" /\ Raised!Next
             \/ setting = "image" /\ Image!Next
             \/ setting = "set" /\ Set!Next
             \/ setting = "reset" /\ Reset!Next
          /\ UNCHANGED <<phase, revision, scale, ofZones>>
       \/ /\ \/ setting = "stored" /\ Stored!Next
             \/ setting = "graph" /\ Graph!Next
          /\ ZonesInOrder
          /\ UNCHANGED <<spec, sts, seen, revision, scale, nc, ofFlags>>

\* The fairness of the modules, for the settings with a liveness property
InLive == setting = "live"
\* The action of the setting that a behaviour is in
OfRollout(inAlive, inDowned) == (InLive /\ inAlive) \/ (setting = "downed" /\ inDowned)
FlagsVars == <<spec, cm, sts, seen, pods, queued, pc, nc, old, new, next, err, budget>>
OfFlags(inRaised, inSet, inReset) ==
    (setting = "raised" /\ inRaised) \/ (setting = "set" /\ inSet) \/ (setting = "reset" /\ inReset)
ZonesVars == <<ofZones, phase, pods, cm, pc, queued, budget>>
OfZones(inStored, inGraph) == (setting = "stored" /\ inStored) \/ (setting = "graph" /\ inGraph)
MCFairness ==
    /\ WF_vars(OfRollout(Alive!Operator, Downed!Operator)) /\ SF_vars(InLive /\ Alive!ScaleEnds)
    /\ \A c \in Comps :
          /\ WF_vars(OfRollout(Alive!Observe(c), Downed!Observe(c)))
          /\ WF_vars(OfRollout(Alive!Roll(c, 0), Downed!Roll(c, 0)))
          /\ WF_vars(OfRollout(Alive!Create(c, 0), Downed!Create(c, 0)))
          /\ WF_vars(OfRollout(Alive!PodReady(c, 0), Downed!PodReady(c, 0)))
          /\ WF_vars(OfRollout(Alive!ScaledIn(c, 0), Downed!ScaledIn(c, 0)))
    /\ WF_FlagsVars(OfFlags(Raised!Operator, Set!Operator, Reset!Operator))
    /\ WF_FlagsVars(OfFlags(Raised!Observe, Set!Observe, Reset!Observe))
    /\ \A o \in 0 .. 1 :
          /\ WF_FlagsVars(OfFlags(Raised!Roll(o), Set!Roll(o), Reset!Roll(o)))
          /\ WF_FlagsVars(OfFlags(Raised!Create(o), Set!Create(o), Reset!Create(o)))
          /\ WF_FlagsVars(OfFlags(Raised!InitContainer(o), Set!InitContainer(o),
                                   Reset!InitContainer(o)))
          /\ WF_FlagsVars(OfFlags(Raised!PostStart(o), Set!PostStart(o), Reset!PostStart(o)))
          /\ WF_FlagsVars(OfFlags(Raised!Restart(o), Set!Restart(o), Reset!Restart(o)))
    /\ WF_ZonesVars(OfZones(Stored!Operator, Graph!Operator))
    /\ WF_ZonesVars(OfZones(Stored!EndCycle, Graph!EndCycle))
    /\ WF_ZonesVars(OfZones(Stored!ListConfigMap, Graph!ListConfigMap))
    /\ \A o \in 0 .. 1 :
          /\ SF_ZonesVars(OfZones(Stored!Schedule(o), Graph!Schedule(o)))
          /\ WF_ZonesVars(OfZones(Stored!PermitTimeout(o), Graph!PermitTimeout(o)))
          /\ WF_ZonesVars(OfZones(Stored!Bind(o), Graph!Bind(o)))
          /\ WF_ZonesVars(OfZones(Stored!ListPod(o), Graph!ListPod(o)))
          /\ WF_ZonesVars(OfZones(Stored!Kubernetes(o), Graph!Kubernetes(o)))
MCSpec == MCInit /\ [][MCNext]_allVars /\ MCFairness

-----------------------------------------------------------------------------
\* No pod of storaged or graphd is newer than one of metad, and none of graphd
\* newer than one of storaged, also when versions and replicas of graphd come in
\* the middle of a rollout; metad stays first while storaged is scaled and writes
\* fail (storaged_updater.go and graphd_updater.go Update)
RolloutInOrder ==
    /\ setting = "order" => TypeOK /\ MetadFirst /\ GraphdLast
    /\ setting = "scaled" => Scaled!TypeOK /\ Scaled!MetadFirst
    /\ setting = "edits" => Edits!TypeOK

\* Every component gets the last version and its replicas: none waits for the
\* others, or for a pod that went down, for ever
\* (helper.go isUpdating, getNextUpdatePod)
RolloutEnds ==
    <>[](/\ InLive => Alive!RolloutDone
         /\ setting = "downed" => Downed!RolloutDone)

\* A pod is replaced for its flags only when one of them is not dynamic, or with
\* another image, whatever users change and return meanwhile
\* (helper.go staticOrStartupFlags, metad_updater.go Update)
FlagsRollOnce ==
    [][~(\/ setting = "edits" /\ Edits!RollsNeedlessly
         \/ setting = "image" /\ Image!RollsNeedlessly)]_allVars

\* Flags that users set or raise reach every pod, through edits at any time and
\* a pod that goes down; flags that users unset get their defaults, through
\* failed calls (helper.go updateDynamicFlags)
FlagsSettle ==
    <>[](/\ setting = "raised" => Raised!StaticIsSettled
         /\ setting = "set" => Set!SetIsSettled /\ Set!StaticIsSettled
         /\ setting = "reset" => Reset!ResetIsSettled)

\* All pods are ready in the end and their zones recorded: the pods of a group
\* do not wait for each other for ever, and a scale-in leaves no zone behind
\* (node_zone.go Permit, Unreserve; storaged_cluster.go updateZoneMappings)
ZonesEnd ==
    <>[](/\ setting = "stored" => Stored!ZonesSettled
         /\ setting = "graph" => Graph!ZonesSettled)
=============================================================================
