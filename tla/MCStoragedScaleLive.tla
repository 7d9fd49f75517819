------------------------ MODULE MCStoragedScaleLive ------------------------
(***************************************************************************)
(* StoragedScale for TLC, in the open: the cache may be outdated and pods  *)
(* fail.  The variable `setting', chosen once, says when users change the  *)
(* replicas: whenever the webhook admits it ("webhook", whose constants    *)
(* are those of the cfg), at any time and without faults ("any"), or only  *)
(* on a settled cluster, with a cache and pods as they should be           *)
(* ("settled").                                                            *)
(***************************************************************************)
EXTENDS StoragedScale

VARIABLE setting

Any == INSTANCE StoragedScale WITH Admission <- "none", MaxFaults <- 0
Calm == INSTANCE StoragedScale WITH
    MaxReplicas <- 3, Admission <- "settled", CacheLag <- FALSE, PodFaults <- FALSE,
    MaxJobs <- 5

allVars == <<setting, vars>>

MCInit ==
    \/ setting \in {"webhook", "any"} /\ Init
    \/ setting = "settled" /\ Calm!Init
MCNext ==
    /\ \/ setting = "webhook" /\ Next
       \/ setting = "any" /\ Any!Next
       \/ setting = "settled" /\ Calm!Next
    /\ UNCHANGED setting

\* The fairness of the module, with the widest ranges of the settings
MCFairness ==
    /\ WF_vars(setting # "settled" /\ Reconcile)
    /\ WF_vars(setting = "settled" /\ Calm!Reconcile)
    /\ \A o \in Calm!Ordinals :
          /\ WF_vars(o \in DOMAIN pods /\ PodStart(o))
          /\ WF_vars(o \in DOMAIN pods /\ PodReady(o))
          /\ WF_vars(o \in DOMAIN pods /\ PodStop(o))
    /\ \A j \in 1 .. 5 :
          /\ WF_vars(setting # "settled" /\ j <= Len(jobs) /\ FinishJob(j))
          /\ WF_vars(setting = "settled" /\ j <= Len(jobs) /\ Calm!FinishJob(j))
MCSpec == MCInit /\ [][MCNext]_allVars /\ MCFairness

-----------------------------------------------------------------------------
\* Once changes and faults stop, the StatefulSet has the replicas asked for
\* and no scaling is left open; users who wait for a settled cluster get one
\* (storaged_scaler.go, nebula_cluster_control.go UpdateNebulaCluster)
ScaleEnds ==
    /\ <>[](setting = "settled" \/ (sts = spec /\ status.phase = "Running"))
    /\ []<>(setting # "settled" \/ Calm!Settled)
=============================================================================
