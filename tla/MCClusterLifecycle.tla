------------------------- MODULE MCClusterLifecycle -------------------------
(***************************************************************************)
(* ClusterLifecycle for TLC.  The variable `setting', chosen once, says    *)
(* what happens to a cluster: a change of any kind and a fault ("live");   *)
(* suspensions that are taken back ("suspend"); changes that concern the   *)
(* claims, and a deletion ("claims"); a restore with evictions             *)
(* ("restored").  The constants of the cfg are the bounds of all settings. *)
(***************************************************************************)
EXTENDS ClusterLifecycle

VARIABLE setting

Live == INSTANCE ClusterLifecycle WITH
    MaxFaults <- 1, MaxChanges <- 1, Edits <- {"suspend", "version", "delete"},
    Reclaims <- {FALSE}
Napping == INSTANCE ClusterLifecycle WITH
    MaxFaults <- 0, Edits <- {"suspend"}, Reclaims <- {FALSE}
Claimed == INSTANCE ClusterLifecycle WITH
    MaxFaults <- 1, Edits <- {"reclaim", "version", "delete"}
Restore == INSTANCE ClusterLifecycle WITH
    MaxChanges <- 0, Edits <- {}, Reclaims <- {FALSE}, Restored <- TRUE, Evictions <- TRUE

allVars == <<setting, vars>>

MCInit ==
    \/ setting = "live" /\ Live!Init
    \/ setting = "suspend" /\ Napping!Init
    \/ setting = "claims" /\ Claimed!Init
    \/ setting = "restored" /\ Restore!Init
MCNext ==
    /\ \/ setting = "live" /\ Live!Next
       \/ setting = "suspend" /\ Napping!Next
       \/ setting = "claims" /\ Claimed!Next
       \/ setting = "restored" /\ Restore!Next
    /\ UNCHANGED setting

\* The fairness of the module, for the setting with a liveness property
InLive == setting = "live"
MCFairness ==
    /\ WF_vars(InLive /\ Live!Operator) /\ WF_vars(InLive /\ ConsoleGone)
    /\ \A c \in Comps :
          /\ WF_vars(InLive /\ CreatePod(c)) /\ WF_vars(InLive /\ PodReady(c))
          /\ WF_vars(InLive /\ WorkloadGoes(c)) /\ WF_vars(InLive /\ ClaimGone(c))
          /\ WF_vars(InLive /\ Collect(c))
MCSpec == MCInit /\ [][MCNext]_allVars /\ MCFairness

-----------------------------------------------------------------------------
\* Once users are done, a cluster to be suspended has no pods and says so,
\* any other comes up completely, and a deleted one goes with its workloads
\* (nebula_cluster_controller.go Reconcile)
LifeSettles ==
    <>[](InLive =>
           /\ nc.life = "live" /\ nc.suspend =>
                \A c \in Comps : pod[c] = "none" /\ nc.status.phase[c] = "Suspend"
           /\ nc.life = "live" /\ ~nc.suspend => nc.status.ready /\ Asleep
           /\ nc.life # "live" => nc.life = "gone" /\ \A c \in Comps : workload[c] = "none")
=============================================================================
