------------------------ MODULE MCComponentFailover ------------------------
(***************************************************************************)
(* ComponentFailover for TLC.  The variable `setting', chosen once, says   *)
(* what happens: one fault while users scale graphd ("live", whose         *)
(* constants are those of the cfg), or two faults, lost heartbeats of pods *)
(* that run among them ("faults").  The members of metad are the same, and *)
(* with them MetadataKept.                                                 *)
(***************************************************************************)
EXTENDS ComponentFailover

VARIABLE setting

Faulty == INSTANCE ComponentFailover WITH
    G <- 1, Sizes <- {1}, Blips <- TRUE, MaxFaults <- 2, MaxChanges <- 0

allVars == <<setting, vars>>

MCInit ==
    \/ setting = "live" /\ Init
    \/ setting = "faults" /\ Faulty!Init
MCNext ==
    /\ \/ setting = "live" /\ Next
       \/ setting = "faults" /\ Faulty!Next
    /\ UNCHANGED setting

\* The fairness of the module, for the setting with a liveness property
InLive == setting = "live"
MCFairness ==
    /\ WF_vars(InLive /\ Operator)
    /\ \A p \in Pods :
          /\ WF_vars(InLive /\ PodCreate(p)) /\ WF_vars(InLive /\ PodSchedule(p))
          /\ WF_vars(InLive /\ PodReady(p)) /\ WF_vars(InLive /\ PodScaledIn(p))
          /\ WF_vars(InLive /\ ClaimGone(p)) /\ WF_vars(InLive /\ PodAges(p))
          /\ WF_vars(InLive /\ PeriodElapses(p)) /\ WF_vars(InLive /\ CatchUp(p))
          /\ WF_vars(InLive /\ Heartbeat(p)) /\ WF_vars(InLive /\ Silent(p))
          /\ WF_vars(InLive /\ Evict(p))
MCSpec == MCInit /\ [][MCNext]_allVars /\ MCFairness

-----------------------------------------------------------------------------
\* After one fault every wanted pod is online again, also when graphd is
\* scaled meanwhile (metad_failover.go, graphd_failover.go Failover)
MetadGraphdRecover == <>[](InLive => FailureOver)
=============================================================================
