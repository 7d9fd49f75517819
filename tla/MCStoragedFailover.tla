------------------------- MODULE MCStoragedFailover -------------------------
(***************************************************************************)
(* StoragedFailover for TLC.  The variable `setting', chosen once, says    *)
(* what may happen in a behaviour: two faults ("safe"), two faults with    *)
(* outdated reads among them and a host that stays up ("stale"), one fault *)
(* ("live").  The constants are those of "safe".                           *)
(***************************************************************************)
EXTENDS StoragedFailover

VARIABLE setting

Stale == INSTANCE StoragedFailover WITH CacheLag <- TRUE
Live  == INSTANCE StoragedFailover WITH MaxFaults <- 1

allVars == <<setting, vars>>

\* With outdated reads host 1 stays up, and the balance does not begin
OtherStays == pods'[1] = "ready" /\ 1 \in online' /\ jobs' = jobs

MCInit == setting \in {"safe", "stale", "live"} /\ Init
MCNext ==
    /\ \/ setting = "safe" /\ Next
       \/ setting = "stale" /\ Stale!Next /\ OtherStays
       \/ setting = "live" /\ Live!Next
    /\ UNCHANGED setting

\* The fairness of the module, for the setting with a liveness property
MCFairness ==
    /\ WF_vars(setting = "live" /\ Reconcile /\ History)
    /\ \A o \in Hosts :
         /\ WF_vars(setting = "live" /\ PodCreate(o) /\ History)
         /\ WF_vars(setting = "live" /\ PodSchedule(o) /\ History)
         /\ WF_vars(setting = "live" /\ PodReady(o) /\ History)
         /\ WF_vars(setting = "live" /\ ClaimGone(o) /\ History)
         /\ WF_vars(setting = "live" /\ PodAges(o) /\ History)
         /\ WF_vars(setting = "live" /\ PeriodElapses(o) /\ History)
         /\ WF_vars(setting = "live" /\ Heartbeat(o) /\ History)
         /\ WF_vars(setting = "live" /\ HeartbeatLost(o) /\ pods[o] # "ready" /\ History)
    /\ \A s \in Spaces : WF_vars(setting = "live" /\ FinishJob(s) /\ History)
MCSpec == MCInit /\ [][MCNext]_allVars /\ MCFairness

-----------------------------------------------------------------------------
\* After one fault every host comes back: rebuilt elsewhere when its node is
\* lost (storaged_failover.go Failover, storaged_cluster.go Recovery)
OneFaultCompletes ==
    []<>(setting # "live" \/ (online = Hosts /\ Recorded(status) = {}))
=============================================================================
