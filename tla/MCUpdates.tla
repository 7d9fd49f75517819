------------------------------ MODULE MCUpdates ------------------------------
(***************************************************************************)
(* The rolling update of storaged, and the async groups in which it        *)
(* transfers leaders, for TLC.  The two share no state: the variable       *)
(* `setting', chosen once, says which of them a behaviour is of and what   *)
(* may happen to it; a group stays as it is in the settings of the update. *)
(***************************************************************************)
EXTENDS AsyncGroup

VARIABLES
    setting,
    want, sts, seen, pods, leads, jobs, metad, status, pc, st, old, new, idx, todo, err,
    budget, begun, kills, checked                                      \* StoragedUpdate

\* Templates: two images, an image that cannot start
One == [spec |-> 1, ann |-> 1]
Two == [spec |-> 2, ann |-> 1]
BadImage == [spec |-> 3, ann |-> 1]

\* One update after the other, with one of metad and a fault
Rolls == INSTANCE StoragedUpdate WITH
    Replicas <- 3, Spaces <- {"s1", "s2"}, Parts <- 3, Templates <- {One, Two}, Bad <- {},
    ForceUpdate <- FALSE, Concurrent <- FALSE, Patient <- TRUE, Prompt <- TRUE,
    MaxChanges <- 2, MaxRestarts <- 0, MaxMetad <- 1, MaxTimeouts <- 0, MaxFaults <- 1
\* An update and a restart, one of whose leader transfers times out
Mixed == INSTANCE StoragedUpdate WITH
    Replicas <- 3, Spaces <- {"s1", "s2"}, Parts <- 3, Templates <- {One, Two}, Bad <- {},
    ForceUpdate <- FALSE, Concurrent <- TRUE, Patient <- TRUE, Prompt <- TRUE,
    MaxChanges <- 1, MaxRestarts <- 1, MaxMetad <- 0, MaxTimeouts <- 1, MaxFaults <- 0
\* Users change the template again while its pods are updated, and a call fails
Hasty == INSTANCE StoragedUpdate WITH
    Replicas <- 3, Spaces <- {"s1"}, Parts <- 3, Templates <- {One, Two}, Bad <- {},
    ForceUpdate <- FALSE, Concurrent <- FALSE, Patient <- FALSE, Prompt <- TRUE,
    MaxChanges <- 2, MaxRestarts <- 0, MaxMetad <- 0, MaxTimeouts <- 0, MaxFaults <- 1
\* Users correct an image that cannot start, at any time
Live == INSTANCE StoragedUpdate WITH
    Replicas <- 3, Spaces <- {"s1"}, Parts <- 3,
    Templates <- {One, Two, BadImage}, Bad <- {BadImage},
    ForceUpdate <- FALSE, Concurrent <- FALSE, Patient <- FALSE, Prompt <- FALSE,
    MaxChanges <- 2, MaxRestarts <- 0, MaxMetad <- 0, MaxTimeouts <- 0, MaxFaults <- 0

ofUpdate == <<want, sts, seen, pods, leads, jobs, metad, status, pc, st, old, new, idx, todo,
              err, budget, begun, kills, checked>>
allVars == <<setting, vars, ofUpdate>>

UpdateUnused ==
    /\ want = 0 /\ sts = 0 /\ seen = 0 /\ pods = 0 /\ leads = 0 /\ jobs = 0 /\ metad = 0
    /\ status = 0 /\ pc = 0 /\ st = 0 /\ old = 0 /\ new = 0 /\ idx = 0 /\ todo = 0 /\ err = 0
    /\ budget = 0 /\ begun = 0 /\ kills = 0 /\ checked = 0

MCInit ==
    /\ Init
    /\ \/ setting = "group" /\ UpdateUnused
       \/ setting = "rolls" /\ Rolls!Init
       \/ setting = "mixed" /\ Mixed!Init
       \/ setting = "hasty" /\ Hasty!Init
       \/ setting = "live" /\ Live!Init

\* In the hasty setting the template changes while pods are replaced, or once all is settled:
\* not while the leaders are balanced at the end of an update (README)
ChangesInTime == want' # want => Hasty!Settled \/ Hasty!Stale # {}
MCNext ==
    \/ setting = "group" /\ Next /\ UNCHANGED <<setting, ofUpdate>>
    \/ /\ \/ setting = "rolls" /\ Rolls!Next
          \/ setting = "mixed" /\ Mixed!Next
          \/ setting = "hasty" /\ Hasty!Next /\ ChangesInTime
          \/ setting = "live" /\ Live!Next
       /\ UNCHANGED <<setting, vars>>

\* The fairness of the update, for the setting with a liveness property
InLive == setting = "live"
MCFairness ==
    /\ WF_ofUpdate(InLive /\ Live!StartReconcile) /\ WF_ofUpdate(InLive /\ Live!Operator)
    /\ WF_ofUpdate(InLive /\ Live!Observe) /\ WF_ofUpdate(InLive /\ Live!CompleteRollingUpdate)
    /\ SF_ofUpdate(InLive /\ Live!IntervalPasses)
    /\ \A o \in Live!Ords :
          /\ WF_ofUpdate(InLive /\ Live!RollPod(o)) /\ WF_ofUpdate(InLive /\ Live!PodReplaced(o))
          /\ WF_ofUpdate(InLive /\ Live!PodRuns(o)) /\ WF_ofUpdate(InLive /\ Live!PodReady(o))
          /\ WF_ofUpdate(InLive /\ Live!Elect("s1", o))
    /\ WF_ofUpdate(InLive /\ Live!LeadersBalanced("s1"))
MCSpec == MCInit /\ [][MCNext]_allVars /\ MCFairness

-----------------------------------------------------------------------------
\* A rolling update ends a pod only when it leads no partition: the pod's
\* leaders were transferred, and no leader comes back to it while the partition
\* lets it go, also when the template changes again before all pods are
\* replaced (storaged_updater.go Update, updateStoragedPod)
LeadersMoved ==
    /\ [](setting = "rolls" => Rolls!UpdateInv /\ Rolls!LeaderInv)
    /\ [][~(\/ setting = "rolls" /\ Rolls!EndsLeader
            \/ setting = "hasty" /\ Hasty!EndsLeader)]_allVars

\* The phase returns to Running only when all pods have the template of the
\* workload and the leaders of every space were found balanced after the last
\* pod was ended: no result of an earlier update or restart stands in for it.
\* The update follows another one, follows or precedes a restart, one of whose
\* transfers times out, or its template changes on the way; an update and a
\* restart do not overlap here, where the phase does return early (README;
\* storaged_updater.go updateRunningPhase)
RunningIsDone ==
    [][~(\/ setting = "rolls" /\ Rolls!RunsEarly
         \/ setting = "mixed" /\ Mixed!RunsEarly
         \/ setting = "hasty" /\ Hasty!RunsEarly)]_allVars

\* Once users stop at a template whose pods start, every pod gets it, whatever
\* was the template before (storaged_updater.go Update)
UpdateCompletes ==
    <>[](InLive /\ want \notin {BadImage}) => <>[](InLive => Live!Settled)
=============================================================================
