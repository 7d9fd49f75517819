---------------------------- MODULE Autoscaler ----------------------------
(***************************************************************************)
(* The nebula-autoscaler (pkg/controller/autoscaler): NebulaAutoscaler     *)
(* objects set the graphd replicas of one NebulaCluster from metrics.  The *)
(* recommendations and the past changes that limit a change are kept in    *)
(* the memory of the controller, each with its age.  Passes of the         *)
(* controller run one at a time; a tick is the time between two passes of  *)
(* an object.  The conditions of the status only report and are left out.  *)
(***************************************************************************)
EXTENDS Integers, Sequences, FiniteSets, FiniteSetsExt

CONSTANTS
    Autoscalers, Metrics,
    Loads,             \* replicas that the replica calculator may ask for
    Limits,            \* <<minReplicas, maxReplicas>> that users write
    Nil,               \* a field that is not set
    Behavior,          \* [up, down : HPAScalingRules or Nil], or Nil
    FlagWindow,        \* --autoscaler-downscale-stabilization
    DefaultDownWindow, \* scaleDownStabilizationSeconds
    DefaultPeriod,     \* scaleUpPeriod, scaleDownPeriod
    History,           \* is the history kept that invariants speak of?
    UserReplicas,      \* graphd replicas that users write
    MaxChanges,        \* bound: changes of objects by users
    MaxFaults,         \* bound: failed calls
    MaxRestarts        \* bound: restarts and lost answers

ASSUME NumberAssumption ==
    /\ {FlagWindow, DefaultDownWindow, DefaultPeriod, MaxChanges, MaxFaults,
        MaxRestarts} \subseteq Nat
    /\ History \in BOOLEAN /\ Loads \subseteq Nat /\ UserReplicas \subseteq Nat
    /\ \A l \in Limits : l[1] \in Nat /\ l[2] \in Nat
    /\ IsFiniteSet(Metrics)
\* HPAScalingRules: a window, a selection and a list of policies, each optional
IsRules(r) ==
    r # Nil =>
    /\ DOMAIN r = {"window", "select", "policies"}
    /\ r.window # Nil => r.window \in Nat
    /\ r.policies # Nil => /\ IsFiniteSet(r.policies)
                           /\ \A p \in r.policies : p.value \in Nat /\ p.period \in Nat
ASSUME BehaviorAssumption == Behavior # Nil => IsRules(Behavior.up) /\ IsRules(Behavior.down)

-----------------------------------------------------------------------------
(***************************************************************************)
(* Rules.                                                                  *)
(***************************************************************************)
Policy(type, value, period) == [type |-> type, value |-> value, period |-> period]
DefaultHPAScaleUpRules ==
    [window |-> 0, select |-> "Max",
     policies |-> {Policy("Pods", 4, DefaultPeriod), Policy("Percent", 100, DefaultPeriod)}]
DefaultHPAScaleDownRules ==
    [window |-> DefaultDownWindow, select |-> "Max",
     policies |-> {Policy("Percent", 100, DefaultPeriod)}]

\* copyHPAScalingRules: the fields that are set replace the defaults
CopyHPAScalingRules(from, to) ==
    IF from = Nil THEN to
    ELSE [f \in DOMAIN to |-> IF from[f] # Nil THEN from[f] ELSE to[f]]
Up == CopyHPAScalingRules(Behavior.up, DefaultHPAScaleUpRules)

\* with maybeInitScaleDownStabilizationWindow
Down ==
    LET rules == CopyHPAScalingRules(Behavior.down, DefaultHPAScaleDownRules) IN
    IF rules.window = Nil THEN [rules EXCEPT !.window = FlagWindow] ELSE rules

GetLongestPolicyPeriod(rules) == Max({0} \union {p.period : p \in rules.policies})

\* No window or period tells ages above this bound apart
OldAge == 1 + IF Behavior = Nil THEN FlagWindow
              ELSE Max({Up.window, Down.window, FlagWindow} \union
                       {p.period : p \in Up.policies \union Down.policies})
Ages == 0 .. OldAge
MaxReplicas == Max({0} \union UserReplicas \union {l[2] : l \in Limits})

\* validateNebulaAutoscalarReplica
Admitted(limits) == limits[1] <= limits[2]

-----------------------------------------------------------------------------
VARIABLES
    nc,        \* the NebulaCluster: exists, graphd replicas, storaged replicas
    hpa,       \* the autoscalers: exists, limits <<min, max>>
    status,    \* their status: currentReplicas, desiredReplicas
    load,      \* what each metric asks for; -1: it cannot be read
    recs,      \* recommendations: sequence of [rec, age]
    ups, downs,\* scaleUpEvents, scaleDownEvents: sequences of [change, age]
    selectors, \* hpaSelectors: the registered autoscalers
    ran,       \* did the object have its pass?
    pc, cur, copy, lim, want, blind,  \* the pass: object, copies, result
    made,      \* history: recommendations of each age
    changed,   \* history: net change of graphd replicas at each age
    changes, faults, restarts

objects == <<nc, hpa, load>>
memory == <<recs, ups, downs, selectors>>
pass == <<cur, copy, lim, want, blind>>
history == <<made, changed>>
bounds == <<changes, faults, restarts>>
vars == <<objects, status, memory, ran, pc, pass, history, bounds>>

Spec0 == [graphd |-> 0, storaged |-> 0]
NoLimits == <<0, 0>>
Recommendation == [rec : 0 .. MaxReplicas \union Loads, age : Ages]
ScaleEvent == [change : 1 .. MaxReplicas, age : Ages]

TypeOK ==
    /\ nc \in [exists : BOOLEAN, graphd : 0 .. MaxReplicas, storaged : {0, 1}]
    /\ hpa \in [Autoscalers -> [exists : BOOLEAN, limits : Limits]]
    /\ status \in [Autoscalers -> [current : 0 .. MaxReplicas, desired : 0 .. MaxReplicas]]
    /\ load \in [Metrics -> Loads \union {-1}]
    /\ \A a \in Autoscalers :
          /\ recs[a] \in Seq(Recommendation) /\ Len(recs[a]) <= OldAge + 2
          /\ ups[a] \in Seq(ScaleEvent) /\ downs[a] \in Seq(ScaleEvent)
          /\ Len(ups[a]) <= OldAge + 1 /\ Len(downs[a]) <= OldAge + 1
    /\ selectors \subseteq Autoscalers /\ ran \in [Autoscalers -> BOOLEAN]
    /\ pc \in {"idle", "compute", "update", "status"} /\ cur \in Autoscalers
    /\ copy \in [graphd : 0 .. MaxReplicas, storaged : {0, 1}]
    /\ lim \in Limits \union {NoLimits} /\ want \in 0 .. MaxReplicas /\ blind \in BOOLEAN
    /\ made \in [Autoscalers -> [Ages -> SUBSET (0 .. MaxReplicas \union Loads)]]
    /\ changed \in [Autoscalers -> [Ages -> -MaxReplicas .. MaxReplicas]]
    /\ changes \in 0 .. MaxChanges /\ faults \in 0 .. MaxFaults
    /\ restarts \in 0 .. MaxRestarts

Nothing == [a \in Autoscalers |-> <<>>]
Init ==
    /\ nc \in [exists : {TRUE}, graphd : UserReplicas, storaged : {0}]
    /\ hpa \in [Autoscalers -> [exists : {TRUE}, limits : {l \in Limits : Admitted(l)}]]
    /\ status = [a \in Autoscalers |-> [current |-> 0, desired |-> 0]]
    /\ load \in [Metrics -> Loads]
    /\ recs = Nothing /\ ups = Nothing /\ downs = Nothing /\ selectors = {}
    /\ ran = [a \in Autoscalers |-> FALSE]
    /\ pc = "idle" /\ cur \in Autoscalers /\ copy = Spec0 /\ lim = NoLimits
    /\ want = 0 /\ blind = FALSE
    /\ made = [a \in Autoscalers |-> [g \in Ages |-> {}]]
    /\ changed = [a \in Autoscalers |-> [g \in Ages |-> 0]]
    /\ changes = 0 /\ faults = 0 /\ restarts = 0

-----------------------------------------------------------------------------
(***************************************************************************)
(* Recommendations.                                                        *)
(***************************************************************************)

\* The last outdated sample makes room for the new one
ReplaceOld(s, old, new) ==
    IF old # {} THEN [s EXCEPT ![Max(old)] = new] ELSE Append(s, new)

Younger(s, age) == {s[i].rec : i \in {j \in DOMAIN s : s[j].age < age}}

\* stabilizeRecommendation: the maximum within the window of the flag
StabilizeRecommendation(s, desired) == Max({desired} \union Younger(s, FlagWindow + 1))
OutdatedRecommendations(s) == {i \in DOMAIN s : s[i].age > FlagWindow}

\* stabilizeRecommendationWithBehaviors: the current replicas, brought between
\* the smallest recommendation of the window for scaling up and the largest of
\* that for scaling down
StabilizeRecommendationWithBehaviors(s, current, desired) ==
    LET up == Min({desired} \union Younger(s, Up.window))
        down == Max({desired} \union Younger(s, Down.window)) IN
    Min({Max({current, up}), down})
OutdatedWithBehaviors(s) ==
    {i \in DOMAIN s : s[i].age > Up.window /\ s[i].age > Down.window}

-----------------------------------------------------------------------------
(***************************************************************************)
(* Limits of a change.                                                     *)
(***************************************************************************)
CalculateScaleUpLimit(current) == Max({2 * current, 4})

\* convertDesiredReplicasWithRules
ConvertDesiredReplicasWithRules(current, desired, min, max) ==
    LET allowed == Min({max, CalculateScaleUpLimit(current)}) IN
    IF desired < min THEN min ELSE Min({desired, allowed})

\* the sum of the changes, counted one by one
GetReplicasChangePerPeriod(period, events) ==
    Cardinality(UNION {{i} \X (1 .. events[i].change) :
                          i \in {j \in DOMAIN events : events[j].age < period}})

\* mutant: the proposal is rounded down
ProposedUpFloor(p, start) ==
    IF p.type = "Pods" THEN start + p.value ELSE (start * (100 + p.value)) \div 100

\* Go rounds up in one direction and truncates in the other
ProposedUp(p, start) ==
    IF p.type = "Pods" THEN start + p.value ELSE (start * (100 + p.value) + 99) \div 100
ProposedDown(p, start) ==
    LET x == start * (100 - p.value) IN
    IF p.type = "Pods" THEN start - p.value
    ELSE IF x >= 0 THEN x \div 100 ELSE -((-x) \div 100)

PeriodStart(a, p) ==
    copy.graphd - GetReplicasChangePerPeriod(p.period, ups[a])
                + GetReplicasChangePerPeriod(p.period, downs[a])

MaxInt32 == 2147483647
MinInt32 == -2147483647 - 1

\* calculateScaleUpLimitWithScalingRules
CalculateScaleUpLimitWithScalingRules(a) ==
    LET proposed == {ProposedUp(p, PeriodStart(a, p)) : p \in Up.policies} IN
    CASE Up.select = "Disabled" -> copy.graphd
      [] Up.select = "Min" -> Min({MaxInt32} \union proposed)
      [] OTHER -> Max({MinInt32} \union proposed)

\* calculateScaleDownLimitWithBehaviors
CalculateScaleDownLimitWithBehaviors(a) ==
    LET proposed == {ProposedDown(p, PeriodStart(a, p)) : p \in Down.policies} IN
    CASE Down.select = "Disabled" -> copy.graphd
      [] Down.select = "Min" -> Max({MinInt32} \union proposed)
      [] OTHER -> Min({MaxInt32} \union proposed)

\* convertDesiredReplicasWithBehaviorRate
ConvertDesiredReplicasWithBehaviorRate(a, desired) ==
    CASE desired > copy.graphd ->
           Min({desired, lim[2],
                Max({CalculateScaleUpLimitWithScalingRules(a), copy.graphd})})
      [] desired < copy.graphd ->
           Max({desired, lim[1],
                Min({CalculateScaleDownLimitWithBehaviors(a), copy.graphd})})
      [] OTHER -> desired

\* normalizeDesiredReplicas, normalizeDesiredReplicasWithBehaviors
NormalizeDesiredReplicas(a, desired) ==
    IF Behavior = Nil
    THEN ConvertDesiredReplicasWithRules(copy.graphd,
             StabilizeRecommendation(recs[a], desired), lim[1], lim[2])
    ELSE ConvertDesiredReplicasWithBehaviorRate(a,
             StabilizeRecommendationWithBehaviors(recs[a], copy.graphd, desired))

RecordRecommendation(s, desired) ==
    ReplaceOld(s, IF Behavior = Nil THEN OutdatedRecommendations(s)
                  ELSE OutdatedWithBehaviors(s), [rec |-> desired, age |-> 0])

\* storeScaleEvent
StoreScaleEvent(events, rules, change) ==
    ReplaceOld(events, {i \in DOMAIN events : events[i].age > GetLongestPolicyPeriod(rules)},
               [change |-> change, age |-> 0])

-----------------------------------------------------------------------------
(***************************************************************************)
(* The pass.                                                               *)
(***************************************************************************)
Finish(a) ==
    /\ pc' = "idle" /\ ran' = [ran EXCEPT ![a] = TRUE]
    /\ copy' = Spec0 /\ lim' = NoLimits /\ want' = 0 /\ blind' = FALSE
Forget(a) ==
    /\ recs' = [recs EXCEPT ![a] = <<>>] /\ ups' = [ups EXCEPT ![a] = <<>>]
    /\ downs' = [downs EXCEPT ![a] = <<>>]
    /\ made' = [made EXCEPT ![a] = [g \in Ages |-> {}]]
    /\ changed' = [changed EXCEPT ![a] = [g \in Ages |-> 0]]

\* mutant: the replicas found first are not taken for a recommendation
RecordNone(a) == UNCHANGED recs

\* recordInitialRecommendation
RecordInitialRecommendation(a) ==
    recs' = IF recs[a] # <<>> THEN recs
            ELSE [recs EXCEPT ![a] = <<[rec |-> nc.graphd, age |-> 0]>>]

\* A deleted autoscaler is forgotten; for a missing cluster the status says so
\* and the pass ends; otherwise the pass goes on with copies of the objects
Reconcile(a) ==
    /\ pc = "idle" /\ ~ran[a]
    /\ cur' = a
    /\ \/ /\ ~hpa[a].exists /\ Forget(a) /\ Finish(a)
          /\ UNCHANGED status
       \/ /\ hpa[a].exists /\ ~nc.exists
          /\ status' = [status EXCEPT ![a].current = 0] /\ Finish(a)
          /\ UNCHANGED <<recs, ups, downs, history>>
       \/ /\ hpa[a].exists /\ nc.exists
          /\ copy' = [graphd |-> nc.graphd, storaged |-> nc.storaged]
          /\ lim' = hpa[a].limits
          /\ RecordInitialRecommendation(a)
          /\ made' = IF recs[a] # <<>> \/ ~History THEN made
                     ELSE [made EXCEPT ![a][0] = @ \union {nc.graphd}]
          /\ pc' = "compute"
          /\ UNCHANGED <<ran, status, want, blind, ups, downs, changed>>
    /\ UNCHANGED <<objects, selectors, bounds>>

\* mutant: a metric that fails is ignored
ComputeReplicasForValid ==
    LET valid == {load[m] : m \in Metrics} \ {-1} IN
    IF valid = {} THEN -1 ELSE Max(valid)

\* computeReplicasForMetrics: the maximum; -1 when all metrics fail, or some
\* fail and the others ask for less than there is
ComputeReplicasForMetrics ==
    LET valid == {load[m] : m \in Metrics} \ {-1}
        most == Max(valid \union {0}) IN
    IF valid = {} \/ (-1 \in {load[m] : m \in Metrics} /\ most < copy.graphd)
    THEN -1 ELSE most

\* validateAndParseSelector: the selector is entered only if it is there, and
\* the autoscalers found for the pods are those entered
Ambiguous(a) == Cardinality(selectors) > 1

Decide(w, next) == want' = w /\ pc' = next

Compute ==
    /\ pc = "compute"
    /\ blind' = (-1 \in {load[m] : m \in Metrics})
    /\ \/ /\ copy.graphd = 0 /\ lim[1] # 0
          /\ Decide(0, "status") /\ UNCHANGED <<recs, made>>
       \/ /\ copy.graphd > lim[2]
          /\ Decide(lim[2], "update") /\ UNCHANGED <<recs, made>>
       \/ /\ copy.graphd < lim[1] /\ copy.graphd # 0
          /\ Decide(lim[1], "update") /\ UNCHANGED <<recs, made>>
       \/ /\ copy.graphd \in lim[1] .. lim[2]
          /\ LET desired == IF Ambiguous(cur) THEN -1 ELSE ComputeReplicasForMetrics
                 w == NormalizeDesiredReplicas(cur, desired) IN
             IF desired = -1
             THEN Decide(copy.graphd, "status") /\ UNCHANGED <<recs, made>>
             ELSE /\ Decide(w, IF w = copy.graphd THEN "status" ELSE "update")
                  /\ recs' = [recs EXCEPT ![cur] = RecordRecommendation(@, desired)]
                  /\ made' = IF History THEN [made EXCEPT ![cur][0] = @ \union {desired}]
                             ELSE made
    /\ UNCHANGED <<objects, status, ups, downs, selectors, ran, cur, copy, lim, changed, bounds>>

\* UpdateNebulaCluster replaces the whole spec, whatever was written since
WriteCluster ==
    /\ nc.exists
    /\ nc' = [nc EXCEPT !.graphd = want, !.storaged = copy.storaged]
    /\ changed' = IF History THEN [changed EXCEPT ![cur][0] = @ + want - copy.graphd]
                  ELSE changed

Update ==
    /\ pc = "update"
    /\ WriteCluster /\ pc' = "status"
    /\ IF Behavior = Nil THEN UNCHANGED <<ups, downs>>
       ELSE IF want > copy.graphd
       THEN /\ ups' = [ups EXCEPT ![cur] = StoreScaleEvent(@, Up, want - copy.graphd)]
            /\ UNCHANGED downs
       ELSE /\ downs' = [downs EXCEPT ![cur] = StoreScaleEvent(@, Down, copy.graphd - want)]
            /\ UNCHANGED ups
    /\ UNCHANGED <<hpa, load, status, recs, selectors, ran, pass, made, bounds>>

\* The write fails, or its answer is lost: only the status is written
UpdateFails ==
    /\ pc = "update"
    /\ \/ faults' = faults + (IF nc.exists THEN 1 ELSE 0) /\ faults' <= MaxFaults
          /\ UNCHANGED <<nc, changed, restarts>>
       \/ restarts < MaxRestarts /\ restarts' = restarts + 1
          /\ WriteCluster /\ UNCHANGED faults
    /\ status' = [status EXCEPT ![cur].current = copy.graphd]
    /\ Finish(cur)
    /\ UNCHANGED <<hpa, load, memory, cur, made, changes>>

\* updateStatusIfNeeded
SaveStatus ==
    /\ pc = "status"
    /\ \/ status' = [status EXCEPT ![cur] = [current |-> copy.graphd, desired |-> want]]
          /\ UNCHANGED faults
       \/ faults < MaxFaults /\ faults' = faults + 1 /\ UNCHANGED status
    /\ Finish(cur)
    /\ UNCHANGED <<objects, memory, cur, history, changes, restarts>>

\* The autoscaler restarts with an empty memory
Restart ==
    /\ restarts < MaxRestarts /\ restarts' = restarts + 1
    /\ recs' = Nothing /\ ups' = Nothing /\ downs' = Nothing /\ selectors' = {}
    /\ made' = [a \in Autoscalers |-> [g \in Ages |-> {}]]
    /\ pc' = "idle" /\ copy' = Spec0 /\ lim' = NoLimits /\ want' = 0 /\ blind' = FALSE
    /\ UNCHANGED <<objects, status, ran, cur, changed, changes, faults>>

-----------------------------------------------------------------------------
Older(s) == [i \in DOMAIN s |-> [s[i] EXCEPT !.age = Min({@ + 1, OldAge})]]

\* A pass takes less than a tick
Tick ==
    /\ pc = "idle"
    /\ ran' = [a \in Autoscalers |-> FALSE]
    /\ recs' = [a \in Autoscalers |-> Older(recs[a])]
    /\ ups' = [a \in Autoscalers |-> Older(ups[a])]
    /\ downs' = [a \in Autoscalers |-> Older(downs[a])]
    /\ made' = [a \in Autoscalers |->
                  [g \in Ages |-> IF g = 0 THEN {} ELSE made[a][g - 1]]]
    /\ changed' = [a \in Autoscalers |->
                  [g \in Ages |-> IF g = 0 THEN 0 ELSE changed[a][g - 1]]]
    /\ UNCHANGED <<objects, status, selectors, pc, pass, bounds>>

\* What the metrics say matters when there is a pass to come
LoadChanges ==
    /\ pc = "idle" /\ \E a \in Autoscalers : ~ran[a]
    /\ \E l \in [Metrics -> Loads \union {-1}] : load' = l
    /\ UNCHANGED <<nc, hpa, status, memory, ran, pc, pass, history, bounds>>

\* Users change the replicas of graphd or storaged, or remove objects
UserChange ==
    /\ changes < MaxChanges /\ changes' = changes + 1
    /\ \/ \E r \in UserReplicas : nc.exists /\ nc' = [nc EXCEPT !.graphd = r] /\ UNCHANGED hpa
       \/ nc.exists /\ nc' = [nc EXCEPT !.storaged = 1] /\ UNCHANGED hpa
       \/ nc' = [nc EXCEPT !.exists = ~@] /\ UNCHANGED hpa
       \/ \E a \in Autoscalers, l \in Limits :
             /\ Admitted(l) /\ hpa' = [hpa EXCEPT ![a].limits = l] /\ UNCHANGED nc
       \/ \E a \in Autoscalers : hpa' = [hpa EXCEPT ![a].exists = ~@] /\ UNCHANGED nc
    /\ UNCHANGED <<load, status, memory, ran, pc, pass, history, faults, restarts>>

Controller == (\E a \in Autoscalers : Reconcile(a)) \/ Compute \/ Update \/ SaveStatus
Next == Controller \/ UpdateFails \/ Restart \/ Tick \/ LoadChanges \/ UserChange

\* Time goes on, and the work queue hands out every object
Spec ==
    /\ Init /\ [][Next]_vars
    /\ WF_vars(Tick) /\ WF_vars(Compute \/ Update \/ SaveStatus \/ UpdateFails)
    /\ \A a \in Autoscalers : SF_vars(Reconcile(a))

-----------------------------------------------------------------------------
(***************************************************************************)
(* Properties.                                                             *)
(***************************************************************************)
DownWindow == IF Behavior = Nil THEN FlagWindow + 1 ELSE Down.window
Recommended(window) == UNION {made[cur][g] : g \in 0 .. window - 1}

\* The controller takes replicas away only when nothing that it recommended in
\* the stabilization window, the replicas it found at its start included, asks
\* for more; the rotation of old samples never drops one that counts
\* (autoscaler.go stabilizeRecommendation, stabilizeRecommendationWithBehaviors)
StabilizedDown ==
    pc = "update" /\ want < copy.graphd /\ copy.graphd <= lim[2]
    => \A r \in Recommended(DownWindow) : want >= Min({r, copy.graphd})

\* What was recommended in the stabilization window is still among the samples,
\* with its age: the invariant behind StabilizedDown (autoscaler.go
\* stabilizeRecommendation: oldSampleIndex)
Sampled ==
    \A a \in Autoscalers, g \in Ages :
        g < DownWindow => \A r \in made[a][g] :
            \E i \in DOMAIN recs[a] : recs[a][i].rec = r /\ recs[a][i].age = g

\* No pass takes replicas away while a metric cannot be read, unless there are
\* more than the maximum (autoscaler.go computeReplicasForMetrics)
ShrinksBlind ==
    pc = "update" /\ blind /\ nc' # nc /\ want < copy.graphd /\ copy.graphd <= lim[2]
NoShrinkBlind == [][~ShrinksBlind]_vars

\* Whatever rates and windows say, a change stays within the limits that the
\* pass read (autoscaler.go convertDesiredReplicasWithRules and
\* convertDesiredReplicasWithBehaviorRate)
InBounds == pc = "update" => want \in lim[1] .. lim[2]

NetChange(period) == MapThenSumSet(LAMBDA g : changed[cur][g], 0 .. period - 1)

\* A step up stays below what some policy (with Min: every policy) allows
\* above the replicas at the start of its period, however old events were
\* reused (autoscaler.go storeScaleEvent, calculateScaleUpLimitWithScalingRules)
RateLimited ==
    pc = "update" /\ want > copy.graphd /\ copy.graphd >= lim[1] /\ Behavior # Nil
    => LET allows == {p \in Up.policies :
                         want <= ProposedUp(p, copy.graphd - NetChange(p.period))} IN
       IF Up.select = "Min" THEN allows = Up.policies ELSE allows # {}

\* With a load that stays the same the replicas become and stay what it asks
\* for, within the limits (autoscaler.go reconcileAutoscaler)
Settles ==
    \A l \in [Metrics -> Loads], a \in Autoscalers :
        <>[](load = l /\ hpa[a].exists /\ nc.exists /\ nc.graphd # 0)
        => <>[](nc.graphd = Max({Min({Max({l[m] : m \in Metrics}), hpa[a].limits[2]}),
                                 hpa[a].limits[1]}))

\* The autoscaler never writes anything but the replicas of graphd
\* (autoscaler.go reconcileAutoscaler, kube/nebulacluster.go UpdateNebulaCluster)
OnlyGraphd == [][pc = "update" => nc'.storaged = nc.storaged]_vars

\* Two autoscalers of the same pods: none of them scales by its metrics
\* (autoscaler.go validateAndParseSelector)
OneController ==
    pc = "update" /\ copy.graphd \in lim[1] .. lim[2]
    => {a \in Autoscalers : hpa[a].exists} = {cur}

\* No replicas are taken away below a recommendation made within the period of
\* the flag (cmd/autoscaler/app/options/options.go)
FlagRespected ==
    pc = "update" /\ want < copy.graphd /\ copy.graphd <= lim[2]
    => \A r \in Recommended(FlagWindow) : want >= Min({r, copy.graphd})
=============================================================================
