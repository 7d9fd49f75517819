---------------------------- MODULE MCAutoscaler ----------------------------
(***************************************************************************)
(* Autoscaler for TLC.  The variable `setting', chosen once, says which    *)
(* rules an object has and what may happen: no rules, two metrics that     *)
(* cannot always be read, users and a failed call ("blind", whose          *)
(* constants are those of the cfg); rules that limit the rate ("rate"); no *)
(* rules, users who change the replicas or the objects, and a restart      *)
(* ("window").                                                             *)
(***************************************************************************)
EXTENDS Autoscaler
CONSTANTS m1, m2
VARIABLE setting

TwoToFive == {<<2, 5>>}
Rules == [up |-> [window |-> Nil, select |-> "Min",
                  policies |-> {Policy("Pods", 1, 2), Policy("Percent", 50, 1)}],
          down |-> [window |-> 1, select |-> Nil,
                    policies |-> {Policy("Pods", 2, 2)}]]

Rate == INSTANCE Autoscaler WITH
    Metrics <- {m1}, Behavior <- Rules, Limits <- {<<1, 5>>}, Loads <- {1, 4},
    UserReplicas <- {3}, History <- TRUE, MaxFaults <- 0, MaxChanges <- 0
Window == INSTANCE Autoscaler WITH
    Metrics <- {m1}, Limits <- {<<1, 3>>, <<2, 5>>}, UserReplicas <- {0, 3, 6},
    History <- TRUE, MaxFaults <- 0, MaxRestarts <- 1

allVars == <<setting, vars>>

MCInit ==
    \/ setting = "blind" /\ Init
    \/ setting = "rate" /\ Rate!Init
    \/ setting = "window" /\ Window!Init
MCNext ==
    /\ \/ setting = "blind" /\ Next
       \/ setting = "rate" /\ Rate!Next
       \/ setting = "window" /\ Window!Next
    /\ UNCHANGED setting

MCSpec == MCInit /\ [][MCNext]_allVars

-----------------------------------------------------------------------------
\* Replicas are taken away only when nothing recommended in the stabilization
\* window asks for more, and added no faster than the policies allow, however
\* old samples and events were reused; a change stays within the limits
\* (autoscaler.go stabilizeRecommendation, storeScaleEvent,
\* calculateScaleUpLimitWithScalingRules)
ChangesPaced ==
    /\ setting = "blind" => TypeOK /\ InBounds
    /\ setting = "rate" => /\ Rate!TypeOK /\ Rate!StabilizedDown /\ Rate!Sampled
                           /\ Rate!InBounds /\ Rate!RateLimited
    /\ setting = "window" => /\ Window!TypeOK /\ Window!StabilizedDown /\ Window!Sampled
                             /\ Window!InBounds
=============================================================================
