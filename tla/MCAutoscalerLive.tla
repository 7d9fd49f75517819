------------------------- MODULE MCAutoscalerLive -------------------------
(* Autoscaler for TLC under a load that may stop changing, with its fairness. *)
EXTENDS Autoscaler

OneToThree == {<<1, 3>>}
\* Rules that limit the rate; a stabilization window for scaling down only
Rules == [up |-> [window |-> Nil, select |-> "Min",
                  policies |-> {Policy("Pods", 1, 2), Policy("Percent", 50, 1)}],
          down |-> [window |-> 1, select |-> Nil,
                    policies |-> {Policy("Pods", 2, 1)}]]
=============================================================================
