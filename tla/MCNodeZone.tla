----------------------------- MODULE MCNodeZone -----------------------------
(***************************************************************************)
(* NodeZone for TLC, its safety.  The variable `setting', chosen once,     *)
(* says what happens to storaged: users scale it twice by two pods while a *)
(* zone is full for a time and a call fails ("scaled", whose constants are *)
(* those of the cfg), or a pod is evicted and another is rebuilt ("lost"). *)
(* The two differ in nothing that the invariant speaks of.                 *)
(***************************************************************************)
EXTENDS NodeZone, TLC

VARIABLE setting

Lost == INSTANCE NodeZone WITH
    Sizes <- {3}, Patient <- FALSE, MaxEdits <- 0, MaxEvictions <- 1, MaxRebuilds <- 1,
    MaxFull <- 0, MaxFaults <- 0

ZonePermutations == Permutations(Zones)

MCInit ==
    \/ setting = "scaled" /\ Init
    \/ setting = "lost" /\ Lost!Init
MCNext ==
    /\ \/ setting = "scaled" /\ Next
       \/ setting = "lost" /\ Lost!Next
    /\ UNCHANGED setting
MCSpec == MCInit /\ [][MCNext]_<<setting, vars>>

=============================================================================
