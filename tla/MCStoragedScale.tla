-------------------------- MODULE MCStoragedScale --------------------------
(***************************************************************************)
(* StoragedScale for TLC, used with care: users wait for a settled cluster, *)
(* the cache is up to date and pods stay up.  The variable `setting',      *)
(* chosen once, says whether the cluster balances its data by itself       *)
(* ("safe", whose constants are those of the cfg) or not ("manual").       *)
(***************************************************************************)
EXTENDS StoragedScaleInv

VARIABLE setting

Manual == INSTANCE StoragedScaleInv WITH AutoBalance <- FALSE, MaxFaults <- 1

MCInit == setting \in {"safe", "manual"} /\ Init
MCNext ==
    /\ \/ setting = "safe" /\ Next
       \/ setting = "manual" /\ Manual!Next
    /\ UNCHANGED setting
MCSpec == MCInit /\ [][MCNext]_<<setting, vars>>

-----------------------------------------------------------------------------
\* A settled cluster that balances by itself has partitions of every space on
\* every replica and on nothing else; on the way the records of the scaler say no more than metad
\* has done, the invariant from which DropSafe, ShrinkSafe and ReclaimSafe are
\* proved (storaged_cluster.go addStorageHosts, storaged_scaler.go ScaleOut, ScaleIn)
SettledSound ==
    /\ TypeOK
    /\ setting = "safe" => SettledBalanced /\ SettledInv
    /\ setting = "manual" => Manual!SettledInv
=============================================================================
