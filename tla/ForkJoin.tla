------------------------------ MODULE ForkJoin ------------------------------
(***************************************************************************)
(* What a group of pkg/util/async promises its callers: the tasks added    *)
(* to it are started once each, at most Concurrency of them are active at  *)
(* a time, and the wait for them ends with an answer that accounts for     *)
(* every one of them, or is given up.                                      *)
(***************************************************************************)
EXTENDS Naturals

CONSTANTS Concurrency,   \* tasks active at a time
          MaxWorkers     \* bound on the tasks added

VARIABLES tasks,    \* tasks added
          started,  \* tasks started
          active,   \* tasks started and not finished
          failed,   \* tasks that finished with an error
          answer    \* "none", "ok", "error" or "timeout"

joinVars == <<tasks, started, active, failed, answer>>

JoinInit == /\ tasks = 0 /\ started = 0 /\ active = 0 /\ failed = 0
            /\ answer = "none"

AddTask == /\ started = 0 /\ answer = "none" /\ tasks < MaxWorkers
           /\ tasks' = tasks + 1
           /\ UNCHANGED <<started, active, failed, answer>>

StartTask == /\ started < tasks /\ active < Concurrency
             /\ started' = started + 1 /\ active' = active + 1
             /\ UNCHANGED <<tasks, failed, answer>>

FinishTask == /\ active > 0
              /\ active' = active - 1
              /\ failed' \in {failed, failed + 1}
              /\ UNCHANGED <<tasks, started, answer>>

Answer == /\ answer = "none" /\ started = tasks /\ active = 0
          /\ answer' = IF failed = 0 THEN "ok" ELSE "error"
          /\ UNCHANGED <<tasks, started, active, failed>>

GiveUp == /\ answer = "none"
          /\ answer' = "timeout"
          /\ UNCHANGED <<tasks, started, active, failed>>

JoinNext == AddTask \/ StartTask \/ FinishTask \/ Answer \/ GiveUp

JoinSpec == JoinInit /\ [][JoinNext]_joinVars
=============================================================================
