----------------------------- MODULE CronBackup -----------------------------
(***************************************************************************)
(* One NebulaCronBackup: creating the backup of every slot of its schedule *)
(* and deleting the expired ones (pkg/controller/cronbackup).              *)
(*                                                                         *)
(* The controller runs when the object is in its queue: after a change of  *)
(* the object, or when the delay that the last pass asked for has passed.  *)
(* LastBackup and LastScheduleTime are set together: both are the slot     *)
(* `last' of the status, 0 when unset; a backup is named after its slot.   *)
(* The object itself is not deleted here: it has no finalizer, and its     *)
(* backups go with it by their owner references.                           *)
(***************************************************************************)
EXTENDS Integers, FiniteSetsExt, SequencesExt

CONSTANTS
    Slots,      \* the times of the schedule, some of them after MaxTime + 1
    MaxTime,    \* the clock stops here; the object is created at 0
    Reserved,   \* spec.maxReservedTime
    Pauses,     \* do users set and clear spec.pause?
    NeverStart, \* may a backup fail before it started?
    MaxFaults   \* bound on failed calls, lost answers, stale reads, restarts
                \* and deletions by users

Times == 0 .. MaxTime
NoDelay == -MaxTime - 2
NoBackup == [state |-> "none", created |-> 0, started |-> 0, deleting |-> FALSE]
Due == {s \in Slots : s <= MaxTime}
CronBackupType == [last : Due \union {0}, paused : BOOLEAN]
Backup == [state : {"none", "running", "complete", "failed"},
           created : Times, started : Times, deleting : BOOLEAN]

VARIABLES
    now,     \* the clock
    obj,     \* the object at the API server
    prev,    \* the version before, which the cache may still hold
    queued,  \* is the object in the work queue?
    timer,   \* the time of a delayed requeue; -1: none
    pc,      \* the next step of the pass
    cb,      \* its copy of the object
    slot,    \* the slot to create
    requeue, \* the delay to ask for, or NoDelay
    todo,    \* the expired backups that are to be deleted
    listed,  \* the finished backups of the list, in their order
    clean,   \* did all deletions succeed, and were there any?
    backups, \* the NebulaBackup of every slot
    faults   \* faults so far

pass == <<cb, slot, requeue, todo, listed, clean>>
vars == <<now, obj, prev, queued, timer, pc, pass, backups, faults>>

TypeOK ==
    /\ now \in Times /\ {obj, prev, cb} \subseteq CronBackupType
    /\ queued \in BOOLEAN /\ timer \in -1 .. MaxTime + Max(Slots)
    /\ pc \in {"idle", "perform", "sync", "create", "list", "delete", "cleaned", "save",
            "wait"}
    /\ slot \in Due \union {0}
    /\ requeue \in NoDelay .. Max(Slots)
    /\ todo \subseteq Due /\ Range(listed) \subseteq Due /\ clean \in BOOLEAN
    /\ backups \in [Due -> Backup] /\ faults \in 0 .. MaxFaults

Init ==
    /\ now = 0 /\ obj = [last |-> 0, paused |-> FALSE] /\ prev = obj /\ cb = obj
    /\ queued = TRUE /\ timer = -1 /\ pc = "idle"
    /\ slot = 0 /\ requeue = NoDelay /\ todo = {} /\ listed = <<>> /\ clean = FALSE
    /\ backups = [s \in Due |-> NoBackup] /\ faults = 0

-----------------------------------------------------------------------------
(***************************************************************************)
(* The schedule.                                                           *)
(***************************************************************************)
\* cron.Schedule.Next
NextSlot(t) == Min({s \in Slots : s > t})

\* mutant: the search does not go back one distance
MostRecentTooLate(earliest, t) ==
    LET t1 == NextSlot(earliest)
        gap == NextSlot(t1) - t1
        potential == t1 + ((t - t1) \div gap) * gap
        later == {s \in Slots : potential < s /\ s <= t} IN
    IF t < t1 THEN 0 ELSE IF t < t1 + gap THEN t1
    ELSE IF later = {} THEN 0 ELSE Max(later)

\* mostRecentScheduleTime: the last slot to be met, or 0.  The search starts
\* from an approximation that assumes equal distances between all slots
MostRecentScheduleTime(earliest, t) ==
    LET t1 == NextSlot(earliest)
        gap == NextSlot(t1) - t1
        missed == (t - t1) \div gap + 1
        potential == t1 + (missed - 2) * gap
        later == {s \in Slots : potential < s /\ s <= t} IN
    IF t < t1 THEN 0 ELSE IF t < t1 + gap THEN t1
    ELSE IF later = {} THEN 0 ELSE Max(later)

\* nextScheduleTimeDuration
NextScheduleTimeDuration(last, t) ==
    LET r == MostRecentScheduleTime(last, t) IN
    NextSlot(IF r = 0 THEN last ELSE r) - t

-----------------------------------------------------------------------------
(***************************************************************************)
(* The pass.                                                               *)
(***************************************************************************)
EndPass ==
    /\ pc' = "idle" /\ cb' = [last |-> 0, paused |-> FALSE]
    /\ slot' = 0 /\ requeue' = NoDelay /\ todo' = {} /\ listed' = <<>> /\ clean' = FALSE

\* An error ends the pass; it is retried after defaultTimeout
Error ==
    /\ EndPass /\ queued' = TRUE
    /\ UNCHANGED <<now, obj, prev, timer>>

Fault == faults < MaxFaults /\ faults' = faults + 1

\* UpdateCronBackupStatus replaces the whole status by that of the copy
WriteStatus ==
    /\ obj' = [obj EXCEPT !.last = cb.last]
    /\ prev' = IF obj' = obj THEN prev ELSE obj

\* An error of Sync, whose copy of the status is written before the pass ends
SyncError ==
    /\ EndPass /\ queued' = TRUE /\ WriteStatus
    /\ UNCHANGED <<now, timer>>

\* A pass starts from the cached object; when that is old, the event of the
\* newer one is still to come
Reconcile ==
    /\ pc = "idle" /\ queued
    /\ \/ cb' = obj /\ queued' = FALSE /\ UNCHANGED faults
       \/ cb' = prev /\ prev # obj /\ queued' = TRUE /\ Fault
    /\ pc' = IF cb'.paused THEN "list" ELSE "perform"
    /\ UNCHANGED <<now, obj, prev, timer, slot, requeue, todo, listed, clean, backups>>

Finished(b) == b.state \in {"complete", "failed"}

\* mutant: the last backup is not waited for
CanPerformAlways ==
    /\ pc = "perform"
    /\ pc' = "sync" /\ UNCHANGED <<now, obj, prev, queued, timer, pass>>
    /\ UNCHANGED <<backups, faults>>

\* canPerformNextBackup: a backup that is gone counts as finished; while the
\* last one runs the object is requeued after reconcileTimeOut
CanPerformNextBackup ==
    /\ pc = "perform"
    /\ IF cb.last # 0 /\ backups[cb.last].state = "running"
       THEN \/ SyncError /\ UNCHANGED faults
            \/ Fault /\ Error
       ELSE pc' = "sync" /\ UNCHANGED <<now, obj, prev, queued, timer, pass, faults>>
    /\ UNCHANGED backups

\* nextScheduleTime: what is due now, or how long to wait
NextScheduleTime ==
    LET r == MostRecentScheduleTime(cb.last, now) IN
    /\ pc = "sync"
    /\ IF r = 0
       THEN /\ pc' = "list" /\ requeue' = NextScheduleTimeDuration(cb.last, now)
            /\ UNCHANGED slot
       ELSE pc' = "create" /\ slot' = r /\ UNCHANGED requeue
    /\ UNCHANGED <<now, obj, prev, queued, timer, cb, todo, listed, clean, backups, faults>>

\* createBackup, where AlreadyExists is no error; a lost answer is one.  Then
\* Sync sets the status of its copy and computes the delay
CreateBackup ==
    /\ pc = "create"
    /\ backups' = IF backups[slot].state # "none" THEN backups
                  ELSE [backups EXCEPT ![slot] = [NoBackup EXCEPT
                           !.state = "running", !.created = now]]
    /\ \/ /\ pc' = "list" /\ cb' = [cb EXCEPT !.last = slot]
          /\ requeue' = NextScheduleTimeDuration(slot, now)
          /\ UNCHANGED <<now, obj, prev, queued, timer, slot, todo, listed, clean, faults>>
       \/ Fault /\ SyncError

-----------------------------------------------------------------------------
(***************************************************************************)
(* Expired backups.                                                        *)
(***************************************************************************)
\* byBackupStartTime.Less: unstarted backups last, names as a tiebreaker
Less(s, t) ==
    LET a == backups[s].started
        b == backups[t].started IN
    \/ a # 0 /\ b = 0
    \/ (a = 0) = (b = 0) /\ (a < b \/ (a = b /\ s < t))

\* mutant: backups that still run are cleaned up too
SortRunning == SetToSortSeq({s \in Due : backups[s].state # "none"
                                 /\ ~backups[s].deleting}, Less)

\* sortBackupsByAscOrder
SortBackupsByAscOrder ==
    SetToSortSeq({s \in Due : Finished(backups[s]) /\ ~backups[s].deleting}, Less)

\* calculateExpiredBackups: the longest prefix of expired ones
CalculateExpiredBackups(asc) ==
    LET keep == {i \in 1 .. Len(asc) : backups[asc[i]].created >= now - Reserved} IN
    {asc[i] : i \in 1 .. Min(keep \union {Len(asc) + 1}) - 1}

\* getBackupsToBeReconciled and the choice of cleanupFinishedBackups
ListBackups ==
    LET expired == CalculateExpiredBackups(SortBackupsByAscOrder) IN
    /\ pc = "list"
    /\ listed' = SortBackupsByAscOrder /\ todo' = expired
    /\ clean' = (expired # {})
    /\ pc' = IF expired = {} THEN "save" ELSE "delete"
    /\ UNCHANGED <<now, obj, prev, queued, timer, cb, slot, requeue, backups, faults>>

\* A worker of the group; DeleteNebulaBackup may fail.  A backup with a
\* finalizer stays until its data is cleaned
DeleteBackup(s) ==
    /\ pc = "delete" /\ s \in todo
    /\ todo' = todo \ {s}
    /\ \/ \E d \in IF backups[s].state = "none" THEN {NoBackup}
                   ELSE {NoBackup, [backups[s] EXCEPT !.deleting = TRUE]} :
             backups' = [backups EXCEPT ![s] = d]
          /\ UNCHANGED <<clean, faults>>
       \/ Fault /\ clean' = FALSE /\ UNCHANGED backups
    /\ UNCHANGED <<now, obj, prev, queued, timer, pc, cb, slot, requeue, listed>>

\* group.Wait returned
Deleted ==
    /\ pc = "delete" /\ todo = {}
    /\ pc' = IF clean THEN "cleaned" ELSE "save"
    /\ UNCHANGED <<now, obj, prev, queued, timer, pass, backups, faults>>

\* calculateExpirationTime: when the first of the finished backups expires.
\* Clocks are finer than the timestamps, a delay of 0 does not happen: a
\* backup that is due is looked at again after 100ms
CalculateExpirationTime ==
    IF listed = <<>> THEN NoDelay
    ELSE LET left == backups[Head(listed)].created + Reserved - now IN
         IF left < 0 THEN 0 ELSE left

\* A cleanup is recorded with its time, which is a watch event.  A failed call
\* is an error of the pass, here and below
SaveCleanTime ==
    /\ pc = "cleaned"
    /\ \/ /\ pc' = "save" /\ WriteStatus /\ queued' = TRUE
          /\ UNCHANGED <<now, timer, pass, faults>>
       \/ Fault /\ Error
    /\ UNCHANGED backups

\* With a delay to wait for the status is written; a change is a watch event
SaveStatus ==
    LET r == IF cb.paused /\ requeue = NoDelay THEN CalculateExpirationTime ELSE requeue IN
    /\ pc = "save"
    /\ \/ /\ pc' = "wait" /\ requeue' = r
          /\ \/ r = NoDelay /\ UNCHANGED <<obj, prev, queued>>
             \/ r # NoDelay /\ WriteStatus /\ queued' = (queued \/ obj' # obj)
          /\ UNCHANGED <<now, timer, cb, slot, todo, listed, clean, faults>>
       \/ Fault /\ Error
    /\ UNCHANGED backups

\* Reconcile returns: a delay above 0 is waited for, another one is dropped
\* by the work queue.  The delays of calculateExpirationTime are above 0
Requeue ==
    /\ pc = "wait" /\ EndPass
    /\ IF requeue # NoDelay /\ (requeue > 0 \/ cb.paused)
       THEN timer' = IF timer = -1 THEN now + requeue ELSE Min({timer, now + requeue})
       ELSE UNCHANGED timer
    /\ UNCHANGED <<now, obj, prev, queued, backups, faults>>

\* A read fails
CallFails ==
    /\ \/ pc = "perform" /\ SyncError
       \/ pc = "list" /\ Error
    /\ Fault /\ UNCHANGED backups

\* The operator restarts and lists all objects
Restart ==
    /\ Fault /\ EndPass /\ queued' = TRUE /\ timer' = -1 /\ prev' = obj
    /\ UNCHANGED <<now, obj, backups>>

-----------------------------------------------------------------------------
\* From reading the clock to its end a pass takes less than a tick
Tick ==
    /\ now < MaxTime /\ now' = now + 1
    /\ pc \in {"idle", "perform", "sync"}
    /\ UNCHANGED <<obj, prev, queued, timer, pc, pass, backups, faults>>

TimerFires ==
    /\ timer # -1 /\ timer <= now
    /\ timer' = -1 /\ queued' = TRUE
    /\ UNCHANGED <<now, obj, prev, pc, pass, backups, faults>>

SetPause ==
    /\ Pauses /\ obj' = [obj EXCEPT !.paused = ~@] /\ prev' = obj /\ queued' = TRUE
    /\ UNCHANGED <<now, timer, pc, pass, backups, faults>>

\* TimeStarted is set when the backup job was created
BackupStarts(s) ==
    /\ backups[s].state = "running" /\ backups[s].started = 0 /\ now > 0
    /\ backups' = [backups EXCEPT ![s].started = now]
    /\ UNCHANGED <<now, obj, prev, queued, timer, pc, pass, faults>>

BackupEnds(s) ==
    /\ backups[s].state = "running" /\ (backups[s].started # 0 \/ NeverStart)
    /\ \E r \in IF backups[s].started = 0 THEN {"failed"} ELSE {"complete", "failed"} :
          backups' = [backups EXCEPT ![s].state = r]
    /\ UNCHANGED <<now, obj, prev, queued, timer, pc, pass, faults>>

UserDeletes(s) ==
    /\ backups[s].state # "none" /\ ~backups[s].deleting /\ Fault
    /\ \E d \in {NoBackup, [backups[s] EXCEPT !.deleting = TRUE]} :
          backups' = [backups EXCEPT ![s] = d]
    /\ UNCHANGED <<now, obj, prev, queued, timer, pc, pass>>

BackupGone(s) ==
    /\ backups[s].deleting
    /\ backups' = [backups EXCEPT ![s] = NoBackup]
    /\ UNCHANGED <<now, obj, prev, queued, timer, pc, pass, faults>>

Sync == CanPerformNextBackup \/ NextScheduleTime \/ CreateBackup
Cleanup == ListBackups \/ (\E s \in Due : DeleteBackup(s)) \/ Deleted
Pass == Reconcile \/ Sync \/ Cleanup \/ SaveCleanTime \/ SaveStatus \/ Requeue
Next ==
    \/ Pass \/ CallFails \/ Restart \/ Tick \/ TimerFires \/ SetPause
    \/ \E s \in Due : BackupStarts(s) \/ BackupEnds(s) \/ BackupGone(s) \/ UserDeletes(s)

\* Backups run for less than the distance of two slots only by luck, but they
\* all end; the operator and the clock go on
Fairness ==
    /\ WF_vars(Pass) /\ WF_vars(TimerFires) /\ WF_vars(Tick)
    /\ \A s \in Due : WF_vars(BackupStarts(s)) /\ WF_vars(BackupEnds(s))
                      /\ WF_vars(BackupGone(s))
Spec == Init /\ [][Next]_vars /\ Fairness

-----------------------------------------------------------------------------
(***************************************************************************)
(* Properties.                                                             *)
(***************************************************************************)
\* The approximation of mostRecentScheduleTime finds the last slot that is
\* due, from every slot that may have been met before
\* (cronbackup_manager.go mostRecentScheduleTime)
FindsMostRecent ==
    \A earliest \in {s \in Slots \union {0} : s <= now} :
        LET due == {s \in Slots : earliest < s /\ s <= now} IN
        MostRecentScheduleTime(earliest, now) = IF due = {} THEN 0 ELSE Max(due)

\* The controller never sleeps through the rest of the schedule: between two
\* passes it is queued, or wakes up at the next slot
\* (cronbackup_manager.go nextScheduleTimeDuration)
NeverAsleep ==
    pc = "idle" /\ ~obj.paused
        => queued \/ (timer # -1 /\ timer <= NextSlot(now))

\* A new backup starts beside a running one only after a fault: nothing but
\* lost answers and old reads makes backups overlap
\* (cronbackup_manager.go canPerformNextBackup)
OverlapNeedsFault ==
    Cardinality({s \in Due : backups[s].state = "running" /\ ~backups[s].deleting})
        <= 1 + faults

\* A backup is deleted that goes on, or is not older than the reserved time
CleansEarly ==
    \E s \in Due : /\ pc = "delete" /\ s \in todo \ todo' /\ backups'[s] # backups[s]
                   /\ ~Finished(backups[s]) \/ backups[s].created >= now - Reserved

\* Only backups that have ended, and are older than the reserved time, are
\* deleted (cronbackup_control.go cleanupFinishedBackups)
CleansOnlyExpired == [][~CleansEarly]_vars

\* On a schedule of equal distances every slot is met, or a later one instead,
\* unless the object is paused (cronbackup_manager.go Sync); on others a late
\* pass may find no slot and ask for a delay in the past, and the schedule ends
ScheduleMet ==
    \A s \in Due : now >= s /\ ~obj.paused ~> obj.last >= s \/ obj.paused

\* Finished backups do not outlive the reserved time, as long as there is a
\* slot at which they can be noticed (cronbackup_control.go UpdateCronBackup)
ExpiredGo ==
    \A s \in Due :
        Finished(backups[s]) /\ backups[s].created + Reserved < now
            /\ NextSlot(now) <= MaxTime
        ~> ~Finished(backups[s]) \/ backups[s].deleting \/ obj.paused

\* ... nor do those of a paused object, whose passes wake up at the time of
\* expiration instead (cronbackup_control.go calculateExpirationTime)
ExpiredGoPaused ==
    \A s \in Due :
        Finished(backups[s]) /\ backups[s].created + Reserved < now
            /\ now < MaxTime
        ~> ~Finished(backups[s]) \/ backups[s].deleting \/ ~obj.paused
=============================================================================
