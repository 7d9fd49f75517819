------------------------------ MODULE MCBackups ------------------------------
(***************************************************************************)
(* The controllers of backups for TLC: NebulaBackup, CronBackup and        *)
(* NebulaRestore share no state, so one run checks them side by side.  The *)
(* variable `setting', chosen once, says which controller a behaviour is   *)
(* of and what may happen to it; the variables of the other two are unused. *)
(* The constants of NebulaBackup are those of the setting "backup".        *)
(***************************************************************************)
EXTENDS NebulaBackup

VARIABLES
    setting,
    now, prev, timer, cb, slot, requeue, todo, listed, clean, backups, \* CronBackup
    old, nr, name, left, paths                                         \* NebulaRestore

\* A backup whose owner changes spec.cleanBackupData
Edited == INSTANCE NebulaBackup WITH Edits <- TRUE, MaxFaults <- 0
\* A backup with an outdated cache, whose jobs succeed
Mild == INSTANCE NebulaBackup WITH JobFailures <- FALSE, CacheLag <- TRUE
\* A schedule that is paused and resumed; one of which three slots fall due, so
\* that a fault leaves the overlap of all of them in question; and one of equal
\* distances, left alone.  Faults in the first two
Cron == INSTANCE CronBackup WITH
    Slots <- {2, 4, 6, 8}, MaxTime <- 4, Reserved <- 1,
    Pauses <- TRUE, NeverStart <- FALSE, MaxFaults <- 1
Dense == INSTANCE CronBackup WITH
    Slots <- {1, 2, 3, 4, 5, 6}, MaxTime <- 3, Reserved <- 1,
    Pauses <- FALSE, NeverStart <- FALSE, MaxFaults <- 1
MildCron == INSTANCE CronBackup WITH
    Slots <- {1, 3, 5, 7, 9}, MaxTime <- 4, Reserved <- 1,
    Pauses <- FALSE, NeverStart <- FALSE, MaxFaults <- 0
\* A restore whose calls fail; one whose pods are evicted and whose reads are
\* stale; one that may choose two names and is only restarted
Failing == INSTANCE NebulaRestore WITH
    Metads <- {"m1", "m2"}, Storageds <- {"s1", "s2"}, Names <- {"a"},
    AutoRemoveFailed <- FALSE, OtherNamespace <- FALSE,
    Errors <- TRUE, Evictions <- FALSE, StaleReads <- FALSE, MaxFaults <- 3
Evicted == INSTANCE NebulaRestore WITH
    Metads <- {"m1", "m2"}, Storageds <- {"s1", "s2"}, Names <- {"a"},
    AutoRemoveFailed <- FALSE, OtherNamespace <- FALSE,
    Errors <- TRUE, Evictions <- TRUE, StaleReads <- TRUE, MaxFaults <- 2
Named == INSTANCE NebulaRestore WITH
    Metads <- {"m1", "m2"}, Storageds <- {"s1", "s2"}, Names <- {"a", "b"},
    AutoRemoveFailed <- FALSE, OtherNamespace <- FALSE,
    Errors <- FALSE, Evictions <- FALSE, StaleReads <- FALSE, MaxFaults <- 2

ofBackup  == <<cache, bk, seen, err, job, logged, cleanJob, data, late>>
ofBoth    == <<cluster, pod>>
ofCron    == <<now, prev, timer, cb, slot, requeue, todo, listed, clean, backups>>
ofRestore == <<old, nr, name, left, paths>>
allVars   == <<setting, vars, ofCron, ofRestore>>

BackupSettings  == {"backup", "edited", "mild"}

BackupUnused ==
    /\ cache = 0 /\ bk = 0 /\ seen = 0 /\ err = 0 /\ job = 0 /\ logged = 0
    /\ cleanJob = 0 /\ data = 0 /\ late = 0
CronUnused ==
    /\ now = 0 /\ prev = 0 /\ timer = 0 /\ cb = 0 /\ slot = 0 /\ requeue = 0
    /\ todo = 0 /\ listed = 0 /\ clean = 0 /\ backups = 0
RestoreUnused == old = 0 /\ nr = 0 /\ name = 0 /\ left = 0 /\ paths = 0

MCInit ==
    \/ setting \in BackupSettings /\ CronUnused /\ RestoreUnused /\ Init
    \/ /\ BackupUnused /\ RestoreUnused /\ cluster = 0 /\ pod = 0
       /\ \/ setting = "cron" /\ Cron!Init
          \/ setting = "dense" /\ Dense!Init
          \/ setting = "mildCron" /\ MildCron!Init
    \/ /\ BackupUnused /\ CronUnused
       /\ \/ setting = "failing" /\ Failing!Init
          \/ setting = "evicted" /\ Evicted!Init
          \/ setting = "named" /\ Named!Init

BackupNext ==
    /\ \/ setting = "backup" /\ Next
       \/ setting = "edited" /\ Edited!Next
       \/ setting = "mild" /\ Mild!Next
    /\ UNCHANGED <<setting, ofCron, ofRestore>>
CronNext ==
    /\ \/ setting = "cron" /\ Cron!Next
       \/ setting = "dense" /\ Dense!Next
       \/ setting = "mildCron" /\ MildCron!Next
    /\ UNCHANGED <<setting, ofBackup, ofBoth, ofRestore>>
RestoreNext ==
    /\ \/ setting = "failing" /\ Failing!Next
       \/ setting = "evicted" /\ Evicted!Next
       \/ setting = "named" /\ Named!Next
    /\ UNCHANGED <<setting, ofBackup, ofCron>>
MCNext == BackupNext \/ CronNext \/ RestoreNext

\* The fairness of the three modules, for the settings with a liveness property
MCFairness ==
    /\ WF_vars(setting = "mild" /\ Mild!Pass)
    /\ WF_vars(setting = "mild" /\ CacheSync)
    /\ WF_vars(setting = "mild" /\ PodStart)
    /\ WF_vars(setting = "mild" /\ PodUploads /\ ~logged)
    /\ WF_vars(setting = "mild" /\ Mild!PodEnds)
    /\ WF_vars(setting = "mild" /\ JobEnds)
    /\ WF_vars(setting = "mild" /\ PodGone)
    /\ WF_vars(setting = "mild" /\ Mild!CleanJobEnds)
    /\ WF_vars(setting = "mild" /\ OwnerGone)
    /\ WF_vars(setting = "mild" /\ ClusterRecovers)
    /\ WF_<<MildCron!vars>>(setting = "mildCron" /\ MildCron!Pass)
    /\ WF_<<MildCron!vars>>(setting = "mildCron" /\ MildCron!TimerFires)
    /\ WF_<<MildCron!vars>>(setting = "mildCron" /\ MildCron!Tick)
    /\ \A s \in MildCron!Due :
          /\ WF_<<MildCron!vars>>(setting = "mildCron" /\ MildCron!BackupStarts(s))
          /\ WF_<<MildCron!vars>>(setting = "mildCron" /\ MildCron!BackupEnds(s))
          /\ WF_<<MildCron!vars>>(setting = "mildCron" /\ MildCron!BackupGone(s))
    /\ WF_<<Named!vars>>(setting = "named" /\ Named!Pass)
    /\ WF_<<Named!vars>>(setting = "named" /\ Named!PodSteps)
MCSpec == MCInit /\ [][MCNext]_allVars /\ MCFairness

-----------------------------------------------------------------------------
\* No backup is taken again once it is recorded as finished, as long as passes
\* read the object as it is (nebula_backup_control.go UpdateNebulaBackup)
BackupNoRerun == [][(setting \in {"backup", "edited"}) => ~Reruns]_allVars

\* A complete backup has its data; an object that was deleted after its backup
\* was complete and named leaves none behind, as long as nobody changes its mind about cleaning
\* (nebula_backup_manager.go Clean, removeFinalizer)
BackupCleaned ==
    /\ setting \in BackupSettings => TypeOK /\ CompleteHasData
    /\ setting = "backup" => CleanedWhenGone

\* Every backup is eventually recorded as complete or failed, or deleted
\* (nebula_backup_controller.go Reconcile)
BackupEnds == <>(setting # "mild" \/ Finished(obj) \/ ~obj.exists)

\* A new backup starts beside a running one only after a fault: nothing but
\* lost answers and old reads makes backups overlap
\* (cronbackup_manager.go canPerformNextBackup)
CronOverlap ==
    /\ setting = "cron" => Cron!TypeOK /\ Cron!OverlapNeedsFault
    /\ setting = "dense" => Dense!OverlapNeedsFault

\* Only backups that have ended, and are older than the reserved time, are
\* deleted (cronbackup_control.go cleanupFinishedBackups)
CronCleans == [][setting = "cron" => ~Cron!CleansEarly]_allVars

\* Every slot of a schedule of equal distances is met, or a later one instead,
\* however long the backups run; schedules of other shapes may stop for ever
\* (README; cronbackup_manager.go Sync, mostRecentScheduleTime)
CronMeets ==
    \A s \in MildCron!Due : setting = "mildCron" /\ now >= s
                                ~> setting # "mildCron" \/ obj.last >= s

\* A complete restore has loaded the backup into every metad and storaged, and
\* whatever is retried, evicted or read late, no storaged starts before all
\* metads are restored: it would register at an empty metad
\* (nebula_restore_manager.go syncRestoreProcess)
RestoreSound ==
    /\ setting = "failing" => Failing!TypeOK /\ Failing!CompleteHasData
    /\ setting = "named" => Named!CompleteHasData /\ Named!OneCluster
    /\ setting = "evicted" => Evicted!StoragedAfterMetad

\* Every restore that is only restarted ends as complete or failed
\* (nebula_restore_controller.go Reconcile)
RestoreEnds == <>(setting # "named" \/ obj.complete \/ obj.failed = "True")
=============================================================================
