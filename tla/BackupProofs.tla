---------------------------- MODULE BackupProofs ----------------------------
(***************************************************************************)
(* What is proved of the controllers of backups: the groups of             *)
(* pkg/util/async with which they, and the updates, make their calls; one  *)
(* NebulaBackup, from its job to the cleaning of its data; the backups     *)
(* that a NebulaCronBackup starts; and one NebulaRestore, which starts     *)
(* nothing before its data.  Each part has an inductive invariant of its   *)
(* own.  The parts share no step; those with constants of their own state  *)
(* what they assume of them as the condition of each theorem.              *)
(***************************************************************************)
EXTENDS AsyncGroup, FiniteSetTheorems, WellFoundedInduction, TLAPS

CONSTANTS
    AutoRemoveFinished, Edits, JobFailures, CacheLag, MaxFaults, \* NebulaBackup
    Slots, MaxTime, Reserved, Pauses, NeverStart,                \* CronBackup
    Metads, Storageds, Names, AutoRemoveFailed, OtherNamespace,  \* NebulaRestore
    Errors, Evictions, StaleReads
VARIABLES
    obj, queued, pc, faults, cluster, pod,                       \* of several
    cache, bk, seen, err, job, logged, cleanJob, data, late,
    now, prev, timer, cb, slot, requeue, todo, listed, clean, backups,
    old, nr, name, left, paths
Backup == INSTANCE NebulaBackup
Cron == INSTANCE CronBackup
Restore == INSTANCE NebulaRestore

-----------------------------------------------------------------------------
(* The groups. *)

\* The strengthening: the tokens never exceed the buffer of concurCh, nothing
\* has happened before Wait, and Wait has an answer exactly when it returned.
GroupInv == /\ TypeOK
            /\ TokensHeld
            /\ tokens <= Concurrency
            /\ phase = "add" => launched = 0 /\ tokens = 0
            /\ phase = "returned" <=> result # "none"
            /\ phase \in {"select", "release"} => res < workers
            /\ result \in {"ok", "error"} => res = workers
            /\ result = "ok" => errs = 0
            /\ result = "error" => errs > 0

\* The strengthening holds before the group is used.
LEMMA GroupInvInit == Init => GroupInv
BY WorkersAssumption, ConcurrencyAssumption
   DEF Init, GroupInv, TypeOK, TokensHeld, Held

\* Every step of the launcher, the workers and Wait keeps the strengthening.
LEMMA GroupInvStep == GroupInv /\ [Next]_vars => GroupInv'
<1> SUFFICES ASSUME GroupInv, [Next]_vars PROVE GroupInv'
  OBVIOUS
<1> USE WorkersAssumption, ConcurrencyAssumption
    DEF GroupInv, TypeOK, TokensHeld, Held, launcher, received
<1>1. CASE Add
  BY <1>1 DEF Add
<1>2. CASE Wait
  BY <1>2 DEF Wait
<1>3. CASE TakeToken
  BY <1>3 DEF TakeToken
<1>4. CASE GoWorker
  BY <1>4 DEF GoWorker
<1>5. CASE WorkerSends
  BY <1>5 DEF WorkerSends
<1>6. CASE Receive
  BY <1>6 DEF Receive
<1>7. CASE Release
  BY <1>7 DEF Release, Aggregate
<1>8. CASE ContextDone
  BY <1>8 DEF ContextDone
<1>9. CASE UNCHANGED vars
  BY <1>9 DEF vars
<1> QED
  BY <1>1, <1>2, <1>3, <1>4, <1>5, <1>6, <1>7, <1>8, <1>9 DEF Next

\* The strengthening is an invariant of the group.
LEMMA GroupInvariant == Spec => []GroupInv
BY GroupInvInit, GroupInvStep, PTL DEF Spec

\* Counters and phases have their types (async.go Group, Wait).
THEOREM GroupTypeCorrect == Spec => []TypeOK
<1>1. GroupInv => TypeOK
  BY DEF GroupInv
<1> QED
  BY <1>1, GroupInvariant, PTL

\* No more than Concurrency workers run at a time, for every group.
THEOREM GroupAtMostConcurrency == Spec => []AtMostConcurrency
<1>1. GroupInv => AtMostConcurrency
  BY ConcurrencyAssumption
     DEF GroupInv, TypeOK, TokensHeld, Held, AtMostConcurrency
<1> QED
  BY <1>1, GroupInvariant, PTL

\* The tokens of concurCh are exactly the workers not accounted for.
THEOREM GroupTokensHeld == Spec => []TokensHeld
<1>1. GroupInv => TokensHeld
  BY DEF GroupInv
<1> QED
  BY <1>1, GroupInvariant, PTL

\* Wait answers for all workers of the group or gives up with a time-out.
THEOREM GroupJoinsAll == Spec => []JoinsAll
<1>1. GroupInv => JoinsAll
  BY DEF GroupInv, TypeOK, TokensHeld, Held, JoinsAll
<1> QED
  BY <1>1, GroupInvariant, PTL

\* A step of the group is a step of ForkJoin or leaves its state alone.
LEMMA GroupStepJoins == GroupInv /\ [Next]_vars => [Join!JoinNext]_(Join!joinVars)
<1> SUFFICES ASSUME GroupInv, [Next]_vars PROVE [Join!JoinNext]_(Join!joinVars)
  OBVIOUS
<1> USE WorkersAssumption, ConcurrencyAssumption
    DEF GroupInv, TypeOK, TokensHeld, Held, launcher, received, Join!joinVars
<1>1. CASE Add
  BY <1>1 DEF Add, Join!JoinNext, Join!AddTask
<1>2. CASE Wait
  BY <1>2 DEF Wait, Join!JoinNext, Join!Answer
<1>3. CASE TakeToken
  BY <1>3 DEF TakeToken
<1>4. CASE GoWorker
  BY <1>4 DEF GoWorker, Join!JoinNext, Join!StartTask
<1>5. CASE WorkerSends
  BY <1>5 DEF WorkerSends, Join!JoinNext, Join!FinishTask
<1>6. CASE Receive
  BY <1>6 DEF Receive
<1>7. CASE Release
  BY <1>7 DEF Release, Aggregate, Join!JoinNext, Join!Answer
<1>8. CASE ContextDone
  BY <1>8 DEF ContextDone, Join!JoinNext, Join!GiveUp
<1>9. CASE UNCHANGED vars
  BY <1>9 DEF vars
<1> QED
  BY <1>1, <1>2, <1>3, <1>4, <1>5, <1>6, <1>7, <1>8, <1>9 DEF Next

\* The goroutines and channels implement the bounded fork and join.
THEOREM GroupImplements == Spec => Implements
<1>1. Init => Join!JoinInit
  BY DEF Init, Join!JoinInit
<1> QED
  BY <1>1, GroupInvariant, GroupStepJoins, PTL DEF Spec, Implements, Join!JoinSpec

-----------------------------------------------------------------------------
(* One backup. *)

\* What the module assumes of the constants of a backup.
BackupConstants ==
    /\ AutoRemoveFinished \in BOOLEAN /\ Edits \in BOOLEAN
    /\ JobFailures \in BOOLEAN /\ CacheLag \in BOOLEAN
    /\ MaxFaults \in Nat
\* The types, with the constants; and with the sets of values as conjuncts.
BackupTyped == BackupConstants /\ Backup!TypeOK
BackupFields ==
    /\ BackupConstants
    /\ obj \in Backup!Object /\ cache \in Backup!Object /\ bk \in Backup!Object
    /\ queued \in BOOLEAN /\ pc \in Backup!Steps /\ err \in Backup!Errors
    /\ seen \in Backup!JobState /\ job \in Backup!JobState /\ cleanJob \in Backup!JobState
    /\ pod \in {"none", "running", "succeeded", "failed"}
    /\ logged \in BOOLEAN /\ data \in BOOLEAN /\ late \in BOOLEAN
    /\ cluster \in {"ready", "unready", "gone"} /\ faults \in 0 .. MaxFaults
\* The two are the same.
LEMMA BackupTypes == BackupTyped <=> BackupFields
BY Zenon DEF Backup!TypeOK, BackupTyped, BackupFields

\* A new object, before its first pass, has its types.
LEMMA BackupTypeInit == BackupConstants /\ Backup!Init => BackupTyped
<1> SUFFICES ASSUME BackupConstants, Backup!Init PROVE BackupTyped
  OBVIOUS
<1>0. PICK c \in BOOLEAN : obj = Backup!New(c) /\ cache = Backup!New(c) /\ bk = Backup!New(c)
  BY Zenon DEF Backup!Init
<1>1. Backup!New(c) \in Backup!Object
  BY <1>0, Zenon DEF Backup!New, Backup!Object, Backup!NoError, Backup!Errors
<1>2. obj \in Backup!Object /\ cache \in Backup!Object /\ bk \in Backup!Object
  BY <1>0, <1>1
<1>3. Backup!NoError \in Backup!Errors
  BY DEF Backup!NoError, Backup!Errors
<1>4. faults \in 0 .. MaxFaults
  BY DEF BackupConstants, Backup!Init
<1> QED
  BY <1>2, <1>3, <1>4, BackupTypes, Zenon DEF BackupFields, Backup!Init, Backup!Steps,
     Backup!JobState

-----------------------------------------------------------------------------
(* What the writes and the ends of a pass of a backup do. *)

\* The constants, where the types are known.
LEMMA Constants ==
    BackupTyped => /\ AutoRemoveFinished \in BOOLEAN /\ Edits \in BOOLEAN
                   /\ JobFailures \in BOOLEAN /\ CacheLag \in BOOLEAN
                   /\ MaxFaults \in Nat
BY DEF BackupTyped, BackupConstants

\* The status update Running leaves an object whose other fields are those of the object before it.
LEMMA UpdateRunning ==
    ASSUME NEW o \in Backup!Object, NEW n, n = [o EXCEPT !.running = TRUE, !.phase = "Running"]
    PROVE  /\ n \in Backup!Object
           /\ n.exists = o.exists /\ n.deleting = o.deleting /\ n.finalizer = o.finalizer
           /\ n.cleanData = o.cleanData /\ n.named = o.named /\ n.complete = o.complete
           /\ n.clean = o.clean /\ n.failed = o.failed
BY Zenon DEF Backup!Object
\* The name of the backup.
LEMMA UpdateName ==
    ASSUME NEW o \in Backup!Object, NEW n, n = [o EXCEPT !.named = TRUE, !.phase = ""]
    PROVE  /\ n \in Backup!Object
           /\ n.exists = o.exists /\ n.deleting = o.deleting /\ n.finalizer = o.finalizer
           /\ n.cleanData = o.cleanData /\ n.complete = o.complete /\ n.clean = o.clean
           /\ n.failed = o.failed
           /\ n.named = TRUE
BY Zenon DEF Backup!Object
\* The condition Complete.
LEMMA UpdateComplete ==
    ASSUME NEW o \in Backup!Object, NEW n, n = [o EXCEPT !.complete = TRUE, !.phase = "Complete"]
    PROVE  /\ n \in Backup!Object
           /\ n.exists = o.exists /\ n.deleting = o.deleting /\ n.finalizer = o.finalizer
           /\ n.cleanData = o.cleanData /\ n.named = o.named /\ n.clean = o.clean
           /\ n.failed = o.failed
           /\ n.complete = TRUE
BY Zenon DEF Backup!Object
\* The condition Failed.
LEMMA UpdateFailed ==
    ASSUME NEW o \in Backup!Object, NEW e \in Backup!Errors, NEW n,
           n = [o EXCEPT !.failed = e, !.phase = "Failed"]
    PROVE  /\ n \in Backup!Object
           /\ n.exists = o.exists /\ n.deleting = o.deleting /\ n.finalizer = o.finalizer
           /\ n.cleanData = o.cleanData /\ n.named = o.named /\ n.complete = o.complete
           /\ n.clean = o.clean
           /\ n.failed = e
BY Zenon DEF Backup!Object
\* The condition Clean.
LEMMA UpdateClean ==
    ASSUME NEW o \in Backup!Object, NEW c \in {"False", "True"}, NEW n, n = [o EXCEPT !.clean = c]
    PROVE  /\ n \in Backup!Object
           /\ n.exists = o.exists /\ n.deleting = o.deleting /\ n.finalizer = o.finalizer
           /\ n.cleanData = o.cleanData /\ n.named = o.named /\ n.complete = o.complete
           /\ n.failed = o.failed
           /\ n.clean = c
BY Zenon DEF Backup!Object
\* A user edits the spec.
LEMMA UpdateSpec ==
    ASSUME NEW o \in Backup!Object, NEW n, n = [o EXCEPT !.cleanData = ~@]
    PROVE  /\ n \in Backup!Object
           /\ n.exists = o.exists /\ n.deleting = o.deleting /\ n.finalizer = o.finalizer
           /\ n.named = o.named /\ n.complete = o.complete /\ n.clean = o.clean
           /\ n.failed = o.failed
BY Zenon DEF Backup!Object
\* A user deletes the object.
LEMMA UpdateDeleting ==
    ASSUME NEW o \in Backup!Object, NEW n, n = [o EXCEPT !.deleting = TRUE]
    PROVE  /\ n \in Backup!Object
           /\ n.exists = o.exists /\ n.finalizer = o.finalizer /\ n.cleanData = o.cleanData
           /\ n.named = o.named /\ n.complete = o.complete /\ n.clean = o.clean
           /\ n.failed = o.failed
           /\ n.deleting = TRUE
BY Zenon DEF Backup!Object
\* The API server removes it.
LEMMA UpdateGone ==
    ASSUME NEW o \in Backup!Object, NEW n, n = [o EXCEPT !.exists = FALSE]
    PROVE  /\ n \in Backup!Object
           /\ n.deleting = o.deleting /\ n.finalizer = o.finalizer /\ n.cleanData = o.cleanData
           /\ n.named = o.named /\ n.complete = o.complete /\ n.clean = o.clean
           /\ n.failed = o.failed
           /\ n.exists = FALSE
BY Zenon DEF Backup!Object

\* The fields that the steps of a pass read.
LEMMA Fields ==
    ASSUME NEW o \in Backup!Object
    PROVE  /\ o.exists \in BOOLEAN /\ o.deleting \in BOOLEAN /\ o.finalizer \in BOOLEAN
           /\ o.cleanData \in BOOLEAN /\ o.named \in BOOLEAN /\ o.complete \in BOOLEAN
           /\ o.clean \in {"unset", "False", "True"} /\ o.failed \in Backup!Errors
BY Zenon DEF Backup!Object

\* A write replaces the object; the cache follows it or stays.
LEMMA WriteMoves ==
    ASSUME BackupTyped, NEW o \in Backup!Object, Backup!Write(o)
    PROVE  /\ obj' = o /\ obj' \in Backup!Object
           /\ cache' \in {cache, o} /\ cache' \in Backup!Object /\ queued' \in BOOLEAN
BY BackupTypes, Constants DEF BackupFields, Backup!Write

\* Setting or removing the finalizer; a deleted object goes with its finalizer.
LEMMA FinalizerMoves ==
    ASSUME BackupTyped, NEW b \in BOOLEAN, Backup!SetFinalizer(b)
    PROVE  /\ obj' \in Backup!Object /\ obj'.finalizer = b /\ (obj'.exists <=> b \/ ~obj.deleting)
           /\ obj'.deleting = obj.deleting /\ obj'.cleanData = obj.cleanData
           /\ obj'.named = obj.named /\ obj'.complete = obj.complete
           /\ obj'.clean = obj.clean /\ obj'.failed = obj.failed
           /\ cache' \in {cache, obj'} /\ cache' \in Backup!Object /\ queued' \in BOOLEAN
<1>1. obj \in Backup!Object
  BY BackupTypes DEF BackupFields
<1> DEFINE n == [obj EXCEPT !.finalizer = b, !.exists = b \/ ~obj.deleting]
<1>2. Backup!Write(n)
  BY Zenon DEF Backup!SetFinalizer
<1>3. /\ n \in Backup!Object /\ n.finalizer = b /\ (n.exists <=> b \/ ~obj.deleting)
      /\ n.deleting = obj.deleting /\ n.cleanData = obj.cleanData
      /\ n.named = obj.named /\ n.complete = obj.complete
      /\ n.clean = obj.clean /\ n.failed = obj.failed
  BY <1>1, Zenon DEF Backup!Object
<1> HIDE DEF n
<1> QED
  BY <1>2, <1>3, WriteMoves

\* A pass that fails goes on with recording the error.
LEMMA FailsMoves ==
    ASSUME BackupTyped, NEW k \in {"call", "job"}, Backup!Fails(k)
    PROVE  pc' = "fail" /\ err' \in Backup!Errors
BY BackupTypes, Fields DEF BackupFields, Backup!Fails, Backup!Errors

\* A call that succeeds or fails.
LEMMA ThenMoves ==
    ASSUME BackupTyped, NEW n \in Backup!Steps, Backup!Then(n)
    PROVE  /\ pc' \in {n, "fail"} /\ pc' \in Backup!Steps
           /\ err' \in Backup!Errors /\ faults' \in 0 .. MaxFaults
BY BackupTypes, FailsMoves, Constants DEF BackupFields, Backup!Then, Backup!Steps

\* A status update that succeeds or fails.
LEMMA UpdateMoves ==
    ASSUME BackupTyped, NEW o \in Backup!Object, NEW n \in Backup!Steps, Backup!UpdateStatus(o, n)
    PROVE  /\ obj' = o /\ obj' \in Backup!Object
           /\ cache' \in {cache, o} /\ cache' \in Backup!Object /\ queued' \in BOOLEAN
           /\ pc' \in {n, "fail"} /\ pc' \in Backup!Steps
           /\ err' \in Backup!Errors /\ faults' \in 0 .. MaxFaults
BY WriteMoves, ThenMoves DEF BackupFields, Backup!UpdateStatus

\* A status update after which the pass waits.
LEMMA WaitMoves ==
    ASSUME BackupTyped, NEW o \in Backup!Object, Backup!UpdateStatusAndWait(o)
    PROVE  /\ obj' = o /\ obj' \in Backup!Object
           /\ cache' \in {cache, o} /\ cache' \in Backup!Object /\ queued' \in BOOLEAN
           /\ pc' \in {"idle", "fail"} /\ pc' \in Backup!Steps
           /\ err' \in Backup!Errors /\ faults' \in 0 .. MaxFaults
<1>1. obj' = o /\ cache' \in {cache, o}
  BY Constants DEF BackupFields, Backup!UpdateStatusAndWait
<1>2. CASE pc' = "idle" /\ queued' = TRUE /\ UNCHANGED <<faults, err>>
  BY <1>1, <1>2, BackupTypes DEF BackupFields, Backup!Steps
<1>3. CASE /\ faults < MaxFaults /\ faults' = faults + 1 /\ Backup!Fails("call")
           /\ queued' = (queued \/ (~CacheLag /\ o # obj))
  BY <1>1, <1>3, BackupTypes, FailsMoves, Constants DEF BackupFields, Backup!Steps
<1> QED
  BY <1>2, <1>3, Zenon DEF BackupFields, Backup!UpdateStatusAndWait

\* A step without a call.
LEMMA GotoMoves ==
    ASSUME BackupTyped, NEW n \in Backup!Steps, Backup!Goto(n)
    PROVE  /\ UNCHANGED <<obj, cache, queued, faults, err>> /\ pc' = n /\ pc' \in Backup!Steps
           /\ obj' \in Backup!Object /\ cache' \in Backup!Object /\ queued' \in BOOLEAN
           /\ err' \in Backup!Errors /\ faults' \in 0 .. MaxFaults
BY BackupTypes DEF BackupFields, Backup!Goto

\* The end of a pass that is to be retried.
LEMMA RequeueMoves ==
    ASSUME BackupTyped, Backup!Requeue
    PROVE  /\ UNCHANGED <<obj, cache, faults, err>> /\ pc' = "idle" /\ pc' \in Backup!Steps
           /\ obj' \in Backup!Object /\ cache' \in Backup!Object /\ queued' \in BOOLEAN
           /\ err' \in Backup!Errors /\ faults' \in 0 .. MaxFaults
BY BackupTypes DEF BackupFields, Backup!Requeue, Backup!Steps
-----------------------------------------------------------------------------
\* Every step keeps the types.
LEMMA BackupTypeStep == BackupTyped /\ [Backup!Next]_(Backup!vars) => BackupTyped'
<1> SUFFICES ASSUME BackupTyped, BackupFields, [Backup!Next]_(Backup!vars) PROVE BackupFields'
  BY BackupTypes, PTL
<1> USE DEF BackupFields, Backup!pass, Backup!env
<1>1. CASE Backup!Reconcile
  BY <1>1, Fields DEF Backup!Reconcile, Backup!Steps
<1>2. CASE Backup!AddFinalizer
  BY <1>2, FinalizerMoves, Fields, GotoMoves, RequeueMoves DEF Backup!AddFinalizer,
     Backup!Steps
<1>3. CASE Backup!SyncBackupJob
  BY <1>3, GotoMoves DEF Backup!SyncBackupJob, Backup!Steps
<1>4. CASE Backup!GetCluster
  BY <1>4, GotoMoves, RequeueMoves, FailsMoves, ThenMoves, Fields DEF Backup!GetCluster,
     Backup!Steps
<1>5. CASE Backup!GetStorageFlags
  BY <1>5, GotoMoves, RequeueMoves, FailsMoves, ThenMoves, Fields
     DEF Backup!GetStorageFlags, Backup!Steps
<1>6. CASE Backup!RunBackupJob
  BY <1>6, ThenMoves DEF Backup!RunBackupJob, Backup!Steps, Backup!JobState
<1>7. CASE Backup!StatusRunning
  BY <1>7, WaitMoves, UpdateRunning, Zenon DEF Backup!StatusRunning
<1>8. CASE Backup!GetPodLog
  BY <1>8, Constants, GotoMoves, RequeueMoves, FailsMoves, ThenMoves, Fields
     DEF Backup!GetPodLog, Backup!Steps
<1>9. CASE Backup!StatusName
  BY <1>9, UpdateMoves, UpdateName, Zenon DEF Backup!StatusName, Backup!Steps
<1>10. CASE Backup!StatusComplete
  BY <1>10, UpdateMoves, UpdateComplete, GotoMoves, Constants, Zenon DEF Backup!StatusComplete,
     Backup!Steps
<1>11. CASE Backup!RemoveJob
  BY <1>11, GotoMoves, RequeueMoves, FailsMoves, ThenMoves, Fields DEF Backup!RemoveJob,
     Backup!Steps, Backup!JobState
<1>12. CASE Backup!DetectFailure
  BY <1>12, GotoMoves, RequeueMoves, FailsMoves, ThenMoves, Fields
     DEF Backup!DetectFailure, Backup!Steps
<1>13. CASE Backup!StatusFailed
  <2>1. pc' \in Backup!Steps
    BY <1>13, Constants DEF Backup!StatusFailed, Backup!Steps
  <2>2. [obj EXCEPT !.failed = err, !.phase = "Failed"] \in Backup!Object
    BY UpdateFailed, Zenon
  <2>3. /\ obj' \in Backup!Object /\ cache' \in Backup!Object
        /\ queued' \in BOOLEAN /\ faults' \in 0 .. MaxFaults
    BY <1>13, <2>2, WriteMoves, Constants DEF Backup!StatusFailed
  <2> QED
    BY <1>13, <2>1, <2>3 DEF Backup!StatusFailed
<1>14. CASE Backup!AutoRemove
  <2>1. faults' \in 0 .. MaxFaults
    BY <1>14, Constants DEF Backup!AutoRemove
  <2> QED
    BY <1>14, <2>1 DEF Backup!AutoRemove, Backup!Steps, Backup!JobState
<1>15. CASE Backup!EnsureFinished
  BY <1>15, GotoMoves, RequeueMoves, FailsMoves, ThenMoves, Fields
     DEF Backup!EnsureFinished, Backup!Steps, Backup!JobState
<1>16. CASE Backup!SyncCleanJob
  BY <1>16, GotoMoves DEF Backup!SyncCleanJob, Backup!Steps
<1>17. CASE Backup!RunCleanJob
  BY <1>17, ThenMoves DEF Backup!RunCleanJob, Backup!Steps, Backup!JobState
<1>18. CASE Backup!StatusCleaning
  BY <1>18, WaitMoves, UpdateClean DEF Backup!StatusCleaning
<1>19. CASE Backup!StatusClean
  BY <1>19, UpdateMoves, UpdateClean DEF Backup!StatusClean, Backup!Steps
<1>20. CASE Backup!DetectCleanFailure
  BY <1>20, GotoMoves, RequeueMoves, FailsMoves, ThenMoves, Fields
     DEF Backup!DetectCleanFailure, Backup!Steps
<1>21. CASE Backup!RemoveFinalizer
  <2>1. CASE Backup!SetFinalizer(FALSE) /\ pc' = "idle" /\ UNCHANGED <<faults, err>>
    BY <1>21, <2>1, FinalizerMoves DEF Backup!RemoveFinalizer, Backup!Steps
  <2>2. CASE Backup!Requeue
    BY <1>21, <2>2, RequeueMoves DEF Backup!RemoveFinalizer
  <2>3. CASE Backup!Goto("idle")
    BY <1>21, <2>3, GotoMoves DEF Backup!RemoveFinalizer, Backup!Steps
  <2> QED
    BY <1>21, <2>1, <2>2, <2>3, Zenon DEF Backup!RemoveFinalizer
<1>22. CASE Backup!ObjectVanished
  BY <1>22, GotoMoves, RequeueMoves, FailsMoves, ThenMoves, Fields
     DEF Backup!ObjectVanished, Backup!Steps
<1>23. CASE Backup!CallFails
  <2>1. pc' \in Backup!Steps /\ err' \in Backup!Errors /\ queued' \in BOOLEAN
    BY <1>23, FailsMoves DEF Backup!CallFails, Backup!Steps
  <2>2. faults' \in 0 .. MaxFaults
    BY <1>23, Constants DEF Backup!CallFails
  <2> QED
    BY <1>23, <2>1, <2>2 DEF Backup!CallFails
<1>24. CASE Backup!Restart
  BY <1>24, Constants DEF Backup!Restart, Backup!Steps
<1>25. CASE Backup!DeleteObject
  BY <1>25, WriteMoves, UpdateDeleting, UpdateGone, Fields DEF Backup!DeleteObject
<1>26. CASE Backup!SetCleanBackupData
  BY <1>26, WriteMoves, UpdateSpec DEF Backup!SetCleanBackupData
<1>27. CASE Backup!ClusterChanges
  BY <1>27, Constants DEF Backup!ClusterChanges
<1>28. CASE Backup!PodStart
  BY <1>28 DEF Backup!PodStart
<1>29. CASE Backup!PodUploads
  BY <1>29 DEF Backup!PodUploads
<1>30. CASE Backup!PodEnds
  BY <1>30 DEF Backup!PodEnds
<1>31. CASE Backup!JobEnds
  BY <1>31 DEF Backup!JobEnds, Backup!JobState
<1>32. CASE Backup!PodGone
  BY <1>32 DEF Backup!PodGone
<1>33. CASE Backup!CleanJobEnds
  <2>1. cleanJob' \in {"complete", "failed"} /\ data' \in BOOLEAN
    BY <1>33 DEF Backup!CleanJobEnds
  <2>2. UNCHANGED <<obj, cache, queued, pc, bk, seen, err, job, faults, pod, logged, cluster, late>>
    BY <1>33 DEF Backup!CleanJobEnds
  <2> QED
    BY <2>1, <2>2 DEF Backup!JobState
<1>34. CASE Backup!OwnerGone
  BY <1>34 DEF Backup!OwnerGone, Backup!JobState
<1>35. CASE Backup!ClusterRecovers
  BY <1>35 DEF Backup!ClusterRecovers
<1>36. CASE Backup!CacheSync
  BY <1>36 DEF Backup!CacheSync
<1>99. CASE UNCHANGED Backup!vars
  BY <1>99 DEF Backup!vars
<1> QED
  BY <1>1, <1>2, <1>3, <1>4, <1>5, <1>6, <1>7, <1>8, <1>9, <1>10, <1>11, <1>12, <1>13,
     <1>14, <1>15, <1>16, <1>17, <1>18, <1>19, <1>20, <1>21, <1>22, <1>23, <1>24, <1>25,
     <1>26, <1>27, <1>28, <1>29, <1>30, <1>31, <1>32, <1>33, <1>34, <1>35, <1>36, <1>99,
     Zenon DEF Backup!Next, Backup!Pass, Backup!Sync, Backup!Clean, Backup!World

-----------------------------------------------------------------------------
(* What a step may do. *)

TakeSteps == {"job", "cluster", "flags", "create"}
CleanSteps == {"ensure", "unnamed", "cleanjob", "cleancluster", "cleanflags", "cleancreate",
               "cleanfalse", "cleantrue", "cleandetect", "removefinalizer"}

\* The jobs, the pod and the data.
JobStep ==
    /\ job' = "active" => job = "active" \/ (pc = "create" /\ job = "none")
    /\ job' \in {"complete", "failed"} =>
          \/ job' = job
          \/ /\ pod \in {"succeeded", "failed"} /\ pod' = pod
             /\ job' = "complete" => pod = "succeeded"
    /\ pod' = "running" => pod = "running" \/ (job = "active" /\ job' = job)
    /\ pod' = "succeeded" => (pod = "succeeded" /\ logged' = logged) \/ logged'
    /\ logged' => logged \/ data'
    /\ data' => data \/ pod = "running"
    /\ data => data' \/ cleanJob = "active"
    /\ cleanJob' # "none" => cleanJob # "none" \/ pc = "cleancreate"
    /\ cleanJob' = "complete" => cleanJob = "complete" \/ ~data'
    /\ seen' = seen \/ (pc = "job" /\ seen' = job)
\* Every step moves the jobs, the pod and the data as JobStep says.
LEMMA JobMoves == [Backup!Next]_(Backup!vars) => JobStep
<1> SUFFICES ASSUME [Backup!Next]_(Backup!vars) PROVE JobStep
  OBVIOUS
<1> USE DEF JobStep, Backup!pass, Backup!env
<1>1. CASE Backup!Reconcile
  BY <1>1 DEF Backup!Reconcile
<1>2. CASE Backup!AddFinalizer
  BY <1>2 DEF Backup!AddFinalizer
<1>3. CASE Backup!SyncBackupJob
  BY <1>3 DEF Backup!SyncBackupJob
<1>4. CASE Backup!GetCluster
  BY <1>4 DEF Backup!GetCluster
<1>5. CASE Backup!GetStorageFlags
  BY <1>5 DEF Backup!GetStorageFlags
<1>6. CASE Backup!RunBackupJob
  BY <1>6 DEF Backup!RunBackupJob
<1>7. CASE Backup!StatusRunning
  BY <1>7 DEF Backup!StatusRunning
<1>8. CASE Backup!GetPodLog
  BY <1>8 DEF Backup!GetPodLog
<1>9. CASE Backup!StatusName
  BY <1>9 DEF Backup!StatusName
<1>10. CASE Backup!StatusComplete
  BY <1>10 DEF Backup!StatusComplete
<1>11. CASE Backup!RemoveJob
  BY <1>11 DEF Backup!RemoveJob
<1>12. CASE Backup!DetectFailure
  BY <1>12 DEF Backup!DetectFailure
<1>13. CASE Backup!StatusFailed
  BY <1>13 DEF Backup!StatusFailed
<1>14. CASE Backup!AutoRemove
  BY <1>14 DEF Backup!AutoRemove
<1>15. CASE Backup!EnsureFinished
  BY <1>15 DEF Backup!EnsureFinished
<1>16. CASE Backup!SyncCleanJob
  BY <1>16 DEF Backup!SyncCleanJob
<1>17. CASE Backup!RunCleanJob
  BY <1>17 DEF Backup!RunCleanJob
<1>18. CASE Backup!StatusCleaning
  BY <1>18 DEF Backup!StatusCleaning
<1>19. CASE Backup!StatusClean
  BY <1>19 DEF Backup!StatusClean
<1>20. CASE Backup!DetectCleanFailure
  BY <1>20 DEF Backup!DetectCleanFailure
<1>21. CASE Backup!RemoveFinalizer
  BY <1>21 DEF Backup!RemoveFinalizer
<1>22. CASE Backup!ObjectVanished
  BY <1>22 DEF Backup!ObjectVanished
<1>23. CASE Backup!CallFails
  BY <1>23 DEF Backup!CallFails
<1>24. CASE Backup!Restart
  BY <1>24 DEF Backup!Restart
<1>25. CASE Backup!DeleteObject
  BY <1>25 DEF Backup!DeleteObject
<1>26. CASE Backup!SetCleanBackupData
  BY <1>26 DEF Backup!SetCleanBackupData
<1>27. CASE Backup!ClusterChanges
  BY <1>27 DEF Backup!ClusterChanges
<1>28. CASE Backup!PodStart
  BY <1>28 DEF Backup!PodStart
<1>29. CASE Backup!PodUploads
  BY <1>29 DEF Backup!PodUploads
<1>30. CASE Backup!PodEnds
  BY <1>30 DEF Backup!PodEnds
<1>31. CASE Backup!JobEnds
  BY <1>31 DEF Backup!JobEnds
<1>32. CASE Backup!PodGone
  BY <1>32 DEF Backup!PodGone
<1>33. CASE Backup!CleanJobEnds
  BY <1>33 DEF Backup!CleanJobEnds
<1>34. CASE Backup!OwnerGone
  BY <1>34 DEF Backup!OwnerGone
<1>35. CASE Backup!ClusterRecovers
  BY <1>35 DEF Backup!ClusterRecovers
<1>36. CASE Backup!CacheSync
  BY <1>36 DEF Backup!CacheSync
<1>99. CASE UNCHANGED Backup!vars
  BY <1>99 DEF Backup!vars, Backup!pass, Backup!env
<1> QED
  BY <1>1, <1>2, <1>3, <1>4, <1>5, <1>6, <1>7, <1>8, <1>9, <1>10, <1>11, <1>12, <1>13,
     <1>14, <1>15, <1>16, <1>17, <1>18, <1>19, <1>20, <1>21, <1>22, <1>23, <1>24, <1>25,
     <1>26, <1>27, <1>28, <1>29, <1>30, <1>31, <1>32, <1>33, <1>34, <1>35, <1>36, <1>99,
     Zenon DEF Backup!Next, Backup!Pass, Backup!Sync, Backup!Clean, Backup!World

\* The next step of the pass, and its copy of the object.
PcStep ==
    /\ bk' = bk \/ (pc = "idle" /\ bk' = cache)
    /\ pc' \in TakeSteps => pc \in TakeSteps \/ (pc = "finalizer" /\ ~Backup!Finished(bk))
    /\ pc' = "finalizer" => pc \in {"idle", "finalizer"}
    /\ pc' \in CleanSteps => pc \in CleanSteps \/ (pc = "idle" /\ cache.deleting)
    /\ pc' \in CleanSteps \union TakeSteps \union {"finalizer"} /\ pc = "idle" => bk' = cache
    /\ pc' = "unnamed" => pc = "unnamed" \/ (pc = "ensure" /\ ~bk.named)
    /\ pc' = "cleantrue" => pc = "cleantrue" \/ cleanJob = "complete"
    /\ pc' \in {"log", "name", "complete"} =>
          pc \in {"log", "name", "complete"} \/ (pc = "job" /\ seen' = job)
\* Every step moves the pass as PcStep says.
LEMMA PcMoves == [Backup!Next]_(Backup!vars) => PcStep
<1> SUFFICES ASSUME [Backup!Next]_(Backup!vars) PROVE PcStep
  OBVIOUS
<1> USE DEF PcStep, TakeSteps, CleanSteps, Backup!pass, Backup!env, Backup!Then,
            Backup!Fails, Backup!Goto, Backup!Requeue
<1>1. CASE Backup!Reconcile
  BY <1>1 DEF Backup!Reconcile
<1>2. CASE Backup!AddFinalizer
  BY <1>2 DEF Backup!AddFinalizer
<1>3. CASE Backup!SyncBackupJob
  BY <1>3 DEF Backup!SyncBackupJob
<1>4. CASE Backup!GetCluster
  BY <1>4 DEF Backup!GetCluster
<1>5. CASE Backup!GetStorageFlags
  BY <1>5 DEF Backup!GetStorageFlags
<1>6. CASE Backup!RunBackupJob
  BY <1>6 DEF Backup!RunBackupJob
<1>7. CASE Backup!StatusRunning
  BY <1>7 DEF Backup!StatusRunning, Backup!UpdateStatusAndWait
<1>8. CASE Backup!GetPodLog
  BY <1>8 DEF Backup!GetPodLog
<1>9. CASE Backup!StatusName
  BY <1>9 DEF Backup!StatusName, Backup!UpdateStatus
<1>10. CASE Backup!StatusComplete
  BY <1>10 DEF Backup!StatusComplete, Backup!UpdateStatus
<1>11. CASE Backup!RemoveJob
  BY <1>11 DEF Backup!RemoveJob
<1>12. CASE Backup!DetectFailure
  BY <1>12 DEF Backup!DetectFailure
<1>13. CASE Backup!StatusFailed
  BY <1>13 DEF Backup!StatusFailed
<1>14. CASE Backup!AutoRemove
  BY <1>14 DEF Backup!AutoRemove
<1>15. CASE Backup!EnsureFinished
  BY <1>15 DEF Backup!EnsureFinished
<1>16. CASE Backup!SyncCleanJob
  BY <1>16 DEF Backup!SyncCleanJob
<1>17. CASE Backup!RunCleanJob
  BY <1>17 DEF Backup!RunCleanJob
<1>18. CASE Backup!StatusCleaning
  BY <1>18 DEF Backup!StatusCleaning, Backup!UpdateStatusAndWait
<1>19. CASE Backup!StatusClean
  BY <1>19 DEF Backup!StatusClean, Backup!UpdateStatus
<1>20. CASE Backup!DetectCleanFailure
  BY <1>20 DEF Backup!DetectCleanFailure
<1>21. CASE Backup!RemoveFinalizer
  BY <1>21 DEF Backup!RemoveFinalizer
<1>22. CASE Backup!ObjectVanished
  BY <1>22 DEF Backup!ObjectVanished
<1>23. CASE Backup!CallFails
  BY <1>23 DEF Backup!CallFails
<1>24. CASE Backup!Restart
  BY <1>24 DEF Backup!Restart
<1>25. CASE Backup!DeleteObject
  BY <1>25 DEF Backup!DeleteObject
<1>26. CASE Backup!SetCleanBackupData
  BY <1>26 DEF Backup!SetCleanBackupData
<1>27. CASE Backup!ClusterChanges
  BY <1>27 DEF Backup!ClusterChanges
<1>28. CASE Backup!PodStart
  BY <1>28 DEF Backup!PodStart
<1>29. CASE Backup!PodUploads
  BY <1>29 DEF Backup!PodUploads
<1>30. CASE Backup!PodEnds
  BY <1>30 DEF Backup!PodEnds
<1>31. CASE Backup!JobEnds
  BY <1>31 DEF Backup!JobEnds
<1>32. CASE Backup!PodGone
  BY <1>32 DEF Backup!PodGone
<1>33. CASE Backup!CleanJobEnds
  BY <1>33 DEF Backup!CleanJobEnds
<1>34. CASE Backup!OwnerGone
  BY <1>34 DEF Backup!OwnerGone
<1>35. CASE Backup!ClusterRecovers
  BY <1>35 DEF Backup!ClusterRecovers
<1>36. CASE Backup!CacheSync
  BY <1>36 DEF Backup!CacheSync
<1>99. CASE UNCHANGED Backup!vars
  BY <1>99 DEF Backup!vars, Backup!pass, Backup!env
<1> QED
  BY <1>1, <1>2, <1>3, <1>4, <1>5, <1>6, <1>7, <1>8, <1>9, <1>10, <1>11, <1>12, <1>13,
     <1>14, <1>15, <1>16, <1>17, <1>18, <1>19, <1>20, <1>21, <1>22, <1>23, <1>24, <1>25,
     <1>26, <1>27, <1>28, <1>29, <1>30, <1>31, <1>32, <1>33, <1>34, <1>35, <1>36, <1>99,
     Zenon DEF Backup!Next, Backup!Pass, Backup!Sync, Backup!Clean, Backup!World

\* The object at the API server and its copies.
ObjStep ==
    /\ cache' \in {cache, obj, obj'} /\ (~CacheLag /\ cache = obj => cache' = obj')
    /\ obj.deleting => obj'.deleting
    /\ obj'.complete # obj.complete => obj'.complete /\ pc = "complete" /\ seen = "complete"
    /\ obj'.failed # obj.failed => pc = "fail"
    /\ obj.named => obj'.named
    /\ obj'.clean = "True" => obj.clean = "True" \/ pc \in {"unnamed", "cleantrue"}
    /\ ~Edits => obj'.cleanData = obj.cleanData
    /\ late' => \/ /\ late
                   /\ obj.exists /\ ~obj'.exists =>
                        \/ pc = "finalizer" /\ ~bk.cleanData
                        \/ pc = "removefinalizer" /\ bk.clean = "True"
                        \/ ~obj.deleting
                \/ /\ ~obj.deleting /\ obj'.deleting /\ obj'.complete /\ obj'.named
                   /\ obj'.exists
\* Every step moves the object and its copies as ObjStep says.
LEMMA ObjMoves == BackupTyped /\ [Backup!Next]_(Backup!vars) => ObjStep
<1> SUFFICES ASSUME BackupTyped, [Backup!Next]_(Backup!vars) PROVE ObjStep
  OBVIOUS
<1>o. obj \in Backup!Object
  BY BackupTypes DEF BackupFields
<1>f. /\ obj.exists \in BOOLEAN /\ obj.deleting \in BOOLEAN /\ obj.named \in BOOLEAN
      /\ obj.complete \in BOOLEAN
  BY <1>o, Fields
<1>s. CASE /\ UNCHANGED <<obj, late>> /\ cache' \in {cache, obj}
           /\ (~CacheLag /\ cache = obj => cache' = obj')
  BY <1>s, <1>f DEF ObjStep
<1> USE DEF Backup!pass, Backup!env
<1>1. CASE Backup!Reconcile
  BY <1>1, <1>s DEF Backup!Reconcile, Backup!Goto, Backup!Requeue, Backup!Then,
     Backup!Fails
<1>2. CASE Backup!AddFinalizer
  <2>1. CASE UNCHANGED <<obj, cache>>
    BY <1>2, <2>1, <1>s DEF Backup!AddFinalizer
  <2>2. CASE Backup!SetFinalizer(bk.cleanData)
    <3>1. /\ pc = "finalizer" /\ late' = late
      BY <1>2, <2>2 DEF Backup!AddFinalizer
    <3>2. bk.cleanData \in BOOLEAN
      BY BackupTypes, Fields DEF BackupFields
    <3>3. cache' = IF CacheLag THEN cache ELSE obj'
      BY <2>2 DEF Backup!SetFinalizer, Backup!Write
    <3> QED
      BY <2>2, <3>1, <3>2, <3>3, <1>f, FinalizerMoves DEF ObjStep
  <2> QED
    BY <1>2, <2>1, <2>2, Zenon DEF Backup!AddFinalizer, Backup!Goto, Backup!Requeue
<1>3. CASE Backup!SyncBackupJob
  BY <1>3, <1>s DEF Backup!SyncBackupJob, Backup!Goto, Backup!Requeue, Backup!Then,
     Backup!Fails
<1>4. CASE Backup!GetCluster
  BY <1>4, <1>s DEF Backup!GetCluster, Backup!Goto, Backup!Requeue, Backup!Then,
     Backup!Fails
<1>5. CASE Backup!GetStorageFlags
  BY <1>5, <1>s DEF Backup!GetStorageFlags, Backup!Goto, Backup!Requeue, Backup!Then,
     Backup!Fails
<1>6. CASE Backup!RunBackupJob
  BY <1>6, <1>s DEF Backup!RunBackupJob, Backup!Goto, Backup!Requeue, Backup!Then,
     Backup!Fails
<1>7. CASE Backup!StatusRunning
  <2>1. /\ obj' = [obj EXCEPT !.running = TRUE, !.phase = "Running"] /\ late' = late
        /\ cache' = IF CacheLag THEN cache ELSE obj'
    BY <1>7 DEF Backup!StatusRunning, Backup!UpdateStatusAndWait
  <2>2. /\ obj'.exists = obj.exists /\ obj'.deleting = obj.deleting /\ obj'.complete = obj.complete
        /\ obj'.failed = obj.failed /\ (obj.named => obj'.named)
        /\ obj'.cleanData = obj.cleanData \/ Edits
        /\ obj'.clean = "True" => obj.clean = "True" \/ pc \in {"unnamed", "cleantrue"}
    BY <1>7, <2>1, <1>o, Zenon DEF Backup!Object, Backup!StatusRunning
  <2> QED
    BY <2>1, <2>2, <1>f DEF ObjStep
<1>8. CASE Backup!GetPodLog
  BY <1>8, <1>s DEF Backup!GetPodLog, Backup!Goto, Backup!Requeue, Backup!Then,
     Backup!Fails
<1>9. CASE Backup!StatusName
  <2>1. /\ obj' = [obj EXCEPT !.named = TRUE, !.phase = ""] /\ late' = late
        /\ cache' = IF CacheLag THEN cache ELSE obj'
    BY <1>9 DEF Backup!StatusName, Backup!UpdateStatus, Backup!Write
  <2>2. /\ obj'.exists = obj.exists /\ obj'.deleting = obj.deleting /\ obj'.complete = obj.complete
        /\ obj'.failed = obj.failed /\ (obj.named => obj'.named)
        /\ obj'.cleanData = obj.cleanData \/ Edits
        /\ obj'.clean = "True" => obj.clean = "True" \/ pc \in {"unnamed", "cleantrue"}
    BY <1>9, <2>1, <1>o, Zenon DEF Backup!Object, Backup!StatusName
  <2> QED
    BY <2>1, <2>2, <1>f DEF ObjStep
<1>10. CASE Backup!StatusComplete
  <2>1. CASE seen # "complete"
    BY <1>10, <2>1, <1>s, Zenon DEF Backup!StatusComplete, Backup!Goto
  <2>2. CASE seen = "complete"
    <3>1. /\ obj' = [obj EXCEPT !.complete = TRUE, !.phase = "Complete"] /\ late' = late
          /\ cache' = IF CacheLag THEN cache ELSE obj'
      BY <1>10, <2>2 DEF Backup!StatusComplete, Backup!UpdateStatus, Backup!Write
    <3>2. /\ obj'.exists = obj.exists /\ obj'.deleting = obj.deleting /\ obj'.complete
          /\ obj'.failed = obj.failed /\ obj'.named = obj.named
          /\ obj'.cleanData = obj.cleanData /\ obj'.clean = obj.clean
      BY <3>1, <1>o, Zenon DEF Backup!Object
    <3>3. pc = "complete"
      BY <1>10 DEF Backup!StatusComplete
    <3> QED
      BY <2>2, <3>1, <3>2, <3>3, <1>f DEF ObjStep
  <2> QED
    BY <2>1, <2>2
<1>11. CASE Backup!RemoveJob
  BY <1>11, <1>s DEF Backup!RemoveJob, Backup!Goto, Backup!Requeue, Backup!Then,
     Backup!Fails
<1>12. CASE Backup!DetectFailure
  BY <1>12, <1>s DEF Backup!DetectFailure, Backup!Goto, Backup!Requeue, Backup!Then,
     Backup!Fails
<1>13. CASE Backup!StatusFailed
  <2>1. CASE UNCHANGED <<obj, cache>>
    BY <1>13, <2>1, <1>s DEF Backup!StatusFailed
  <2>2. CASE Backup!Write([obj EXCEPT !.failed = err, !.phase = "Failed"])
    <3>1. /\ obj' = [obj EXCEPT !.failed = err, !.phase = "Failed"] /\ late' = late
          /\ cache' = IF CacheLag THEN cache ELSE obj'
      BY <1>13, <2>2 DEF Backup!StatusFailed, Backup!Write
    <3>2. /\ obj'.exists = obj.exists /\ obj'.deleting = obj.deleting
          /\ obj'.complete = obj.complete /\ obj'.named = obj.named
          /\ obj'.cleanData = obj.cleanData /\ obj'.clean = obj.clean
      BY <3>1, <1>o, Zenon DEF Backup!Object
    <3>3. pc = "fail"
      BY <1>13 DEF Backup!StatusFailed
    <3> QED
      BY <3>1, <3>2, <3>3, <1>f DEF ObjStep
  <2> QED
    BY <1>13, <2>1, <2>2 DEF Backup!StatusFailed
<1>14. CASE Backup!AutoRemove
  BY <1>14, <1>s DEF Backup!AutoRemove, Backup!Goto, Backup!Requeue, Backup!Then,
     Backup!Fails
<1>15. CASE Backup!EnsureFinished
  BY <1>15, <1>s DEF Backup!EnsureFinished, Backup!Goto, Backup!Requeue, Backup!Then,
     Backup!Fails
<1>16. CASE Backup!SyncCleanJob
  BY <1>16, <1>s DEF Backup!SyncCleanJob, Backup!Goto, Backup!Requeue, Backup!Then,
     Backup!Fails
<1>17. CASE Backup!RunCleanJob
  BY <1>17, <1>s DEF Backup!RunCleanJob, Backup!Goto, Backup!Requeue, Backup!Then,
     Backup!Fails
<1>18. CASE Backup!StatusCleaning
  <2>1. /\ obj' = [obj EXCEPT !.clean = "False"] /\ late' = late
        /\ cache' = IF CacheLag THEN cache ELSE obj'
    BY <1>18 DEF Backup!StatusCleaning, Backup!UpdateStatusAndWait
  <2>2. /\ obj'.exists = obj.exists /\ obj'.deleting = obj.deleting /\ obj'.complete = obj.complete
        /\ obj'.failed = obj.failed /\ (obj.named => obj'.named)
        /\ obj'.cleanData = obj.cleanData \/ Edits
        /\ obj'.clean = "True" => obj.clean = "True" \/ pc \in {"unnamed", "cleantrue"}
    BY <1>18, <2>1, <1>o, Zenon DEF Backup!Object, Backup!StatusCleaning
  <2> QED
    BY <2>1, <2>2, <1>f DEF ObjStep
<1>19. CASE Backup!StatusClean
  <2>1. /\ obj' = [obj EXCEPT !.clean = "True"] /\ late' = late
        /\ cache' = IF CacheLag THEN cache ELSE obj'
    BY <1>19 DEF Backup!StatusClean, Backup!UpdateStatus, Backup!Write
  <2>2. /\ obj'.exists = obj.exists /\ obj'.deleting = obj.deleting /\ obj'.complete = obj.complete
        /\ obj'.failed = obj.failed /\ (obj.named => obj'.named)
        /\ obj'.cleanData = obj.cleanData \/ Edits
        /\ obj'.clean = "True" => obj.clean = "True" \/ pc \in {"unnamed", "cleantrue"}
    BY <1>19, <2>1, <1>o, Zenon DEF Backup!Object, Backup!StatusClean
  <2> QED
    BY <2>1, <2>2, <1>f DEF ObjStep
<1>20. CASE Backup!DetectCleanFailure
  BY <1>20, <1>s DEF Backup!DetectCleanFailure, Backup!Goto, Backup!Requeue,
     Backup!Then, Backup!Fails
<1>21. CASE Backup!RemoveFinalizer
  <2>1. CASE UNCHANGED <<obj, cache>>
    BY <1>21, <2>1, <1>s DEF Backup!RemoveFinalizer
  <2>2. CASE Backup!SetFinalizer(FALSE)
    <3>1. /\ pc = "removefinalizer" /\ late' = late /\ (bk.clean = "True" \/ UNCHANGED obj)
      BY <1>21, <2>2 DEF Backup!RemoveFinalizer, Backup!Goto, Backup!Requeue
    <3>2. FALSE \in BOOLEAN
      BY BackupTypes, Fields DEF BackupFields
    <3>3. cache' = IF CacheLag THEN cache ELSE obj'
      BY <2>2 DEF Backup!SetFinalizer, Backup!Write
    <3> QED
      BY <2>2, <3>1, <3>2, <3>3, <1>f, FinalizerMoves DEF ObjStep
  <2> QED
    BY <1>21, <2>1, <2>2, Zenon DEF Backup!RemoveFinalizer, Backup!Goto, Backup!Requeue
<1>22. CASE Backup!ObjectVanished
  BY <1>22, <1>s DEF Backup!ObjectVanished, Backup!Goto, Backup!Requeue, Backup!Then,
     Backup!Fails
<1>23. CASE Backup!CallFails
  BY <1>23, <1>s DEF Backup!CallFails, Backup!Goto, Backup!Requeue, Backup!Then,
     Backup!Fails
<1>24. CASE Backup!Restart
  BY <1>24, <1>s DEF Backup!Restart, Backup!Goto, Backup!Requeue, Backup!Then,
     Backup!Fails
<1>25. CASE Backup!DeleteObject
  <2>1. CASE obj.finalizer
    <3>1. /\ obj' = [obj EXCEPT !.deleting = TRUE] /\ cache' = IF CacheLag THEN cache ELSE obj'
          /\ obj.exists /\ ~obj.deleting /\ (late' => obj.complete /\ obj.named)
      BY <1>25, <2>1 DEF Backup!DeleteObject, Backup!Write
    <3>2. /\ obj'.exists = obj.exists /\ obj'.deleting /\ obj'.failed = obj.failed
          /\ obj'.complete = obj.complete /\ obj'.named = obj.named
          /\ obj'.cleanData = obj.cleanData /\ obj'.clean = obj.clean
      BY <3>1, <1>o, Zenon DEF Backup!Object
    <3> QED
      BY <3>1, <3>2, <1>f DEF ObjStep
  <2>2. CASE ~obj.finalizer
    <3>1. /\ obj' = [obj EXCEPT !.exists = FALSE] /\ cache' = IF CacheLag THEN cache ELSE obj'
          /\ ~late'
      BY <1>25, <2>2 DEF Backup!DeleteObject, Backup!Write
    <3>2. /\ obj'.deleting = obj.deleting /\ obj'.failed = obj.failed
          /\ obj'.complete = obj.complete /\ obj'.named = obj.named
          /\ obj'.cleanData = obj.cleanData /\ obj'.clean = obj.clean
      BY <3>1, <1>o, Zenon DEF Backup!Object
    <3> QED
      BY <3>1, <3>2, <1>f DEF ObjStep
  <2> QED
    BY <2>1, <2>2
<1>26. CASE Backup!SetCleanBackupData
  <2>1. /\ obj' = [obj EXCEPT !.cleanData = ~@] /\ late' = late
        /\ cache' = IF CacheLag THEN cache ELSE obj'
    BY <1>26 DEF Backup!SetCleanBackupData, Backup!Write
  <2>2. /\ obj'.exists = obj.exists /\ obj'.deleting = obj.deleting /\ obj'.complete = obj.complete
        /\ obj'.failed = obj.failed /\ (obj.named => obj'.named)
        /\ obj'.cleanData = obj.cleanData \/ Edits
        /\ obj'.clean = "True" => obj.clean = "True" \/ pc \in {"unnamed", "cleantrue"}
    BY <1>26, <2>1, <1>o, Zenon DEF Backup!Object, Backup!SetCleanBackupData
  <2> QED
    BY <2>1, <2>2, <1>f DEF ObjStep
<1>27. CASE Backup!ClusterChanges
  BY <1>27, <1>s DEF Backup!ClusterChanges, Backup!Goto, Backup!Requeue, Backup!Then,
     Backup!Fails
<1>28. CASE Backup!PodStart
  BY <1>28, <1>s DEF Backup!PodStart, Backup!Goto, Backup!Requeue, Backup!Then,
     Backup!Fails
<1>29. CASE Backup!PodUploads
  BY <1>29, <1>s DEF Backup!PodUploads, Backup!Goto, Backup!Requeue, Backup!Then,
     Backup!Fails
<1>30. CASE Backup!PodEnds
  BY <1>30, <1>s DEF Backup!PodEnds, Backup!Goto, Backup!Requeue, Backup!Then,
     Backup!Fails
<1>31. CASE Backup!JobEnds
  BY <1>31, <1>s DEF Backup!JobEnds, Backup!Goto, Backup!Requeue, Backup!Then,
     Backup!Fails
<1>32. CASE Backup!PodGone
  BY <1>32, <1>s DEF Backup!PodGone, Backup!Goto, Backup!Requeue, Backup!Then,
     Backup!Fails
<1>33. CASE Backup!CleanJobEnds
  BY <1>33, <1>s DEF Backup!CleanJobEnds, Backup!Goto, Backup!Requeue, Backup!Then,
     Backup!Fails
<1>34. CASE Backup!OwnerGone
  BY <1>34, <1>s DEF Backup!OwnerGone, Backup!Goto, Backup!Requeue, Backup!Then,
     Backup!Fails
<1>35. CASE Backup!ClusterRecovers
  BY <1>35, <1>s DEF Backup!ClusterRecovers, Backup!Goto, Backup!Requeue, Backup!Then,
     Backup!Fails
<1>36. CASE Backup!CacheSync
  BY <1>36, <1>s DEF Backup!CacheSync, Backup!Goto, Backup!Requeue, Backup!Then,
     Backup!Fails
<1>99. CASE UNCHANGED Backup!vars
  BY <1>99, <1>s DEF Backup!vars
<1> QED
  BY <1>1, <1>2, <1>3, <1>4, <1>5, <1>6, <1>7, <1>8, <1>9, <1>10, <1>11, <1>12, <1>13,
     <1>14, <1>15, <1>16, <1>17, <1>18, <1>19, <1>20, <1>21, <1>22, <1>23, <1>24, <1>25,
     <1>26, <1>27, <1>28, <1>29, <1>30, <1>31, <1>32, <1>33, <1>34, <1>35, <1>36, <1>99,
     Zenon DEF Backup!Next, Backup!Pass, Backup!Sync, Backup!Clean, Backup!World

-----------------------------------------------------------------------------
(* The invariants. *)

\* The data of a backup is there, or the object is being deleted.
Stored == data \/ obj.deleting
\* What is known of the data at any time: only the passes of a deleted object
\* start a clean job, and a job is complete only when its pod uploaded.
DataInv ==
    /\ cache.deleting \/ bk.deleting => obj.deleting
    /\ pc \in CleanSteps => bk.deleting
    /\ cleanJob # "none" => obj.deleting
    /\ logged => Stored
    /\ pod = "succeeded" => logged
    /\ job = "complete" \/ seen = "complete" \/ obj.complete => Stored

\* With an up-to-date cache, a pass that may take a backup knows that the
\* object is not finished.
TakeInv ==
    /\ cache = obj
    /\ pc \in TakeSteps \union {"finalizer"} =>
          bk.complete = obj.complete /\ bk.failed = obj.failed
    /\ pc \in TakeSteps => ~Backup!Finished(bk)

\* Nothing of this backup can write data any more.
Quiet == job # "active" /\ pod # "running"
\* An object deleted after its backup was complete and named is cleaned before
\* it goes: its backup is over, its passes know the name, and the condition
\* Clean is true only when the clean job was complete.
CleanInv ==
    /\ job \in {"complete", "failed"} => pod # "running"
    /\ obj.complete \/ (pc \in {"log", "name", "complete"} /\ seen = "complete") => Quiet
    /\ late => obj.deleting /\ obj.complete /\ obj.named
    /\ obj.clean = "True" \/ bk.clean = "True" => obj.deleting
    /\ late /\ bk.deleting => bk.named
    /\ pc = "unnamed" => ~bk.named
    /\ late /\ (obj.clean = "True" \/ bk.clean = "True" \/ cleanJob = "complete" \/ pc = "cleantrue")
          => ~data
    /\ bk.cleanData = obj.cleanData
    /\ Backup!CleanedWhenGone
\* At the start there is no backup.
LEMMA DataInit == Backup!Init => DataInv
<1> SUFFICES ASSUME Backup!Init PROVE DataInv
  OBVIOUS
<1>0. PICK c \in BOOLEAN : obj = Backup!New(c) /\ cache = Backup!New(c) /\ bk = Backup!New(c)
  BY Zenon DEF Backup!Init
<1> QED
  BY <1>0, Zenon DEF Backup!Init, DataInv, Stored, Backup!New, CleanSteps

\* Every step keeps what is known of the data.
LEMMA DataStep == BackupTyped /\ DataInv /\ [Backup!Next]_(Backup!vars) => DataInv'
<1> SUFFICES ASSUME BackupTyped, DataInv, [Backup!Next]_(Backup!vars) PROVE DataInv'
  OBVIOUS
<1>m. JobStep /\ PcStep /\ ObjStep
  BY JobMoves, PcMoves, ObjMoves
<1>t. BackupFields
  BY BackupTypes
<1>1. (cache.deleting \/ bk.deleting => obj.deleting)'
  BY <1>m, Zenon DEF PcStep, ObjStep, DataInv
<1>2. (pc \in CleanSteps => bk.deleting)'
  BY <1>m DEF PcStep, DataInv, CleanSteps
<1>3. (cleanJob # "none" => obj.deleting)'
  BY <1>m DEF JobStep, ObjStep, DataInv, CleanSteps
<1>4. (Stored)' \/ ~Stored
  BY <1>m DEF JobStep, ObjStep, DataInv, Stored
<1>5. (logged => Stored)'
  BY <1>m, <1>4 DEF JobStep, DataInv, Stored
<1>6. (pod = "succeeded" => logged)'
  BY <1>m DEF JobStep, DataInv
<1>7. (job = "complete" \/ seen = "complete" \/ obj.complete => Stored)'
  BY <1>m, <1>4 DEF JobStep, ObjStep, DataInv
<1> QED
  BY <1>1, <1>2, <1>3, <1>5, <1>6, <1>7 DEF DataInv

\* At the start the copies are equal.
LEMMA TakeInit == Backup!Init => TakeInv
BY DEF Backup!Init, TakeInv, TakeSteps

\* Every step keeps the copy of a pass that may take a backup up to date.
LEMMA TakeStep == ~CacheLag /\ BackupTyped /\ TakeInv /\ [Backup!Next]_(Backup!vars) => TakeInv'
<1> SUFFICES ASSUME ~CacheLag, BackupTyped, TakeInv, [Backup!Next]_(Backup!vars) PROVE TakeInv'
  OBVIOUS
<1>m. JobStep /\ PcStep /\ ObjStep
  BY JobMoves, PcMoves, ObjMoves
<1>1. (cache = obj)'
  BY <1>m DEF ObjStep, TakeInv
<1>2. ASSUME pc' \in TakeSteps \union {"finalizer"}
      PROVE  (bk.complete = obj.complete /\ bk.failed = obj.failed)'
  <2>1. obj'.complete = obj.complete /\ obj'.failed = obj.failed
    BY <1>m, <1>2 DEF PcStep, ObjStep, TakeSteps
  <2> QED
    BY <1>m, <1>2, <2>1 DEF PcStep, TakeInv, TakeSteps
<1>3. ASSUME pc' \in TakeSteps PROVE ~Backup!Finished(bk)'
  BY <1>m, <1>3 DEF PcStep, TakeInv, TakeSteps
<1> QED
  BY <1>1, <1>2, <1>3 DEF TakeInv

\* A step that creates the job finds an object that is not finished.
LEMMA TakenOnce == TakeInv /\ JobStep => ~Backup!Reruns
BY DEF TakeInv, JobStep, Backup!Reruns, Backup!Finished, TakeSteps

\* At the start nothing is deleted.
LEMMA CleanInit == Backup!Init => CleanInv
<1> SUFFICES ASSUME Backup!Init PROVE CleanInv
  OBVIOUS
<1>0. PICK c \in BOOLEAN : obj = Backup!New(c) /\ cache = Backup!New(c) /\ bk = Backup!New(c)
  BY Zenon DEF Backup!Init
<1> QED
  BY <1>0, Zenon DEF Backup!Init, CleanInv, Backup!New, Backup!CleanedWhenGone

\* Every step of an object whose spec is left alone keeps its cleaning in order.
LEMMA CleanStep ==
    /\ ~CacheLag /\ ~Edits /\ BackupTyped /\ DataInv /\ TakeInv /\ CleanInv
    /\ [Backup!Next]_(Backup!vars)
    => CleanInv'
<1> SUFFICES ASSUME ~CacheLag, ~Edits, BackupTyped, DataInv, TakeInv, CleanInv,
                    [Backup!Next]_(Backup!vars)
             PROVE  CleanInv'
  OBVIOUS
<1>m. JobStep /\ PcStep /\ ObjStep
  BY JobMoves, PcMoves, ObjMoves
<1>t. /\ obj.exists \in BOOLEAN /\ obj.deleting \in BOOLEAN /\ obj.complete \in BOOLEAN
      /\ obj.named \in BOOLEAN /\ obj.cleanData \in BOOLEAN
      /\ bk.named \in BOOLEAN /\ bk.cleanData \in BOOLEAN /\ bk.deleting \in BOOLEAN
  BY BackupTypes, Fields DEF BackupFields
<1>c. cache = obj /\ (bk' = bk \/ (pc = "idle" /\ bk' = obj))
  BY <1>m DEF PcStep, TakeInv
<1>q. Quiet /\ ~(pc = "create" /\ ~obj.complete) => Quiet'
  <2>1. pc = "create" => ~obj.complete
    BY DEF TakeInv, TakeSteps, Backup!Finished
  <2> QED
    BY <1>m, <2>1 DEF JobStep, Quiet
<1>1. (job \in {"complete", "failed"} => pod # "running")'
  BY <1>m DEF JobStep, CleanInv
<1>2. (obj.complete \/ (pc \in {"log", "name", "complete"} /\ seen = "complete") => Quiet)'
  <2>1. CASE obj.complete
    BY <2>1, <1>q DEF CleanInv
  <2>2. CASE pc \in {"log", "name", "complete"} /\ seen = "complete"
    BY <2>2, <1>q DEF CleanInv
  <2>3. CASE pc = "job" /\ seen' = job /\ job = "complete"
    <3>1. Quiet
      BY <2>3 DEF CleanInv, Quiet
    <3> QED
      BY <2>3, <3>1, <1>q
  <2>4. CASE ~obj'.complete /\ ~(pc' \in {"log", "name", "complete"} /\ seen' = "complete")
    BY <2>4
  <2> QED
    BY <1>m, <2>1, <2>2, <2>3, <2>4 DEF JobStep, PcStep, ObjStep
<1>3. (late => obj.deleting /\ obj.complete /\ obj.named)'
  BY <1>m, <1>t DEF ObjStep, CleanInv
<1>4. (obj.clean = "True" \/ bk.clean = "True" => obj.deleting)'
  BY <1>m, <1>c, <1>t DEF ObjStep, CleanInv, DataInv, CleanSteps
<1>5. (late /\ bk.deleting => bk.named)'
  BY <1>m, <1>c, <1>t DEF ObjStep, CleanInv, DataInv
<1>6. (pc = "unnamed" => ~bk.named)'
  BY <1>m, <1>c DEF PcStep, CleanInv
<1>7. ASSUME late' PROVE late \/ ~obj.deleting
  BY <1>m, <1>7 DEF ObjStep
<1>8. ASSUME late, ~data PROVE ~data'
  BY <1>m, <1>8 DEF JobStep, CleanInv, Quiet
<1>9. (late /\ (obj.clean = "True" \/ bk.clean = "True" \/ cleanJob = "complete" \/ pc = "cleantrue")
          => ~data)'
  <2> SUFFICES ASSUME late', obj'.clean = "True" \/ bk'.clean = "True"
                             \/ cleanJob' = "complete" \/ pc' = "cleantrue"
               PROVE  ~data'
    OBVIOUS
  <2>1. CASE cleanJob' = "complete" /\ cleanJob # "complete"
    BY <1>m, <2>1 DEF JobStep
  <2>2. CASE obj.clean = "True" \/ bk.clean = "True" \/ cleanJob = "complete" \/ pc = "cleantrue"
    <3>1. obj.deleting
      BY <2>2, <1>t DEF CleanInv, DataInv, CleanSteps
    <3>2. late /\ ~data
      BY <2>2, <3>1, <1>7 DEF CleanInv
    <3> QED
      BY <3>2, <1>8
  <2>3. CASE pc = "unnamed"
    <3>1. bk.deleting /\ obj.deleting /\ ~bk.named
      BY <2>3 DEF CleanInv, DataInv, CleanSteps
    <3> QED
      BY <3>1, <1>7 DEF CleanInv
  <2> QED
    BY <1>m, <1>c, <2>1, <2>2, <2>3 DEF PcStep, ObjStep
<1>10. (bk.cleanData = obj.cleanData)'
  BY <1>m, <1>c DEF ObjStep, CleanInv
<1>11. Backup!CleanedWhenGone'
  <2> SUFFICES ASSUME late', ~obj'.exists, obj'.cleanData PROVE ~data'
    BY DEF Backup!CleanedWhenGone
  <2>1. late /\ obj.deleting
    BY <1>m, <1>t DEF ObjStep, CleanInv
  <2>2. obj.cleanData /\ bk.cleanData
    BY <1>m DEF ObjStep, CleanInv
  <2>3. ~data
    BY <1>m, <1>t, <2>1, <2>2 DEF ObjStep, CleanInv, Backup!CleanedWhenGone
  <2> QED
    BY <2>1, <2>3, <1>8
<1> QED
  BY <1>1, <1>2, <1>3, <1>4, <1>5, <1>6, <1>9, <1>10, <1>11 DEF CleanInv

-----------------------------------------------------------------------------
(* What holds for every backup. *)

\* The types, with the constants, are an invariant.
LEMMA BackupTypesKept == BackupConstants => (Backup!Spec => []BackupTyped)
<1> SUFFICES ASSUME BackupConstants PROVE Backup!Spec => []BackupTyped
  OBVIOUS
<1> QED
  BY BackupTypeInit, BackupTypeStep, PTL DEF Backup!Spec

\* Every variable of a backup keeps its type.
THEOREM BackupTypeCorrect == BackupConstants => (Backup!Spec => []Backup!TypeOK)
<1> SUFFICES ASSUME BackupConstants PROVE Backup!Spec => []Backup!TypeOK
  OBVIOUS
<1>1. Backup!Spec => []BackupTyped
  BY BackupTypesKept
<1>2. BackupTyped => Backup!TypeOK
  BY DEF BackupTyped
<1> QED
  BY <1>1, <1>2, PTL

\* What is known of the data holds for every setting.
LEMMA DataKnown == BackupConstants => (Backup!Spec => []DataInv)
<1> SUFFICES ASSUME BackupConstants PROVE Backup!Spec => []DataInv
  OBVIOUS
<1>1. Backup!Spec => []BackupTyped
  BY BackupTypesKept
<1> QED
  BY <1>1, DataInit, DataStep, PTL DEF Backup!Spec

\* A backup is Complete only when its data is there, until it is deleted: also
\* with an outdated cache, users who change their mind, and any number of
\* faults (nebula_backup_manager.go syncBackupJob).
THEOREM CompleteIsStored == BackupConstants => (Backup!Spec => []Backup!CompleteHasData)
<1> SUFFICES ASSUME BackupConstants PROVE Backup!Spec => []Backup!CompleteHasData
  OBVIOUS
<1>1. DataInv => Backup!CompleteHasData
  BY DEF DataInv, Stored, Backup!CompleteHasData
<1>2. Backup!Spec => []DataInv
  BY DataKnown
<1> QED
  BY <1>1, <1>2, PTL

\* With an up-to-date cache, a pass knows whether its object is finished.
LEMMA TakeKnown == BackupConstants /\ ~CacheLag => (Backup!Spec => []TakeInv)
<1> SUFFICES ASSUME BackupConstants, ~CacheLag PROVE Backup!Spec => []TakeInv
  OBVIOUS
<1>1. BackupTyped /\ TakeInv /\ [Backup!Next]_(Backup!vars) => TakeInv'
  BY TakeStep
<1>2. Backup!Spec => []BackupTyped
  BY BackupTypesKept
<1> QED
  BY <1>1, <1>2, TakeInit, PTL DEF Backup!Spec

\* A backup that is recorded as finished is not taken again, whatever fails, is
\* removed or is edited, as long as passes read the object as it is
\* (nebula_backup_control.go UpdateNebulaBackup).
THEOREM BackupTakenOnce == BackupConstants /\ ~CacheLag => (Backup!Spec => Backup!NoRerun)
<1> SUFFICES ASSUME BackupConstants, ~CacheLag PROVE Backup!Spec => Backup!NoRerun
  OBVIOUS
<1>1. TakeInv /\ [Backup!Next]_(Backup!vars) => [~Backup!Reruns]_(Backup!vars)
  BY TakenOnce, JobMoves
<1>2. Backup!Spec => []TakeInv
  BY TakeKnown
<1> QED
  BY <1>1, <1>2, PTL DEF Backup!Spec, Backup!NoRerun

\* An object that was deleted after its backup was complete and named leaves no
\* data behind, with an up-to-date cache and users who do not change their mind
\* (nebula_backup_manager.go Clean, nebula_backup_control.go removeFinalizer).
THEOREM GoneIsCleaned ==
    BackupConstants /\ ~CacheLag /\ ~Edits => (Backup!Spec => []Backup!CleanedWhenGone)
<1> SUFFICES ASSUME BackupConstants, ~CacheLag, ~Edits PROVE Backup!Spec => []Backup!CleanedWhenGone
  OBVIOUS
<1>1. BackupTyped /\ DataInv /\ TakeInv /\ CleanInv /\ [Backup!Next]_(Backup!vars) => CleanInv'
  BY CleanStep
<1>2. Backup!Spec => []TakeInv
  BY TakeKnown
<1>3. Backup!Spec => []DataInv
  BY DataKnown
<1>4. Backup!Spec => []BackupTyped
  BY BackupTypesKept
<1>5. Backup!Spec => []CleanInv
  BY <1>1, <1>2, <1>3, <1>4, CleanInit, PTL DEF Backup!Spec
<1>6. CleanInv => Backup!CleanedWhenGone
  BY DEF CleanInv
<1> QED
  BY <1>5, <1>6, PTL

-----------------------------------------------------------------------------
(* The schedule: the least and the greatest slot. *)

\* A nonempty set of natural numbers has a least element.
LEMMA LeastExists ==
    ASSUME NEW T \in SUBSET Nat, T # {}
    PROVE  \E x \in T : \A y \in T : x <= y
<1>1. PICK x \in T : \A y \in T : ~(<<y, x>> \in OpToRel(<, Nat))
  BY WFMin, NatLessThanWellFounded, Zenon
<1>2. \A y \in T : ~(y < x)
  BY <1>1 DEF OpToRel
<1> QED
  BY <1>2

\* Min and Max are what their names say.
LEMMA MinIs ==
    ASSUME NEW T \in SUBSET Nat, T # {}
    PROVE  Cron!Min(T) \in T /\ \A y \in T : Cron!Min(T) <= y
BY LeastExists DEF Cron!Min

LEMMA MaxIs ==
    ASSUME NEW T \in SUBSET Nat, T # {}, NEW b \in Nat, \A y \in T : y <= b
    PROVE  Cron!Max(T) \in T /\ \A y \in T : y <= Cron!Max(T)
<1> DEFINE D == {b - y : y \in T}
<1>0. \A y \in T : b - y \in Nat /\ b - y \in D
  OBVIOUS
<1>1. D \in SUBSET Nat /\ D # {}
  BY <1>0
<1>2. PICK d \in D : \A e \in D : d <= e
  BY <1>1, LeastExists
<1>3. PICK x \in T : d = b - x
  BY <1>2
<1>4. \A y \in T : x >= y
  BY <1>2, <1>3
<1> QED
  BY <1>3, <1>4 DEF Cron!Max

-----------------------------------------------------------------------------
(* The schedule. *)

\* The schedule has slots after the time that is looked at.
Schedule ==
    /\ Slots \in SUBSET (Nat \ {0}) /\ MaxTime \in Nat /\ MaxFaults \in Nat
    /\ \E s \in Slots : s > MaxTime

\* The next slot of the schedule is a later one.
LEMMA NextSlotLater ==
    ASSUME Schedule, NEW t \in 0 .. MaxTime
    PROVE  Cron!NextSlot(t) \in Slots /\ Cron!NextSlot(t) > t
<1> DEFINE T == {s \in Slots : s > t}
<1>0. PICK s \in Slots : s > MaxTime
  BY DEF Schedule
<1>n. MaxTime \in Nat /\ \A x \in Slots : x \in Nat
  BY DEF Schedule
<1>1. T \in SUBSET Nat /\ s \in T
  BY <1>0, <1>n
<1>2. Cron!Min(T) \in T
  BY <1>1, MinIs
<1> QED
  BY <1>2 DEF Cron!NextSlot

\* The slot that a pass is to meet is one that is due.
LEMMA MostRecentIsDue ==
    ASSUME Schedule, NEW e \in 0 .. MaxTime, NEW t \in 0 .. MaxTime
    PROVE  Cron!MostRecentScheduleTime(e, t) \in Cron!Due \union {0}
<1> DEFINE t1 == Cron!NextSlot(e)
           gap == Cron!NextSlot(t1) - t1
           missed == (t - t1) \div gap + 1
           potential == t1 + (missed - 2) * gap
           later == {s \in Slots : potential < s /\ s <= t}
<1>0. /\ \A s \in Slots : s \in Nat \ {0}
      /\ MaxTime \in Nat /\ t \in Nat /\ t <= MaxTime
  BY DEF Schedule
<1>1. t1 \in Slots
  BY NextSlotLater
<1> HIDE DEF t1
<1>2. CASE t < t1
  BY <1>2 DEF Cron!MostRecentScheduleTime, t1
<1>3. CASE ~(t < t1)
  <2>1. t1 \in Cron!Due
    BY <1>0, <1>1, <1>3 DEF Cron!Due
  <2>2. later # {} => Cron!Max(later) \in later
    <3>1. later \in SUBSET Nat /\ \A y \in later : y <= t
      BY <1>0
    <3> HIDE DEF later
    <3> QED
      BY <1>0, <3>1, MaxIs
  <2>3. later # {} => Cron!Max(later) \in Cron!Due
    BY <1>0, <2>2 DEF Cron!Due
  <2>4. Cron!MostRecentScheduleTime(e, t) = IF t < t1 + gap THEN t1
                                       ELSE IF later = {} THEN 0 ELSE Cron!Max(later)
    BY <1>3 DEF Cron!MostRecentScheduleTime, t1
  <2> HIDE DEF later, gap
  <2> QED
    BY <2>1, <2>3, <2>4
<1> QED
  BY <1>2, <1>3

\* The delay until the next slot is not taken for none.
LEMMA DelayIsSome ==
    ASSUME Schedule, NEW last \in Cron!Due \union {0}, NEW t \in 0 .. MaxTime
    PROVE  Cron!NextScheduleTimeDuration(last, t) # Cron!NoDelay
<1>1. last \in 0 .. MaxTime
  BY DEF Schedule, Cron!Due
<1>2. Cron!MostRecentScheduleTime(last, t) \in Cron!Due \union {0}
  BY <1>1, MostRecentIsDue
<1>3. ASSUME NEW s \in Cron!Due \union {0} PROVE Cron!NextSlot(s) - t # Cron!NoDelay
  <2>1. s \in 0 .. MaxTime
    BY <1>3 DEF Schedule, Cron!Due
  <2>2. Cron!NextSlot(s) \in Nat
    BY <2>1, NextSlotLater DEF Schedule
  <2> QED
    BY <2>2 DEF Cron!NoDelay, Schedule
<1> QED
  BY <1>2, <1>3 DEF Cron!NextScheduleTimeDuration

-----------------------------------------------------------------------------
(* The backups that run beside the last one. *)

Running == {s \in Cron!Due : backups[s].state = "running" /\ ~backups[s].deleting}
Count(R, l) == Cardinality(R \ {l})
Others(l) == Count(Running, l)

\* Counting without one of two elements makes a difference of at most one,
\* and of none when the element is not counted.
LEMMA CountOnce ==
    ASSUME Schedule, NEW R \in SUBSET Cron!Due, NEW l, NEW m
    PROVE  /\ Count(R, l) \in Nat
           /\ Count(R, l) <= Count(R, m) + 1
           /\ m \notin R => Count(R, l) <= Count(R, m)
<1>1. IsFiniteSet(Cron!Due)
  <2>0. MaxTime \in Nat /\ \A s \in Slots : s \in Nat
    BY DEF Schedule
  <2>1. Cron!Due \subseteq 0 .. MaxTime
    BY <2>0 DEF Cron!Due
  <2>2. IsFiniteSet(0 .. MaxTime)
    BY FS_Interval DEF Schedule
  <2> QED
    BY <2>1, <2>2, FS_Subset
<1>2. IsFiniteSet(R) /\ Cardinality(R) \in Nat
  BY <1>1, FS_Subset, FS_CardinalityType
<1>3. ASSUME NEW x
      PROVE  /\ Cardinality(R \ {x}) = IF x \in R THEN Cardinality(R) - 1 ELSE Cardinality(R)
             /\ Cardinality(R \ {x}) \in Nat
  BY <1>2, FS_RemoveElement, FS_CardinalityType
<1> QED
  BY <1>2, <1>3 DEF Count

\* Fewer backups, or one more that does not count, are no more others.
LEMMA CountLess ==
    ASSUME Schedule, NEW R \in SUBSET Cron!Due, NEW Q \in SUBSET Cron!Due, NEW l, Q \subseteq R \union {l}
    PROVE  Count(Q, l) <= Count(R, l)
<1>1. IsFiniteSet(Cron!Due)
  <2>0. MaxTime \in Nat /\ \A s \in Slots : s \in Nat
    BY DEF Schedule
  <2>1. Cron!Due \subseteq 0 .. MaxTime
    BY <2>0 DEF Cron!Due
  <2>2. IsFiniteSet(0 .. MaxTime)
    BY FS_Interval DEF Schedule
  <2> QED
    BY <2>1, <2>2, FS_Subset
<1>2. IsFiniteSet(R \ {l}) /\ Q \ {l} \subseteq R \ {l}
  BY <1>1, FS_Subset
<1> QED
  BY <1>2, FS_Subset DEF Count

\* The types that the count needs.
CronTyped ==
    /\ now \in 0 .. MaxTime /\ faults \in Nat
    /\ obj \in Cron!CronBackupType /\ prev \in Cron!CronBackupType /\ cb \in Cron!CronBackupType
    /\ slot \in Cron!Due \union {0}
    /\ backups \in [Cron!Due -> Cron!Backup]
\* While no backup was created, there are no more others than faults, where a
\* pass that read an old object has had one of them; a pass that created its
\* backup waits with it to be recorded.
OverlapInv ==
    /\ pc \in {"idle", "perform", "sync", "create", "list", "delete", "cleaned", "save",
              "wait"}
    /\ pc \in {"idle", "perform", "sync"} => slot = 0
    /\ pc = "create" => slot # 0
    /\ pc \in {"idle", "wait"} => Others(obj.last) <= faults
    /\ (\/ pc \in {"perform", "sync", "create"}
        \/ pc \in {"list", "delete", "cleaned", "save"} /\ slot = 0)
          => Others(obj.last) + (IF cb.last # obj.last THEN 1 ELSE 0) <= faults
    /\ pc \in {"list", "delete", "cleaned", "save"} /\ slot # 0
          => cb.last = slot /\ Others(slot) <= faults /\ requeue # Cron!NoDelay
    /\ pc \in {"sync", "create"} /\ cb.last # 0 => backups[cb.last].state # "running"

\* Every step keeps the types.
LEMMA CronTypesKept == Schedule /\ CronTyped /\ OverlapInv /\ [Cron!Next]_(Cron!vars) => CronTyped'
<1> SUFFICES ASSUME Schedule, CronTyped, OverlapInv, [Cron!Next]_(Cron!vars) PROVE CronTyped'
  OBVIOUS
<1>n. MaxTime \in Nat /\ MaxFaults \in Nat /\ \A s \in Slots : s \in Nat \ {0}
  BY DEF Schedule
<1>i. [last |-> 0, paused |-> FALSE] \in Cron!CronBackupType
  BY DEF Cron!CronBackupType
<1>w. Cron!WriteStatus => obj' \in Cron!CronBackupType /\ prev' \in Cron!CronBackupType
  <2>1. [obj EXCEPT !.last = cb.last] \in Cron!CronBackupType
    BY DEF CronTyped, Cron!CronBackupType
  <2> QED
    BY <2>1 DEF Cron!WriteStatus, CronTyped
<1> USE DEF CronTyped, Cron!pass
<1>e. Cron!SyncError => /\ obj' \in Cron!CronBackupType /\ prev' \in Cron!CronBackupType
                        /\ cb' \in Cron!CronBackupType /\ slot' = 0 /\ UNCHANGED now
  BY <1>i, <1>w DEF Cron!SyncError, Cron!EndPass
<1>b. Cron!NoBackup \in Cron!Backup
  <2>1. 0 \in Cron!Times
    BY <1>n DEF Cron!Times
  <2> QED
    BY <2>1 DEF Cron!NoBackup, Cron!Backup
<1>d. \A s \in Cron!Due : [backups[s] EXCEPT !.deleting = TRUE] \in Cron!Backup
  BY DEF Cron!Backup
<1>1. CASE Cron!Reconcile
  BY <1>1, <1>n DEF Cron!Reconcile, Cron!Fault
<1>f. Cron!Error => /\ cb' \in Cron!CronBackupType /\ slot' = 0 /\ UNCHANGED <<now, obj, prev>>
  BY <1>i DEF Cron!Error, Cron!EndPass
<1>g. Cron!Fault => faults' \in Nat
  BY <1>n DEF Cron!Fault
<1>2. CASE Cron!CanPerformNextBackup
  <2>1. /\ UNCHANGED backups
        /\ \/ Cron!SyncError /\ faults' = faults
           \/ Cron!Fault /\ Cron!Error
           \/ UNCHANGED <<now, obj, prev, cb, slot, faults>>
    BY <1>2, Zenon DEF Cron!CanPerformNextBackup, Cron!pass
  <2> QED
    BY <2>1, <1>e, <1>f, <1>g
<1>3. CASE Cron!NextScheduleTime
  <2>1. cb.last \in 0 .. MaxTime
    BY <1>n DEF Cron!CronBackupType, Cron!Due
  <2>2. slot' \in Cron!Due \union {0}
    BY <1>3, <2>1, MostRecentIsDue DEF Cron!NextScheduleTime
  <2> QED
    BY <1>3, <2>2 DEF Cron!NextScheduleTime
<1>4. CASE Cron!CreateBackup
  <2>1. slot \in Cron!Due
    BY <1>4 DEF Cron!CreateBackup, OverlapInv
  <2>a. now \in Cron!Times /\ Cron!NoBackup \in Cron!Backup
    BY <1>b DEF Cron!Times
  <2> HIDE DEF CronTyped
  <2>2. [Cron!NoBackup EXCEPT !.state = "running", !.created = now] \in Cron!Backup
    BY <2>a DEF Cron!Backup
  <2> USE DEF CronTyped
  <2>3. backups' \in [Cron!Due -> Cron!Backup]
    BY <1>4, <2>1, <2>2, Zenon DEF Cron!CreateBackup
  <2>4. [cb EXCEPT !.last = slot] \in Cron!CronBackupType
    BY DEF Cron!CronBackupType
  <2>5. CASE Cron!Fault /\ Cron!SyncError
    BY <2>3, <2>5, <1>e, <1>n DEF Cron!Fault
  <2>6. CASE cb' = [cb EXCEPT !.last = slot] /\ UNCHANGED <<now, obj, prev, slot, faults>>
    BY <2>3, <2>4, <2>6
  <2> QED
    BY <1>4, <2>5, <2>6 DEF Cron!CreateBackup
<1>5. CASE Cron!ListBackups
  BY <1>5 DEF Cron!ListBackups
<1>6. ASSUME NEW s \in Cron!Due, Cron!DeleteBackup(s) PROVE CronTyped'
  <2>2. backups' \in [Cron!Due -> Cron!Backup]
    BY <1>6, <1>b, <1>d DEF Cron!DeleteBackup
  <2>3. UNCHANGED <<now, obj, prev, cb, slot>> /\ (UNCHANGED faults \/ Cron!Fault)
    BY <1>6 DEF Cron!DeleteBackup
  <2> QED
    BY <2>2, <2>3, <1>n DEF Cron!Fault
<1>7. CASE Cron!Deleted
  BY <1>7 DEF Cron!Deleted
<1>8. CASE Cron!SaveStatus \/ Cron!SaveCleanTime
  <2>2. CASE Cron!Fault /\ Cron!Error /\ UNCHANGED backups
    BY <2>2, <1>i, <1>n DEF Cron!Fault, Cron!Error, Cron!EndPass
  <2>3. CASE /\ UNCHANGED <<now, cb, slot, faults, backups>>
             /\ UNCHANGED <<obj, prev>> \/ Cron!WriteStatus
    BY <2>3, <1>w
  <2> QED
    BY <1>8, <2>2, <2>3, Zenon DEF Cron!SaveStatus, Cron!SaveCleanTime
<1>9. CASE Cron!Requeue
  BY <1>9, <1>i DEF Cron!Requeue, Cron!EndPass
<1>10. CASE Cron!CallFails
  <2>1. Cron!Fault /\ UNCHANGED backups /\ (Cron!SyncError \/ Cron!Error)
    BY <1>10, Zenon DEF Cron!CallFails
  <2> QED
    BY <2>1, <1>e, <1>f, <1>g
<1>11. CASE Cron!Restart
  BY <1>11, <1>i, <1>n DEF Cron!Restart, Cron!Fault, Cron!EndPass
<1>12. CASE Cron!Tick
  BY <1>12, <1>n DEF Cron!Tick
<1>13. CASE Cron!TimerFires
  BY <1>13 DEF Cron!TimerFires
<1>14. CASE Cron!SetPause
  <2>1. [obj EXCEPT !.paused = ~@] \in Cron!CronBackupType
    BY DEF Cron!CronBackupType
  <2> QED
    BY <1>14, <2>1 DEF Cron!SetPause
<1>15. ASSUME NEW s \in Cron!Due, Cron!BackupStarts(s) PROVE CronTyped'
  <2>1. [backups[s] EXCEPT !.started = now] \in Cron!Backup
    BY <1>n DEF Cron!Backup, Cron!Times
  <2> QED
    BY <1>15, <2>1 DEF Cron!BackupStarts
<1>16. ASSUME NEW s \in Cron!Due, Cron!BackupEnds(s) PROVE CronTyped'
  <2>1. \A r \in {"complete", "failed"} : [backups[s] EXCEPT !.state = r] \in Cron!Backup
    BY <1>n DEF Cron!Backup, Cron!Times
  <2> QED
    BY <1>16, <2>1 DEF Cron!BackupEnds
<1>17. ASSUME NEW s \in Cron!Due, Cron!BackupGone(s) PROVE CronTyped'
  <2> QED
    BY <1>17, <1>b DEF Cron!BackupGone
<1>18. ASSUME NEW s \in Cron!Due, Cron!UserDeletes(s) PROVE CronTyped'
  <2>2. backups' \in [Cron!Due -> Cron!Backup]
    BY <1>18, <1>b, <1>d DEF Cron!UserDeletes
  <2>3. UNCHANGED <<now, obj, prev, cb, slot>> /\ Cron!Fault
    BY <1>18 DEF Cron!UserDeletes
  <2> QED
    BY <2>2, <2>3, <1>n DEF Cron!Fault
<1>19. CASE UNCHANGED Cron!vars
  BY <1>19 DEF Cron!vars
<1> QED
  BY <1>1, <1>2, <1>3, <1>4, <1>5, <1>6, <1>7, <1>8, <1>9, <1>10, <1>11, <1>12, <1>13,
     <1>14, <1>15,
     <1>16, <1>17, <1>18, <1>19, Zenon DEF Cron!Next, Cron!Pass, Cron!Sync, Cron!Cleanup

\* Only creating makes a backup run; whatever was deleted stays deleted.
LEMMA RunningMoves ==
    ASSUME Schedule, CronTyped, OverlapInv, [Cron!Next]_(Cron!vars)
    PROVE  \/ Cron!CreateBackup /\ Running' \subseteq Running \union {slot}
           \/ /\ Running' \subseteq Running
              /\ \A s \in Cron!Due : backups[s].state # "running" => backups'[s].state # "running"
<1> DEFINE Keep == /\ Running' \subseteq Running
                   /\ \A s \in Cron!Due : backups[s].state # "running" => backups'[s].state # "running"
<1>0. backups \in [Cron!Due -> Cron!Backup]
  BY DEF CronTyped
<1>k. ASSUME UNCHANGED backups PROVE Keep
  BY <1>k DEF Running
<1>b. ASSUME NEW s \in Cron!Due, NEW d, backups' = [backups EXCEPT ![s] = d],
             \/ d.state # "running"
             \/ backups[s].state = "running" /\ (d.deleting \/ (d.deleting <=> backups[s].deleting))
      PROVE  Keep
  <2>1. \A t \in Cron!Due : t # s => backups'[t] = backups[t]
    BY <1>0, <1>b
  <2>2. backups'[s] = d
    BY <1>0, <1>b
  <2> QED
    BY <1>b, <2>1, <2>2 DEF Running
<1>n. Cron!NoBackup.state # "running"
  BY DEF Cron!NoBackup
<1>1. ASSUME Cron!Pass PROVE Cron!CreateBackup \/ Keep
  <2>1. CASE UNCHANGED backups
    BY <2>1, <1>k
  <2>2. ASSUME NEW s \in Cron!Due, Cron!DeleteBackup(s) PROVE Keep
    <3>1. CASE UNCHANGED backups
      BY <3>1, <1>k
    <3>2. CASE backups' = [backups EXCEPT ![s] = Cron!NoBackup]
      BY <3>2, <1>b, <1>n
    <3>3. CASE backups' = [backups EXCEPT ![s] = [backups[s] EXCEPT !.deleting = TRUE]]
      <4> DEFINE d == [backups[s] EXCEPT !.deleting = TRUE]
      <4>1. d.state = backups[s].state /\ d.deleting
        BY <1>0 DEF Cron!Backup
      <4> HIDE DEF d
      <4>2. backups' = [backups EXCEPT ![s] = d]
        BY <3>3 DEF d
      <4> QED
        BY <4>1, <4>2, <1>b
    <3> QED
      BY <2>2, <3>1, <3>2, <3>3 DEF Cron!DeleteBackup
  <2>3. \/ Cron!Reconcile \/ Cron!CanPerformNextBackup \/ Cron!NextScheduleTime
        \/ Cron!CreateBackup \/ Cron!ListBackups \/ (\E s \in Cron!Due : Cron!DeleteBackup(s))
        \/ Cron!Deleted \/ Cron!SaveCleanTime \/ Cron!SaveStatus \/ Cron!Requeue
    BY <1>1, Zenon DEF Cron!Pass, Cron!Sync, Cron!Cleanup
  <2>4. (\/ Cron!Reconcile \/ Cron!CanPerformNextBackup \/ Cron!NextScheduleTime
         \/ Cron!ListBackups \/ Cron!Deleted \/ Cron!SaveCleanTime \/ Cron!SaveStatus
         \/ Cron!Requeue) => UNCHANGED backups
    BY DEF Cron!Reconcile, Cron!CanPerformNextBackup, Cron!NextScheduleTime,
       Cron!ListBackups, Cron!Deleted, Cron!SaveCleanTime, Cron!SaveStatus, Cron!Requeue
  <2>5. Cron!CreateBackup \/ (\E s \in Cron!Due : Cron!DeleteBackup(s)) \/ UNCHANGED backups
    BY <2>3, <2>4, Zenon
  <2> QED
    BY <2>1, <2>2, <2>5, Zenon
<1>2. ASSUME \/ Cron!CallFails \/ Cron!Restart \/ Cron!Tick \/ Cron!TimerFires
             \/ Cron!SetPause \/ UNCHANGED Cron!vars
      PROVE  Keep
  BY <1>2, <1>k DEF Cron!CallFails, Cron!Restart, Cron!Tick, Cron!TimerFires,
     Cron!SetPause, Cron!vars
<1>3. ASSUME NEW s \in Cron!Due, Cron!BackupStarts(s) PROVE Keep
  <2> DEFINE d == [backups[s] EXCEPT !.started = now]
  <2>1. d.state = backups[s].state /\ (d.deleting <=> backups[s].deleting)
    BY <1>0 DEF Cron!Backup
  <2> HIDE DEF d
  <2>2. backups' = [backups EXCEPT ![s] = d]
    BY <1>3 DEF Cron!BackupStarts, d
  <2> QED
    BY <1>3, <2>1, <2>2, <1>b DEF Cron!BackupStarts
<1>4. ASSUME NEW s \in Cron!Due, Cron!BackupEnds(s) PROVE Keep
  <2>1. PICK r \in {"complete", "failed"} : backups' = [backups EXCEPT ![s].state = r]
    BY <1>4 DEF Cron!BackupEnds
  <2> DEFINE d == [backups[s] EXCEPT !.state = r]
  <2>2. d.state # "running"
    BY <1>0 DEF Cron!Backup
  <2> HIDE DEF d
  <2>3. backups' = [backups EXCEPT ![s] = d]
    BY <2>1 DEF d
  <2> QED
    BY <2>2, <2>3, <1>b
<1>5. ASSUME NEW s \in Cron!Due, Cron!BackupGone(s) PROVE Keep
  <2>1. backups' = [backups EXCEPT ![s] = Cron!NoBackup]
    BY <1>5 DEF Cron!BackupGone
  <2> QED
    BY <2>1, <1>b, <1>n
<1>6. ASSUME NEW s \in Cron!Due, Cron!UserDeletes(s) PROVE Keep
  <2>1. CASE backups' = [backups EXCEPT ![s] = Cron!NoBackup]
    BY <2>1, <1>b, <1>n
  <2>2. CASE backups' = [backups EXCEPT ![s] = [backups[s] EXCEPT !.deleting = TRUE]]
    <3> DEFINE d == [backups[s] EXCEPT !.deleting = TRUE]
    <3>1. d.state = backups[s].state /\ d.deleting
      BY <1>0 DEF Cron!Backup
    <3> HIDE DEF d
    <3>2. backups' = [backups EXCEPT ![s] = d]
      BY <2>2 DEF d
    <3> QED
      BY <3>1, <3>2, <1>b
  <2> QED
    BY <1>6, <2>1, <2>2 DEF Cron!UserDeletes
<1>7. Cron!CreateBackup => Running' \subseteq Running \union {slot}
  <2> SUFFICES ASSUME Cron!CreateBackup, NEW s \in Cron!Due, s # slot, s \in Running' PROVE s \in Running
    BY DEF Running
  <2>1. backups'[s] = backups[s]
    BY <1>0 DEF Cron!CreateBackup
  <2> QED
    BY <2>1 DEF Running
<1> HIDE DEF Keep
<1>8. Cron!CreateBackup \/ Keep
  BY <1>1, <1>2, <1>3, <1>4, <1>5, <1>6, Zenon DEF Cron!Next
<1> QED
  BY <1>7, <1>8 DEF Keep

-----------------------------------------------------------------------------
(* The invariant. *)

\* At the start no backup runs.
LEMMA OverlapInit == Schedule /\ Cron!Init => CronTyped /\ OverlapInv
<1> SUFFICES ASSUME Schedule, Cron!Init PROVE CronTyped /\ OverlapInv
  OBVIOUS
<1>0. MaxTime \in Nat
  BY DEF Schedule
<1>1. obj \in Cron!CronBackupType /\ obj.last = 0
  BY DEF Cron!Init, Cron!CronBackupType
<1>2. Cron!NoBackup \in Cron!Backup
  <2>1. 0 \in Cron!Times
    BY <1>0 DEF Cron!Times
  <2> QED
    BY <2>1 DEF Cron!NoBackup, Cron!Backup
<1>3. Running = {}
  BY DEF Cron!Init, Running, Cron!NoBackup
<1>4. Count({}, 0) = 0
  BY FS_EmptySet DEF Count
<1>5. CronTyped
  BY <1>0, <1>1, <1>2 DEF CronTyped, Cron!Init
<1> QED
  BY <1>1, <1>3, <1>4, <1>5 DEF Cron!Init, OverlapInv, Others

\* A backup that starts beside others takes the place of the last one, which
\* has ended, or uses the fault of an old read; one that was not recorded is
\* the fault of the call that failed.
LEMMA OverlapStep == Schedule /\ CronTyped /\ OverlapInv /\ [Cron!Next]_(Cron!vars) => OverlapInv'
<1> SUFFICES ASSUME Schedule, CronTyped, OverlapInv, [Cron!Next]_(Cron!vars) PROVE OverlapInv'
  OBVIOUS
<1>t. CronTyped'
  BY CronTypesKept
<1>r. Running \in SUBSET Cron!Due /\ Running' \in SUBSET Cron!Due
  BY DEF Running
<1>0. \A s \in Cron!Due : s # 0
  BY DEF Cron!Due, Schedule
<1>c. \A l, m : /\ Count(Running, l) \in Nat /\ Count(Running', l) \in Nat
                /\ Count(Running, l) <= Count(Running, m) + 1
                /\ Count(Running', l) <= Count(Running', m) + 1
                /\ m \notin Running => Count(Running, l) <= Count(Running, m)
  BY <1>r, CountOnce
<1>T. /\ faults \in Nat /\ obj.last \in Cron!Due \union {0} /\ cb.last \in Cron!Due \union {0}
      /\ slot \in Cron!Due \union {0} /\ now \in 0 .. MaxTime
  BY DEF CronTyped, Cron!CronBackupType
<1>o. /\ obj \in Cron!CronBackupType /\ cb \in Cron!CronBackupType /\ prev \in Cron!CronBackupType
  BY DEF CronTyped
<1>A. CASE Cron!CreateBackup
  <2>0. pc = "create" /\ slot # 0 /\ slot \in Cron!Due
    BY <1>A, <1>T DEF Cron!CreateBackup, OverlapInv
  <2>1. Running' \subseteq Running \union {slot}
    BY <1>A, RunningMoves
  <2>2. Count(Running', slot) <= Count(Running, slot)
    BY <1>r, <2>1, CountLess
  <2>3. Count(Running, slot) <= faults
    <3>1. CASE cb.last # obj.last
      BY <1>c, <1>T, <2>0, <3>1 DEF OverlapInv, Others
    <3>2. CASE cb.last = obj.last
      <4>1. obj.last \notin Running
        BY <1>0, <2>0, <3>2 DEF OverlapInv, Running
      <4>2. Count(Running, slot) <= Count(Running, obj.last)
        BY <1>c, <4>1
      <4>3. Count(Running, obj.last) <= faults
        BY <1>c, <1>T, <2>0, <3>2 DEF OverlapInv, Others
      <4> QED
        BY <1>c, <1>T, <4>2, <4>3
    <3> QED
      BY <3>1, <3>2
  <2>4. Count(Running', slot) <= faults
    BY <1>c, <1>T, <2>2, <2>3
  <2>5. CASE Cron!Fault /\ Cron!SyncError
    <3>1. pc' = "idle" /\ slot' = 0 /\ faults' = faults + 1
      BY <2>5 DEF Cron!Fault, Cron!SyncError, Cron!EndPass
    <3>2. Count(Running', obj'.last) <= faults + 1
      BY <1>c, <1>T, <2>4
    <3> QED
      BY <3>1, <3>2 DEF OverlapInv, Others
  <2>6. CASE /\ pc' = "list" /\ cb' = [cb EXCEPT !.last = slot]
             /\ requeue' = Cron!NextScheduleTimeDuration(slot, now)
             /\ slot' = slot /\ faults' = faults
    <3>1. cb'.last = slot
      BY <1>o, <2>6 DEF Cron!CronBackupType
    <3>2. requeue' # Cron!NoDelay
      BY <1>T, <2>6, DelayIsSome
    <3> QED
      BY <2>0, <2>4, <2>6, <3>1, <3>2 DEF OverlapInv, Others, Cron!NoDelay
  <2> QED
    BY <1>A, <2>5, <2>6 DEF Cron!CreateBackup
<1>B. CASE ~Cron!CreateBackup
  <2>1. /\ Running' \subseteq Running
        /\ \A s \in Cron!Due : backups[s].state # "running" => backups'[s].state # "running"
    BY <1>B, RunningMoves
  <2>2. \A l : Count(Running', l) <= Count(Running, l)
    BY <1>r, <2>1, CountLess
  <2>3. \A l, f : f \in Nat /\ Count(Running, l) <= f => Count(Running', l) <= f
    BY <2>2, <1>c
  <2>4. Others(obj.last) <= faults + 1
    <3>1. Count(Running, obj.last) <= Count(Running, slot) + 1
      BY <1>c
    <3> QED
      BY <1>c, <1>T, <3>1 DEF OverlapInv, Others
  <2>f. ASSUME Cron!Fault, pc' = "idle", slot' = 0, obj'.last = obj.last PROVE OverlapInv'
    BY <2>f, <2>3, <2>4, <1>T DEF OverlapInv, Others, Cron!Fault
  <2>e. ASSUME pc \in {"perform", "wait"}, pc' = "idle", slot' = 0, obj'.last = obj.last,
               UNCHANGED faults
        PROVE OverlapInv'
    <3>1. Others(obj.last) <= faults
      BY <2>e, <1>c, <1>T DEF OverlapInv, Others
    <3> QED
      BY <2>e, <2>3, <3>1, <1>T DEF OverlapInv, Others
  <2>w. ASSUME Cron!WriteStatus PROVE obj'.last = cb.last
    <3>1. [obj EXCEPT !.last = cb.last].last = cb.last
      BY <1>o DEF Cron!CronBackupType
    <3> QED
      BY <2>w, <3>1 DEF Cron!WriteStatus
  <2>v. ASSUME \/ pc = "perform"
               \/ pc \in {"cleaned", "save"}
        PROVE  Count(Running, cb.last) <= faults
    <3>1. CASE slot = 0
      <4>1. Count(Running, obj.last) + (IF cb.last # obj.last THEN 1 ELSE 0) <= faults
        BY <2>v, <3>1 DEF OverlapInv, Others
      <4>2. Count(Running, cb.last) <= Count(Running, obj.last) + 1
        BY <1>c
      <4> QED
        BY <4>1, <4>2, <1>c, <1>T
    <3>2. CASE slot # 0
      BY <2>v, <3>2 DEF OverlapInv, Others
    <3> QED
      BY <3>1, <3>2
  <2>y. ASSUME Cron!SyncError, pc = "perform", faults' \in {faults, faults + 1}
        PROVE  OverlapInv'
    <3>1. Count(Running', obj'.last) <= faults
      BY <2>y, <2>v, <2>w, <2>3, <1>T DEF Cron!SyncError
    <3>2. pc' = "idle" /\ slot' = 0
      BY <2>y DEF Cron!SyncError, Cron!EndPass
    <3>3. Count(Running', obj'.last) <= faults'
      BY <2>y, <3>1, <1>c, <1>T
    <3> QED
      BY <3>2, <3>3 DEF OverlapInv, Others
  <2>s. ASSUME pc' = pc \/ (pc \in {"list", "delete"} /\ pc' \in {"list", "delete", "cleaned", "save"}),
               UNCHANGED <<cb, slot, requeue>>, obj'.last = obj.last, faults' \in {faults, faults + 1}
        PROVE OverlapInv'
    <3> USE <2>s
    <3>1. /\ Count(Running', obj.last) <= Count(Running, obj.last)
          /\ Count(Running', slot) <= Count(Running, slot)
      BY <2>2
    <3>2. faults' \in Nat /\ faults <= faults'
      BY <1>T
    <3>3. pc' \in {"sync", "create"} /\ cb.last # 0 => backups'[cb.last].state # "running"
      BY <2>1, <1>T DEF OverlapInv
    <3>4. pc' \in {"idle", "perform", "sync", "create", "list", "delete", "cleaned", "save", "wait"}
            /\ (pc' \in {"idle", "perform", "sync"} => slot' = 0) /\ (pc' = "create" => slot' # 0)
      BY DEF OverlapInv
    <3>5. pc' \in {"idle", "wait"} => Count(Running', obj'.last) <= faults'
      BY <3>1, <3>2, <1>c, <1>T DEF OverlapInv, Others
    <3>6. pc' \in {"perform", "sync", "create"} \/ (pc' \in {"list", "delete", "cleaned", "save"} /\ slot' = 0)
            => Count(Running', obj'.last) + (IF cb'.last # obj'.last THEN 1 ELSE 0) <= faults'
      <4>1. SUFFICES ASSUME \/ pc' \in {"perform", "sync", "create"}
                            \/ (pc' \in {"list", "delete", "cleaned", "save"} /\ slot' = 0)
                     PROVE  Count(Running', obj'.last) + (IF cb'.last # obj'.last THEN 1 ELSE 0) <= faults'
        OBVIOUS
      <4>2. pc \in {"perform", "sync", "create"} \/ (pc \in {"list", "delete", "cleaned", "save"} /\ slot = 0)
        BY <4>1
      <4>3. Count(Running, obj.last) + (IF cb.last # obj.last THEN 1 ELSE 0) <= faults
        BY <4>2 DEF OverlapInv, Others
      <4> QED
        BY <4>3, <3>1, <3>2, <1>c, <1>T
    <3>7. pc' \in {"list", "delete", "cleaned", "save"} /\ slot' # 0
            => cb'.last = slot' /\ Count(Running', slot') <= faults' /\ requeue' # Cron!NoDelay
      <4>1. pc' \in {"list", "delete", "cleaned", "save"} => pc \in {"list", "delete", "cleaned", "save"}
        OBVIOUS
      <4> QED
        BY <4>1, <3>1, <3>2, <1>c, <1>T DEF OverlapInv, Others
    <3> QED
      BY <3>3, <3>4, <3>5, <3>6, <3>7 DEF OverlapInv, Others, Cron!NoDelay
  <2>5. CASE Cron!Reconcile
    <3>0. pc = "idle" /\ slot = 0 /\ slot' = 0 /\ obj' = obj /\ pc' \in {"list", "perform"}
      BY <2>5 DEF Cron!Reconcile, OverlapInv
    <3>1. Count(Running', obj.last) <= faults
      BY <3>0, <2>3, <1>T DEF OverlapInv, Others
    <3>2. (cb' = obj /\ faults' = faults) \/ faults' = faults + 1
      BY <2>5 DEF Cron!Reconcile, Cron!Fault
    <3>3. Count(Running', obj'.last) + (IF cb'.last # obj'.last THEN 1 ELSE 0) <= faults'
      BY <3>0, <3>1, <3>2, <1>c, <1>T
    <3> QED
      BY <3>0, <3>3 DEF OverlapInv, Others
  <2>6. CASE Cron!CanPerformNextBackup
    <3>1. CASE cb.last # 0 /\ backups[cb.last].state = "running"
      <4>1. /\ pc = "perform"
            /\ (Cron!SyncError /\ UNCHANGED faults) \/ (Cron!Fault /\ Cron!Error)
        BY <2>6, <3>1, Zenon DEF Cron!CanPerformNextBackup
      <4>2. CASE Cron!SyncError /\ UNCHANGED faults
        BY <4>1, <4>2, <2>y
      <4>3. CASE Cron!Fault /\ Cron!Error
        BY <4>3, <2>f DEF Cron!Error, Cron!EndPass
      <4> QED
        BY <4>1, <4>2, <4>3
    <3>2. CASE ~(cb.last # 0 /\ backups[cb.last].state = "running")
      <4>1. pc = "perform" /\ pc' = "sync" /\ UNCHANGED <<obj, cb, slot, requeue, faults, backups>>
        BY <2>6, <3>2 DEF Cron!CanPerformNextBackup, Cron!pass
      <4>2. Running' = Running
        BY <4>1 DEF Running
      <4> QED
        BY <3>2, <4>1, <4>2 DEF OverlapInv, Others
    <3> QED
      BY <3>1, <3>2
  <2>7. CASE Cron!NextScheduleTime
    <3>1. pc = "sync" /\ UNCHANGED <<obj, cb, faults, backups>> /\ slot = 0
      BY <2>7 DEF Cron!NextScheduleTime, OverlapInv
    <3>2. Running' = Running
      BY <3>1 DEF Running
    <3>3. (pc' = "list" /\ slot' = slot) \/ (pc' = "create" /\ slot' # 0)
      BY <2>7 DEF Cron!NextScheduleTime
    <3> QED
      BY <3>1, <3>2, <3>3 DEF OverlapInv, Others
  <2>8. CASE Cron!ListBackups
    BY <2>8, <2>s DEF Cron!ListBackups
  <2>9. ASSUME NEW s \in Cron!Due, Cron!DeleteBackup(s) PROVE OverlapInv'
    BY <2>9, <2>s DEF Cron!DeleteBackup, Cron!Fault
  <2>10. CASE Cron!Deleted
    BY <2>10, <2>s DEF Cron!Deleted, Cron!pass
  <2>11. CASE Cron!SaveStatus
    <3>1. CASE Cron!Fault /\ Cron!Error
      BY <3>1, <2>f DEF Cron!Error, Cron!EndPass
    <3>2. CASE ~(Cron!Fault /\ Cron!Error)
      <4>0. pc = "save" /\ pc' = "wait" /\ faults' = faults /\ slot' = slot
        BY <2>11, <3>2 DEF Cron!SaveStatus
      <4>1. obj'.last = cb.last \/ (obj' = obj /\ slot = 0)
        <5>1. slot # 0 => requeue # Cron!NoDelay
          BY <4>0 DEF OverlapInv
        <5>2. Cron!WriteStatus \/ (obj' = obj /\ requeue = Cron!NoDelay)
          BY <2>11, <3>2 DEF Cron!SaveStatus
        <5> QED
          BY <5>1, <5>2, <2>w
      <4>2. Count(Running, obj'.last) <= faults
        <5>1. Count(Running, cb.last) <= faults
          BY <4>0, <2>v
        <5>2. slot = 0 => Count(Running, obj.last) <= faults
          BY <4>0, <1>c, <1>T DEF OverlapInv, Others
        <5> QED
          BY <4>1, <5>1, <5>2
      <4>3. Count(Running', obj'.last) <= faults
        BY <4>2, <2>3, <1>T
      <4> QED
        BY <4>0, <4>3 DEF OverlapInv, Others
    <3> QED
      BY <3>1, <3>2
  <2>c. CASE Cron!SaveCleanTime
    <3>1. CASE Cron!Fault /\ Cron!Error
      BY <3>1, <2>f DEF Cron!Error, Cron!EndPass
    <3>2. CASE ~(Cron!Fault /\ Cron!Error)
      <4>1. /\ pc = "cleaned" /\ pc' = "save" /\ Cron!WriteStatus
            /\ UNCHANGED <<cb, slot, requeue, faults, backups>>
        BY <2>c, <3>2 DEF Cron!SaveCleanTime, Cron!pass
      <4>2. obj'.last = cb.last /\ Count(Running, cb.last) <= faults /\ Running' = Running
        BY <4>1, <2>v, <2>w DEF Running
      <4> QED
        BY <4>1, <4>2, <1>c, <1>T DEF OverlapInv, Others, Cron!NoDelay
    <3> QED
      BY <3>1, <3>2
  <2>12. CASE Cron!Requeue
    BY <2>12, <2>e DEF Cron!Requeue, Cron!EndPass
  <2>13. CASE Cron!CallFails
    <3>1. CASE pc = "perform" /\ Cron!SyncError
      BY <2>13, <3>1, <2>y, <1>T DEF Cron!CallFails, Cron!Fault
    <3>2. CASE Cron!Error
      BY <2>13, <3>2, <2>f DEF Cron!CallFails, Cron!Error, Cron!EndPass
    <3> QED
      BY <2>13, <3>1, <3>2 DEF Cron!CallFails
  <2>14. CASE Cron!Restart
    BY <2>14, <2>f DEF Cron!Restart, Cron!EndPass
  <2>15. CASE Cron!Tick
    BY <2>15, <2>s DEF Cron!Tick, Cron!pass
  <2>16. CASE Cron!TimerFires
    BY <2>16, <2>s DEF Cron!TimerFires, Cron!pass
  <2>17. CASE Cron!SetPause
    <3>1. obj'.last = obj.last
      BY <2>17, <1>o DEF Cron!SetPause, Cron!CronBackupType
    <3> QED
      BY <2>17, <3>1, <2>s DEF Cron!SetPause, Cron!pass
  <2>18. ASSUME NEW s \in Cron!Due, \/ Cron!BackupStarts(s) \/ Cron!BackupEnds(s)
                                         \/ Cron!BackupGone(s) \/ Cron!UserDeletes(s)
         PROVE OverlapInv'
    <3>1. UNCHANGED <<pc, cb, slot, requeue, obj>> /\ faults' \in {faults, faults + 1}
      BY <2>18 DEF Cron!BackupStarts, Cron!BackupEnds, Cron!BackupGone,
         Cron!UserDeletes, Cron!pass, Cron!Fault
    <3> QED
      BY <3>1, <2>s
  <2>19. CASE UNCHANGED Cron!vars
    BY <2>19, <2>s DEF Cron!vars, Cron!pass
  <2> QED
    BY <1>B, <2>5, <2>6, <2>7, <2>8, <2>9, <2>10, <2>11, <2>c, <2>12, <2>13, <2>14, <2>15,
       <2>16, <2>17,
       <2>18, <2>19, Zenon DEF Cron!Next, Cron!Pass, Cron!Sync, Cron!Cleanup
<1> QED
  BY <1>A, <1>B

\* The instance counts with the same Cardinality.
LEMMA SameCardinality ==
    ASSUME NEW S, NEW n, Cardinality(S) = n PROVE Cron!Cardinality(S) = n
BY Zenon DEF Cron!Cardinality, Cardinality

\* Whatever the schedule, backups that the cron backup controller starts run
\* beside each other only after faults: no more of them than one and the number
\* of stale reads, failed calls, restarts and deletions by users
\* (cronbackup_manager.go canPerformNextBackup).
THEOREM OverlapsNeedFaults == Schedule => (Cron!Spec => []Cron!OverlapNeedsFault)
<1> SUFFICES ASSUME Schedule PROVE Cron!Spec => []Cron!OverlapNeedsFault
  OBVIOUS
<1>1. Cron!Init => CronTyped /\ OverlapInv
  BY OverlapInit
<1>2. CronTyped /\ OverlapInv /\ [Cron!Next]_(Cron!vars) => (CronTyped /\ OverlapInv)'
  BY CronTypesKept, OverlapStep
<1>3. CronTyped /\ OverlapInv => Cron!OverlapNeedsFault
  <2> SUFFICES ASSUME CronTyped, OverlapInv PROVE Cron!OverlapNeedsFault
    OBVIOUS
  <2>1. Running \in SUBSET Cron!Due
    BY DEF Running
  <2>2. /\ Count(Running, 0) <= Count(Running, obj.last) + 1
        /\ Count(Running, 0) <= Count(Running, slot) + 1
        /\ Count(Running, obj.last) \in Nat /\ Count(Running, slot) \in Nat /\ Count(Running, 0) \in Nat
    BY <2>1, CountOnce
  <2>3. Count(Running, 0) = Cardinality(Running)
    <3>1. 0 \notin Running
      BY DEF Running, Cron!Due, Schedule
    <3>2. Running \ {0} = Running
      BY <3>1
    <3> QED
      BY <3>2 DEF Count
  <2>4. Count(Running, 0) <= 1 + faults
    BY <2>2 DEF OverlapInv, Others, CronTyped
  <2>5. Running = {s \in Cron!Due : backups[s].state = "running" /\ ~backups[s].deleting}
    BY DEF Running
  <2>6. Cron!Cardinality(Running) = Cardinality(Running)
    BY SameCardinality
  <2> QED
    BY <2>3, <2>4, <2>5, <2>6 DEF Cron!OverlapNeedsFault
<1> QED
  BY <1>1, <1>2, <1>3, PTL DEF Cron!Spec

-----------------------------------------------------------------------------
(***************************************************************************)
(* One restore.  It starts nothing before its data, for any number of pods *)
(* and names, any failed calls and restarts.  OrderInv follows the name of *)
(* the cluster and the data of metad, whatever is evicted or read late;    *)
(* RestoreDataInv follows the data of storaged, for which a pass needs the *)
(* partitions that an earlier one recorded.                                *)
(***************************************************************************)

\* What the code takes for granted: a pod has one component, a name is not empty
RestoreConstants ==
    /\ MaxFaults \in Nat
    /\ Metads \cap Storageds = {}
    /\ "" \notin Names
    /\ AutoRemoveFailed \in BOOLEAN /\ OtherNamespace \in BOOLEAN /\ Errors \in BOOLEAN
    /\ Evictions \in BOOLEAN /\ StaleReads \in BOOLEAN

\* Restores that keep their cluster.  Two cases are left out: with autoRemoveFailed, when
\* the write of the status Failed fails as well, a later pass goes on with the cluster
\* that was removed; and an outdated copy without a name makes the operator choose
\* another one
RestoreKept ==
    /\ RestoreConstants
    /\ AutoRemoveFailed /\ ~OtherNamespace => ~Errors
    /\ StaleReads => \A m, n \in Names : m = n

\* In addition reads are fresh and no pod is replaced before it got its data
RestoreQuiet == RestoreKept /\ ~StaleReads /\ ~Evictions

\* What holds of the pods of cluster n
Downloaded(n, set) == \A p \in set : pod[n][p].files
Applied(n, set)    == \A p \in set : pod[n][p].applied

\* The steps behind the choice of the name
Named == Restore!Steps \ {"idle", "pods", "original", "name", "fail", "remove"}
\* The steps before which metad has its files, and before which they are applied
HasMeta == {"statusMetaDownload", "metadReady", "restoreMeta"}
MetaApplied ==
    {"statusMetad", "annotateMetad", "storaged", "downloadStorage", "statusStorageDownload",
     "playback", "stopStorage", "statusStoraged", "annotateStoraged", "ready",
     "removeCheckpoints", "removeInit"}
\* The steps of stage 2
Late == {"release", "statusComplete"}

\* The operator works on one cluster
NameInv ==
    /\ pc \in Named => name = obj.name /\ name # ""
    /\ pc # "idle" /\ nr.name # "" => nr.name = obj.name
    /\ pc = "pods" => nr.name # ""
    /\ pc \in {"original", "name"} /\ ~StaleReads => nr.name = obj.name
    /\ old.name # "" => old.name = obj.name
    /\ \A n \in Names : cluster[n].exists => n = obj.name
    /\ pc \in {"fail", "remove"} => Errors

\* A flag in a copy of the object is in the object
FlagInv ==
    \A c \in {old, nr} :
        /\ c.metaDownload => obj.metaDownload
        /\ c.metad => obj.metad
        /\ c.storageDownload => obj.storageDownload
        /\ c.storaged => obj.storaged

\* The metads whose agents are still to be stopped
LeftMeta ==
    /\ pc \in {"downloadMeta", "stopMeta"} =>
         /\ left \subseteq Metads
         /\ Downloaded(name, Metads \ left)
    /\ pc = "stopMeta" => left # {} /\ pod[name][CHOOSE p \in left : TRUE].files

\* The metads that are still to be restored
AppliedMeta == pc = "restoreMeta" => Applied(name, Metads \ left)

\* What the object, the annotations of the cluster and the place in the pass say
\* of the metads is true
MetaInv ==
    /\ obj.metaDownload \/ obj.metad => obj.name # ""
    /\ obj.metaDownload => Downloaded(obj.name, Metads)
    /\ obj.metad => Applied(obj.name, Metads)
    /\ \A n \in Names : cluster[n].metadDone \/ (cluster[n].exists /\ ~cluster[n].named)
                            => Applied(n, Metads)
    /\ \A n \in Names : cluster[n].stage = "2" => Applied(n, Metads)
    /\ LeftMeta /\ AppliedMeta
    /\ pc \in HasMeta => Downloaded(name, Metads)
    /\ pc \in MetaApplied \union Late => Applied(name, Metads)

OrderInv == NameInv /\ FlagInv /\ MetaInv /\ Restore!StoragedAfterMetad

\* No storaged has started, and none will
Waiting(n) ==
    /\ \A p \in Storageds : pod[n][p].phase = "none"
    /\ ~cluster[n].metadDone /\ (cluster[n].exists => cluster[n].named)

\* The steps before the metads count as restored, and those after that
AsRead   == {"pods", "original", "name", "stage", "create", "load"}
LoadMeta == {"metad", "downloadMeta", "stopMeta", "statusMetaDownload", "metadReady",
             "restoreMeta", "statusMetad"}
AfterMeta == (MetaApplied \union Late) \ {"statusMetad"}

\* The pass that restores the metads meets no storaged; every later one has the
\* partitions that are to be downloaded
PartitionInv ==
    /\ ~obj.metad => \A n \in Names : Waiting(n) /\ cluster[n].stage # "2"
    /\ pc \in AsRead => obj.metad = nr.metad
    /\ pc \in LoadMeta => ~obj.metad
    /\ pc \in AfterMeta => obj.metad
    /\ pc = "annotateMetad" /\ ~nr.metad => Waiting(name)
    /\ pc = "storaged" /\ ~nr.metad => \A p \in Storageds : pod[name][p].phase = "none"
    /\ pc \in {"playback", "stopStorage", "statusStoraged"} => obj.storageDownload
    /\ obj.metad /\ ~obj.storageDownload /\ ~obj.complete /\ obj.failed # "True"
         => obj.partitions
    /\ pc # "idle" /\ nr.metad /\ ~nr.storageDownload => nr.partitions

StoragedLoaded == {"statusStorageDownload", "playback", "stopStorage"}
StoragedApplied ==
    {"stopStorage", "statusStoraged", "annotateStoraged", "ready", "removeCheckpoints",
     "removeInit", "release", "statusComplete"}

\* The storageds whose files are still to be downloaded, or whose agents to be stopped
LeftStoraged ==
    /\ pc = "downloadStorage" => left \subseteq Storageds /\ Downloaded(name, Storageds \ left)
    /\ pc = "stopStorage" => left \subseteq Storageds

\* What the object, the annotations and the place in the pass say of the storageds
\* is true
LoadInv ==
    /\ obj.storageDownload \/ obj.storaged \/ obj.complete => obj.name # ""
    /\ obj.storageDownload => Downloaded(obj.name, Storageds)
    /\ obj.storaged => Applied(obj.name, Storageds)
    /\ \A n \in Names : cluster[n].storagedDone \/ (cluster[n].exists /\ ~cluster[n].named)
                            => Applied(n, Metads) /\ Applied(n, Storageds)
    /\ \A n \in Names : cluster[n].stage = "2" => Applied(n, Storageds)
    /\ LeftStoraged
    /\ pc \in StoragedLoaded => Downloaded(name, Storageds)
    /\ pc \in StoragedApplied => Applied(name, Storageds)

\* No pod is lost, and no pod is there before its cluster
Healthy ==
    \A n \in Names, p \in Restore!Pods :
        pod[n][p].phase # "failed" /\ (~cluster[n].exists => pod[n][p].phase = "none")

\* Clients reach the restored cluster only with its data
GraphdLast == \A n \in Names : cluster[n].graphd => Applied(n, Metads) /\ Applied(n, Storageds)

\* Nobody uses data that is not there
UseInv == Healthy /\ Restore!NoEmptyStart /\ GraphdLast /\ Restore!CompleteHasData

RestoreDataInv == PartitionInv /\ LoadInv /\ UseInv

-----------------------------------------------------------------------------
(* Types *)

LEMMA MergeType ==
    ASSUME NEW o \in Restore!Restore, NEW parts \in BOOLEAN, NEW checkpoints \in BOOLEAN
    PROVE  /\ Restore!Merge(o, parts, checkpoints) \in Restore!Restore
           /\ \A n \in Names : Restore!Merge([o EXCEPT !.name = n], parts, checkpoints) \in Restore!Restore
           /\ \A f \in {"Unknown", "True"} :
                Restore!Merge([o EXCEPT !.failed = f], parts, checkpoints) \in Restore!Restore
           /\ Restore!Merge([o EXCEPT !.metaDownload = TRUE], parts, checkpoints) \in Restore!Restore
           /\ Restore!Merge([o EXCEPT !.metad = TRUE], parts, checkpoints) \in Restore!Restore
           /\ Restore!Merge([o EXCEPT !.storageDownload = TRUE], parts, checkpoints) \in Restore!Restore
           /\ Restore!Merge([o EXCEPT !.storaged = TRUE], parts, checkpoints) \in Restore!Restore
           /\ Restore!Merge([o EXCEPT !.complete = TRUE], parts, checkpoints) \in Restore!Restore
BY DEF Restore!Merge, Restore!Restore

\* The first of the pods that are left is one of them
LEMMA FirstLeft == ASSUME left # {} PROVE (CHOOSE p \in left : TRUE) \in left
OBVIOUS

\* TypeOK in the form that the provers use; there is a metad whose agent is stopped
Types ==
    /\ obj \in Restore!Restore /\ old \in Restore!Restore /\ nr \in Restore!Restore
    /\ queued \in BOOLEAN /\ paths \in BOOLEAN
    /\ pc \in Restore!Steps /\ name \in Names \union {""} /\ left \subseteq Restore!Pods
    /\ cluster \in [Names -> Restore!Cluster]
    /\ pod \in [Names -> [Restore!Pods -> Restore!PodState]]
    /\ faults \in 0 .. MaxFaults
    /\ pc = "stopMeta" => left # {}

LEMMA SameTypes == Types => Restore!TypeOK
BY DEF Types, Restore!TypeOK

LEMMA UpdateType ==
    ASSUME Types, NEW o \in Restore!Restore, Restore!Update(o)
    PROVE  obj' \in Restore!Restore /\ old' \in Restore!Restore /\ queued' \in BOOLEAN
BY DEF Restore!Update, Types

LEMMA NewTypes ==
    /\ Restore!NewRestore \in Restore!Restore
    /\ Restore!NoCluster \in Restore!Cluster
    /\ Restore!NewPod \in Restore!PodState
BY DEF Restore!NewRestore, Restore!Restore, Restore!NoCluster, Restore!Cluster,
   Restore!NewPod, Restore!PodState

LEMMA BoundType == RestoreConstants => MaxFaults \in Nat
BY Zenon DEF RestoreConstants

LEMMA FaultType ==
    RestoreConstants /\ faults \in 0 .. MaxFaults /\ Restore!Fault => faults' \in 0 .. MaxFaults
BY BoundType DEF Restore!Fault

LEMMA TypeInit == RestoreConstants /\ Restore!Init => Types
<1> SUFFICES ASSUME RestoreConstants, Restore!Init PROVE Types
  OBVIOUS
<1> faults = 0
  BY Zenon DEF Restore!Init
<1>1. faults \in 0 .. MaxFaults
  BY BoundType
<1>2. /\ cluster \in [Names -> Restore!Cluster]
      /\ pod \in [Names -> [Restore!Pods -> Restore!PodState]]
  BY NewTypes DEF Restore!Init
<1>3. /\ obj \in Restore!Restore /\ old \in Restore!Restore /\ nr \in Restore!Restore
      /\ queued \in BOOLEAN /\ paths \in BOOLEAN
      /\ pc = "idle" /\ pc \in Restore!Steps /\ name \in Names \union {""}
      /\ left \subseteq Restore!Pods
  BY NewTypes DEF Restore!Init, Restore!Steps
<1> QED
  BY <1>1, <1>2, <1>3 DEF Types

\* The steps that only move on, or read
LEMMA TypeGoto ==
    ASSUME RestoreConstants, Types,
           \/ Restore!Reconcile \/ Restore!GetOriginal \/ Restore!Stage \/ Restore!Load
           \/ Restore!ConnectMetad \/ Restore!MetadReady
           \/ Restore!ConnectStoraged \/ Restore!ClusterReady \/ Restore!CallFails
           \/ Restore!Restart
    PROVE  Types'
<1> USE FaultType DEF Restore!Goto, Restore!Requeue, Restore!local, Restore!world,
        Restore!Steps
<1>1. CASE Restore!Reconcile
  BY <1>1 DEF Restore!Reconcile, Types
<1>2. CASE \/ Restore!GetOriginal \/ Restore!Load \/ Restore!MetadReady
           \/ Restore!ClusterReady
  BY <1>2
     DEF Restore!GetOriginal, Restore!Load, Restore!MetadReady, Restore!ClusterReady,
         Types, Restore!Pods
<1>6. CASE Restore!Stage
  BY <1>6 DEF Restore!Stage, Types
<1>7. CASE Restore!CallFails
  <2>1. faults' \in 0 .. MaxFaults /\ pc' \in Restore!Steps \ {"stopMeta"}
    BY <1>7 DEF Restore!CallFails, Types
  <2>2. queued' \in BOOLEAN /\ UNCHANGED <<obj, old, nr, name, left, paths, cluster, pod>>
    BY <1>7 DEF Restore!CallFails, Types
  <2> QED
    BY <2>1, <2>2 DEF Types
<1>3. CASE Restore!ConnectMetad
  BY <1>3 DEF Restore!ConnectMetad, Types, Restore!Pods
<1>4. CASE Restore!ConnectStoraged
  BY <1>4 DEF Restore!ConnectStoraged, Types, Restore!Pods
<1>5. CASE Restore!Restart
  BY <1>5, NewTypes DEF Restore!Restart, Types
<1> QED
  BY <1>1, <1>2, <1>3, <1>4, <1>5, <1>6, <1>7

\* The steps that write the status
LEMMA TypeStatus ==
    ASSUME RestoreConstants, Types,
           \/ Restore!CheckPods \/ Restore!GetRestoredName \/ Restore!StatusComplete
           \/ Restore!StatusMetaDownload
           \/ Restore!StatusMetad \/ Restore!StatusStorageDownload \/ Restore!StatusStoraged
           \/ Restore!StatusFailed
    PROVE  Types'
<1> USE FaultType DEF Restore!Goto, Restore!local, Restore!world, Restore!Steps
<1>1. CASE Restore!CheckPods
  <2>1. Restore!Merge([obj EXCEPT !.failed = "Unknown"], FALSE, FALSE) \in Restore!Restore
    BY MergeType DEF Types
  <2>2. obj' \in Restore!Restore /\ old' \in Restore!Restore /\ queued' \in BOOLEAN
    BY <1>1, <2>1, UpdateType DEF Restore!CheckPods, Types
  <2>3. faults' \in 0 .. MaxFaults /\ pc' \in Restore!Steps
    BY <1>1 DEF Restore!CheckPods, Types
  <2> QED
    BY <1>1, <2>2, <2>3 DEF Restore!CheckPods, Types
<1>2. CASE Restore!GetRestoredName
  <2>1. \A n \in Names : Restore!Merge([obj EXCEPT !.name = n], FALSE, FALSE) \in Restore!Restore
    BY MergeType DEF Types
  <2>2. obj' \in Restore!Restore /\ old' \in Restore!Restore /\ queued' \in BOOLEAN
    BY <1>2, <2>1, UpdateType DEF Restore!GetRestoredName, Types
  <2>3. name' \in Names \union {""}
    BY <1>2 DEF Restore!GetRestoredName, Restore!Restore, Types
  <2> QED
    BY <1>2, <2>2, <2>3 DEF Restore!GetRestoredName, Types
<1>3. ASSUME NEW o \in Restore!Restore, NEW step \in Restore!Steps \ {"stopMeta"}, Restore!StatusThen(o, step)
      PROVE  Types'
  <2>1. obj' \in Restore!Restore /\ old' \in Restore!Restore /\ queued' \in BOOLEAN
    BY <1>3, UpdateType DEF Restore!StatusThen
  <2> QED
    BY <1>3, <2>1 DEF Restore!StatusThen, Types
<1>4. CASE Restore!StatusComplete
  BY <1>3, <1>4, MergeType DEF Restore!StatusComplete, Types
<1>5. CASE Restore!StatusMetaDownload
  BY <1>3, <1>5, MergeType DEF Restore!StatusMetaDownload, Types
<1>6. CASE Restore!StatusMetad
  BY <1>3, <1>6, MergeType DEF Restore!StatusMetad, Types
<1>7. CASE Restore!StatusStorageDownload
  BY <1>3, <1>7, MergeType DEF Restore!StatusStorageDownload, Types
<1>8. CASE Restore!StatusStoraged
  BY <1>3, <1>8, MergeType DEF Restore!StatusStoraged, Types
<1>9. CASE Restore!StatusFailed
  <2>1. Restore!Merge([obj EXCEPT !.failed = "True"], FALSE, FALSE) \in Restore!Restore
    BY MergeType DEF Types
  <2>2. obj' \in Restore!Restore /\ old' \in Restore!Restore /\ queued' \in BOOLEAN
    BY <1>9, <2>1, UpdateType DEF Restore!StatusFailed, Types
  <2>3. faults' \in 0 .. MaxFaults
    BY <1>9 DEF Restore!StatusFailed, Types
  <2> QED
    BY <1>9, <2>2, <2>3 DEF Restore!StatusFailed, Types
<1> QED
  BY <1>1, <1>2, <1>4, <1>5, <1>6, <1>7, <1>8, <1>9

\* The steps that change the cluster
LEMMA TypeCluster ==
    ASSUME RestoreConstants, Types,
           \/ Restore!Release \/ Restore!Create \/ Restore!AnnotateMetad
           \/ Restore!AnnotateStoraged
           \/ Restore!RemoveInitAgentContainer \/ Restore!RemoveCluster
           \/ \E n \in Names : Restore!GraphdStarts(n)
    PROVE  Types'
<1> USE FaultType DEF Restore!local, Restore!world, Restore!Steps
<1>1. \A n \in Names : cluster[n] \in Restore!Cluster
  BY DEF Types
<1>2. CASE Restore!Release
  <2> DEFINE c == [cluster[name] EXCEPT !.stage = "", !.named = FALSE,
                        !.metadDone = FALSE, !.storagedDone = FALSE]
  <2>a. name \in Names => c \in Restore!Cluster
    BY <1>1 DEF Restore!Cluster
  <2> HIDE DEF c
  <2>b. cluster' = [cluster EXCEPT ![name] = c]
    BY <1>2 DEF Restore!Release, c
  <2>1. cluster' \in [Names -> Restore!Cluster]
    BY <2>a, <2>b DEF Types
  <2> QED
    BY <1>2, <2>1 DEF Restore!Release, Types
<1>3. CASE Restore!Create
  <2>1. [Restore!NoCluster EXCEPT !.exists = TRUE, !.stage = "1", !.named = TRUE, !.initAgents = TRUE]
         \in Restore!Cluster
    BY DEF Restore!NoCluster, Restore!Cluster
  <2>2. cluster' \in [Names -> Restore!Cluster]
    BY <1>1, <1>3, <2>1 DEF Restore!Create, Types
  <2> QED
    BY <1>3, <2>2 DEF Restore!Create, Types
<1>4. CASE Restore!AnnotateMetad
  <2>1. cluster' \in [Names -> Restore!Cluster]
    BY <1>1, <1>4 DEF Restore!AnnotateMetad, Types, Restore!Cluster
  <2> QED
    BY <1>4, <2>1 DEF Restore!AnnotateMetad, Types
<1>5. CASE Restore!AnnotateStoraged
  <2>1. cluster' \in [Names -> Restore!Cluster]
    BY <1>1, <1>5 DEF Restore!AnnotateStoraged, Types, Restore!Cluster
  <2> QED
    BY <1>5, <2>1 DEF Restore!AnnotateStoraged, Types
<1>6. CASE Restore!RemoveInitAgentContainer
  <2> DEFINE c == [cluster[name] EXCEPT !.stage = "2", !.initAgents = FALSE,
                        !.named = FALSE, !.metadDone = FALSE, !.storagedDone = FALSE]
  <2>a. name \in Names => c \in Restore!Cluster
    BY <1>1 DEF Restore!Cluster
  <2> HIDE DEF c
  <2>b. cluster' = [cluster EXCEPT ![name] = c]
    BY <1>6 DEF Restore!RemoveInitAgentContainer, c
  <2>1. cluster' \in [Names -> Restore!Cluster]
    BY <2>a, <2>b DEF Types
  <2> QED
    BY <1>6, <2>1 DEF Restore!RemoveInitAgentContainer, Types
<1>7. CASE Restore!RemoveCluster
  <2>1. /\ [p \in Restore!Pods |-> Restore!NewPod] \in [Restore!Pods -> Restore!PodState]
        /\ Restore!NoCluster \in Restore!Cluster
    BY NewTypes
  <2>2. /\ cluster' \in [Names -> Restore!Cluster]
        /\ pod' \in [Names -> [Restore!Pods -> Restore!PodState]]
    BY <1>7, <2>1 DEF Restore!RemoveCluster, Types
  <2>3. faults' \in 0 .. MaxFaults
    BY <1>7 DEF Restore!RemoveCluster, Types
  <2> QED
    BY <1>7, <2>2, <2>3 DEF Restore!RemoveCluster, Types
<1>8. ASSUME NEW n \in Names, Restore!GraphdStarts(n) PROVE Types'
  <2>a. [cluster[n] EXCEPT !.graphd = TRUE] \in Restore!Cluster
    BY <1>1 DEF Restore!Cluster
  <2>b. cluster' = [cluster EXCEPT ![n] = [cluster[n] EXCEPT !.graphd = TRUE]]
    BY <1>8 DEF Restore!GraphdStarts
  <2>1. cluster' \in [Names -> Restore!Cluster]
    BY <2>a, <2>b DEF Types
  <2> QED
    BY <1>8, <2>1 DEF Restore!GraphdStarts, Types
<1> QED
  BY <1>2, <1>3, <1>4, <1>5, <1>6, <1>7, <1>8

\* Replacing one pod, or the pods of one cluster
LEMMA PodTypes ==
    ASSUME Types, NEW n \in Names
    PROVE  /\ \A p \in Restore!Pods :
                pod[n][p] \in Restore!PodState /\ pod[n] \in [Restore!Pods -> Restore!PodState]
           /\ \A p \in Restore!Pods : \A r \in Restore!PodState :
                [pod EXCEPT ![n][p] = r] \in [Names -> [Restore!Pods -> Restore!PodState]]
           /\ \A g \in [Restore!Pods -> Restore!PodState] :
                [pod EXCEPT ![n] = g] \in [Names -> [Restore!Pods -> Restore!PodState]]
<1>1. pod \in [Names -> [Restore!Pods -> Restore!PodState]]
  BY DEF Types
<1>2. ASSUME NEW p \in Restore!Pods, NEW r \in Restore!PodState
      PROVE  [pod EXCEPT ![n][p] = r] \in [Names -> [Restore!Pods -> Restore!PodState]]
  <2>1. [pod[n] EXCEPT ![p] = r] \in [Restore!Pods -> Restore!PodState]
    BY <1>1
  <2> QED
    BY <1>1, <2>1
<1> QED
  BY <1>1, <1>2

\* The records that the steps write
LEMMA PodRecords ==
    ASSUME NEW r \in Restore!PodState
    PROVE  /\ [r EXCEPT !.files = TRUE] \in Restore!PodState
           /\ [r EXCEPT !.files = TRUE, !.checkpoint = TRUE] \in Restore!PodState
           /\ [r EXCEPT !.checkpoint = FALSE] \in Restore!PodState
           /\ \A f \in {"none", "init", "main", "ready", "failed"} : [r EXCEPT !.phase = f] \in Restore!PodState
           /\ [r EXCEPT !.applied = @ \/ r.files] \in Restore!PodState
BY DEF Restore!PodState

\* The steps that change pods
LEMMA TypePods ==
    ASSUME RestoreConstants, Types, NEW n \in Names, NEW p \in Restore!Pods,
           Restore!PodStarts(n, p) \/ Restore!PodReady(n, p) \/ Restore!PodFails(n, p) \/ Restore!PodReplaced(n, p)
    PROVE  Types'
<1>1. PICK f \in {"none", "init", "main", "ready", "failed"} : pod' = [pod EXCEPT ![n][p].phase = f]
  BY DEF Restore!PodStarts, Restore!PodReady, Restore!PodFails, Restore!PodReplaced
<1>2. [pod[n][p] EXCEPT !.phase = f] \in Restore!PodState
  BY PodTypes, PodRecords
<1>3. pod' = [pod EXCEPT ![n][p] = [pod[n][p] EXCEPT !.phase = f]]
  BY <1>1 DEF Types
<1>4. pod' \in [Names -> [Restore!Pods -> Restore!PodState]]
  BY <1>2, <1>3, PodTypes
<1>5. faults' \in 0 .. MaxFaults
  BY FaultType
     DEF Restore!PodStarts, Restore!PodReady, Restore!PodFails, Restore!PodReplaced, Types
<1>6. UNCHANGED <<obj, old, queued, pc, Restore!local, cluster>>
  BY DEF Restore!PodStarts, Restore!PodReady, Restore!PodFails, Restore!PodReplaced
<1> QED
  BY <1>4, <1>5, <1>6 DEF Types, Restore!local

LEMMA TypeData ==
    ASSUME RestoreConstants, Types,
           \/ Restore!DownloadMeta \/ Restore!StopMeta \/ Restore!RestoreMeta
           \/ Restore!DownloadStorage \/ Restore!Playback
           \/ Restore!StopStorage \/ Restore!RemoveCheckpoints
    PROVE  Types'
<1> USE DEF Restore!local, Restore!Steps
<1>1. ASSUME NEW p \in Restore!Pods, NEW r \in Restore!PodState, pod' = [pod EXCEPT ![name][p] = r]
      PROVE  pod' \in [Names -> [Restore!Pods -> Restore!PodState]]
  BY <1>1, PodTypes DEF Types
<1>2. ASSUME NEW g \in [Restore!Pods -> Restore!PodState], pod' = [pod EXCEPT ![name] = g]
      PROVE  pod' \in [Names -> [Restore!Pods -> Restore!PodState]]
  BY <1>2, PodTypes DEF Types
<1>3. name \in Names => \A p \in Restore!Pods : pod[name][p] \in Restore!PodState
  BY PodTypes
<1>4. ASSUME NEW p \in Restore!Pods, NEW r, pod' = [pod EXCEPT ![name][p] = r],
             name \in Names => r \in Restore!PodState
      PROVE  pod' \in [Names -> [Restore!Pods -> Restore!PodState]]
  <2>1. CASE name \in Names
    BY <1>1, <1>4, <2>1
  <2>2. CASE name \notin Names
    BY <1>4, <2>2 DEF Types
  <2> QED
    BY <2>1, <2>2
<1>5. ASSUME NEW g, pod' = [pod EXCEPT ![name] = g],
             name \in Names => g \in [Restore!Pods -> Restore!PodState]
      PROVE  pod' \in [Names -> [Restore!Pods -> Restore!PodState]]
  <2>1. CASE name \in Names
    BY <1>2, <1>5, <2>1
  <2>2. CASE name \notin Names
    BY <1>5, <2>2 DEF Types
  <2> QED
    BY <2>1, <2>2
<1>6. CASE Restore!DownloadMeta
  <2> DEFINE p == CHOOSE q \in left : TRUE
  <2>1. p \in Restore!Pods
    BY <1>6, FirstLeft DEF Restore!DownloadMeta, Types
  <2>2. pod' = [pod EXCEPT ![name][p] = [pod[name][p] EXCEPT !.files = TRUE]]
    BY <1>6 DEF Restore!DownloadMeta, Types
  <2> HIDE DEF p
  <2>3. pod' \in [Names -> [Restore!Pods -> Restore!PodState]]
    BY <1>3, <1>4, <2>1, <2>2, PodRecords
  <2> QED
    BY <1>6, <2>3 DEF Restore!DownloadMeta, Types
<1>7. CASE Restore!StopMeta
  <2> DEFINE p == CHOOSE q \in left : TRUE
             f == IF pod[name][p].phase = "init" THEN "main" ELSE pod[name][p].phase
  <2>1. p \in Restore!Pods
    BY <1>7, FirstLeft DEF Restore!StopMeta, Types
  <2>2. pod' = [pod EXCEPT ![name][p] = [pod[name][p] EXCEPT !.phase = f]]
    BY <1>7 DEF Restore!StopMeta, Types
  <2>3. name \in Names => f \in {"none", "init", "main", "ready", "failed"}
    BY <1>3, <2>1 DEF Restore!PodState
  <2>4. left' \subseteq Restore!Pods /\ pc' \in {"statusMetaDownload", "downloadMeta"}
    BY <1>7 DEF Restore!StopMeta, Types
  <2> HIDE DEF p, f
  <2>5. pod' \in [Names -> [Restore!Pods -> Restore!PodState]]
    BY <1>3, <1>4, <2>1, <2>2, <2>3, PodRecords
  <2> QED
    BY <1>7, <2>4, <2>5 DEF Restore!StopMeta, Types
<1>8. CASE Restore!RestoreMeta \/ Restore!Playback
  <2>1. PICK S : pod' = [pod EXCEPT ![name] = Restore!Loaded(S)]
    BY <1>8 DEF Restore!RestoreMeta, Restore!Playback
  <2>2. pod' \in [Names -> [Restore!Pods -> Restore!PodState]]
    BY <1>3, <1>5, <2>1, PodRecords DEF Restore!Loaded
  <2> QED
    BY <1>8, <2>2 DEF Restore!RestoreMeta, Restore!Playback, Types, Restore!Pods
<1>9. CASE Restore!DownloadStorage
  <2>1. CASE left = {}
    BY <1>9, <2>1 DEF Restore!DownloadStorage, Types
  <2>2. ASSUME NEW p \in left,
               /\ pod' = [pod EXCEPT ![name][p] = [@ EXCEPT !.files = TRUE, !.checkpoint = TRUE]]
               /\ left' = left \ {p} /\ paths' = TRUE /\ UNCHANGED pc
        PROVE  Types'
    <3>1. p \in Restore!Pods
      BY DEF Types
    <3>2. pod' = [pod EXCEPT ![name][p] = [pod[name][p] EXCEPT !.files = TRUE, !.checkpoint = TRUE]]
      BY <2>2 DEF Types
    <3>3. pod' \in [Names -> [Restore!Pods -> Restore!PodState]]
      BY <1>3, <1>4, <3>1, <3>2, PodRecords
    <3> QED
      BY <1>9, <2>2, <3>3 DEF Restore!DownloadStorage, Types
  <2> QED
    BY <1>9, <2>1, <2>2 DEF Restore!DownloadStorage
<1>10. CASE Restore!StopStorage
  <2>1. PICK p \in left :
          /\ pod' = [pod EXCEPT ![name][p].phase = IF @ = "init" THEN "main" ELSE @]
          /\ left' = left \ {p}
    BY <1>10 DEF Restore!StopStorage
  <2> DEFINE f == IF pod[name][p].phase = "init" THEN "main" ELSE pod[name][p].phase
  <2>2. p \in Restore!Pods
    BY DEF Types
  <2>3. pod' = [pod EXCEPT ![name][p] = [pod[name][p] EXCEPT !.phase = f]]
    BY <2>1 DEF Types
  <2>4. name \in Names => f \in {"none", "init", "main", "ready", "failed"}
    BY <1>3, <2>2 DEF Restore!PodState
  <2>5. left' \subseteq Restore!Pods /\ pc' \in {"statusStoraged", "stopStorage"}
    BY <1>10, <2>1 DEF Restore!StopStorage, Types
  <2> HIDE DEF f
  <2>6. pod' \in [Names -> [Restore!Pods -> Restore!PodState]]
    BY <1>3, <1>4, <2>2, <2>3, <2>4, PodRecords
  <2> QED
    BY <1>10, <2>5, <2>6 DEF Restore!StopStorage, Types
<1>11. CASE Restore!RemoveCheckpoints
  <2>1. CASE pod' = pod
    BY <1>11, <2>1 DEF Restore!RemoveCheckpoints, Types
  <2>2. CASE pod' # pod
    <3>1. pod' = [pod EXCEPT ![name] = [p \in Restore!Pods |-> [pod[name][p] EXCEPT !.checkpoint = FALSE]]]
      BY <1>11, <2>2 DEF Restore!RemoveCheckpoints, Types
    <3>2. pod' \in [Names -> [Restore!Pods -> Restore!PodState]]
      BY <1>3, <1>5, <3>1, PodRecords
    <3> QED
      BY <1>11, <3>2 DEF Restore!RemoveCheckpoints, Types
  <2> QED
    BY <2>1, <2>2
<1> QED
  BY <1>6, <1>7, <1>8, <1>9, <1>10, <1>11

LEMMA TypeNext == RestoreConstants /\ Types /\ [Restore!Next]_(Restore!vars) => Types'
<1> SUFFICES ASSUME RestoreConstants, Types, [Restore!Next]_(Restore!vars) PROVE Types'
  OBVIOUS
<1>1. CASE UNCHANGED Restore!vars
  BY <1>1 DEF Restore!vars, Restore!local, Restore!world, Types
<1>2. CASE Restore!Next
  BY <1>2, TypeGoto, TypeStatus, TypeCluster, TypePods, TypeData
     DEF Restore!Next, Restore!Pass, Restore!Stage1, Restore!Stage2, Restore!PodSteps
<1> QED
  BY <1>1, <1>2

\* Type correctness (nebula_restore_manager.go)
THEOREM RestoreTypeCorrect == RestoreConstants => (Restore!Spec => []Restore!TypeOK)
<1> SUFFICES ASSUME RestoreConstants PROVE Restore!Spec => []Restore!TypeOK
  OBVIOUS
<1>1. Restore!Init => Types
  BY TypeInit
<1>2. Types /\ [Restore!Next]_(Restore!vars) => Types'
  BY TypeNext
<1> QED
  BY <1>1, <1>2, SameTypes, PTL DEF Restore!Spec

-----------------------------------------------------------------------------
(* The order of the restore *)

\* What a step leaves of the pods
SamePhase == \A m \in Names : \A q \in Restore!Pods : pod'[m][q].phase = pod[m][q].phase
SameFiles == \A m \in Names : \A q \in Restore!Pods : pod'[m][q].files = pod[m][q].files
SameApplied == \A m \in Names : \A q \in Restore!Pods : pod'[m][q].applied = pod[m][q].applied

\* One pod of the restored cluster gets its files
Downloads(p) ==
    /\ \A m \in Names : \A q \in Restore!Pods :
         pod'[m][q].files <=> (pod[m][q].files \/ (m = name /\ q = p))
    /\ SamePhase /\ SameApplied

\* The agent of one pod of the restored cluster is stopped
Stops(p) ==
    /\ \A m \in Names : \A q \in Restore!Pods :
         pod'[m][q].phase = IF m = name /\ q = p /\ pod[m][q].phase = "init" THEN "main"
                            ELSE pod[m][q].phase
    /\ SameFiles /\ SameApplied

\* The pods of set in the restored cluster apply their files
Applies(set) ==
    /\ \A m \in Names : \A q \in Restore!Pods :
         pod'[m][q].applied <=> (pod[m][q].applied \/ (m = name /\ q \in set /\ pod[m][q].files))
    /\ SamePhase /\ SameFiles

\* One pod of any cluster changes its phase
Moves(n, p, f) ==
    /\ \A m \in Names : \A q \in Restore!Pods :
         pod'[m][q].phase = IF m = n /\ q = p THEN f ELSE pod[m][q].phase
    /\ SameFiles /\ SameApplied

LEMMA PodElem == Types => \A m \in Names : \A q \in Restore!Pods : pod[m][q] \in Restore!PodState
BY PodTypes

LEMMA DownloadMetaDoes ==
    ASSUME Types, Restore!DownloadMeta, name \in Names
    PROVE  Downloads(CHOOSE p \in left : TRUE)
<1> DEFINE p == CHOOSE q \in left : TRUE
           r == [pod[name][p] EXCEPT !.files = TRUE]
<1>1. p \in Restore!Pods
  BY FirstLeft DEF Restore!DownloadMeta, Types
<1>2. pod' = [pod EXCEPT ![name][p] = r]
  BY DEF Restore!DownloadMeta, Types
<1>3. r.files = TRUE /\ r.phase = pod[name][p].phase /\ r.applied = pod[name][p].applied
  BY <1>1, PodElem DEF Restore!PodState
<1> HIDE DEF p, r
<1>4. \A m \in Names : \A q \in Restore!Pods :
        pod'[m][q] = IF m = name /\ q = p THEN r ELSE pod[m][q]
  <2>1. /\ pod' = [pod EXCEPT ![name] = [pod[name] EXCEPT ![p] = r]]
        /\ pod \in [Names -> [Restore!Pods -> Restore!PodState]]
    BY <1>2 DEF Types
  <2>2. pod[name] \in [Restore!Pods -> Restore!PodState]
    BY <2>1
  <2>3. \A q \in Restore!Pods : pod'[name][q] = IF q = p THEN r ELSE pod[name][q]
    BY <2>1, <2>2
  <2>4. \A m \in Names : m # name => pod'[m] = pod[m]
    BY <2>1
  <2> QED
    BY <2>3, <2>4
<1>5. Downloads(p)
  BY <1>1, <1>3, <1>4, PodElem DEF Downloads, SamePhase, SameApplied, Restore!PodState
<1> QED
  BY <1>5 DEF p

LEMMA DownloadStorageDoes ==
    ASSUME Types, name \in Names, NEW p \in left,
           pod' = [pod EXCEPT ![name][p] = [@ EXCEPT !.files = TRUE, !.checkpoint = TRUE]]
    PROVE  Downloads(p)
<1> DEFINE r == [pod[name][p] EXCEPT !.files = TRUE, !.checkpoint = TRUE]
<1>1. p \in Restore!Pods
  BY DEF Types
<1>2. pod' = [pod EXCEPT ![name][p] = r]
  BY DEF Types
<1>3. r.files = TRUE /\ r.phase = pod[name][p].phase /\ r.applied = pod[name][p].applied
  BY <1>1, PodElem DEF Restore!PodState
<1> HIDE DEF r
<1>4. \A m \in Names : \A q \in Restore!Pods :
        pod'[m][q] = IF m = name /\ q = p THEN r ELSE pod[m][q]
  <2>1. /\ pod' = [pod EXCEPT ![name] = [pod[name] EXCEPT ![p] = r]]
        /\ pod \in [Names -> [Restore!Pods -> Restore!PodState]]
    BY <1>2 DEF Types
  <2>2. pod[name] \in [Restore!Pods -> Restore!PodState]
    BY <2>1
  <2>3. \A q \in Restore!Pods : pod'[name][q] = IF q = p THEN r ELSE pod[name][q]
    BY <2>1, <2>2
  <2>4. \A m \in Names : m # name => pod'[m] = pod[m]
    BY <2>1
  <2>5. ASSUME NEW m \in Names, NEW q \in Restore!Pods
        PROVE  pod'[m][q] = IF m = name /\ q = p THEN r ELSE pod[m][q]
    <3>1. CASE m = name
      BY Zenon, <2>3, <3>1
    <3>2. CASE m # name
      <4>1. pod'[m][q] = pod[m][q] /\ ~(m = name /\ q = p)
        BY Zenon, <2>4, <3>2
      <4> QED
        BY Zenon, <4>1
    <3> QED
      BY <3>1, <3>2
  <2> QED
    BY <2>5
<1> QED
  BY <1>1, <1>3, <1>4, PodElem DEF Downloads, SamePhase, SameApplied, Restore!PodState

LEMMA StopsDoes ==
    ASSUME Types, name \in Names, NEW p \in Restore!Pods,
           pod' = [pod EXCEPT ![name][p].phase = IF @ = "init" THEN "main" ELSE @]
    PROVE  Stops(p)
<1> DEFINE f == IF pod[name][p].phase = "init" THEN "main" ELSE pod[name][p].phase
           r == [pod[name][p] EXCEPT !.phase = f]
<1>2. pod' = [pod EXCEPT ![name][p] = r]
  BY DEF Types
<1>3. r.files = pod[name][p].files /\ r.phase = f /\ r.applied = pod[name][p].applied
  BY PodElem DEF Restore!PodState
<1> HIDE DEF f, r
<1>4. \A m \in Names : \A q \in Restore!Pods :
        pod'[m][q] = IF m = name /\ q = p THEN r ELSE pod[m][q]
  <2>1. /\ pod' = [pod EXCEPT ![name] = [pod[name] EXCEPT ![p] = r]]
        /\ pod \in [Names -> [Restore!Pods -> Restore!PodState]]
    BY <1>2 DEF Types
  <2>2. pod[name] \in [Restore!Pods -> Restore!PodState]
    BY <2>1
  <2>3. \A q \in Restore!Pods : pod'[name][q] = IF q = p THEN r ELSE pod[name][q]
    BY <2>1, <2>2
  <2>4. \A m \in Names : m # name => pod'[m] = pod[m]
    BY <2>1
  <2> QED
    BY <2>3, <2>4
<1> QED
  BY <1>3, <1>4, PodElem DEF f, Stops, SameFiles, SameApplied, Restore!PodState

LEMMA AppliesDoes ==
    ASSUME Types, name \in Names, NEW set, pod' = [pod EXCEPT ![name] = Restore!Loaded(set)]
    PROVE  Applies(set)
<1>1. \A m \in Names : m # name => pod'[m] = pod[m]
  BY DEF Types
<1>2. pod'[name] = Restore!Loaded(set)
  BY DEF Types
<1>3. ASSUME NEW q \in Restore!Pods
      PROVE  Restore!Loaded(set)[q] = IF q \in set
                THEN [pod[name][q] EXCEPT !.applied = pod[name][q].applied \/ pod[name][q].files]
                ELSE pod[name][q]
  BY PodElem DEF Restore!Loaded, Restore!PodState
<1>4. ASSUME NEW q \in Restore!Pods
      PROVE  /\ Restore!Loaded(set)[q].phase = pod[name][q].phase
             /\ Restore!Loaded(set)[q].files = pod[name][q].files
             /\ Restore!Loaded(set)[q].applied
                   <=> (pod[name][q].applied \/ (q \in set /\ pod[name][q].files))
  <2>1. pod[name][q] \in Restore!PodState
    BY PodElem
  <2>2. CASE q \in set
    BY <1>3, <2>1, <2>2 DEF Restore!PodState
  <2>3. CASE q \notin set
    BY <1>3, <2>3
  <2> QED
    BY <2>2, <2>3
<1>5. ASSUME NEW m \in Names, NEW q \in Restore!Pods
      PROVE  /\ pod'[m][q].phase = pod[m][q].phase
             /\ pod'[m][q].files = pod[m][q].files
             /\ pod'[m][q].applied
                  <=> (pod[m][q].applied \/ (m = name /\ q \in set /\ pod[m][q].files))
  <2>1. CASE m = name
    BY <1>2, <1>4, <2>1
  <2>2. CASE m # name
    BY <1>1, <2>2, PodElem DEF Restore!PodState
  <2> QED
    BY <2>1, <2>2
<1> QED
  BY <1>5 DEF Applies, SamePhase, SameFiles

LEMMA RemoveCheckpointsDoes ==
    ASSUME Types, name \in Names, Restore!RemoveCheckpoints
    PROVE  SamePhase /\ SameFiles /\ SameApplied
<1>1. CASE ~nr.checkpoints
  BY <1>1 DEF Restore!RemoveCheckpoints, SamePhase, SameFiles, SameApplied
<1>2. CASE nr.checkpoints
  <2>1. pod' = [pod EXCEPT ![name] = [p \in Restore!Pods |-> [pod[name][p] EXCEPT !.checkpoint = FALSE]]]
    BY <1>2 DEF Restore!RemoveCheckpoints, Types
  <2>2. \A q \in Restore!Pods : pod'[name][q] = [pod[name][q] EXCEPT !.checkpoint = FALSE]
    BY <2>1 DEF Types
  <2>3. \A m \in Names : m # name => pod'[m] = pod[m]
    BY <2>1 DEF Types
  <2>4. \A q \in Restore!Pods : /\ pod'[name][q].phase = pod[name][q].phase
                                /\ pod'[name][q].files = pod[name][q].files
                                /\ pod'[name][q].applied = pod[name][q].applied
    BY <2>2, PodElem DEF Restore!PodState
  <2> QED
    BY <2>3, <2>4 DEF SamePhase, SameFiles, SameApplied
<1> QED
  BY <1>1, <1>2

LEMMA MovesDoes ==
    ASSUME Types, NEW n \in Names, NEW p \in Restore!Pods, NEW f, pod' = [pod EXCEPT ![n][p].phase = f]
    PROVE  Moves(n, p, f)
<1> DEFINE r == [pod[n][p] EXCEPT !.phase = f]
<1>2. pod' = [pod EXCEPT ![n][p] = r]
  BY DEF Types
<1>3. r.files = pod[n][p].files /\ r.phase = f /\ r.applied = pod[n][p].applied
  BY PodElem DEF Restore!PodState
<1> HIDE DEF r
<1>4. \A m \in Names : \A q \in Restore!Pods :
        pod'[m][q] = IF m = n /\ q = p THEN r ELSE pod[m][q]
  <2>1. /\ pod' = [pod EXCEPT ![n] = [pod[n] EXCEPT ![p] = r]]
        /\ pod \in [Names -> [Restore!Pods -> Restore!PodState]]
    BY <1>2 DEF Types
  <2>2. pod[n] \in [Restore!Pods -> Restore!PodState]
    BY <2>1
  <2>3. \A q \in Restore!Pods : pod'[n][q] = IF q = p THEN r ELSE pod[n][q]
    BY <2>1, <2>2
  <2>4. \A m \in Names : m # n => pod'[m] = pod[m]
    BY <2>1
  <2> QED
    BY <2>3, <2>4
<1> QED
  BY <1>3, <1>4, PodElem DEF Moves, SameFiles, SameApplied, Restore!PodState

\* What a status update leaves of the object
LEMMA MergeDoes ==
    ASSUME NEW o \in Restore!Restore, NEW parts \in BOOLEAN, NEW cps \in BOOLEAN
    PROVE  /\ Restore!Merge(o, parts, cps).name = o.name
           /\ Restore!Merge(o, parts, cps).metaDownload <=> o.metaDownload
           /\ Restore!Merge(o, parts, cps).metad <=> o.metad
           /\ Restore!Merge(o, parts, cps).storageDownload <=> o.storageDownload
           /\ Restore!Merge(o, parts, cps).storaged <=> o.storaged
           /\ Restore!Merge(o, parts, cps).complete <=> o.complete
           /\ Restore!Merge(o, parts, cps).failed = o.failed
           /\ Restore!Merge(o, parts, cps).partitions <=> parts
BY DEF Restore!Merge, Restore!Restore

\* What the statuses say of the progress, from one state to the next
Progress ==
    /\ obj'.name = obj.name
    /\ obj'.metaDownload <=> (obj.metaDownload \/ pc = "statusMetaDownload")
    /\ obj'.metad <=> (obj.metad \/ pc = "statusMetad")
    /\ obj'.storageDownload <=> (obj.storageDownload \/ pc = "statusStorageDownload")
    /\ obj'.storaged <=> (obj.storaged \/ pc = "statusStoraged")
    /\ obj'.complete <=> (obj.complete \/ pc = "statusComplete")
    /\ obj.failed = "True" => obj'.failed = "True" \/ pc = "pods"
    /\ pc = "fail" => obj'.failed = "True" \/ obj' = obj
    /\ \/ obj'.partitions <=> pc = "statusMetad"
       \/ obj' = obj
    /\ old' \in {old, obj} /\ UNCHANGED <<Restore!local, Restore!world>>

\* The steps that write the status, but for the name
Writes ==
    \/ Restore!StatusMetaDownload \/ Restore!StatusMetad \/ Restore!StatusStorageDownload
    \/ Restore!StatusStoraged
    \/ Restore!StatusComplete \/ Restore!StatusFailed \/ Restore!CheckPods

LEMMA WritesDo == ASSUME Types, Writes PROVE Progress
<1> USE DEF Restore!local, Restore!world
<1>0. obj \in Restore!Restore
  BY DEF Types
<1>1. ASSUME NEW o \in Restore!Restore, NEW parts \in BOOLEAN, NEW cps \in BOOLEAN,
             obj' = Restore!Merge(o, parts, cps),
             o.name = obj.name,
             o.metaDownload <=> (obj.metaDownload \/ pc = "statusMetaDownload"),
             o.metad <=> (obj.metad \/ pc = "statusMetad"),
             o.storageDownload <=> (obj.storageDownload \/ pc = "statusStorageDownload"),
             o.storaged <=> (obj.storaged \/ pc = "statusStoraged"),
             o.complete <=> (obj.complete \/ pc = "statusComplete"),
             obj.failed = "True" => o.failed = "True" \/ pc = "pods",
             pc = "fail" => o.failed = "True",
             parts <=> pc = "statusMetad",
             old' \in {old, obj}, UNCHANGED <<Restore!local, Restore!world>>
      PROVE  Progress
  <2> DEFINE m == Restore!Merge(o, parts, cps)
  <2>1. /\ m.name = o.name /\ (m.metaDownload <=> o.metaDownload) /\ (m.metad <=> o.metad)
        /\ (m.storageDownload <=> o.storageDownload) /\ (m.storaged <=> o.storaged)
        /\ (m.complete <=> o.complete) /\ m.failed = o.failed /\ (m.partitions <=> parts)
    BY MergeDoes
  <2>2. obj' = m
    BY <1>1
  <2> HIDE DEF m
  <2> QED
    BY <1>1, <2>1, <2>2 DEF Progress
<1>2. CASE Restore!StatusMetaDownload
  <2> DEFINE o == [obj EXCEPT !.metaDownload = TRUE]
  <2>1. /\ o \in Restore!Restore /\ o.name = obj.name /\ o.failed = obj.failed
        /\ o.metaDownload /\ o.metad = obj.metad /\ o.storageDownload = obj.storageDownload
        /\ o.storaged = obj.storaged /\ o.complete = obj.complete
    BY <1>0 DEF Restore!Restore
  <2>2. /\ obj' = Restore!Merge(o, FALSE, FALSE) /\ old' \in {old, obj}
        /\ UNCHANGED <<Restore!local, Restore!world>>
        /\ pc = "statusMetaDownload" /\ paths \in BOOLEAN
    BY <1>2 DEF Restore!StatusMetaDownload, Restore!StatusThen, Restore!Update, Types
  <2> HIDE DEF o
  <2> QED
    BY <1>1, <2>1, <2>2
<1>3. CASE Restore!StatusMetad
  <2> DEFINE o == [obj EXCEPT !.metad = TRUE]
  <2>1. /\ o \in Restore!Restore /\ o.name = obj.name /\ o.failed = obj.failed
        /\ o.metaDownload = obj.metaDownload /\ o.metad
        /\ o.storageDownload = obj.storageDownload
        /\ o.storaged = obj.storaged /\ o.complete = obj.complete
    BY <1>0 DEF Restore!Restore
  <2>2. /\ obj' = Restore!Merge(o, TRUE, FALSE) /\ old' \in {old, obj}
        /\ UNCHANGED <<Restore!local, Restore!world>>
        /\ pc = "statusMetad" /\ paths \in BOOLEAN
    BY <1>3 DEF Restore!StatusMetad, Restore!StatusThen, Restore!Update, Types
  <2> HIDE DEF o
  <2> QED
    BY <1>1, <2>1, <2>2
<1>4. CASE Restore!StatusStorageDownload
  <2> DEFINE o == [obj EXCEPT !.storageDownload = TRUE]
  <2>1. /\ o \in Restore!Restore /\ o.name = obj.name /\ o.failed = obj.failed
        /\ o.metaDownload = obj.metaDownload /\ o.metad = obj.metad /\ o.storageDownload
        /\ o.storaged = obj.storaged /\ o.complete = obj.complete
    BY <1>0 DEF Restore!Restore
  <2>2. /\ obj' = Restore!Merge(o, FALSE, FALSE) /\ old' \in {old, obj}
        /\ UNCHANGED <<Restore!local, Restore!world>>
        /\ pc = "statusStorageDownload" /\ paths \in BOOLEAN
    BY <1>4 DEF Restore!StatusStorageDownload, Restore!StatusThen, Restore!Update, Types
  <2> HIDE DEF o
  <2> QED
    BY <1>1, <2>1, <2>2
<1>5. CASE Restore!StatusStoraged
  <2> DEFINE o == [obj EXCEPT !.storaged = TRUE]
  <2>1. /\ o \in Restore!Restore /\ o.name = obj.name /\ o.failed = obj.failed
        /\ o.metaDownload = obj.metaDownload /\ o.metad = obj.metad
        /\ o.storageDownload = obj.storageDownload
        /\ o.storaged /\ o.complete = obj.complete
    BY <1>0 DEF Restore!Restore
  <2>2. /\ obj' = Restore!Merge(o, FALSE, paths) /\ old' \in {old, obj}
        /\ UNCHANGED <<Restore!local, Restore!world>>
        /\ pc = "statusStoraged" /\ paths \in BOOLEAN
    BY <1>5 DEF Restore!StatusStoraged, Restore!StatusThen, Restore!Update, Types
  <2> HIDE DEF o
  <2> QED
    BY <1>1, <2>1, <2>2
<1>6. CASE Restore!StatusComplete
  <2> DEFINE o == [obj EXCEPT !.complete = TRUE]
  <2>1. /\ o \in Restore!Restore /\ o.name = obj.name /\ o.failed = obj.failed
        /\ o.metaDownload = obj.metaDownload /\ o.metad = obj.metad
        /\ o.storageDownload = obj.storageDownload
        /\ o.storaged = obj.storaged /\ o.complete
    BY <1>0 DEF Restore!Restore
  <2>2. /\ obj' = Restore!Merge(o, FALSE, FALSE) /\ old' \in {old, obj}
        /\ UNCHANGED <<Restore!local, Restore!world>>
        /\ pc = "statusComplete" /\ paths \in BOOLEAN
    BY <1>6 DEF Restore!StatusComplete, Restore!StatusThen, Restore!Update, Types
  <2> HIDE DEF o
  <2> QED
    BY <1>1, <2>1, <2>2
<1>7. CASE Restore!StatusFailed
  <2> DEFINE o == [obj EXCEPT !.failed = "True"]
  <2>1. /\ o \in Restore!Restore /\ o.name = obj.name /\ o.failed = "True"
        /\ o.metaDownload = obj.metaDownload /\ o.metad = obj.metad
        /\ o.storageDownload = obj.storageDownload /\ o.storaged = obj.storaged
        /\ o.complete = obj.complete
    BY <1>0 DEF Restore!Restore
  <2>2. /\ obj' \in {obj, Restore!Merge(o, FALSE, FALSE)} /\ old' \in {old, obj}
        /\ UNCHANGED <<Restore!local, Restore!world>>
        /\ pc = "fail"
    BY <1>7 DEF Restore!StatusFailed, Restore!Goto, Restore!Update
  <2> HIDE DEF o
  <2>3. CASE obj' = Restore!Merge(o, FALSE, FALSE)
    BY <1>1, <2>1, <2>2, <2>3
  <2>4. CASE obj' = obj
    BY <2>2, <2>4 DEF Progress
  <2> QED
    BY <2>2, <2>3, <2>4
<1>8. CASE Restore!CheckPods
  <2> DEFINE o == [obj EXCEPT !.failed = "Unknown"]
  <2>1. /\ o \in Restore!Restore /\ o.name = obj.name /\ o.failed = "Unknown"
        /\ o.metaDownload = obj.metaDownload /\ o.metad = obj.metad
        /\ o.storageDownload = obj.storageDownload /\ o.storaged = obj.storaged
        /\ o.complete = obj.complete
    BY <1>0 DEF Restore!Restore
  <2>2. /\ obj' \in {obj, Restore!Merge(o, FALSE, FALSE)} /\ old' \in {old, obj}
        /\ UNCHANGED <<Restore!local, Restore!world>>
        /\ pc = "pods"
    BY <1>8 DEF Restore!CheckPods, Restore!Goto, Restore!Update
  <2> HIDE DEF o
  <2>3. CASE obj' = Restore!Merge(o, FALSE, FALSE)
    BY <1>1, <2>1, <2>2, <2>3
  <2>4. CASE obj' = obj
    BY <2>2, <2>4 DEF Progress
  <2> QED
    BY <2>2, <2>3, <2>4
<1> QED
  BY <1>2, <1>3, <1>4, <1>5, <1>6, <1>7, <1>8 DEF Writes

\* What the steps leave of the clusters
LEMMA ClusterElem == Types => \A m \in Names : cluster[m] \in Restore!Cluster
BY DEF Types

LEMMA ReleaseDoes ==
    ASSUME Types, name \in Names, Restore!Release
    PROVE  \A m \in Names :
             /\ cluster'[m].stage = IF m = name THEN "" ELSE cluster[m].stage
             /\ (cluster'[m].exists <=> cluster[m].exists)
             /\ (cluster'[m].metadDone <=> m # name /\ cluster[m].metadDone)
             /\ (cluster'[m].storagedDone <=> m # name /\ cluster[m].storagedDone)
             /\ (cluster'[m].named <=> m # name /\ cluster[m].named)
             /\ (cluster'[m].initAgents <=> cluster[m].initAgents)
             /\ (cluster'[m].graphd <=> cluster[m].graphd)
<1> DEFINE c == [cluster[name] EXCEPT !.stage = "", !.named = FALSE,
                        !.metadDone = FALSE, !.storagedDone = FALSE]
<1>1. /\ c \in Restore!Cluster /\ c.stage = "" /\ c.exists = cluster[name].exists
      /\ c.metadDone = FALSE
      /\ c.storagedDone = FALSE /\ c.named = FALSE
      /\ c.initAgents = cluster[name].initAgents /\ c.graphd = cluster[name].graphd
  BY ClusterElem DEF Restore!Cluster
<1>2. cluster' = [cluster EXCEPT ![name] = c]
  BY DEF Restore!Release
<1> HIDE DEF c
<1>3. cluster'[name] = c /\ \A m \in Names : m # name => cluster'[m] = cluster[m]
  BY <1>2 DEF Types
<1> QED
  BY <1>1, <1>3, ClusterElem DEF Restore!Cluster

LEMMA AnnotateMetadDoes ==
    ASSUME Types, name \in Names, Restore!AnnotateMetad
    PROVE  \A m \in Names :
             /\ cluster'[m].stage = cluster[m].stage
             /\ (cluster'[m].exists <=> cluster[m].exists)
             /\ (cluster'[m].metadDone <=> m = name \/ cluster[m].metadDone)
             /\ (cluster'[m].storagedDone <=> cluster[m].storagedDone)
             /\ (cluster'[m].named <=> cluster[m].named)
             /\ (cluster'[m].initAgents <=> cluster[m].initAgents)
             /\ (cluster'[m].graphd <=> cluster[m].graphd)
<1> DEFINE c == [cluster[name] EXCEPT !.metadDone = TRUE]
<1>1. /\ c \in Restore!Cluster /\ c.stage = cluster[name].stage
      /\ c.exists = cluster[name].exists /\ c.metadDone = TRUE
      /\ c.storagedDone = cluster[name].storagedDone /\ c.named = cluster[name].named
      /\ c.initAgents = cluster[name].initAgents /\ c.graphd = cluster[name].graphd
  BY ClusterElem DEF Restore!Cluster
<1>2. cluster' = [cluster EXCEPT ![name] = c]
  BY DEF Restore!AnnotateMetad
<1> HIDE DEF c
<1>3. cluster'[name] = c /\ \A m \in Names : m # name => cluster'[m] = cluster[m]
  BY <1>2 DEF Types
<1> QED
  BY <1>1, <1>3, ClusterElem DEF Restore!Cluster

LEMMA AnnotateStoragedDoes ==
    ASSUME Types, name \in Names, Restore!AnnotateStoraged
    PROVE  \A m \in Names :
             /\ cluster'[m].stage = cluster[m].stage
             /\ (cluster'[m].exists <=> cluster[m].exists)
             /\ (cluster'[m].metadDone <=> cluster[m].metadDone)
             /\ (cluster'[m].storagedDone <=> m = name \/ cluster[m].storagedDone)
             /\ (cluster'[m].named <=> cluster[m].named)
             /\ (cluster'[m].initAgents <=> cluster[m].initAgents)
             /\ (cluster'[m].graphd <=> cluster[m].graphd)
<1> DEFINE c == [cluster[name] EXCEPT !.storagedDone = TRUE]
<1>1. /\ c \in Restore!Cluster /\ c.stage = cluster[name].stage
      /\ c.exists = cluster[name].exists /\ c.metadDone = cluster[name].metadDone
      /\ c.storagedDone = TRUE /\ c.named = cluster[name].named
      /\ c.initAgents = cluster[name].initAgents /\ c.graphd = cluster[name].graphd
  BY ClusterElem DEF Restore!Cluster
<1>2. cluster' = [cluster EXCEPT ![name] = c]
  BY DEF Restore!AnnotateStoraged
<1> HIDE DEF c
<1>3. cluster'[name] = c /\ \A m \in Names : m # name => cluster'[m] = cluster[m]
  BY <1>2 DEF Types
<1> QED
  BY <1>1, <1>3, ClusterElem DEF Restore!Cluster

LEMMA RemoveInitAgentContainerDoes ==
    ASSUME Types, name \in Names, Restore!RemoveInitAgentContainer
    PROVE  \A m \in Names :
             /\ cluster'[m].stage = IF m = name THEN "2" ELSE cluster[m].stage
             /\ (cluster'[m].exists <=> cluster[m].exists)
             /\ (cluster'[m].metadDone <=> m # name /\ cluster[m].metadDone)
             /\ (cluster'[m].storagedDone <=> m # name /\ cluster[m].storagedDone)
             /\ (cluster'[m].named <=> m # name /\ cluster[m].named)
             /\ (cluster'[m].initAgents <=> m # name /\ cluster[m].initAgents)
             /\ (cluster'[m].graphd <=> cluster[m].graphd)
<1> DEFINE c == [cluster[name] EXCEPT !.stage = "2", !.initAgents = FALSE,
                        !.named = FALSE, !.metadDone = FALSE, !.storagedDone = FALSE]
<1>1. /\ c \in Restore!Cluster /\ c.stage = "2" /\ c.exists = cluster[name].exists
      /\ c.metadDone = FALSE
      /\ c.storagedDone = FALSE /\ c.named = FALSE /\ c.initAgents = FALSE
      /\ c.graphd = cluster[name].graphd
  BY ClusterElem DEF Restore!Cluster
<1>2. cluster' = [cluster EXCEPT ![name] = c]
  BY DEF Restore!RemoveInitAgentContainer
<1> HIDE DEF c
<1>3. cluster'[name] = c /\ \A m \in Names : m # name => cluster'[m] = cluster[m]
  BY <1>2 DEF Types
<1> QED
  BY <1>1, <1>3, ClusterElem DEF Restore!Cluster

LEMMA GraphdStartsDoes ==
    ASSUME Types, NEW n \in Names, Restore!GraphdStarts(n)
    PROVE  \A m \in Names :
             /\ cluster'[m].stage = cluster[m].stage
             /\ (cluster'[m].exists <=> cluster[m].exists)
             /\ (cluster'[m].metadDone <=> cluster[m].metadDone)
             /\ (cluster'[m].storagedDone <=> cluster[m].storagedDone)
             /\ (cluster'[m].named <=> cluster[m].named)
             /\ (cluster'[m].initAgents <=> cluster[m].initAgents)
             /\ (cluster'[m].graphd <=> m = n \/ cluster[m].graphd)
<1> DEFINE c == [cluster[n] EXCEPT !.graphd = TRUE]
<1>1. /\ c \in Restore!Cluster /\ c.stage = cluster[n].stage /\ c.exists = cluster[n].exists
      /\ c.metadDone = cluster[n].metadDone
      /\ c.storagedDone = cluster[n].storagedDone /\ c.named = cluster[n].named
      /\ c.initAgents = cluster[n].initAgents /\ c.graphd = TRUE
  BY ClusterElem DEF Restore!Cluster
<1>2. cluster' = [cluster EXCEPT ![n] = c]
  BY DEF Restore!GraphdStarts
<1> HIDE DEF c
<1>3. cluster'[n] = c /\ \A m \in Names : m # n => cluster'[m] = cluster[m]
  BY <1>2 DEF Types
<1> QED
  BY <1>1, <1>3, ClusterElem DEF Restore!Cluster

LEMMA CreateDoes ==
    ASSUME Types, name \in Names, Restore!Create
    PROVE  \A m \in Names :
             IF m = name /\ ~cluster[m].exists
             THEN /\ cluster'[m].exists /\ cluster'[m].stage = "1" /\ cluster'[m].named
                  /\ cluster'[m].initAgents /\ ~cluster'[m].metadDone
                  /\ ~cluster'[m].storagedDone /\ ~cluster'[m].graphd
             ELSE cluster'[m] = cluster[m]
<1>1. CASE cluster[name].exists
  BY <1>1 DEF Restore!Create
<1>2. CASE ~cluster[name].exists
  <2> DEFINE c == [Restore!NoCluster EXCEPT !.exists = TRUE, !.stage = "1", !.named = TRUE,
                                       !.initAgents = TRUE]
  <2>1. /\ c.exists /\ c.stage = "1" /\ c.named /\ c.initAgents
        /\ ~c.metadDone /\ ~c.storagedDone /\ ~c.graphd
    BY DEF Restore!NoCluster
  <2>2. cluster' = [cluster EXCEPT ![name] = c]
    BY <1>2 DEF Restore!Create
  <2> HIDE DEF c
  <2>3. cluster'[name] = c /\ \A m \in Names : m # name => cluster'[m] = cluster[m]
    BY <2>2 DEF Types
  <2> QED
    BY <1>2, <2>1, <2>3
<1> QED
  BY <1>1, <1>2

\* A failed restore leaves its cluster
LEMMA RemovesNothing ==
    ASSUME Types, RestoreKept, NameInv, Restore!RemoveCluster
    PROVE  UNCHANGED <<obj, old, queued, Restore!local, Restore!world>> /\ pc' = "idle"
<1>1. Errors
  BY DEF NameInv, Restore!RemoveCluster
<1>2. ~(AutoRemoveFailed /\ ~OtherNamespace)
  BY Zenon, <1>1 DEF RestoreKept, RestoreConstants
<1> QED
  BY <1>2 DEF Restore!RemoveCluster, Restore!local, Restore!world

\* Steps that leave the object, the copies and the clusters alone, as far as NameInv
\* goes
LEMMA NameKeeps ==
    ASSUME Types, RestoreKept, NameInv,
           \/ Restore!GetOriginal \/ Restore!Stage \/ Restore!Load \/ Restore!ConnectMetad
           \/ Restore!MetadReady \/ Restore!ConnectStoraged
           \/ Restore!ClusterReady \/ Restore!CallFails \/ Restore!DownloadMeta
           \/ Restore!StopMeta \/ Restore!RestoreMeta
           \/ Restore!DownloadStorage \/ Restore!Playback \/ Restore!StopStorage
           \/ Restore!RemoveCheckpoints
           \/ \E n \in Names, p \in Restore!Pods :
                Restore!PodStarts(n, p) \/ Restore!PodReady(n, p) \/ Restore!PodReplaced(n, p) \/ Restore!PodFails(n, p)
    PROVE  NameInv'
<1> USE DEF Restore!local, Restore!world, Named, Restore!Steps, NameInv, Restore!Goto,
        Restore!Requeue
<1>1. CASE Restore!GetOriginal \/ Restore!Stage \/ Restore!Load
  BY <1>1 DEF Restore!GetOriginal, Restore!Stage, Restore!Load
<1>2. CASE Restore!MetadReady \/ Restore!ClusterReady \/ Restore!CallFails
  BY <1>2 DEF Restore!MetadReady, Restore!ClusterReady, Restore!CallFails
<1>3. CASE Restore!ConnectMetad \/ Restore!ConnectStoraged
  BY <1>3 DEF Restore!ConnectMetad, Restore!ConnectStoraged
<1>4. CASE Restore!DownloadMeta \/ Restore!StopMeta \/ Restore!RestoreMeta
  BY <1>4 DEF Restore!DownloadMeta, Restore!StopMeta, Restore!RestoreMeta
<1>5. CASE \/ Restore!DownloadStorage \/ Restore!Playback \/ Restore!StopStorage
           \/ Restore!RemoveCheckpoints
  BY <1>5
     DEF Restore!DownloadStorage, Restore!Playback, Restore!StopStorage,
         Restore!RemoveCheckpoints
<1>6. ASSUME NEW n \in Names, NEW p \in Restore!Pods,
             Restore!PodStarts(n, p) \/ Restore!PodReady(n, p) \/ Restore!PodReplaced(n, p) \/ Restore!PodFails(n, p)
      PROVE  UNCHANGED <<obj, old, nr, name, pc, cluster>>
  BY <1>6 DEF Restore!PodStarts, Restore!PodReady, Restore!PodReplaced, Restore!PodFails
<1>7. CASE UNCHANGED <<obj, old, nr, name, pc, cluster>>
  BY <1>7
<1> QED
  BY <1>1, <1>2, <1>3, <1>4, <1>5, <1>6, <1>7

LEMMA NameWrites == ASSUME Types, RestoreKept, NameInv, Writes PROVE NameInv'
<1>1. obj'.name = obj.name /\ old' \in {old, obj} /\ UNCHANGED <<Restore!local, Restore!world>>
  BY WritesDo DEF Progress
<1>2. \/ pc = "pods" /\ pc' \in {"original", "idle"}
      \/ pc = "fail" /\ pc' = "remove"
      \/ pc \in Named /\ pc' \in Named \union {"idle"}
  BY DEF Writes, Restore!StatusMetaDownload, Restore!StatusMetad,
     Restore!StatusStorageDownload, Restore!StatusStoraged, Restore!StatusComplete,
     Restore!StatusFailed, Restore!CheckPods, Restore!StatusThen, Restore!Goto, Named,
     Restore!Steps
<1>3. pc \in Named => pc \notin {"pods", "idle", "fail", "remove", "original", "name"}
  BY DEF Named
<1>4. pc' \in Named => pc' \notin {"pods", "idle", "fail", "remove", "original", "name"}
  BY DEF Named
<1> HIDE DEF Named
<1> QED
  BY <1>1, <1>2, <1>3, <1>4 DEF NameInv, Restore!local, Restore!world

\* The name that is chosen is the one that was chosen before
LEMMA NameChosen ==
    ASSUME Types, RestoreKept, NameInv, Restore!GetRestoredName
    PROVE  /\ obj'.name = name' /\ (obj.name = "" \/ obj.name = name') /\ name' # ""
           /\ old' \in {old, obj} /\ (nr.name # "" => nr.name = name')
           /\ pc = "name" /\ pc' = "stage"
           /\ UNCHANGED <<nr, left, paths, cluster, pod, faults>>
           /\ obj'.metaDownload <=> obj.metaDownload
           /\ obj'.metad <=> obj.metad
           /\ obj'.storageDownload <=> obj.storageDownload
           /\ obj'.storaged <=> obj.storaged
           /\ obj'.complete <=> obj.complete
           /\ obj'.failed = obj.failed
           /\ nr.name # "" => UNCHANGED <<obj, old>>
           /\ nr.name = "" => ~obj'.partitions
<1> USE DEF Restore!local, Restore!world
<1>0. pc = "name" /\ pc' = "stage" /\ UNCHANGED <<nr, left, paths, cluster, pod, faults>>
  BY DEF Restore!GetRestoredName
<1>1. CASE nr.name # ""
  <2>1. name' = nr.name /\ UNCHANGED <<obj, old>> /\ nr.name = obj.name
    BY <1>0, <1>1 DEF Restore!GetRestoredName, NameInv
  <2> QED
    BY <1>0, <1>1, <2>1
<1>2. CASE nr.name = ""
  <2>1. PICK n \in Names : /\ name' = n /\ ~cluster[n].exists
                           /\ Restore!Update(Restore!Merge([obj EXCEPT !.name = n], FALSE, FALSE))
    BY <1>2 DEF Restore!GetRestoredName
  <2> DEFINE o == [obj EXCEPT !.name = n]
             m == Restore!Merge(o, FALSE, FALSE)
  <2>2. /\ o \in Restore!Restore /\ o.name = n /\ o.failed = obj.failed
        /\ o.metaDownload = obj.metaDownload /\ o.metad = obj.metad
        /\ o.storageDownload = obj.storageDownload /\ o.storaged = obj.storaged
        /\ o.complete = obj.complete
    BY DEF Types, Restore!Restore
  <2>3. obj' = m /\ old' \in {old, obj}
    BY <2>1 DEF Restore!Update
  <2> HIDE DEF o
  <2>4. /\ m.name = o.name /\ (m.metaDownload <=> o.metaDownload) /\ (m.metad <=> o.metad)
        /\ (m.storageDownload <=> o.storageDownload) /\ (m.storaged <=> o.storaged)
        /\ (m.complete <=> o.complete) /\ m.failed = o.failed /\ ~m.partitions
    BY <2>2, MergeDoes
  <2> HIDE DEF m
  <2>5. obj.name = "" \/ obj.name = n
    <3>1. CASE StaleReads
      <4>1. \A a, b \in Names : a = b
        BY Zenon, <3>1 DEF RestoreKept
      <4>2. obj.name \in Names \union {""}
        BY DEF Types, Restore!Restore
      <4> QED
        BY <4>1, <4>2
    <3>2. CASE ~StaleReads
      BY <1>0, <1>2, <3>2 DEF NameInv
    <3> QED
      BY <3>1, <3>2
  <2>6. n # ""
    BY Zenon DEF RestoreKept, RestoreConstants
  <2> QED
    BY <1>0, <1>2, <2>1, <2>2, <2>3, <2>4, <2>5, <2>6
<1> QED
  BY <1>1, <1>2

LEMMA NameNext == ASSUME Types, RestoreKept, NameInv, Restore!Next PROVE NameInv'
<1>1. CASE Writes
  BY <1>1, NameWrites
<1>2. CASE Restore!GetRestoredName
  <2>1. \A n \in Names : cluster[n].exists => obj.name # ""
    BY DEF NameInv, RestoreKept, RestoreConstants
  <2>2. UNCHANGED cluster
    BY <1>2, NameChosen
  <2>3. \A n \in Names : cluster'[n].exists => n = obj'.name
    BY <1>2, <2>1, <2>2, NameChosen DEF NameInv
  <2>4. old'.name # "" => old'.name = obj'.name
    BY <1>2, NameChosen DEF NameInv
  <2> QED
    BY <1>2, <2>3, <2>4, NameChosen DEF NameInv, Named
<1>3. CASE Restore!Reconcile
  BY <1>3 DEF Restore!Reconcile, NameInv, Named, Restore!local, Restore!world
<1>4. CASE Restore!Restart
  BY <1>4
     DEF Restore!Restart, NameInv, Named, Restore!local, Restore!world, Restore!NewRestore
<1>5. CASE Restore!RemoveCluster
  BY <1>5, RemovesNothing
     DEF Restore!RemoveCluster, NameInv, Named, Restore!local, Restore!world
<1>6. CASE Restore!Create
  <2>1. pc = "create" /\ pc' = "load" /\ UNCHANGED <<obj, old, nr, name>>
    BY <1>6 DEF Restore!Create, Restore!local
  <2>2. name = obj.name /\ name # "" /\ name \in Names
    BY <2>1 DEF NameInv, Named, Restore!Steps, Types
  <2>3. \A n \in Names : cluster'[n].exists => n = obj'.name
    BY <1>6, <2>1, <2>2, CreateDoes DEF NameInv
  <2> QED
    BY <2>1, <2>2, <2>3 DEF NameInv, Named
<1>7. CASE \/ Restore!Release \/ Restore!AnnotateMetad \/ Restore!AnnotateStoraged
           \/ Restore!RemoveInitAgentContainer
  <2>1. pc \in Named /\ pc' \in Named \union {"idle"} /\ UNCHANGED <<obj, old, nr, name>>
    BY <1>7
       DEF Restore!Release, Restore!AnnotateMetad, Restore!AnnotateStoraged,
           Restore!RemoveInitAgentContainer, Restore!local, Named, Restore!Steps
  <2>2. name \in Names
    BY <2>1 DEF NameInv, Types
  <2>3. \A n \in Names : cluster'[n].exists => n = obj'.name
    BY <1>7, <2>1, <2>2, ReleaseDoes, AnnotateMetadDoes, AnnotateStoragedDoes,
       RemoveInitAgentContainerDoes
       DEF NameInv
  <2> QED
    BY <2>1, <2>3 DEF NameInv, Named
<1>8. ASSUME NEW n \in Names, Restore!GraphdStarts(n) PROVE NameInv'
  <2>1. UNCHANGED <<obj, old, nr, name, pc>>
    BY <1>8 DEF Restore!GraphdStarts, Restore!local
  <2>2. \A m \in Names : cluster'[m].exists <=> cluster[m].exists
    BY <1>8, GraphdStartsDoes
  <2> QED
    BY <2>1, <2>2 DEF NameInv
<1> QED
  BY <1>1, <1>2, <1>3, <1>4, <1>5, <1>6, <1>7, <1>8, NameKeeps
     DEF Restore!Next, Restore!Pass, Restore!Stage1, Restore!Stage2, Restore!PodSteps,
         Writes

\* Files and applied data are not lost, and a pod starts only when the controller
\* lets it
Grows ==
    \A n \in Names : \A p \in Restore!Pods :
        /\ pod[n][p].files => pod'[n][p].files
        /\ pod[n][p].applied => pod'[n][p].applied
Starts ==
    \A n \in Names : \A p \in Restore!Pods :
        pod[n][p].phase = "none" /\ pod'[n][p].phase # "none"
            => /\ cluster[n].exists
               /\ p \in Metads \/ cluster[n].metadDone \/ ~cluster[n].named

LEMMA PodSteady ==
    ASSUME UNCHANGED pod
    PROVE  Grows /\ Starts
BY DEF Grows, Starts

\* The steps that leave the pods alone
LEMMA PodsKept ==
    ASSUME Types, RestoreKept, NameInv,
           \/ Writes \/ Restore!RemoveCluster \/ Restore!GetRestoredName
           \/ Restore!Reconcile \/ Restore!GetOriginal \/ Restore!Stage \/ Restore!Load
           \/ Restore!ConnectMetad \/ Restore!MetadReady
           \/ Restore!ConnectStoraged \/ Restore!ClusterReady \/ Restore!CallFails
           \/ Restore!Restart \/ Restore!Create \/ Restore!Release
           \/ Restore!AnnotateMetad \/ Restore!AnnotateStoraged
           \/ Restore!RemoveInitAgentContainer
           \/ \E n \in Names : Restore!GraphdStarts(n)
    PROVE  UNCHANGED pod
<1>1. Writes \/ Restore!RemoveCluster \/ Restore!GetRestoredName => UNCHANGED pod
  BY WritesDo, RemovesNothing, NameChosen DEF Progress, Restore!world
<1> QED
  BY <1>1
     DEF Restore!Reconcile, Restore!GetOriginal, Restore!Stage, Restore!Load,
         Restore!ConnectMetad, Restore!MetadReady, Restore!ConnectStoraged,
         Restore!ClusterReady, Restore!CallFails, Restore!Restart, Restore!Create,
         Restore!Release, Restore!AnnotateMetad, Restore!AnnotateStoraged,
         Restore!RemoveInitAgentContainer, Restore!GraphdStarts, Restore!Goto,
         Restore!Requeue, Restore!world

LEMMA PodsNext == ASSUME Types, RestoreKept, NameInv, Restore!Next PROVE Grows /\ Starts
<1>0. pc \in Named => name \in Names
  BY DEF NameInv, Types
<1>1. CASE Restore!DownloadMeta
  BY <1>0, <1>1, DownloadMetaDoes
     DEF Restore!DownloadMeta, Named, Restore!Steps, Downloads, SamePhase, SameApplied,
         Grows, Starts
<1>2. CASE Restore!StopMeta
  <2> DEFINE p == CHOOSE q \in left : TRUE
  <2>1. /\ p \in Restore!Pods /\ name \in Names
        /\ pod' = [pod EXCEPT ![name][p].phase = IF @ = "init" THEN "main" ELSE @]
    BY <1>0, <1>2, FirstLeft DEF Restore!StopMeta, Types, Named, Restore!Steps
  <2> HIDE DEF p
  <2>2. Stops(p)
    BY <2>1, StopsDoes
  <2> QED
    BY <2>2 DEF Stops, SameFiles, SameApplied, Grows, Starts
<1>3. CASE Restore!StopStorage
  <2>1. PICK p \in left : pod' = [pod EXCEPT ![name][p].phase = IF @ = "init" THEN "main" ELSE @]
    BY <1>3 DEF Restore!StopStorage
  <2>2. name \in Names /\ p \in Restore!Pods
    BY <1>0, <1>3 DEF Restore!StopStorage, Named, Restore!Steps, Types
  <2>3. Stops(p)
    BY <2>1, <2>2, StopsDoes
  <2> QED
    BY <2>3 DEF Stops, SameFiles, SameApplied, Grows, Starts
<1>4. CASE Restore!DownloadStorage
  <2>1. CASE left = {}
    BY <1>4, <2>1, PodSteady DEF Restore!DownloadStorage
  <2>2. CASE left # {}
    <3>1. PICK p \in left : pod' = [pod EXCEPT ![name][p] = [@ EXCEPT !.files = TRUE, !.checkpoint = TRUE]]
      BY <1>4, <2>2 DEF Restore!DownloadStorage
    <3>2. name \in Names
      BY <1>0, <1>4 DEF Restore!DownloadStorage, Named, Restore!Steps
    <3>3. Downloads(p)
      BY <3>1, <3>2, DownloadStorageDoes
    <3> HIDE <3>1
    <3> QED
      BY <3>3 DEF Downloads, SamePhase, SameApplied, Grows, Starts
  <2> QED
    BY <2>1, <2>2
<1>5. CASE Restore!RestoreMeta \/ Restore!Playback
  <2>1. PICK S : pod' = [pod EXCEPT ![name] = Restore!Loaded(S)]
    BY <1>5 DEF Restore!RestoreMeta, Restore!Playback
  <2>2. name \in Names
    BY <1>0, <1>5 DEF Restore!RestoreMeta, Restore!Playback, Named, Restore!Steps
  <2>3. Applies(S)
    BY <2>1, <2>2, AppliesDoes
  <2> QED
    BY <2>3 DEF Applies, SamePhase, SameFiles, Grows, Starts
<1>6. CASE Restore!RemoveCheckpoints
  <2>1. name \in Names
    BY <1>0, <1>6 DEF Restore!RemoveCheckpoints, Named, Restore!Steps
  <2> QED
    BY <1>6, <2>1, RemoveCheckpointsDoes
       DEF SamePhase, SameFiles, SameApplied, Grows, Starts
<1>7. ASSUME NEW n \in Names, NEW p \in Restore!Pods,
             Restore!PodStarts(n, p) \/ Restore!PodReady(n, p) \/ Restore!PodReplaced(n, p) \/ Restore!PodFails(n, p)
      PROVE  Grows /\ Starts
  <2>1. PICK f \in {"none", "init", "main", "ready", "failed"} : pod' = [pod EXCEPT ![n][p].phase = f]
    BY <1>7 DEF Restore!PodStarts, Restore!PodReady, Restore!PodReplaced, Restore!PodFails
  <2>2. Moves(n, p, f)
    BY <2>1, MovesDoes
  <2>3. \/ pod[n][p].phase # "none"
        \/ cluster[n].exists /\ (p \in Metads \/ cluster[n].metadDone \/ ~cluster[n].named)
    BY <1>7 DEF Restore!PodStarts, Restore!PodReady, Restore!PodReplaced, Restore!PodFails
  <2> HIDE <1>7, <2>1
  <2> QED
    BY <2>2, <2>3 DEF Moves, SameFiles, SameApplied, Grows, Starts
<1>8. CASE UNCHANGED pod
  BY <1>8, PodSteady
<1> QED
  BY <1>1, <1>2, <1>3, <1>4, <1>5, <1>6, <1>7, <1>8, PodsKept
     DEF Restore!Next, Restore!Pass, Restore!Stage1, Restore!Stage2, Restore!PodSteps,
         Writes

\* The object never forgets its name nor its progress, and a flag is set by its step
RestoreObjMoves ==
    /\ obj.name # "" => obj'.name = obj.name
    /\ obj.metaDownload => obj'.metaDownload
    /\ obj.metad => obj'.metad
    /\ obj.storageDownload => obj'.storageDownload
    /\ obj.storaged => obj'.storaged
    /\ obj'.metaDownload => obj.metaDownload \/ pc = "statusMetaDownload"
    /\ obj'.metad => obj.metad \/ pc = "statusMetad"
    /\ obj'.storageDownload => obj.storageDownload \/ pc = "statusStorageDownload"
    /\ obj'.storaged => obj.storaged \/ pc = "statusStoraged"
    /\ obj'.complete => obj.complete \/ pc = "statusComplete"
    /\ old' \in {old, obj}
    /\ nr' \in {nr, obj, old, Restore!NewRestore}

\* The steps that leave the object alone
LEMMA ObjKept ==
    \/ Restore!GetOriginal \/ Restore!Stage \/ Restore!Load \/ Restore!ConnectMetad
    \/ Restore!MetadReady \/ Restore!ConnectStoraged
    \/ Restore!ClusterReady \/ Restore!CallFails \/ Restore!DownloadMeta \/ Restore!StopMeta
    \/ Restore!RestoreMeta
    \/ Restore!DownloadStorage \/ Restore!Playback \/ Restore!StopStorage
    \/ Restore!RemoveCheckpoints
    \/ Restore!Create \/ Restore!Release \/ Restore!AnnotateMetad
    \/ Restore!AnnotateStoraged \/ Restore!RemoveInitAgentContainer
    \/ Restore!PodSteps \/ \E n \in Names, p \in Restore!Pods : Restore!PodFails(n, p)
    => UNCHANGED <<obj, old, nr>>
BY DEF Restore!GetOriginal, Restore!Stage, Restore!Load, Restore!ConnectMetad,
   Restore!MetadReady, Restore!ConnectStoraged, Restore!ClusterReady, Restore!CallFails,
   Restore!DownloadMeta, Restore!StopMeta, Restore!RestoreMeta, Restore!DownloadStorage,
   Restore!Playback, Restore!StopStorage, Restore!RemoveCheckpoints, Restore!Create,
   Restore!Release, Restore!AnnotateMetad, Restore!AnnotateStoraged,
   Restore!RemoveInitAgentContainer, Restore!PodSteps, Restore!GraphdStarts,
   Restore!PodStarts, Restore!PodReady, Restore!PodReplaced, Restore!PodFails,
   Restore!Goto, Restore!Requeue, Restore!local

LEMMA ObjNext == ASSUME Types, RestoreKept, NameInv, Restore!Next PROVE RestoreObjMoves
<1>1. CASE Writes
  BY <1>1, WritesDo DEF Progress, RestoreObjMoves, Restore!local
<1>2. CASE Restore!GetRestoredName
  BY <1>2, NameChosen DEF RestoreObjMoves
<1>3. CASE Restore!Reconcile
  BY <1>3 DEF Restore!Reconcile, RestoreObjMoves
<1>4. CASE Restore!Restart
  BY <1>4 DEF Restore!Restart, RestoreObjMoves
<1>5. CASE UNCHANGED <<obj, old, nr>>
  BY <1>5 DEF RestoreObjMoves
<1>6. Restore!RemoveCluster => UNCHANGED <<obj, old, nr>>
  BY RemovesNothing DEF Restore!local
<1> QED
  BY <1>1, <1>2, <1>3, <1>4, <1>5, <1>6, ObjKept
     DEF Restore!Next, Restore!Pass, Restore!Stage1, Restore!Stage2, Writes

LEMMA FlagNext == ASSUME Types, RestoreKept, NameInv, FlagInv, Restore!Next PROVE FlagInv'
<1>1. RestoreObjMoves
  BY ObjNext
<1>2. /\ ~Restore!NewRestore.metaDownload /\ ~Restore!NewRestore.metad
      /\ ~Restore!NewRestore.storageDownload /\ ~Restore!NewRestore.storaged
  BY DEF Restore!NewRestore
<1> QED
  BY <1>1, <1>2 DEF FlagInv, RestoreObjMoves

\* What a step may do to the annotations of a cluster; a cluster is freed when
\* nothing holds back its components any more
Freed(n) == cluster[n].exists /\ ~cluster[n].named
ClusterMoves ==
    \A n \in Names :
        /\ cluster'[n].metadDone \/ Freed(n)'
              => \/ cluster[n].metadDone \/ Freed(n)
                 \/ n = name /\ pc \in {"annotateMetad", "release", "removeInit"} /\ pc' # pc
        /\ cluster'[n].storagedDone \/ Freed(n)'
              => \/ cluster[n].storagedDone \/ Freed(n)
                 \/ n = name /\ pc \in {"annotateStoraged", "release", "removeInit"}
        /\ cluster'[n].stage = "2"
              => cluster[n].stage = "2" \/ (n = name /\ pc = "removeInit")
        /\ cluster[n].exists => cluster'[n].exists
        /\ cluster'[n].initAgents => cluster[n].initAgents \/ ~cluster[n].exists
        /\ cluster'[n].graphd => cluster[n].graphd \/ cluster[n].storagedDone \/ Freed(n)

LEMMA ClusterSteady == ASSUME UNCHANGED cluster PROVE ClusterMoves
BY DEF ClusterMoves, Freed

LEMMA ClusterKept ==
    \/ Restore!Reconcile \/ Restore!Restart
    \/ Restore!GetOriginal \/ Restore!Stage \/ Restore!Load \/ Restore!ConnectMetad
    \/ Restore!MetadReady \/ Restore!ConnectStoraged
    \/ Restore!ClusterReady \/ Restore!CallFails \/ Restore!DownloadMeta \/ Restore!StopMeta
    \/ Restore!RestoreMeta
    \/ Restore!DownloadStorage \/ Restore!Playback \/ Restore!StopStorage
    \/ Restore!RemoveCheckpoints
    \/ \E n \in Names, p \in Restore!Pods :
         Restore!PodStarts(n, p) \/ Restore!PodReady(n, p) \/ Restore!PodReplaced(n, p) \/ Restore!PodFails(n, p)
    => UNCHANGED cluster
BY DEF Restore!GetOriginal, Restore!Stage, Restore!Load, Restore!ConnectMetad,
   Restore!MetadReady, Restore!ConnectStoraged, Restore!ClusterReady, Restore!CallFails,
   Restore!DownloadMeta, Restore!StopMeta, Restore!RestoreMeta, Restore!DownloadStorage,
   Restore!Playback, Restore!StopStorage, Restore!RemoveCheckpoints, Restore!PodStarts,
   Restore!PodReady, Restore!PodReplaced, Restore!PodFails, Restore!Goto, Restore!Requeue,
   Restore!world, Restore!Reconcile, Restore!Restart

LEMMA ClusterNext == ASSUME Types, RestoreKept, NameInv, Restore!Next PROVE ClusterMoves
<1>0. pc \in Named => name \in Names
  BY DEF NameInv, Types
<1>1. CASE Restore!Release
  <2>1. name \in Names /\ pc = "release" /\ pc' # pc
    BY <1>0, <1>1 DEF Restore!Release, Named, Restore!Steps
  <2> QED
    BY <1>1, <2>1, ReleaseDoes DEF ClusterMoves, Freed
<1>2. CASE Restore!AnnotateMetad
  <2>1. name \in Names /\ pc = "annotateMetad" /\ pc' # pc
    BY <1>0, <1>2 DEF Restore!AnnotateMetad, Named, Restore!Steps
  <2> QED
    BY <1>2, <2>1, AnnotateMetadDoes DEF ClusterMoves, Freed
<1>3. CASE Restore!AnnotateStoraged
  <2>1. name \in Names /\ pc = "annotateStoraged"
    BY <1>0, <1>3 DEF Restore!AnnotateStoraged, Named, Restore!Steps
  <2> QED
    BY <1>3, <2>1, AnnotateStoragedDoes DEF ClusterMoves, Freed
<1>4. CASE Restore!RemoveInitAgentContainer
  <2>1. name \in Names /\ pc = "removeInit" /\ pc' # pc
    BY <1>0, <1>4 DEF Restore!RemoveInitAgentContainer, Named, Restore!Steps
  <2> QED
    BY <1>4, <2>1, RemoveInitAgentContainerDoes DEF ClusterMoves, Freed
<1>5. CASE Restore!Create
  <2>1. name \in Names
    BY <1>0, <1>5 DEF Restore!Create, Named, Restore!Steps
  <2> QED
    BY <1>5, <2>1, CreateDoes DEF ClusterMoves, Freed
<1>6. ASSUME NEW n \in Names, Restore!GraphdStarts(n) PROVE ClusterMoves
  BY <1>6, GraphdStartsDoes DEF Restore!GraphdStarts, ClusterMoves, Freed
<1>7. Writes \/ Restore!RemoveCluster \/ Restore!GetRestoredName => UNCHANGED cluster
  BY WritesDo, RemovesNothing, NameChosen DEF Progress, Restore!world
<1> QED
  BY <1>1, <1>2, <1>3, <1>4, <1>5, <1>6, <1>7, ClusterKept, ClusterSteady
     DEF Restore!Next, Restore!Pass, Restore!Stage1, Restore!Stage2, Restore!PodSteps,
         Writes

\* How a pass gets to the steps behind the work on metad and on storaged
RestorePcMoves ==
    /\ pc' \in HasMeta => \/ pc \in HasMeta
                          \/ pc = "metad" /\ nr.metaDownload
                          \/ Restore!StopMeta /\ left' = {}
    /\ pc' \in MetaApplied \union Late => \/ pc \in MetaApplied \union Late
                                          \/ pc = "load" /\ nr.metad
                                          \/ Restore!RestoreMeta
                                          \/ pc = "stage" /\ cluster[name].stage = "2"
    /\ pc' \in StoragedLoaded => \/ pc \in StoragedLoaded
                                 \/ pc = "downloadStorage" /\ left = {}
                                 \/ pc = "storaged" /\ nr.storageDownload
    /\ pc' \in StoragedApplied => \/ pc \in StoragedApplied
                                  \/ Restore!Playback
                                  \/ pc = "annotateMetad" /\ nr.storaged
                                  \/ pc = "stage" /\ cluster[name].stage = "2"
    /\ pc' \in Named \ {"stage"} => name' = name

LEMMA PcNext == ASSUME Types, RestoreKept, NameInv, Restore!Next PROVE RestorePcMoves
<1> USE DEF HasMeta, MetaApplied, Late, StoragedLoaded, StoragedApplied, Named,
        Restore!Steps, Restore!local, Restore!Goto, Restore!Requeue
<1>1. CASE Restore!GetOriginal \/ Restore!Stage \/ Restore!Load \/ Restore!MetadReady
  BY <1>1
     DEF Restore!GetOriginal, Restore!Stage, Restore!Load, Restore!MetadReady,
         RestorePcMoves
<1>2. CASE \/ Restore!ClusterReady \/ Restore!CallFails \/ Restore!ConnectMetad
           \/ Restore!ConnectStoraged
  BY <1>2
     DEF Restore!ClusterReady, Restore!CallFails, Restore!ConnectMetad,
         Restore!ConnectStoraged, RestorePcMoves
<1>3. CASE Restore!DownloadMeta \/ Restore!RestoreMeta
  BY <1>3 DEF Restore!DownloadMeta, Restore!RestoreMeta, RestorePcMoves
<1>4. CASE Restore!StopMeta
  <2>1. pc = "stopMeta" /\ name' = name
    BY <1>4 DEF Restore!StopMeta
  <2>2. pc' = IF left' = {} THEN "statusMetaDownload" ELSE "downloadMeta"
    BY <1>4 DEF Restore!StopMeta
  <2> QED
    BY <1>4, <2>1, <2>2 DEF RestorePcMoves
<1>5. CASE Restore!DownloadStorage \/ Restore!Playback
  BY <1>5 DEF Restore!DownloadStorage, Restore!Playback, RestorePcMoves
<1>6. CASE Restore!StopStorage \/ Restore!RemoveCheckpoints
  BY <1>6 DEF Restore!StopStorage, Restore!RemoveCheckpoints, RestorePcMoves
<1>7. CASE Restore!Create \/ Restore!Release \/ Restore!AnnotateMetad
  BY <1>7 DEF Restore!Create, Restore!Release, Restore!AnnotateMetad, RestorePcMoves
<1>8. CASE Restore!AnnotateStoraged \/ Restore!RemoveInitAgentContainer
  BY <1>8 DEF Restore!AnnotateStoraged, Restore!RemoveInitAgentContainer, RestorePcMoves
<1>9. CASE Restore!StatusMetaDownload \/ Restore!StatusMetad \/ Restore!StatusStorageDownload
  BY <1>9
     DEF Restore!StatusMetaDownload, Restore!StatusMetad, Restore!StatusStorageDownload,
         Restore!StatusThen, RestorePcMoves
<1>10. CASE Restore!StatusStoraged \/ Restore!StatusComplete
  BY <1>10
     DEF Restore!StatusStoraged, Restore!StatusComplete, Restore!StatusThen,
         RestorePcMoves
<1>11. CASE Restore!StatusFailed \/ Restore!CheckPods
  BY <1>11 DEF Restore!StatusFailed, Restore!CheckPods, RestorePcMoves
<1>12. CASE Restore!GetRestoredName \/ Restore!Reconcile \/ Restore!Restart
  BY <1>12 DEF Restore!GetRestoredName, Restore!Reconcile, Restore!Restart, RestorePcMoves
<1>13. CASE Restore!RemoveCluster
  BY <1>13 DEF Restore!RemoveCluster, RestorePcMoves
<1>14. CASE UNCHANGED <<pc, name>>
  BY <1>14 DEF RestorePcMoves
<1>15. Restore!PodSteps \/ (\E n \in Names, p \in Restore!Pods : Restore!PodFails(n, p))
         => UNCHANGED <<pc, name>>
  BY DEF Restore!PodSteps, Restore!GraphdStarts, Restore!PodStarts, Restore!PodReady,
     Restore!PodReplaced, Restore!PodFails
<1> QED
  BY <1>1, <1>2, <1>3, <1>4, <1>5, <1>6, <1>7, <1>8, <1>9, <1>10, <1>11, <1>12, <1>13,
     <1>14,
     <1>15 DEF Restore!Next, Restore!Pass, Restore!Stage1, Restore!Stage2

LEMMA LeftMetaKept ==
    ASSUME Types, NameInv, LeftMeta, Grows, UNCHANGED <<pc, name, left>>
    PROVE  LeftMeta'
<1> DEFINE p == CHOOSE q \in left : TRUE
<1>1. CASE pc \in {"downloadMeta", "stopMeta"}
  <2>1. name \in Names
    BY <1>1 DEF NameInv, Named, Restore!Steps, Types
  <2>2. Downloaded(name, Metads \ left)'
    BY <1>1, <2>1 DEF LeftMeta, Grows, Downloaded, Restore!Pods
  <2>3. CASE pc = "stopMeta"
    <3>1. p \in Restore!Pods /\ pod[name][p].files /\ p' = p
      BY <2>3, FirstLeft DEF LeftMeta, Types
    <3> HIDE DEF p
    <3>2. pod'[name][p].files
      BY <2>1, <3>1 DEF Grows
    <3>3. pod'[name'][p'].files
      BY <3>1, <3>2
    <3> QED
      BY <1>1, <2>2, <2>3, <3>3 DEF LeftMeta, p
  <2> QED
    BY <1>1, <2>2, <2>3 DEF LeftMeta
<1>2. CASE pc \notin {"downloadMeta", "stopMeta"}
  BY <1>2 DEF LeftMeta
<1> QED
  BY <1>1, <1>2

LEMMA LeftMetaNext == ASSUME Types, RestoreKept, NameInv, LeftMeta, Restore!Next PROVE LeftMeta'
<1> USE DEF Named, Restore!Steps, Restore!local, Restore!Goto, Restore!Requeue
<1>0. Grows
  BY PodsNext
<1>1. CASE pc' \notin {"downloadMeta", "stopMeta"}
  BY <1>1 DEF LeftMeta
<1>2. CASE Restore!ConnectMetad
  BY <1>1, <1>2 DEF Restore!ConnectMetad, LeftMeta, Downloaded
<1>3. CASE Restore!DownloadMeta
  <2> DEFINE p == CHOOSE q \in left : TRUE
  <2>1. /\ pc = "downloadMeta" /\ pc' = "stopMeta" /\ left # {} /\ left' = left /\ name' = name
        /\ name \in Names
    BY <1>3 DEF Restore!DownloadMeta, NameInv, Types
  <2>2. p \in Restore!Pods /\ p' = p
    BY <2>1, FirstLeft DEF Types
  <2>3. Downloads(p)
    BY <1>3, <2>1, DownloadMetaDoes
  <2>4. pod'[name][p].files
    BY <2>1, <2>2, <2>3 DEF Downloads
  <2>5. Downloaded(name, Metads \ left)'
    BY <1>0, <2>1 DEF LeftMeta, Grows, Downloaded, Restore!Pods
  <2> HIDE DEF p
  <2>6. pod'[name'][p'].files
    BY <2>1, <2>2, <2>4
  <2> QED
    BY <2>1, <2>5, <2>6 DEF LeftMeta, p
<1>4. CASE Restore!StopMeta
  <2> DEFINE p == CHOOSE q \in left : TRUE
  <2>1. /\ pc = "stopMeta" /\ left' = left \ {p} /\ name' = name /\ name \in Names
        /\ pc' \in {"statusMetaDownload", "downloadMeta"}
    BY <1>4 DEF Restore!StopMeta, NameInv, Types
  <2>2. p \in Restore!Pods /\ pod[name][p].files
    BY <2>1, FirstLeft DEF LeftMeta, Types
  <2> HIDE DEF p
  <2>3. \A q \in Metads \ left' : pod'[name][q].files
    BY <1>0, <2>1, <2>2 DEF LeftMeta, Grows, Downloaded, Restore!Pods
  <2> QED
    BY <2>1, <2>3 DEF LeftMeta, Downloaded
<1>5. CASE UNCHANGED <<pc, name, left>>
  BY <1>0, <1>5, LeftMetaKept
<1>6. \/ Writes \/ Restore!Reconcile \/ Restore!Restart \/ Restore!GetOriginal
      \/ Restore!GetRestoredName \/ Restore!Stage \/ Restore!Create \/ Restore!Load
      \/ Restore!MetadReady \/ Restore!RestoreMeta
      => pc' \notin {"downloadMeta", "stopMeta"}
  BY DEF Writes, Restore!StatusMetaDownload, Restore!StatusMetad,
     Restore!StatusStorageDownload, Restore!StatusStoraged, Restore!StatusComplete,
     Restore!StatusThen, Restore!StatusFailed, Restore!CheckPods, Restore!Reconcile,
     Restore!Restart, Restore!GetOriginal, Restore!GetRestoredName, Restore!Stage,
     Restore!Create, Restore!Load, Restore!MetadReady, Restore!RestoreMeta
<1>7. \/ Restore!AnnotateMetad \/ Restore!ConnectStoraged \/ Restore!DownloadStorage
      \/ Restore!Playback \/ Restore!StopStorage
      \/ Restore!AnnotateStoraged \/ Restore!ClusterReady \/ Restore!RemoveCheckpoints
      \/ Restore!RemoveInitAgentContainer
      \/ Restore!Release \/ Restore!RemoveCluster \/ Restore!CallFails
      => pc' \notin {"downloadMeta", "stopMeta"}
  BY DEF Restore!AnnotateMetad, Restore!ConnectStoraged, Restore!DownloadStorage,
     Restore!Playback, Restore!StopStorage, Restore!AnnotateStoraged,
     Restore!ClusterReady, Restore!RemoveCheckpoints, Restore!RemoveInitAgentContainer,
     Restore!Release, Restore!RemoveCluster, Restore!CallFails
<1>8. Restore!PodSteps \/ (\E n \in Names, p \in Restore!Pods : Restore!PodFails(n, p)) 
         => UNCHANGED <<pc, name, left>>
  BY DEF Restore!PodSteps, Restore!GraphdStarts, Restore!PodStarts, Restore!PodReady,
     Restore!PodReplaced, Restore!PodFails
<1> QED
  BY <1>1, <1>2, <1>3, <1>4, <1>5, <1>6, <1>7, <1>8
     DEF Restore!Next, Restore!Pass, Restore!Stage1, Restore!Stage2, Writes

LEMMA SetGrows ==
    ASSUME Grows, NEW n \in Names
    PROVE  /\ Downloaded(n, Metads) => Downloaded(n, Metads)'
           /\ Downloaded(n, Storageds) => Downloaded(n, Storageds)'
           /\ Applied(n, Metads) => Applied(n, Metads)'
           /\ Applied(n, Storageds) => Applied(n, Storageds)'
BY DEF Grows, Downloaded, Applied, Restore!Pods

\* RestoreMeta leaves no metad behind
LEMMA RestoreMetaDoes ==
    ASSUME Types, name \in Names, MetaInv, Grows, Restore!RestoreMeta
    PROVE  Applied(name, Metads \ left)'
<1> DEFINE p == CHOOSE q \in left : TRUE
<1>1. pc = "restoreMeta" /\ left' = left \ {p} /\ name' = name
  BY DEF Restore!RestoreMeta
<1>2. Applies({p})
  BY AppliesDoes DEF Restore!RestoreMeta
<1> HIDE DEF p
<1>3. ASSUME NEW q \in Metads, q \notin left' PROVE pod'[name][q].applied
  <2>1. CASE q \notin left
    BY <1>1, <1>3, <2>1 DEF MetaInv, AppliedMeta, Applied, Grows, Restore!Pods
  <2>2. CASE q = p
    BY <1>1, <1>2, <2>2 DEF MetaInv, HasMeta, Downloaded, Applies, Restore!Pods
  <2> QED
    BY <1>1, <1>3, <2>1, <2>2
<1> QED
  BY <1>1, <1>3 DEF Applied

LEMMA AppliedMetaNext ==
    ASSUME Types, RestoreKept, NameInv, MetaInv, Grows, RestorePcMoves, Restore!Next
    PROVE  AppliedMeta'
<1>1. CASE pc' # "restoreMeta"
  BY <1>1 DEF AppliedMeta
<1>2. CASE Restore!MetadReady
  BY <1>1, <1>2 DEF Restore!MetadReady, Restore!Requeue, AppliedMeta, Applied
<1>3. CASE Restore!RestoreMeta
  <2>1. name \in Names
    BY <1>3 DEF Restore!RestoreMeta, NameInv, Named, Restore!Steps, Types
  <2> QED
    BY <1>3, <2>1, RestoreMetaDoes DEF MetaInv, AppliedMeta
<1>4. CASE pc' = "restoreMeta" /\ UNCHANGED <<pc, name, left>>
  <2>1. name \in Names
    BY <1>4 DEF NameInv, Named, Restore!Steps, Types
  <2> QED
    BY <1>4, <2>1 DEF MetaInv, AppliedMeta, Applied, Grows, Restore!Pods
<1> USE DEF Restore!local, Restore!Goto, Restore!Requeue
<1>5. \/ Writes \/ Restore!Reconcile \/ Restore!Restart \/ Restore!GetOriginal
      \/ Restore!GetRestoredName \/ Restore!Stage \/ Restore!Create \/ Restore!Load
      \/ Restore!DownloadMeta \/ Restore!StopMeta \/ Restore!CallFails
      => pc' # "restoreMeta"
  BY DEF Writes, Restore!StatusMetaDownload, Restore!StatusMetad,
     Restore!StatusStorageDownload, Restore!StatusStoraged, Restore!StatusComplete,
     Restore!StatusThen, Restore!StatusFailed, Restore!CheckPods, Restore!Reconcile,
     Restore!Restart, Restore!GetOriginal, Restore!GetRestoredName, Restore!Stage,
     Restore!Create, Restore!Load, Restore!DownloadMeta, Restore!StopMeta,
     Restore!CallFails
<1>6. \/ Restore!AnnotateMetad \/ Restore!ConnectStoraged \/ Restore!DownloadStorage
      \/ Restore!Playback \/ Restore!StopStorage \/ Restore!ConnectMetad
      \/ Restore!AnnotateStoraged \/ Restore!ClusterReady \/ Restore!RemoveCheckpoints
      \/ Restore!RemoveInitAgentContainer
      \/ Restore!Release \/ Restore!RemoveCluster
      => pc' # "restoreMeta"
  BY DEF Restore!AnnotateMetad, Restore!ConnectStoraged, Restore!DownloadStorage,
     Restore!Playback, Restore!StopStorage, Restore!ConnectMetad, Restore!AnnotateStoraged,
     Restore!ClusterReady, Restore!RemoveCheckpoints, Restore!RemoveInitAgentContainer,
     Restore!Release, Restore!RemoveCluster
<1>7. Restore!PodSteps \/ (\E n \in Names, p \in Restore!Pods : Restore!PodFails(n, p))
         => UNCHANGED <<pc, name, left>>
  BY DEF Restore!PodSteps, Restore!GraphdStarts, Restore!PodStarts, Restore!PodReady,
     Restore!PodReplaced, Restore!PodFails
<1> QED
  BY <1>1, <1>2, <1>3, <1>4, <1>5, <1>6, <1>7
     DEF Restore!Next, Restore!Pass, Restore!Stage1, Restore!Stage2, Writes

LEMMA MetaNext ==
    ASSUME Types, Types', RestoreKept, NameInv, NameInv', FlagInv, MetaInv, Restore!Next
    PROVE  MetaInv'
<1>0. /\ Grows /\ Starts /\ RestoreObjMoves /\ ClusterMoves /\ RestorePcMoves
      /\ LeftMeta' /\ AppliedMeta'
  BY PodsNext, ObjNext, ClusterNext, PcNext, LeftMetaNext, AppliedMetaNext DEF MetaInv
<1>1. /\ pc \in Named => name \in Names /\ name = obj.name
      /\ obj.name \in Names \union {""}
  BY DEF NameInv, Types, Restore!Restore
<1>2. HasMeta \subseteq Named \ {"stage"} /\ MetaApplied \subseteq Named \ {"stage"}
      /\ Late \subseteq Named \ {"stage"}
  BY DEF HasMeta, MetaApplied, Late, Named, Restore!Steps
<1>3. \A n \in Names : Downloaded(n, Metads) => Downloaded(n, Metads)'
  BY <1>0, SetGrows
<1>4. \A n \in Names : Applied(n, Metads) => Applied(n, Metads)'
  BY <1>0, SetGrows
<1>5. (obj.metaDownload \/ obj.metad => obj.name # "")'
  <2>1. pc \in {"statusMetaDownload", "statusMetad"} => obj.name # ""
    BY DEF NameInv, Named, Restore!Steps
  <2> QED
    BY <1>0, <2>1 DEF RestoreObjMoves, MetaInv
<1>6. (obj.metaDownload => Downloaded(obj.name, Metads))'
  <2>1. obj'.metaDownload => obj.metaDownload \/ pc = "statusMetaDownload"
    BY <1>0 DEF RestoreObjMoves
  <2>2. obj'.metaDownload => obj.name # "" /\ Downloaded(obj.name, Metads)
    BY <1>1, <1>2, <2>1 DEF MetaInv, HasMeta, NameInv
  <2>3. obj'.metaDownload => obj'.name = obj.name /\ obj.name \in Names
    BY <1>0, <1>1, <2>2 DEF RestoreObjMoves
  <2>4. obj'.metaDownload => Downloaded(obj.name, Metads)'
    <3>1. ASSUME obj'.metaDownload PROVE \A p \in Metads : pod'[obj'.name][p].files
      <4>1. \A p \in Metads : pod[obj.name][p].files
        BY <2>2, <3>1 DEF Downloaded
      <4> QED
        BY <1>0, <2>3, <3>1, <4>1 DEF Grows, Restore!Pods
    <3> QED
      BY <3>1 DEF Downloaded
  <2> QED
    BY <2>4
<1>7. (obj.metad => Applied(obj.name, Metads))'
  <2>1. obj'.metad => obj.metad \/ pc = "statusMetad"
    BY <1>0 DEF RestoreObjMoves
  <2>2. obj'.metad => obj.name # "" /\ Applied(obj.name, Metads)
    BY <1>1, <1>2, <2>1 DEF MetaInv, MetaApplied, NameInv
  <2>3. obj'.metad => obj'.name = obj.name /\ obj.name \in Names
    BY <1>0, <1>1, <2>2 DEF RestoreObjMoves
  <2>4. ASSUME obj'.metad PROVE \A p \in Metads : pod'[obj'.name][p].applied
    <3>1. \A p \in Metads : pod[obj.name][p].applied
      BY <2>2, <2>4 DEF Applied
    <3> QED
      BY <1>0, <2>3, <2>4, <3>1 DEF Grows, Restore!Pods
  <2> QED
    BY <2>4 DEF Applied
<1>8. (\A n \in Names : cluster[n].metadDone \/ (cluster[n].exists /\ ~cluster[n].named)
                            => Applied(n, Metads))'
  <2>1. ASSUME NEW n \in Names, cluster'[n].metadDone \/ Freed(n)'
        PROVE  Applied(n, Metads)
    <3>1. \/ cluster[n].metadDone \/ Freed(n)
          \/ n = name /\ pc \in {"annotateMetad", "release", "removeInit"}
      BY <1>0, <2>1 DEF ClusterMoves
    <3> QED
      BY <3>1 DEF MetaInv, MetaApplied, Late, Freed
  <2> QED
    BY <1>4, <2>1 DEF Freed
<1>9. (\A n \in Names : cluster[n].stage = "2" => Applied(n, Metads))'
  <2>1. ASSUME NEW n \in Names, cluster'[n].stage = "2"
        PROVE  Applied(n, Metads)
    BY <1>0, <2>1 DEF ClusterMoves, MetaInv, MetaApplied
  <2> QED
    BY <1>4, <2>1
<1>10. (pc \in HasMeta => Downloaded(name, Metads))'
  <2> SUFFICES ASSUME pc' \in HasMeta PROVE Downloaded(name, Metads)'
    BY DEF HasMeta
  <2>1. name' = name /\ pc \in Named /\ name \in Names
    BY <1>0, <1>1, <1>2
       DEF RestorePcMoves, NameInv, Types, HasMeta, Restore!StopMeta, Named, Restore!Steps
  <2>2. pc \in HasMeta \/ (pc = "metad" /\ nr.metaDownload) => Downloaded(name, Metads)
    BY <1>1, <2>1 DEF MetaInv, FlagInv
  <2>3. Restore!StopMeta /\ left' = {} => Downloaded(name, Metads)
    <3> SUFFICES ASSUME Restore!StopMeta, left' = {} PROVE Downloaded(name, Metads)
      OBVIOUS
    <3> DEFINE p == CHOOSE q \in left : TRUE
    <3>1. pc = "stopMeta" /\ left \ {p} = {}
      BY DEF Restore!StopMeta
    <3>2. pod[name][p].files /\ \A q \in Metads \ left : pod[name][q].files
      BY <3>1 DEF MetaInv, LeftMeta, Downloaded
    <3> HIDE DEF p
    <3> QED
      BY <3>1, <3>2 DEF Downloaded
  <2>4. Downloaded(name, Metads)
    BY <1>0, <2>2, <2>3 DEF RestorePcMoves
  <2>5. \A p \in Metads : pod'[name'][p].files
    BY <1>0, <2>1, <2>4 DEF Downloaded, Grows, Restore!Pods
  <2> QED
    BY <2>5 DEF Downloaded
<1>11. (pc \in MetaApplied \union Late => Applied(name, Metads))'
  <2> SUFFICES ASSUME pc' \in MetaApplied \union Late PROVE Applied(name, Metads)'
    BY DEF MetaApplied, Late
  <2>1. name' = name /\ pc \in Named /\ name \in Names
    BY <1>0, <1>1, <1>2 DEF RestorePcMoves, Restore!RestoreMeta, Named, Restore!Steps
  <2>2. \/ pc \in MetaApplied \union Late
        \/ pc = "load" /\ nr.metad
        \/ pc = "stage" /\ cluster[name].stage = "2"
        => Applied(name, Metads)
    BY <1>1, <2>1 DEF MetaInv, FlagInv
  <2>3. Restore!RestoreMeta => \A p \in Metads : pod'[name][p].applied
    <3> SUFFICES ASSUME Restore!RestoreMeta PROVE \A p \in Metads : pod'[name][p].applied
      OBVIOUS
    <3>1. pc' # "restoreMeta" /\ left' = {}
      BY DEF Restore!RestoreMeta, MetaApplied, Late
    <3>2. Applied(name, Metads \ left)'
      BY <1>0, <2>1, RestoreMetaDoes
    <3> QED
      BY <2>1, <3>1, <3>2 DEF Applied
  <2>4. Applied(name, Metads) => \A p \in Metads : pod'[name][p].applied
    BY <1>0, <2>1 DEF Applied, Grows, Restore!Pods
  <2>5. \A p \in Metads : pod'[name'][p].applied
    BY <1>0, <2>1, <2>2, <2>3, <2>4 DEF RestorePcMoves
  <2> QED
    BY <2>5 DEF Applied
<1> QED
  BY <1>0, <1>5, <1>6, <1>7, <1>8, <1>9, <1>10, <1>11 DEF MetaInv

LEMMA AfterNext ==
    ASSUME Types, RestoreKept, NameInv, MetaInv, Restore!StoragedAfterMetad, Restore!Next
    PROVE  Restore!StoragedAfterMetad'
<1>1. Grows /\ Starts
  BY PodsNext
<1>2. \A p \in Storageds : p \notin Metads
  BY Zenon DEF RestoreKept, RestoreConstants
<1>3. ASSUME NEW n \in Names, NEW p \in Storageds, pod'[n][p].phase # "none"
      PROVE  \A q \in Metads : pod[n][q].applied
  <2>1. CASE pod[n][p].phase # "none"
    BY <2>1 DEF Restore!StoragedAfterMetad
  <2>2. CASE pod[n][p].phase = "none"
    <3>1. cluster[n].exists /\ (cluster[n].metadDone \/ ~cluster[n].named)
      BY <1>1, <1>2, <1>3, <2>2 DEF Starts, Restore!Pods
    <3> QED
      BY <3>1 DEF MetaInv, Applied
  <2> QED
    BY <2>1, <2>2
<1> QED
  BY <1>1, <1>3 DEF Restore!StoragedAfterMetad, Grows, Restore!Pods

LEMMA OrderInit == RestoreKept /\ Restore!Init => OrderInv
<1> SUFFICES ASSUME RestoreKept, Restore!Init PROVE OrderInv
  OBVIOUS
<1>1. /\ pc = "idle" /\ obj = Restore!NewRestore /\ old = Restore!NewRestore
      /\ nr = Restore!NewRestore
  BY DEF Restore!Init
<1>2. \A n \in Names :
        /\ ~cluster[n].exists /\ ~cluster[n].metadDone /\ cluster[n].stage = ""
        /\ \A p \in Restore!Pods : pod[n][p].phase = "none"
  BY DEF Restore!Init, Restore!NoCluster, Restore!NewPod
<1>2a. /\ nr.name = "" /\ old.name = "" /\ obj.name = "" /\ ~obj.metaDownload /\ ~obj.metad
  BY <1>1 DEF Restore!NewRestore
<1>3. NameInv
  BY <1>1, <1>2, <1>2a DEF NameInv, Named
<1>4. FlagInv
  BY <1>1 DEF FlagInv, Restore!NewRestore
<1>5. MetaInv
  BY <1>1, <1>2, <1>2a DEF MetaInv, LeftMeta, AppliedMeta, HasMeta, MetaApplied, Late
<1>6. Restore!StoragedAfterMetad
  BY <1>2 DEF Restore!StoragedAfterMetad, Restore!Pods
<1> QED
  BY <1>3, <1>4, <1>5, <1>6 DEF OrderInv

LEMMA OrderSteady == ASSUME OrderInv, UNCHANGED Restore!vars PROVE OrderInv'
<1>1. UNCHANGED <<obj, old, queued, pc, nr, name, left, paths, cluster, pod, faults>>
  BY DEF Restore!vars, Restore!local, Restore!world
<1>2. NameInv' /\ FlagInv'
  BY <1>1 DEF OrderInv, NameInv, FlagInv
<1>3. MetaInv'
  BY <1>1 DEF OrderInv, MetaInv, LeftMeta, AppliedMeta, Downloaded, Applied
<1>4. Restore!StoragedAfterMetad'
  BY <1>1 DEF OrderInv, Restore!StoragedAfterMetad
<1> QED
  BY <1>2, <1>3, <1>4 DEF OrderInv

LEMMA OrderNext == RestoreKept /\ Types /\ OrderInv /\ [Restore!Next]_(Restore!vars) => OrderInv'
<1> SUFFICES ASSUME RestoreKept, Types, OrderInv, [Restore!Next]_(Restore!vars) PROVE OrderInv'
  OBVIOUS
<1>1. CASE Restore!Next
  <2>1. RestoreConstants
    BY DEF RestoreKept
  <2>2. Types' /\ NameInv'
    BY <1>1, <2>1, TypeNext, NameNext DEF OrderInv
  <2> QED
    BY <1>1, <2>2, FlagNext, MetaNext, AfterNext DEF OrderInv
<1> QED
  BY <1>1, OrderSteady

\* No storaged of the restored cluster starts before the backup is loaded into all its
\* metads, whatever is retried, evicted or read late (nebula_restore_manager.go
\* restore, nebula_cluster_control.go updateNebulaCluster)
THEOREM StoragedWaits == RestoreKept => (Restore!Spec => []Restore!StoragedAfterMetad)
<1> SUFFICES ASSUME RestoreKept PROVE Restore!Spec => []Restore!StoragedAfterMetad
  OBVIOUS
<1>1. Restore!Init => Types /\ OrderInv
  BY TypeInit, OrderInit DEF RestoreKept
<1>2. Types /\ OrderInv /\ [Restore!Next]_(Restore!vars) => Types' /\ OrderInv'
  BY TypeNext, OrderNext DEF RestoreKept
<1>3. OrderInv => Restore!StoragedAfterMetad
  BY DEF OrderInv
<1> QED
  BY <1>1, <1>2, <1>3, PTL DEF Restore!Spec

-----------------------------------------------------------------------------
(* The data of the restore *)

\* How the phase of a pod changes, when no pod is lost
PhaseMoves ==
    \A n \in Names : \A p \in Restore!Pods :
        \/ pod'[n][p].phase = pod[n][p].phase
        \/ /\ pod[n][p].phase = "none"
           /\ pod'[n][p].phase = IF cluster[n].initAgents THEN "init" ELSE "main"
           /\ cluster[n].exists /\ (p \in Metads \/ cluster[n].metadDone \/ ~cluster[n].named)
           /\ (pc = "storaged" => nr.metad) /\ pc' = pc
        \/ pod[n][p].phase = "main" /\ pod'[n][p].phase = "ready"
        \/ /\ pod[n][p].phase = "init" /\ pod'[n][p].phase = "main" /\ n = name
           /\ \/ pc = "stopMeta" /\ p = CHOOSE q \in left : TRUE
              \/ pc = "stopStorage" /\ p \in left

LEMMA PhaseSteady == ASSUME SamePhase \/ UNCHANGED pod PROVE PhaseMoves
BY DEF SamePhase, PhaseMoves

LEMMA PhaseNext == ASSUME Types, RestoreQuiet, NameInv, Healthy, Restore!Next PROVE PhaseMoves
<1>0. RestoreKept /\ (pc \in Named => name \in Names)
  BY DEF NameInv, Types, RestoreQuiet
<1>1. CASE Restore!DownloadMeta
  BY <1>0, <1>1, DownloadMetaDoes, PhaseSteady
     DEF Restore!DownloadMeta, Named, Restore!Steps, Downloads
<1>2. CASE Restore!StopMeta
  <2> DEFINE p == CHOOSE q \in left : TRUE
  <2>1. /\ p \in Restore!Pods /\ name \in Names /\ pc = "stopMeta"
        /\ pod' = [pod EXCEPT ![name][p].phase = IF @ = "init" THEN "main" ELSE @]
    BY <1>0, <1>2, FirstLeft DEF Restore!StopMeta, Types, Named, Restore!Steps
  <2> HIDE DEF p
  <2>2. Stops(p)
    BY <2>1, StopsDoes
  <2>3. ASSUME NEW n \in Names, NEW q \in Restore!Pods, pod'[n][q].phase # pod[n][q].phase
        PROVE  pod[n][q].phase = "init" /\ pod'[n][q].phase = "main" /\ n = name /\ q = p
    BY <2>2, <2>3 DEF Stops
  <2> QED
    BY <2>1, <2>3 DEF PhaseMoves, p
<1>3. CASE Restore!StopStorage
  <2>1. PICK p \in left : pod' = [pod EXCEPT ![name][p].phase = IF @ = "init" THEN "main" ELSE @]
    BY <1>3 DEF Restore!StopStorage
  <2>2. name \in Names /\ p \in Restore!Pods /\ pc = "stopStorage"
    BY <1>0, <1>3 DEF Restore!StopStorage, Named, Restore!Steps, Types
  <2>3. Stops(p)
    BY <2>1, <2>2, StopsDoes
  <2> HIDE <2>1
  <2> QED
    BY <2>2, <2>3 DEF Stops, PhaseMoves
<1>4. CASE Restore!DownloadStorage
  <2>1. CASE left = {}
    BY <1>4, <2>1, PhaseSteady DEF Restore!DownloadStorage
  <2>2. CASE left # {}
    <3>1. PICK p \in left : pod' = [pod EXCEPT ![name][p] = [@ EXCEPT !.files = TRUE, !.checkpoint = TRUE]]
      BY <1>4, <2>2 DEF Restore!DownloadStorage
    <3>2. name \in Names
      BY <1>0, <1>4 DEF Restore!DownloadStorage, Named, Restore!Steps
    <3>3. Downloads(p)
      BY <3>1, <3>2, DownloadStorageDoes
    <3> HIDE <3>1
    <3> QED
      BY <3>3, PhaseSteady DEF Downloads
  <2> QED
    BY <2>1, <2>2
<1>5. CASE Restore!RestoreMeta \/ Restore!Playback
  <2>1. PICK S : pod' = [pod EXCEPT ![name] = Restore!Loaded(S)]
    BY <1>5 DEF Restore!RestoreMeta, Restore!Playback
  <2>2. name \in Names
    BY <1>0, <1>5 DEF Restore!RestoreMeta, Restore!Playback, Named, Restore!Steps
  <2>3. Applies(S)
    BY <2>1, <2>2, AppliesDoes
  <2> QED
    BY <2>3, PhaseSteady DEF Applies
<1>6. CASE Restore!RemoveCheckpoints
  <2>1. name \in Names
    BY <1>0, <1>6 DEF Restore!RemoveCheckpoints, Named, Restore!Steps
  <2> QED
    BY <1>6, <2>1, RemoveCheckpointsDoes, PhaseSteady
<1>7. ASSUME NEW n \in Names, NEW p \in Restore!Pods, Restore!PodStarts(n, p) PROVE PhaseMoves
  <2> DEFINE f == IF cluster[n].initAgents THEN "init" ELSE "main"
  <2>1. /\ pod' = [pod EXCEPT ![n][p].phase = f] /\ pod[n][p].phase = "none"
        /\ cluster[n].exists /\ (p \in Metads \/ cluster[n].metadDone \/ ~cluster[n].named)
        /\ (pc = "storaged" => nr.metad) /\ pc' = pc
    BY <1>7 DEF Restore!PodStarts
  <2> HIDE DEF f
  <2>2. Moves(n, p, f)
    BY <2>1, MovesDoes
  <2>3. ASSUME NEW m \in Names, NEW q \in Restore!Pods, pod'[m][q].phase # pod[m][q].phase
        PROVE  m = n /\ q = p /\ pod'[m][q].phase = f
    BY <2>2, <2>3 DEF Moves
  <2> QED
    BY <2>1, <2>3 DEF PhaseMoves, f
<1>8. ASSUME NEW n \in Names, NEW p \in Restore!Pods, Restore!PodReady(n, p) PROVE PhaseMoves
  <2>1. pod[n][p].phase = "main" /\ Moves(n, p, "ready")
    BY <1>8, MovesDoes DEF Restore!PodReady
  <2> QED
    BY <2>1 DEF Moves, PhaseMoves
<1>9. ASSUME NEW n \in Names, NEW p \in Restore!Pods, Restore!PodFails(n, p) \/ Restore!PodReplaced(n, p)
      PROVE  PhaseMoves
  BY <1>9 DEF Restore!PodFails, Restore!PodReplaced, RestoreQuiet, Healthy
<1> QED
  BY <1>0, <1>1, <1>2, <1>3, <1>4, <1>5, <1>6, <1>7, <1>8, <1>9, PodsKept, PhaseSteady
     DEF Restore!Next, Restore!Pass, Restore!Stage1, Restore!Stage2, Restore!PodSteps,
         Writes

\* How a pass gets to the steps before and after the metads count as restored
PartMoves ==
    /\ pc' = "idle" \/ Restore!Reconcile \/ (pc # "idle" /\ nr' = nr)
    /\ pc' \in AsRead => pc \in AsRead \/ Restore!Reconcile
    /\ pc' \in LoadMeta => \/ pc \in LoadMeta /\ (pc = "statusMetad" => UNCHANGED obj)
                           \/ pc = "load" /\ ~nr.metad
    /\ pc' \in AfterMeta => \/ pc \in AfterMeta
                            \/ Restore!StatusMetad
                            \/ pc = "load" /\ nr.metad
                            \/ pc = "stage" /\ cluster[name].stage = "2"
    /\ pc' = "annotateMetad" => pc = pc' \/ Restore!StatusMetad \/ (pc = "load" /\ nr.metad)
    /\ pc' = "storaged" => pc = pc' \/ (pc = "annotateMetad" /\ UNCHANGED pod)
    /\ pc' \in {"playback", "stopStorage", "statusStoraged"} =>
         \/ pc \in {"playback", "stopStorage", "statusStoraged"}
         \/ Restore!StatusStorageDownload
         \/ pc = "storaged" /\ nr.storageDownload

LEMMA PartMovesNext == ASSUME Types, RestoreKept, NameInv, Restore!Next PROVE PartMoves
<1> USE DEF AsRead, LoadMeta, AfterMeta, MetaApplied, Late, Restore!local, Restore!Goto,
        Restore!Requeue
<1>1. CASE Restore!GetOriginal \/ Restore!Stage \/ Restore!Load
  BY <1>1 DEF Restore!GetOriginal, Restore!Stage, Restore!Load, PartMoves
<1>2. CASE Restore!MetadReady \/ Restore!ClusterReady \/ Restore!CallFails
  BY <1>2 DEF Restore!MetadReady, Restore!ClusterReady, Restore!CallFails, PartMoves
<1>3. CASE Restore!ConnectMetad \/ Restore!ConnectStoraged
  BY <1>3 DEF Restore!ConnectMetad, Restore!ConnectStoraged, PartMoves
<1>4. CASE Restore!DownloadMeta \/ Restore!RestoreMeta \/ Restore!Create
  BY <1>4 DEF Restore!DownloadMeta, Restore!RestoreMeta, Restore!Create, PartMoves
<1>5. CASE Restore!StopMeta
  <2>1. pc = "stopMeta" /\ nr' = nr /\ pc' \in {"statusMetaDownload", "downloadMeta"}
    BY <1>5 DEF Restore!StopMeta
  <2> QED
    BY <2>1 DEF PartMoves
<1>6. CASE Restore!DownloadStorage \/ Restore!Playback
  BY <1>6 DEF Restore!DownloadStorage, Restore!Playback, PartMoves
<1>7. CASE Restore!StopStorage \/ Restore!RemoveCheckpoints
  BY <1>7 DEF Restore!StopStorage, Restore!RemoveCheckpoints, PartMoves
<1>8. CASE Restore!Release \/ Restore!AnnotateMetad
  BY <1>8 DEF Restore!Release, Restore!AnnotateMetad, PartMoves
<1>9. CASE Restore!AnnotateStoraged \/ Restore!RemoveInitAgentContainer
  BY <1>9 DEF Restore!AnnotateStoraged, Restore!RemoveInitAgentContainer, PartMoves
<1>10. CASE Restore!StatusMetaDownload \/ Restore!StatusMetad
  BY <1>10
     DEF Restore!StatusMetaDownload, Restore!StatusMetad, Restore!StatusThen, PartMoves
<1>11. CASE Restore!StatusStorageDownload
  BY <1>11 DEF Restore!StatusStorageDownload, Restore!StatusThen, PartMoves
<1>12. CASE Restore!StatusStoraged \/ Restore!StatusComplete
  BY <1>12 DEF Restore!StatusStoraged, Restore!StatusComplete, Restore!StatusThen, PartMoves
<1>13. CASE Restore!StatusFailed \/ Restore!CheckPods
  BY <1>13 DEF Restore!StatusFailed, Restore!CheckPods, PartMoves
<1>14. CASE Restore!GetRestoredName \/ Restore!Restart
  BY <1>14 DEF Restore!GetRestoredName, Restore!Restart, PartMoves
<1>15. CASE Restore!Reconcile
  BY <1>15 DEF Restore!Reconcile, PartMoves
<1>16. CASE Restore!RemoveCluster
  BY <1>16 DEF Restore!RemoveCluster, PartMoves
<1>17. CASE UNCHANGED <<obj, pc, nr>>
  BY <1>17 DEF PartMoves
<1>18. (\E n \in Names : Restore!GraphdStarts(n)) => UNCHANGED <<obj, pc, nr>>
  BY DEF Restore!GraphdStarts
<1>19. (\E n \in Names, p \in Restore!Pods :
          Restore!PodStarts(n, p) \/ Restore!PodReady(n, p) \/ Restore!PodReplaced(n, p) \/ Restore!PodFails(n, p))
       => UNCHANGED <<obj, pc, nr>>
  BY DEF Restore!PodStarts, Restore!PodReady, Restore!PodReplaced, Restore!PodFails
<1> QED
  BY <1>1, <1>2, <1>3, <1>4, <1>5, <1>6, <1>7, <1>8, <1>9, <1>10, <1>11, <1>12, <1>13,
     <1>14,
     <1>15, <1>16, <1>17, <1>18, <1>19 DEF Restore!Next, Restore!Pass, Restore!Stage1, Restore!Stage2, Restore!PodSteps

LEMMA WaitingStays ==
    ASSUME PhaseMoves, ClusterMoves, RestoreKept, NEW n \in Names, Waiting(n),
           ~(n = name /\ pc \in {"annotateMetad", "release", "removeInit"} /\ pc' # pc)
    PROVE  Waiting(n)'
<1>1. \A p \in Storageds : p \notin Metads
  BY Zenon DEF RestoreKept, RestoreConstants
<1>2. \A p \in Storageds : pod'[n][p].phase = "none"
  BY <1>1 DEF PhaseMoves, Waiting, Restore!Pods
<1>3. ~cluster'[n].metadDone /\ (cluster'[n].exists => cluster'[n].named)
  BY DEF ClusterMoves, Waiting, Freed
<1> QED
  BY <1>2, <1>3 DEF Waiting

\* No pod failed, so that the check of the pods has nothing to record
LEMMA CheckQuiet ==
    ASSUME Types, NameInv, Healthy, Restore!CheckPods
    PROVE  UNCHANGED obj
<1>1. nr.name \in Names
  BY DEF Restore!CheckPods, NameInv, Types, Restore!Restore
<1>2. \A p \in Restore!Pods : pod[nr.name][p].phase # "failed"
  BY <1>1 DEF Healthy
<1> QED
  BY <1>2 DEF Restore!CheckPods, Restore!Goto

LEMMA PartitionNext ==
    ASSUME Types, Types', RestoreQuiet, NameInv, NameInv', FlagInv, MetaInv, PartitionInv, Healthy, Restore!Next
    PROVE  PartitionInv'
<1>0. /\ RestoreKept /\ RestoreObjMoves /\ ClusterMoves /\ PhaseMoves /\ PartMoves
      /\ RestorePcMoves
  BY ObjNext, ClusterNext, PhaseNext, PartMovesNext, PcNext DEF RestoreQuiet
<1>1. pc \in Named => name \in Names
  BY DEF NameInv, Types
<1>2. AfterMeta \subseteq Named \ {"stage"} /\ {"release", "removeInit"} \subseteq AfterMeta
  BY DEF AfterMeta, MetaApplied, Late, Named, Restore!Steps
<1>3. (~obj.metad => \A n \in Names : Waiting(n) /\ cluster[n].stage # "2")'
  <2>1. ASSUME ~obj'.metad, NEW n \in Names PROVE Waiting(n)' /\ cluster'[n].stage # "2"
    <3>1. ~obj.metad /\ Waiting(n) /\ cluster[n].stage # "2"
      BY <1>0, <2>1 DEF RestoreObjMoves, PartitionInv
    <3>2. pc \notin {"annotateMetad", "release", "removeInit"}
      BY <3>1 DEF PartitionInv, AfterMeta, MetaApplied, Late
    <3> QED
      BY <1>0, <3>1, <3>2, WaitingStays DEF ClusterMoves
  <2> QED
    BY <2>1
<1>4. (pc \in AsRead => obj.metad = nr.metad)'
  <2> SUFFICES ASSUME pc' \in AsRead PROVE obj'.metad = nr'.metad
    BY DEF AsRead
  <2>1. CASE Restore!Reconcile
    BY <2>1 DEF Restore!Reconcile, RestoreQuiet
  <2>2. CASE ~Restore!Reconcile
    <3>1. pc \in AsRead /\ nr' = nr
      BY <1>0, <2>2 DEF PartMoves, AsRead
    <3>2. obj.metad = nr.metad /\ obj'.metad = obj.metad
      <4>1. pc # "statusMetad" /\ obj.metad = nr.metad
        BY <3>1 DEF AsRead, PartitionInv
      <4>2. obj'.metad <=> obj.metad
        BY <1>0, <4>1 DEF RestoreObjMoves
      <4>3. obj.metad \in BOOLEAN /\ obj'.metad \in BOOLEAN
        BY DEF Types, Restore!Restore
      <4> QED
        BY <4>1, <4>2, <4>3
    <3> QED
      BY <3>1, <3>2
  <2> QED
    BY <2>1, <2>2
<1>5. (pc \in LoadMeta => ~obj.metad)'
  <2> SUFFICES ASSUME pc' \in LoadMeta PROVE ~obj'.metad
    BY DEF LoadMeta
  <2>1. \/ pc \in LoadMeta /\ (pc = "statusMetad" => UNCHANGED obj)
        \/ pc = "load" /\ ~nr.metad
    BY <1>0 DEF PartMoves
  <2>2. ~obj.metad
    BY <2>1 DEF PartitionInv, AsRead
  <2> QED
    BY <1>0, <2>1, <2>2 DEF RestoreObjMoves
<1>6. (pc \in AfterMeta => obj.metad)'
  <2> SUFFICES ASSUME pc' \in AfterMeta PROVE obj'.metad
    BY DEF AfterMeta
  <2>1. Restore!StatusMetad => obj'.metad
    <3>1. Restore!StatusMetad => pc = "statusMetad" /\ Writes
      BY DEF Restore!StatusMetad, Writes
    <3> QED
      BY <3>1, WritesDo DEF Progress
  <2>2. pc = "stage" /\ cluster[name].stage = "2" => obj.metad
    BY <1>1 DEF PartitionInv, Named, Restore!Steps
  <2> QED
    BY <1>0, <2>1, <2>2 DEF PartMoves, RestoreObjMoves, PartitionInv, FlagInv
<1>7. (pc = "annotateMetad" /\ ~nr.metad => Waiting(name))'
  <2> SUFFICES ASSUME pc' = "annotateMetad", ~nr'.metad PROVE Waiting(name)'
    OBVIOUS
  <2>1. name' = name /\ nr' = nr /\ name \in Names
    <3>1. name' = name /\ name' \in Names
      BY <1>0 DEF RestorePcMoves, Named, Restore!Steps, NameInv, Types
    <3>2. ~Restore!Reconcile
      BY DEF Restore!Reconcile
    <3> QED
      BY <1>0, <3>1, <3>2 DEF PartMoves
  <2>2. Waiting(name) /\ pc \notin {"release", "removeInit"}
    BY <1>0, <2>1 DEF PartMoves, PartitionInv, Restore!StatusMetad, LoadMeta
  <2>3. \A n \in Names : n = name => Waiting(n)'
    BY <1>0, <2>2, WaitingStays
  <2>4. /\ \A p \in Storageds : pod'[name][p].phase = "none"
        /\ ~cluster'[name].metadDone /\ (cluster'[name].exists => cluster'[name].named)
    BY <2>1, <2>3 DEF Waiting
  <2> QED
    BY <2>1, <2>4 DEF Waiting
<1>8. (pc = "storaged" /\ ~nr.metad => \A p \in Storageds : pod[name][p].phase = "none")'
  <2> SUFFICES ASSUME pc' = "storaged", ~nr'.metad, NEW p \in Storageds
               PROVE  pod'[name'][p].phase = "none"
    OBVIOUS
  <2>1. name' = name /\ nr' = nr /\ name \in Names
    <3>1. name' = name /\ name' \in Names
      BY <1>0 DEF RestorePcMoves, Named, Restore!Steps, NameInv, Types
    <3>2. ~Restore!Reconcile
      BY DEF Restore!Reconcile
    <3> QED
      BY <1>0, <3>1, <3>2 DEF PartMoves
  <2>2. pc = "storaged" \/ (pc = "annotateMetad" /\ UNCHANGED pod)
    BY <1>0 DEF PartMoves
  <2>3. pod[name][p].phase = "none"
    BY <2>1, <2>2 DEF PartitionInv, Waiting
  <2> QED
    BY <1>0, <2>1, <2>2, <2>3 DEF PhaseMoves, Restore!Pods
<1>9. (pc \in {"playback", "stopStorage", "statusStoraged"} => obj.storageDownload)'
  <2> SUFFICES ASSUME pc' \in {"playback", "stopStorage", "statusStoraged"}
               PROVE  obj'.storageDownload
    OBVIOUS
  <2>1. Restore!StatusStorageDownload => obj'.storageDownload
    <3>1. Restore!StatusStorageDownload => pc = "statusStorageDownload" /\ Writes
      BY DEF Restore!StatusStorageDownload, Writes
    <3> QED
      BY <3>1, WritesDo DEF Progress
  <2> QED
    BY <1>0, <2>1 DEF PartMoves, RestoreObjMoves, PartitionInv, FlagInv
<1>10. (obj.metad /\ ~obj.storageDownload /\ ~obj.complete /\ obj.failed # "True"
            => obj.partitions)'
  <2> SUFFICES ASSUME obj'.metad, ~obj'.storageDownload, ~obj'.complete, obj'.failed # "True"
               PROVE  obj'.partitions
    OBVIOUS
  <2>1. CASE obj' = obj
    BY <2>1 DEF PartitionInv
  <2>2. CASE Writes
    <3>1. Progress
      BY <2>2, WritesDo
    <3>2. pc \in {"statusMetaDownload", "statusMetad", "statusStorageDownload", "statusStoraged",
                  "statusComplete", "fail"} \/ Restore!CheckPods
      BY <2>2
         DEF Writes, Restore!StatusMetaDownload, Restore!StatusMetad,
             Restore!StatusStorageDownload, Restore!StatusStoraged,
             Restore!StatusComplete, Restore!StatusFailed
    <3>3. CASE Restore!CheckPods
      BY <2>1, <3>3, CheckQuiet
    <3>4. CASE pc = "statusMetaDownload"
      BY <3>1, <3>4 DEF Progress, PartitionInv, LoadMeta
    <3>5. CASE pc = "statusStoraged"
      BY <3>1, <3>5 DEF Progress, PartitionInv
    <3> QED
      BY <2>1, <3>1, <3>2, <3>3, <3>4, <3>5 DEF Progress
  <2>3. CASE Restore!GetRestoredName
    <3>1. nr.name # "" => obj' = obj
      BY <1>0, <2>3, NameChosen
    <3>2. nr.name = "" => obj.name = ""
      BY <2>3 DEF Restore!GetRestoredName, NameInv, RestoreQuiet
    <3>3. obj.name = "" => ~obj.metad
      BY DEF MetaInv
    <3>4. obj'.metad => obj.metad
      BY <1>0, <2>3 DEF RestoreObjMoves, Restore!GetRestoredName
    <3> QED
      BY <2>1, <3>1, <3>2, <3>3, <3>4
  <2>4. Restore!Reconcile \/ Restore!Restart => obj' = obj
    BY DEF Restore!Reconcile, Restore!Restart
  <2>5. Restore!RemoveCluster => obj' = obj
    BY <1>0, RemovesNothing
  <2> QED
    BY <2>1, <2>2, <2>3, <2>4, <2>5, ObjKept
       DEF Restore!Next, Restore!Pass, Restore!Stage1, Restore!Stage2, Writes
<1>11. (pc # "idle" /\ nr.metad /\ ~nr.storageDownload => nr.partitions)'
  <2>1. CASE Restore!Reconcile
    BY <2>1 DEF Restore!Reconcile, RestoreQuiet, PartitionInv
  <2> QED
    BY <1>0, <2>1 DEF PartMoves, PartitionInv
<1> QED
  BY <1>3, <1>4, <1>5, <1>6, <1>7, <1>8, <1>9, <1>10, <1>11 DEF PartitionInv

LEMMA LeftStoragedNext ==
    ASSUME Types, RestoreQuiet, NameInv, NameInv', PartitionInv, Healthy, LeftStoraged, Restore!Next
    PROVE  LeftStoraged'
<1> USE DEF Restore!local, Restore!Goto, Restore!Requeue
<1>0. RestoreKept /\ Grows /\ RestorePcMoves
  BY PodsNext, PcNext DEF RestoreQuiet
<1>1. CASE pc' \notin {"downloadStorage", "stopStorage"}
  BY <1>1 DEF LeftStoraged
<1>2. CASE UNCHANGED <<pc, name, left>>
  <2>1. pc = "downloadStorage" => name \in Names
    BY DEF NameInv, Named, Restore!Steps, Types
  <2>2. pc = "downloadStorage" => Downloaded(name, Storageds \ left)'
    BY <1>0, <1>2, <2>1 DEF LeftStoraged, Grows, Downloaded, Restore!Pods
  <2> QED
    BY <1>2, <2>2 DEF LeftStoraged
<1>3. CASE Restore!ConnectStoraged
  <2>1. CASE pc' = "downloadStorage"
    <3>1. /\ ~nr.storageDownload /\ pc = "storaged" /\ name' = name
          /\ Restore!Connected(Storageds)
          /\ left' = IF nr.partitions THEN Storageds ELSE {}
      BY <1>3, <2>1 DEF Restore!ConnectStoraged
    <3>2. nr.partitions \/ Storageds = {}
      <4>1. CASE nr.metad
        BY <3>1, <4>1 DEF PartitionInv
      <4>2. CASE ~nr.metad
        <5>1. \A p \in Storageds : pod[name][p].phase = "none"
          BY <3>1, <4>2 DEF PartitionInv
        <5>2. \A p \in Storageds : pod[name][p].phase # "none"
          BY <3>1 DEF Restore!Connected
        <5> QED
          BY <5>1, <5>2
      <4> QED
        BY <4>1, <4>2
    <3>3. left' = Storageds
      BY <3>1, <3>2
    <3> QED
      BY <2>1, <3>3 DEF LeftStoraged, Downloaded
  <2>2. CASE pc' # "downloadStorage"
    BY <1>3, <2>2 DEF Restore!ConnectStoraged, LeftStoraged
  <2> QED
    BY <2>1, <2>2
<1>4. CASE Restore!DownloadStorage
  <2>1. CASE left = {}
    BY <1>4, <2>1 DEF Restore!DownloadStorage, LeftStoraged
  <2>2. CASE left # {}
    <3>1. PICK p \in left :
            /\ pod' = [pod EXCEPT ![name][p] = [@ EXCEPT !.files = TRUE, !.checkpoint = TRUE]]
            /\ left' = left \ {p}
      BY <1>4, <2>2 DEF Restore!DownloadStorage
    <3>2. name \in Names /\ pc = "downloadStorage" /\ pc' = pc /\ name' = name
      BY <1>4, <2>2 DEF Restore!DownloadStorage, NameInv, Named, Restore!Steps, Types
    <3>3. Downloads(p)
      BY <3>1, <3>2, DownloadStorageDoes
    <3>4. left' = left \ {p}
      BY <3>1
    <3> HIDE <3>1
    <3>5. left' \subseteq Storageds
      BY <3>2, <3>4 DEF LeftStoraged
    <3>6. \A q \in Storageds \ left' : pod'[name][q].files
      <4>1. pod'[name][p].files
        BY <3>2, <3>3 DEF Downloads, Types
      <4> QED
        BY <1>0, <3>2, <3>4, <4>1 DEF LeftStoraged, Downloaded, Grows, Restore!Pods
    <3> QED
      BY <3>2, <3>5, <3>6 DEF LeftStoraged, Downloaded
  <2> QED
    BY <2>1, <2>2
<1>5. CASE Restore!Playback
  BY <1>5 DEF Restore!Playback, LeftStoraged
<1>6. CASE Restore!StopStorage
  BY <1>6 DEF Restore!StopStorage, LeftStoraged
<1>7. \/ Writes \/ Restore!Reconcile \/ Restore!Restart \/ Restore!GetOriginal
      \/ Restore!GetRestoredName \/ Restore!Stage \/ Restore!Create \/ Restore!Load
      \/ Restore!MetadReady \/ Restore!RestoreMeta
      => pc' \notin {"downloadStorage", "stopStorage"}
  BY DEF Writes, Restore!StatusMetaDownload, Restore!StatusMetad,
     Restore!StatusStorageDownload, Restore!StatusStoraged, Restore!StatusComplete,
     Restore!StatusThen, Restore!StatusFailed, Restore!CheckPods, Restore!Reconcile,
     Restore!Restart, Restore!GetOriginal, Restore!GetRestoredName, Restore!Stage,
     Restore!Create, Restore!Load, Restore!MetadReady, Restore!RestoreMeta
<1>8. \/ Restore!AnnotateMetad \/ Restore!ConnectMetad \/ Restore!DownloadMeta
      \/ Restore!StopMeta
      \/ Restore!AnnotateStoraged \/ Restore!ClusterReady \/ Restore!RemoveCheckpoints
      \/ Restore!RemoveInitAgentContainer
      \/ Restore!Release \/ Restore!RemoveCluster \/ Restore!CallFails
      => pc' \notin {"downloadStorage", "stopStorage"}
  BY DEF Restore!AnnotateMetad, Restore!ConnectMetad, Restore!DownloadMeta,
     Restore!StopMeta, Restore!AnnotateStoraged, Restore!ClusterReady,
     Restore!RemoveCheckpoints, Restore!RemoveInitAgentContainer, Restore!Release,
     Restore!RemoveCluster, Restore!CallFails
<1>9. Restore!PodSteps \/ (\E n \in Names, p \in Restore!Pods : Restore!PodFails(n, p)) 
         => UNCHANGED <<pc, name, left>>
  BY DEF Restore!PodSteps, Restore!GraphdStarts, Restore!PodStarts, Restore!PodReady,
     Restore!PodReplaced, Restore!PodFails
<1> QED
  BY <1>1, <1>2, <1>3, <1>4, <1>5, <1>6, <1>7, <1>8, <1>9
     DEF Restore!Next, Restore!Pass, Restore!Stage1, Restore!Stage2, Writes

LEMMA LoadNext ==
    ASSUME Types, Types', RestoreQuiet, NameInv, NameInv', FlagInv, MetaInv, PartitionInv, LoadInv,
           Healthy, Restore!Next
    PROVE  LoadInv'
<1>0. /\ RestoreKept /\ Grows /\ RestoreObjMoves /\ ClusterMoves /\ RestorePcMoves
      /\ LeftStoraged'
  BY PodsNext, ObjNext, ClusterNext, PcNext, LeftStoragedNext DEF LoadInv, RestoreQuiet
<1>1. /\ pc \in Named => name \in Names /\ name = obj.name /\ name # ""
      /\ obj.name \in Names \union {""}
  BY DEF NameInv, Types, Restore!Restore
<1>2. StoragedLoaded \subseteq Named \ {"stage"} /\ StoragedApplied \subseteq Named \ {"stage"}
  BY DEF StoragedLoaded, StoragedApplied, Named, Restore!Steps
<1>3. \A n \in Names : /\ Downloaded(n, Storageds) => Downloaded(n, Storageds)'
                       /\ Applied(n, Storageds) => Applied(n, Storageds)'
                       /\ Applied(n, Metads) => Applied(n, Metads)'
  BY <1>0, SetGrows
<1>4. (obj.storageDownload \/ obj.storaged \/ obj.complete => obj.name # "")'
  <2>1. pc \in {"statusStorageDownload", "statusStoraged", "statusComplete"} => obj.name # ""
    BY <1>1 DEF Named, Restore!Steps
  <2>2. obj'.storageDownload \/ obj'.storaged \/ obj'.complete => obj.name # ""
    BY <1>0, <2>1 DEF RestoreObjMoves, LoadInv
  <2> QED
    BY <1>0, <2>2 DEF RestoreObjMoves
<1>5. (obj.storageDownload => Downloaded(obj.name, Storageds))'
  <2>1. obj'.storageDownload => obj.storageDownload \/ pc = "statusStorageDownload"
    BY <1>0 DEF RestoreObjMoves
  <2>2. obj'.storageDownload => obj.name # "" /\ Downloaded(obj.name, Storageds)
    BY <1>1, <1>2, <2>1 DEF LoadInv, StoragedLoaded
  <2>3. obj'.storageDownload => obj'.name = obj.name /\ obj.name \in Names
    BY <1>0, <1>1, <2>2 DEF RestoreObjMoves
  <2>4. ASSUME obj'.storageDownload PROVE \A p \in Storageds : pod'[obj'.name][p].files
    <3>1. \A p \in Storageds : pod[obj.name][p].files
      BY <2>2, <2>4 DEF Downloaded
    <3> QED
      BY <1>0, <2>3, <2>4, <3>1 DEF Grows, Restore!Pods
  <2> QED
    BY <2>4 DEF Downloaded
<1>6. (obj.storaged => Applied(obj.name, Storageds))'
  <2>1. obj'.storaged => obj.storaged \/ pc = "statusStoraged"
    BY <1>0 DEF RestoreObjMoves
  <2>2. obj'.storaged => obj.name # "" /\ Applied(obj.name, Storageds)
    BY <1>1, <1>2, <2>1 DEF LoadInv, StoragedApplied
  <2>3. obj'.storaged => obj'.name = obj.name /\ obj.name \in Names
    BY <1>0, <1>1, <2>2 DEF RestoreObjMoves
  <2>4. ASSUME obj'.storaged PROVE \A p \in Storageds : pod'[obj'.name][p].applied
    <3>1. \A p \in Storageds : pod[obj.name][p].applied
      BY <2>2, <2>4 DEF Applied
    <3> QED
      BY <1>0, <2>3, <2>4, <3>1 DEF Grows, Restore!Pods
  <2> QED
    BY <2>4 DEF Applied
<1>7. (\A n \in Names : cluster[n].storagedDone \/ (cluster[n].exists /\ ~cluster[n].named)
                            => Applied(n, Metads) /\ Applied(n, Storageds))'
  <2>1. ASSUME NEW n \in Names, cluster'[n].storagedDone \/ Freed(n)'
        PROVE  Applied(n, Metads) /\ Applied(n, Storageds)
    <3>1. \/ cluster[n].storagedDone \/ Freed(n)
          \/ n = name /\ pc \in {"annotateStoraged", "release", "removeInit"}
      BY <1>0, <2>1 DEF ClusterMoves
    <3> QED
      BY <3>1 DEF MetaInv, MetaApplied, Late, LoadInv, StoragedApplied, Freed
  <2> QED
    BY <1>3, <2>1 DEF Freed
<1>8. (\A n \in Names : cluster[n].stage = "2" => Applied(n, Storageds))'
  <2>1. ASSUME NEW n \in Names, cluster'[n].stage = "2"
        PROVE  Applied(n, Storageds)
    BY <1>0, <2>1 DEF ClusterMoves, LoadInv, StoragedApplied
  <2> QED
    BY <1>3, <2>1
<1>9. (pc \in StoragedLoaded => Downloaded(name, Storageds))'
  <2> SUFFICES ASSUME pc' \in StoragedLoaded PROVE Downloaded(name, Storageds)'
    BY DEF StoragedLoaded
  <2>1. name' = name /\ pc \in Named /\ name \in Names
    BY <1>0, <1>1, <1>2 DEF RestorePcMoves, StoragedLoaded, Named, Restore!Steps
  <2>2. pc = "downloadStorage" /\ left = {} => Downloaded(name, Storageds)
    BY DEF LoadInv, LeftStoraged, Downloaded
  <2>3. Downloaded(name, Storageds)
    BY <1>0, <1>1, <2>1, <2>2 DEF RestorePcMoves, LoadInv, FlagInv
  <2>4. \A p \in Storageds : pod'[name'][p].files
    BY <1>0, <2>1, <2>3 DEF Downloaded, Grows, Restore!Pods
  <2> QED
    BY <2>4 DEF Downloaded
<1>10. (pc \in StoragedApplied => Applied(name, Storageds))'
  <2> SUFFICES ASSUME pc' \in StoragedApplied PROVE Applied(name, Storageds)'
    BY DEF StoragedApplied
  <2>1. name' = name /\ pc \in Named /\ name \in Names
    BY <1>0, <1>1, <1>2 DEF RestorePcMoves, Restore!Playback, Named, Restore!Steps
  <2>2. \/ pc \in StoragedApplied
        \/ pc = "annotateMetad" /\ nr.storaged
        \/ pc = "stage" /\ cluster[name].stage = "2"
        => Applied(name, Storageds)
    BY <1>1, <2>1 DEF LoadInv, FlagInv
  <2>3. Restore!Playback => \A p \in Storageds : pod'[name][p].applied
    <3> SUFFICES ASSUME Restore!Playback PROVE \A p \in Storageds : pod'[name][p].applied
      OBVIOUS
    <3>1. pc = "playback" /\ Applies(Storageds)
      BY <2>1, AppliesDoes DEF Restore!Playback
    <3>2. \A p \in Storageds : pod[name][p].files
      BY <3>1 DEF LoadInv, StoragedLoaded, Downloaded
    <3> QED
      BY <2>1, <3>1, <3>2 DEF Applies, Restore!Pods
  <2>4. Applied(name, Storageds) => \A p \in Storageds : pod'[name][p].applied
    BY <1>0, <2>1 DEF Applied, Grows, Restore!Pods
  <2>5. \A p \in Storageds : pod'[name'][p].applied
    BY <1>0, <2>1, <2>2, <2>3, <2>4 DEF RestorePcMoves
  <2> QED
    BY <2>5 DEF Applied
<1> QED
  BY <1>0, <1>4, <1>5, <1>6, <1>7, <1>8, <1>9, <1>10 DEF LoadInv

LEMMA UseNext ==
    ASSUME Types, RestoreQuiet, NameInv, MetaInv, LoadInv, UseInv, Restore!Next
    PROVE  UseInv'
<1>0. /\ RestoreKept /\ Grows /\ RestoreObjMoves /\ ClusterMoves /\ PhaseMoves
  BY PodsNext, ObjNext, ClusterNext, PhaseNext DEF RestoreQuiet, UseInv
<1>1. \A p \in Metads : p \notin Storageds
  BY Zenon, <1>0 DEF RestoreKept, RestoreConstants
<1>2. Healthy'
  <2>1. \A n \in Names : cluster[n].exists => cluster'[n].exists
    BY <1>0 DEF ClusterMoves
  <2>2. ASSUME NEW n \in Names, NEW p \in Restore!Pods
        PROVE  pod'[n][p].phase # "failed" /\ (~cluster'[n].exists => pod'[n][p].phase = "none")
    BY <1>0, <2>1 DEF PhaseMoves, UseInv, Healthy
  <2> QED
    BY <2>2 DEF Healthy
<1>3. Restore!NoEmptyStart'
  <2>1. ASSUME NEW n \in Names, NEW p \in Restore!Pods, cluster'[n].initAgents,
               pod'[n][p].phase \in {"main", "ready"}
        PROVE  pod[n][p].files /\ (p \in Storageds => pod[n][p].applied)
    <3>1. cluster[n].initAgents \/ ~cluster[n].exists
      BY <1>0, <2>1 DEF ClusterMoves
    <3>2. CASE pod[n][p].phase \in {"main", "ready"}
      BY <3>1, <3>2 DEF UseInv, Healthy, Restore!NoEmptyStart
    <3>3. CASE pod[n][p].phase \notin {"main", "ready"}
      <4>1. /\ pod[n][p].phase = "init" /\ n = name
            /\ \/ pc = "stopMeta" /\ p = CHOOSE q \in left : TRUE
               \/ pc = "stopStorage" /\ p \in left
        BY <1>0, <2>1, <3>1, <3>3 DEF PhaseMoves
      <4>2. CASE pc = "stopMeta" /\ p = CHOOSE q \in left : TRUE
        <5>1. left # {} /\ left \subseteq Metads /\ pod[name][p].files
          BY <4>2 DEF MetaInv, LeftMeta
        <5>2. p \in left
          BY <4>2, <5>1, FirstLeft
        <5> QED
          BY <1>1, <4>1, <5>1, <5>2
      <4>3. CASE pc = "stopStorage" /\ p \in left
        BY <4>1, <4>3
           DEF LoadInv, LeftStoraged, StoragedLoaded, StoragedApplied, Downloaded, Applied
      <4> QED
        BY <4>1, <4>2, <4>3
    <3> QED
      BY <3>2, <3>3
  <2> QED
    BY <1>0, <2>1 DEF Restore!NoEmptyStart, Grows
<1>4. GraphdLast'
  <2>1. ASSUME NEW n \in Names, cluster'[n].graphd
        PROVE  Applied(n, Metads) /\ Applied(n, Storageds)
    BY <1>0, <2>1 DEF ClusterMoves, Freed, UseInv, GraphdLast, LoadInv
  <2> QED
    BY <1>0, <2>1, SetGrows DEF GraphdLast
<1>5. Restore!CompleteHasData'
  <2> SUFFICES ASSUME obj'.complete, NEW p \in Restore!Pods PROVE pod'[obj'.name][p].applied
    BY DEF Restore!CompleteHasData
  <2>1. obj.complete \/ pc = "statusComplete"
    BY <1>0 DEF RestoreObjMoves
  <2>2. obj.name \in Names /\ obj'.name = obj.name
    <3>1. obj.name # "" /\ obj.name \in Names \union {""}
      BY <2>1 DEF LoadInv, NameInv, Named, Restore!Steps, Types, Restore!Restore
    <3> QED
      BY <1>0, <3>1 DEF RestoreObjMoves
  <2>3. pod[obj.name][p].applied
    <3>1. CASE obj.complete
      BY <3>1 DEF UseInv, Restore!CompleteHasData
    <3>2. CASE pc = "statusComplete"
      <4>1. name = obj.name /\ Applied(name, Metads) /\ Applied(name, Storageds)
        BY <3>2 DEF NameInv, Named, Restore!Steps, MetaInv, Late, LoadInv, StoragedApplied
      <4> QED
        BY <4>1 DEF Applied, Restore!Pods
    <3> QED
      BY <2>1, <3>1, <3>2
  <2> QED
    BY <1>0, <2>2, <2>3 DEF Grows
<1> QED
  BY <1>2, <1>3, <1>4, <1>5 DEF UseInv

LEMMA RestoreDataInit == RestoreQuiet /\ Restore!Init => RestoreDataInv
<1> SUFFICES ASSUME RestoreQuiet, Restore!Init PROVE RestoreDataInv
  OBVIOUS
<1>1. pc = "idle" /\ obj = Restore!NewRestore /\ nr = Restore!NewRestore
  BY DEF Restore!Init
<1>2. \A n \in Names :
        /\ ~cluster[n].exists /\ ~cluster[n].metadDone /\ ~cluster[n].storagedDone
        /\ cluster[n].stage = "" /\ ~cluster[n].initAgents /\ ~cluster[n].graphd
        /\ \A p \in Restore!Pods : pod[n][p].phase = "none"
  BY DEF Restore!Init, Restore!NoCluster, Restore!NewPod
<1>3. ~obj.metad /\ ~obj.storageDownload /\ ~obj.storaged /\ ~obj.complete
  BY <1>1 DEF Restore!NewRestore
<1>4. PartitionInv
  BY <1>1, <1>2, <1>3
     DEF PartitionInv, Waiting, AsRead, LoadMeta, AfterMeta, MetaApplied, Late,
         Restore!Pods
<1>5. LoadInv
  BY <1>1, <1>2, <1>3 DEF LoadInv, LeftStoraged, StoragedLoaded, StoragedApplied
<1>6. UseInv
  BY <1>2, <1>3
     DEF UseInv, Healthy, Restore!NoEmptyStart, GraphdLast, Restore!CompleteHasData
<1> QED
  BY <1>4, <1>5, <1>6 DEF RestoreDataInv

LEMMA DataSteady == ASSUME RestoreDataInv, UNCHANGED Restore!vars PROVE RestoreDataInv'
<1>1. UNCHANGED <<obj, old, queued, pc, nr, name, left, paths, cluster, pod, faults>>
  BY DEF Restore!vars, Restore!local, Restore!world
<1>2. PartitionInv'
  BY <1>1 DEF RestoreDataInv, PartitionInv, Waiting
<1>3. LoadInv'
  BY <1>1 DEF RestoreDataInv, LoadInv, LeftStoraged, Downloaded, Applied
<1>4. UseInv'
  BY <1>1
     DEF RestoreDataInv, UseInv, Healthy, Restore!NoEmptyStart, GraphdLast,
         Restore!CompleteHasData, Applied
<1> QED
  BY <1>2, <1>3, <1>4 DEF RestoreDataInv

LEMMA DataNext ==
    RestoreQuiet /\ Types /\ OrderInv /\ RestoreDataInv /\ [Restore!Next]_(Restore!vars) => RestoreDataInv'
<1> SUFFICES ASSUME RestoreQuiet, Types, OrderInv, RestoreDataInv, [Restore!Next]_(Restore!vars)
             PROVE  RestoreDataInv'
  OBVIOUS
<1>1. CASE Restore!Next
  <2>1. RestoreKept /\ RestoreConstants
    BY DEF RestoreQuiet, RestoreKept
  <2>2. Types' /\ NameInv'
    BY <1>1, <2>1, TypeNext, NameNext DEF OrderInv
  <2>3. NameInv /\ FlagInv /\ MetaInv /\ PartitionInv /\ LoadInv /\ UseInv /\ Healthy
    BY DEF OrderInv, RestoreDataInv, UseInv
  <2> QED
    BY <1>1, <2>2, <2>3, PartitionNext, LoadNext, UseNext DEF RestoreDataInv
<1> QED
  BY <1>1, DataSteady

\* The instance counts with the same Cardinality
LEMMA RestoreCardinality ==
    ASSUME NEW S, NEW n, Cardinality(S) = n PROVE Restore!Cardinality(S) = n
BY Zenon DEF Restore!Cardinality, Cardinality

\* The clusters that exist are the one of the object
LEMMA SingleCluster == ASSUME NameInv PROVE Restore!OneCluster
<1> DEFINE S == {n \in Names : cluster[n].exists}
<1>1. S \subseteq {obj.name}
  BY DEF NameInv
<1>2. IsFiniteSet({obj.name}) /\ Cardinality({obj.name}) = 1
  BY FS_Singleton
<1> HIDE DEF S
<1>3. Cardinality(S) <= 1
  BY <1>1, <1>2, FS_Subset
<1>4. Restore!Cardinality(S) <= 1
  BY <1>3, RestoreCardinality
<1> QED
  BY <1>4 DEF Restore!OneCluster, S

\* One restore creates one cluster, whatever is retried or read late
\* (nebula_restore_manager.go getRestoredName)
THEOREM OneClusterOnly == RestoreKept => (Restore!Spec => []Restore!OneCluster)
<1> SUFFICES ASSUME RestoreKept PROVE Restore!Spec => []Restore!OneCluster
  OBVIOUS
<1>1. Restore!Init => Types /\ OrderInv
  BY TypeInit, OrderInit DEF RestoreKept
<1>2. Types /\ OrderInv /\ [Restore!Next]_(Restore!vars) => Types' /\ OrderInv'
  BY TypeNext, OrderNext DEF RestoreKept
<1>3. OrderInv => Restore!OneCluster
  BY SingleCluster DEF OrderInv
<1> QED
  BY <1>1, <1>2, <1>3, PTL DEF Restore!Spec

\* When calls may fail and the operator may restart at any point, no metad leaves its
\* agent before its files are there, no storaged before they are played back, graphd
\* comes after both, and a restore that is complete has loaded the backup into every
\* pod (nebula_restore_manager.go syncRestoreProcess)
THEOREM RestoresAllData ==
    RestoreQuiet =>
        (Restore!Spec => [](Restore!NoEmptyStart /\ GraphdLast /\ Restore!CompleteHasData))
<1> SUFFICES ASSUME RestoreQuiet
             PROVE  Restore!Spec =>
                        [](Restore!NoEmptyStart /\ GraphdLast /\ Restore!CompleteHasData)
  OBVIOUS
<1>1. RestoreKept /\ RestoreConstants
  BY DEF RestoreQuiet, RestoreKept
<1>2. Restore!Init => Types /\ OrderInv /\ RestoreDataInv
  BY <1>1, TypeInit, OrderInit, RestoreDataInit
<1>3. Types /\ OrderInv /\ RestoreDataInv /\ [Restore!Next]_(Restore!vars) =>
        Types' /\ OrderInv' /\ RestoreDataInv'
  BY <1>1, TypeNext, OrderNext, DataNext
<1>4. RestoreDataInv => Restore!NoEmptyStart /\ GraphdLast /\ Restore!CompleteHasData
  BY DEF RestoreDataInv, UseInv
<1> QED
  BY <1>2, <1>3, <1>4, PTL DEF Restore!Spec
=============================================================================
